------------------------------ MODULE JumpHash ------------------------------
(***************************************************************************)
(* JumpConsistentHash(key, num_buckets) of jump_hash.h, the function that  *)
(* maps a region id to the server session (worker) that serves it.         *)
(*                                                                         *)
(* key is a uint64_t: key * 2862933555777941757 + 1 wraps modulo 2^64.     *)
(* TLC's integers stop at 2^31 - 1, so a uint64_t is a sequence of 8 bytes, *)
(* least significant first, and every partial product stays below 2^19.   *)
(* The jump j = (b + 1) * (2^31 / ((key >> 33) + 1)) is a double in the    *)
(* code, truncated to int64; only whether j < num_buckets and, if so, its  *)
(* value matter, and both are computed here from the exact quotient.       *)
(***************************************************************************)
EXTENDS Integers, Sequences

\* 2862933555777941757 = 0x27BB2EE687B0B0FD, as bytes FD B0 B0 87 E6 2E BB 27
Mult == <<253, 176, 176, 135, 230, 46, 187, 39>>

\* a non-negative integer below 2^31 as a uint64_t
U64(x) == [i \in 1..8 |-> IF i <= 4 THEN (x \div (256 ^ (i - 1))) % 256 ELSE 0]

\* byte k (0-based) of a * Mult before carries: sum of a[i] * Mult[k - i]
ByteProducts(a, k) ==
    LET f[i \in 0..k] == a[i + 1] * Mult[k - i + 1] + IF i = 0 THEN 0 ELSE f[i - 1]
    IN  f[k]

\* bytes k..7 of a * Mult + 1, with the carry into byte k; the carry out
\* of byte 7 is the wrap modulo 2^64
RECURSIVE MulAddFrom(_, _, _)
MulAddFrom(a, k, carry) ==
    IF k = 8 THEN <<>>
    ELSE LET s == carry + ByteProducts(a, k) + (IF k = 0 THEN 1 ELSE 0)
         IN  <<s % 256>> \o MulAddFrom(a, k + 1, s \div 256)

\* key = key * 2862933555777941757ULL + 1
NextKey(a) == MulAddFrom(a, 0, 0)

\* (key >> 33) + 1 as [h |-> bits 16.., l |-> bits 0..15]; the sum reaches
\* 2^31, one past TLC's integers, so it is kept in two halves
Divisor(a) ==
    LET l == a[5] \div 2 + 128 * a[6] + 32768 * (a[7] % 2)
        h == a[7] \div 2 + 128 * a[8]
    IN  [h |-> h + (l + 1) \div 65536, l |-> (l + 1) % 65536]

\* t * d <= q * 2^31, for small t and q
AtMost(t, d, q) ==
    LET hi == t * d.h + (t * d.l) \div 65536
        lo == (t * d.l) % 65536
    IN  hi < q * 32768 \/ (hi = q * 32768 /\ lo = 0)

\* j = floor((b + 1) * 2^31 / d) when it is below n, else n
Jump(b, d, n) ==
    IF AtMost(n, d, b + 1) THEN n
    ELSE CHOOSE t \in 0..n - 1 : AtMost(t, d, b + 1) /\ ~AtMost(t + 1, d, b + 1)

\* the while loop: b = j; key = next key; j = jump, while j < num_buckets
RECURSIVE JumpLoop(_, _, _, _)
JumpLoop(key, b, j, n) ==
    IF j < n
    THEN LET k2 == NextKey(key) IN JumpLoop(k2, j, Jump(j, Divisor(k2), n), n)
    ELSE b

JumpConsistentHash(key, n) == JumpLoop(U64(key), -1, 0, n)
====
