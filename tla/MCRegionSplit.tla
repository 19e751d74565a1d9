--------------------------- MODULE MCRegionSplit ---------------------------
(* Instantiation of RegionSplit for TLC: two workers of one server, hash   *)
(* space 0..7 (H = 4 per initial region), three directories of which one   *)
(* hashes into the lower half of region 0, one into its upper half (the    *)
(* half a split of region 0 moves) and one into region 1.                  *)
EXTENDS RegionSplit, JumpHash

CONSTANTS da, db, dc, n1

MCDirs == {da, db, dc}
MCNames == {n1}
MCDirHash == (da :> 0) @@ (db :> 3) @@ (dc :> 6)
\* mkdir of a name in da creates db, in db creates dc, in dc creates da
MCDirOf == [k \in MCDirs \X MCNames |->
              CASE k[1] = da -> db [] k[1] = db -> dc [] k[1] = dc -> da]

\* Reference values of JumpConsistentHash(key, 2) and (key, 3) for keys
\* 0..11, printed by a program that includes jump_hash.h.
MCJCH2 == [i \in 0..11 |-> <<0, 0, 0, 0, 1, 1, 1, 0, 0, 0, 1, 1>>[i + 1]]
MCJCH3 == [i \in 0..11 |-> <<0, 0, 0, 2, 1, 1, 2, 0, 0, 2, 2, 2>>[i + 1]]

\* The JumpHash operator, which keeps the uint64_t wrap of key *
\* 2862933555777941757 + 1 in bytes and the double quotient as an exact
\* one, gives what the compiled JumpConsistentHash gives for every region
\* id the split thread can draw, for the run's two sessions and for three:
\* the table JCH that routing (Route, NextTargetId) reads is the function
\* of jump_hash.h.  TLC evaluates the assumption before it explores.
TablesAgree ==
    \A i \in RegionIds : /\ JumpConsistentHash(i, NumWorkers) = JCH[i]
                         /\ JumpConsistentHash(i, 3) = MCJCH3[i]
ASSUME TablesAgree

=============================================================================
