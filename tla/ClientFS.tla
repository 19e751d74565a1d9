------------------------------- MODULE ClientFS -------------------------------
(***************************************************************************)
(* The client library (src/src/client): the syscall hooks of hooks.cc, the *)
(* MetaClient calls of metaclient.cc with their retry-once rule, the path  *)
(* resolution through the dentry cache (dentry_cache.h, never invalidated) *)
(* and the open file table, over the metadata servers' namespace as the    *)
(* request handlers of server_handler.cc change it.                        *)
(*                                                                         *)
(* Each client runs one application thread; a hook runs to completion as  *)
(* one step, so clients interleave between syscalls.  Inodes are numbers:  *)
(* a file gets alloc_inode, a directory alloc_inode with the top bit       *)
(* (DirBit) set; top-level names have parent 0, the pdir_id that           *)
(* Internal_ResolvePath starts from.  A request can meet a split: "busy"   *)
(* (kEBUSY, or kUpdateRegionMap from a SplitAlmostDone parent) leaves the  *)
(* namespace alone, "stale" is the kUpdateRegionMap sent by the range      *)
(* check with the operation still executed after it (no return after      *)
(* enqueue_response in the handlers).  MaxRetries bounds how many such answers a behaviour  *)
(* meets.                                                                  *)
(***************************************************************************)
EXTENDS Integers, Sequences, FiniteSets, TLC

CONSTANTS
    Clients,     \* client processes, one application thread each
    Names,       \* file names (one character each)
    DirBit,      \* inode_prefix_msb, scaled down
    FdStart,     \* START_FD
    MaxRetries,  \* retryable answers (busy, stale) over a behaviour
    RetryKinds,  \* the retryable answers a request may meet
    MaxOps,      \* syscalls over a behaviour
    MaxFds,      \* descriptors a client opens over a behaviour
    Counts,      \* buffer sizes an application passes to getdents
    RegVals      \* values the fourth argument register may hold

Root == 0
IsDir(i) == i >= DirBit
Paths == {<<n>> : n \in Names} \cup {<<n, m>> : n, m \in Names}
Fds == FdStart..(FdStart + MaxFds - 1)
\* ALIGN(offsetof(linux_dirent, d_name) + 1 + 3, 8) and
\* ALIGN(offsetof(linux_dirent64, d_name) + 1 + 1, 8) for a one-character name
RecLen == 24
Errs == {"none", "ENOENT", "EEXIST", "EINVAL", "EBADF", "unhooked", "unset"}

VARIABLES
    dents,     \* server dentries: [p, n, i], parent inode and name to inode
    alloc,     \* s_ctx->alloc_inode
    faults,    \* retryable answers still to come
    cache,     \* cache[c]: dentry cache entries [p, n, i]
    fdt,       \* fdt[c]: open file table, fd -> [ino, p, n, dir, ents, pos]
    fdIdx,     \* fdIdx[c]: fd_idx of c's OpenFileMap
    alive,     \* alive[c]: c has not aborted
    opsLeft,
    ev         \* ghost: the last syscall, who made it and what it returned

vars == <<dents, alloc, faults, cache, fdt, fdIdx, alive, opsLeft, ev>>

Lookup(ds, p, n) == {d.i : d \in {e \in ds : e.p = p /\ e.n = n}}

\* the namespace walk a path names on the server, from pdir 0
ServerWalk(ds, path) ==
    IF Len(path) = 1 THEN Lookup(ds, Root, path[1])
    ELSE UNION {Lookup(ds, q, path[2]) : q \in Lookup(ds, Root, path[1])}

Out(s, r, i, ents) == [s |-> s, r |-> r, i |-> i, ents |-> ents]

\* fs_getinode_handler, fs_open_handler and fs_stat_handler: GetFileInode
SGetinode(s, x) ==
    LET f == Lookup(s.d, x.p, x.n) IN
    IF f = {} THEN {Out(s, "ENOENT", 0, <<>>)}
    ELSE {Out(s, "ok", i, <<>>) : i \in f}

\* fs_mknod_handler and fs_mkdir_handler: alloc_inode++ then InsertFileInode
SCreate(s, x, dir) ==
    LET i == IF dir THEN s.a + DirBit ELSE s.a
        s1 == [s EXCEPT !.a = s.a + 1]
    IN IF Lookup(s.d, x.p, x.n) # {} THEN {Out(s1, "EEXIST", 0, <<>>)}
       ELSE {Out([s1 EXCEPT !.d = s.d \cup {[p |-> x.p, n |-> x.n, i |-> i]}],
                 "ok", i, <<>>)}
SOpen(s, x) == SGetinode(s, x)
SStat(s, x) == SGetinode(s, x)
SMknod(s, x) == SCreate(s, x, FALSE)
SMkdir(s, x) == SCreate(s, x, TRUE)

\* fs_unlink_handler: DeleteFileInode, whatever the entry is
SUnlink(s, x) ==
    LET del == {e \in s.d : e.p = x.p /\ e.n = x.n} IN
    IF del = {} THEN {Out(s, "ENOENT", 0, <<>>)}
    ELSE {Out([s EXCEPT !.d = s.d \ del], "ok", 0, <<>>)}

\* fs_rmdir_handler: has_files = (count == 0), so a directory with entries
\* is removed; for an empty one ReadDir (metakv, outside the repository)
\* may return no buffer (removed) or a buffer with count 0 (kept, OK)
SRmdir(s, x) ==
    LET f == Lookup(s.d, x.p, x.n)
        del == {e \in s.d : e.p = x.p /\ e.n = x.n}
    IN IF f = {} \/ \E i \in f : ~IsDir(i) THEN {Out(s, "ENOENT", 0, <<>>)}
       ELSE IF \E e \in s.d : e.p \in f
            THEN {Out([s EXCEPT !.d = s.d \ del], "ok", 0, <<>>)}
            ELSE {Out([s EXCEPT !.d = s.d \ del], "ok", 0, <<>>),
                  Out(s, "ok", 0, <<>>)}

\* fs_readdir_handler pages, gathered by RPC_Readdir's is_uncomplete loop
\* into one listing of [name, inode] in the store's order
SReaddir(s, x) ==
    LET kids == {[n |-> e.n, i |-> e.i] : e \in {e \in s.d : e.p = x.p}}
        Order[k \in SUBSET kids] ==
            IF k = {} THEN <<>>
            ELSE LET h == CHOOSE e \in k : TRUE IN <<h>> \o Order[k \ {h}]
    IN {Out(s, "ok", 0, Order[kids])}

\* the server handler a MetaClient call reaches
Serve(op, s, x) ==
    CASE op = "getinode" -> SGetinode(s, x) [] op = "open" -> SOpen(s, x)
      [] op = "stat" -> SStat(s, x)         [] op = "mknod" -> SMknod(s, x)
      [] op = "mkdir" -> SMkdir(s, x)       [] op = "unlink" -> SUnlink(s, x)
      [] op = "rmdir" -> SRmdir(s, x)       [] op = "readdir" -> SReaddir(s, x)

Kinds == {"ok"} \cup RetryKinds
Cost(k) == IF k = "ok" THEN 0 ELSE 1

\* one request meeting answer kind k
Attempt(op, s, x, k) ==
    CASE k = "ok" -> Serve(op, s, x)
      [] k = "busy" -> {Out(s, "retry", 0, <<>>)}
      [] k = "stale" -> {Out(o.s, "retry", 0, <<>>) : o \in Serve(op, s, x)}

Final(o, c) == [s |-> o.s, r |-> o.r, i |-> o.i, ents |-> o.ents, used |-> c]

\* handle_rpc_resp: kUpdateRegionMap (after reloading the map) and kEBUSY
\* are retried once; the second answer is final
MetaCall(op, s, x) ==
    UNION {UNION {IF o1.r # "retry" THEN {Final(o1, Cost(k1))}
                  ELSE UNION {{Final(o2, Cost(k1) + Cost(k2)) :
                                  o2 \in Attempt(op, o1.s, x, k2)} : k2 \in Kinds}
                  : o1 \in Attempt(op, s, x, k1)} : k1 \in Kinds}

\* Internal_ResolvePath: on a cache miss, RPC_Getinode (retried once) and
\* Put into the cache when it succeeded
CacheAfterGetinode(ca, p, n, m) ==
    IF m.r = "ok" THEN ca \cup {[p |-> p, n |-> n, i |-> m.i]} ELSE ca

\* ResolvePath / Internal_ResolvePath: pinode of the last component's
\* parent, through the cache; ok is FALSE for Status::Corruption
Resolve(c, path, s) ==
    IF Len(path) = 1
    THEN {[ok |-> TRUE, p |-> Root, ca |-> cache[c], used |-> 0]}
    ELSE LET hit == {e \in cache[c] : e.p = Root /\ e.n = path[1]} IN
         IF hit # {} THEN {[ok |-> TRUE, p |-> e.i, ca |-> cache[c], used |-> 0]
                           : e \in hit}
         ELSE {[ok |-> m.r = "ok", p |-> m.i, used |-> m.used,
                ca |-> CacheAfterGetinode(cache[c], Root, path[1], m)]
               : m \in MetaCall("getinode", s, [p |-> Root, n |-> path[1]])}

Srv == [d |-> dents, a |-> alloc]
Ev(c, op, path, fd, err, val, buf) ==
    [c |-> c, op |-> op, path |-> path, fd |-> fd, err |-> err, val |-> val,
     buf |-> buf]
NoEv == Ev("none", "none", <<>>, 0, "none", 0, 0)

\* a syscall of c that changes nothing but its result
Answer(c, e) ==
    /\ ev' = e
    /\ opsLeft' = opsLeft - 1
    /\ UNCHANGED <<dents, alloc, faults, cache, fdt, fdIdx, alive>>

\* the server and the cache after a resolution and the MetaClient calls
\* that followed it, which used u retryable answers
Apply(c, r, s2, u) ==
    /\ r.used + u <= faults
    /\ dents' = s2.d
    /\ alloc' = s2.a
    /\ faults' = faults - r.used - u
    /\ cache' = [cache EXCEPT ![c] = r.ca]
    /\ opsLeft' = opsLeft - 1
    /\ UNCHANGED alive

\* a resolution that failed: the hook answers e without a request
ResolveFail(c, r, e) == Apply(c, r, Srv, 0) /\ ev' = e /\ UNCHANGED <<fdt, fdIdx>>

\* OpenFileMap::add (fd_idx stays far below INT_MAX here; the wrap is OpenFileMap's)
FdAdd(c, file) ==
    /\ fdIdx[c] < FdStart + MaxFds
    /\ fdt' = [fdt EXCEPT ![c] = @ @@ (fdIdx[c] :> file)]
    /\ fdIdx' = [fdIdx EXCEPT ![c] = @ + 1]

Ready(c) == alive[c] /\ opsLeft > 0

NewFile(ino, p, n, dir, ents) ==
    [ino |-> ino, p |-> p, n |-> n, dir |-> dir, ents |-> ents, pos |-> 0,
     got |-> <<>>]

Init ==
    /\ dents = {}
    /\ alloc = 1
    /\ faults = MaxRetries
    /\ cache = [c \in Clients |-> {}]
    /\ fdt = [c \in Clients |-> <<>>]
    /\ fdIdx = [c \in Clients |-> FdStart]
    /\ alive = [c \in Clients |-> TRUE]
    /\ opsLeft = MaxOps
    /\ ev = NoEv

\* hook_openat with O_CREAT for a file (open, creat, openat): Mknod, then
\* add an OpenFile; any failure of Mknod is reported as -EEXIST
Creat(c, path) ==
    LET n == path[Len(path)] IN
    /\ Ready(c)
    /\ \E r \in Resolve(c, path, Srv) :
        \/ /\ ~r.ok
           /\ ResolveFail(c, r, Ev(c, "creat", path, 0, "ENOENT", 0, 0))
        \/ /\ r.ok
           /\ \E m \in MetaCall("mknod", Srv, [p |-> r.p, n |-> n]) :
                /\ Apply(c, r, m.s, m.used)
                /\ IF m.r = "ok"
                   THEN /\ FdAdd(c, NewFile(m.i, r.p, n, FALSE, <<>>))
                        /\ ev' = Ev(c, "creat", path, fdIdx[c], "none", fdIdx[c], 0)
                   ELSE /\ UNCHANGED <<fdt, fdIdx>>
                        /\ ev' = Ev(c, "creat", path, 0, "EEXIST", 0, 0)

\* hook_mkdirat: hook_openat with O_CREAT | O_DIRECTORY (Mkdir, no
\* descriptor), then *res = 0 whatever hook_openat answered
Mkdir(c, path) ==
    LET n == path[Len(path)] IN
    /\ Ready(c)
    /\ \E r \in Resolve(c, path, Srv) :
        \/ /\ ~r.ok
           /\ ResolveFail(c, r, Ev(c, "mkdir", path, 0, "none", 0, 0))
        \/ /\ r.ok
           /\ \E m \in MetaCall("mkdir", Srv, [p |-> r.p, n |-> n]) :
                /\ Apply(c, r, m.s, m.used)
                /\ UNCHANGED <<fdt, fdIdx>>
                /\ ev' = Ev(c, "mkdir", path, 0, "none", 0, 0)

\* hook_openat without O_CREAT: Open; a directory is read whole into an
\* OpenDir (Readdir, retried once after clearEntries) before it is added;
\* a failed Readdir returns -1 and the call goes to the kernel
Open(c, path) ==
    LET n == path[Len(path)] IN
    /\ Ready(c)
    /\ \E r \in Resolve(c, path, Srv) :
        \/ /\ ~r.ok
           /\ ResolveFail(c, r, Ev(c, "open", path, 0, "ENOENT", 0, 0))
        \/ /\ r.ok
           /\ \E m \in MetaCall("open", Srv, [p |-> r.p, n |-> n]) :
                \/ /\ m.r # "ok"
                   /\ Apply(c, r, m.s, m.used)
                   /\ UNCHANGED <<fdt, fdIdx>>
                   /\ ev' = Ev(c, "open", path, 0, "ENOENT", 0, 0)
                \/ /\ m.r = "ok" /\ ~IsDir(m.i)
                   /\ Apply(c, r, m.s, m.used)
                   /\ FdAdd(c, NewFile(m.i, r.p, n, FALSE, <<>>))
                   /\ ev' = Ev(c, "open", path, fdIdx[c], "none", fdIdx[c], 0)
                \/ /\ m.r = "ok" /\ IsDir(m.i)
                   /\ \E d \in MetaCall("readdir", m.s, [p |-> m.i]) :
                        /\ Apply(c, r, d.s, m.used + d.used)
                        /\ IF d.r = "ok"
                           THEN /\ FdAdd(c, NewFile(m.i, r.p, n, TRUE, d.ents))
                                /\ ev' = Ev(c, "open", path, fdIdx[c], "none",
                                            fdIdx[c], 0)
                           ELSE /\ UNCHANGED <<fdt, fdIdx>>
                                /\ ev' = Ev(c, "open", path, 0, "unhooked", 0, 0)

\* hook_close: remove the descriptor if it is open; 0 either way
Close(c, fd) ==
    /\ Ready(c)
    /\ fdt' = [fdt EXCEPT ![c] = [x \in DOMAIN @ \ {fd} |-> @[x]]]
    /\ ev' = Ev(c, "close", <<>>, fd, "none", 0, 0)
    /\ opsLeft' = opsLeft - 1
    /\ UNCHANGED <<dents, alloc, faults, cache, fdIdx, alive>>

\* hook_unlinkat (unlink, rmdir): assert(s.ok()) on the resolution; with
\* the assertion compiled in the process aborts, without it Unlink or Rmdir
\* is sent for an uninitialised pinode and the empty name (-ENOENT)
Remove(c, path, rmdir) ==
    LET n == path[Len(path)]
        op == IF rmdir THEN "rmdir" ELSE "unlink"
        Report(m) == Ev(c, op, path, 0, IF m.r = "ok" THEN "none" ELSE "ENOENT",
                             0, 0)
    IN
    /\ Ready(c)
    /\ \E r \in Resolve(c, path, Srv) :
        \/ /\ ~r.ok
           /\ \/ /\ alive' = [alive EXCEPT ![c] = FALSE]
                 /\ ev' = Ev(c, op, path, 0, "unset", 0, 0)
                 /\ UNCHANGED <<dents, alloc, faults, cache, fdt, fdIdx, opsLeft>>
              \/ ResolveFail(c, r, Ev(c, op, path, 0, "ENOENT", 0, 0))
        \/ /\ r.ok /\ rmdir
           /\ \E m \in MetaCall("rmdir", Srv, [p |-> r.p, n |-> n]) :
                Apply(c, r, m.s, m.used) /\ ev' = Report(m) /\ UNCHANGED <<fdt, fdIdx>>
        \/ /\ r.ok /\ ~rmdir
           /\ \E m \in MetaCall("unlink", Srv, [p |-> r.p, n |-> n]) :
                Apply(c, r, m.s, m.used) /\ ev' = Report(m) /\ UNCHANGED <<fdt, fdIdx>>

\* hook_stat and hook_access: a failed resolution returns -ENOENT as the
\* "was hooked" value, so the kernel runs the call; Getstat otherwise
\* (access answers 0 or -ENOENT from the same outcome)
StatPath(c, path) ==
    LET n == path[Len(path)]
        op == "stat"
    IN
    /\ Ready(c)
    /\ \E r \in Resolve(c, path, Srv) :
        \/ /\ ~r.ok
           /\ ResolveFail(c, r, Ev(c, op, path, 0, "unhooked", 0, 0))
        \/ /\ r.ok
           /\ \E m \in MetaCall("stat", Srv, [p |-> r.p, n |-> n]) :
                /\ Apply(c, r, m.s, m.used)
                /\ UNCHANGED <<fdt, fdIdx>>
                /\ ev' = Ev(c, op, path, 0, IF m.r = "ok" THEN "none" ELSE "ENOENT",
                            m.i, 0)

\* hook_fstat: Getstat on the open file's pinode and name
Fstat(c, fd) ==
    /\ Ready(c)
    /\ \/ /\ fd \notin DOMAIN fdt[c]
          /\ Answer(c, Ev(c, "fstat", <<>>, fd, "EINVAL", 0, 0))
       \/ /\ fd \in DOMAIN fdt[c]
          /\ \E m \in MetaCall("stat", Srv, [p |-> fdt[c][fd].p, n |-> fdt[c][fd].n]) :
                /\ Apply(c, [used |-> 0, ca |-> cache[c]], m.s, m.used)
                /\ UNCHANGED <<fdt, fdIdx>>
                /\ ev' = Ev(c, "fstat", <<>>, fd, IF m.r = "ok" THEN "none" ELSE "ENOENT",
                            m.i, 0)

\* hook_lseek: `if(flag = SEEK_SET)` assigns 0 and is false, flag is then
\* not SEEK_CUR, so every call answers -EINVAL as "not hooked" and the
\* position is never set
Lseek(c, fd) ==
    /\ Ready(c)
    /\ Answer(c, Ev(c, "lseek", <<>>, fd, "unhooked", 0, 0))

\* hook_fsync, hook_read, hook_write: 0 for any descriptor from START_FD on
FdNoop(c, fd) ==
    /\ Ready(c)
    /\ Answer(c, Ev(c, "noop", <<>>, fd, "none", 0, 0))

\* mutant: the comparison lets a record one byte too long through
NoRoomOffByOne(cnt, w) == cnt - w >= 0 /\ RecLen - 1 > cnt - w

\* total_size > (count - written): count is an int and written unsigned,
\* so a negative difference is a huge unsigned number and never too small
NoRoom(cnt, w) == cnt - w >= 0 /\ RecLen > cnt - w

\* the fill loop of hook_getdents / hook_getdents64: how many entries of
\* the left ones fit from written bytes on
RECURSIVE FillCount(_, _, _)
FillCount(cnt, w, left) ==
    IF left = 0 \/ NoRoom(cnt, w) THEN 0
    ELSE 1 + FillCount(cnt, w + RecLen, left - 1)

\* mutant: the stored position runs one past the last entry written
DirPosAfterSkip(pos, k) == pos + k + 1

\* open_dir->pos(pos) after the loop advanced pos once per entry written
DirPosAfter(pos, k) == pos + k

\* hook_getdents and hook_getdents64 on a caller buffer of buf bytes; the
\* loop's count is cnt (getdents64 is dispatched with (int)a3, not a2)
Getdents(c, fd, op, buf, cnt) ==
    LET f == fdt[c][fd]
        k == FillCount(cnt, 0, Len(f.ents) - f.pos)
        E(err, val) == Ev(c, op, <<>>, fd, err, val, buf)
    IN
    /\ Ready(c)
    /\ \/ /\ fd \notin DOMAIN fdt[c]
          /\ Answer(c, E("unset", 0))
       \/ /\ fd \in DOMAIN fdt[c] /\ ~f.dir
          /\ Answer(c, E("unhooked", 0))
       \/ /\ fd \in DOMAIN fdt[c] /\ f.dir /\ f.pos >= Len(f.ents)
          /\ Answer(c, E("none", 0))
       \/ /\ fd \in DOMAIN fdt[c] /\ f.dir /\ f.pos < Len(f.ents) /\ k = 0
          /\ Answer(c, E("unhooked", 0))
       \/ /\ fd \in DOMAIN fdt[c] /\ f.dir /\ f.pos < Len(f.ents) /\ k > 0
          /\ fdt' = [fdt EXCEPT ![c][fd].pos = DirPosAfter(f.pos, k),
                                ![c][fd].got = @ \o SubSeq(f.ents, f.pos + 1, f.pos + k)]
          /\ ev' = E("none", k * RecLen)
          /\ opsLeft' = opsLeft - 1
          /\ UNCHANGED <<dents, alloc, faults, cache, fdIdx, alive>>

Next ==
    \E c \in Clients :
        \/ \E path \in Paths :
              \/ Creat(c, path) \/ Mkdir(c, path) \/ Open(c, path)
              \/ Remove(c, path, TRUE) \/ Remove(c, path, FALSE)
              \/ StatPath(c, path)
        \/ \E fd \in Fds :
              \/ Close(c, fd) \/ Fstat(c, fd) \/ Lseek(c, fd)
              \/ FdNoop(c, fd)
              \/ \E buf \in Counts :
                    \/ Getdents(c, fd, "getdents", buf, buf)
                    \/ \E a3 \in RegVals : Getdents(c, fd, "getdents64", buf, a3)

Spec == Init /\ [][Next]_vars

Files == [ino : Nat, p : Nat, n : Names, dir : BOOLEAN, ents : Seq([n : Names, i : Nat]),
          pos : Nat, got : Seq([n : Names, i : Nat])]

TypeOK ==
    /\ dents \subseteq [p : Nat, n : Names, i : Nat]
    /\ alloc \in Nat /\ faults \in 0..MaxRetries
    /\ \A c \in Clients : /\ cache[c] \subseteq [p : Nat, n : Names, i : Nat]
                          /\ DOMAIN fdt[c] \subseteq Fds
                          /\ \A fd \in DOMAIN fdt[c] : fdt[c][fd] \in Files
                          /\ \A fd \in DOMAIN fdt[c] : fdt[c][fd].pos <= Len(fdt[c][fd].ents)
    /\ ev.err \in Errs

\* getdents never writes more bytes than the caller's buffer holds: the
\* fill loop stops when the next record would pass count.
GetdentsWithinBuffer ==
    ev.op = "getdents" /\ ev.err = "none" => ev.val <= ev.buf

\* A file that creat just made is the file its path names on the server,
\* for every client: the dentry cache resolves the parent the server has.
CreatedFileReachable ==
    ev.op = "creat" /\ ev.err = "none" =>
        ServerWalk(dents, ev.path) = {fdt[ev.c][ev.fd].ino}
==============================================================================
