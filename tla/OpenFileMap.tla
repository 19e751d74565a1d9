----------------------------- MODULE OpenFileMap -----------------------------
(***************************************************************************)
(* The client's table of open files (src/src/client/open_file_map.cc).     *)
(* Descriptors are handed out from a counter fd_idx that starts at         *)
(* START_FD; when it reaches INT_MAX it wraps back to START_FD and sets    *)
(* fd_validation_needed, after which a new descriptor is checked against   *)
(* the table and skipped while it is in use.  The flag is cleared when     *)
(* the table becomes empty.  add() generates a descriptor under            *)
(* fd_idx_mutex and inserts it under files_mutex in a second step, and     *)
(* unordered_map::insert never overwrites an existing descriptor.          *)
(*                                                                         *)
(* Each thread calls the public methods; add is two steps, the other       *)
(* methods hold files_mutex for their whole body and are one step.  An     *)
(* OpenFile object is a number; the ghost variable handed records which    *)
(* object each descriptor was returned to the caller for.                  *)
(***************************************************************************)
EXTENDS Integers, FiniteSets, TLC

CONSTANTS
    Threads,    \* application threads calling into the table
    FdStart,    \* START_FD
    FdMax,      \* std::numeric_limits<int>::max(), scaled down
    MaxAdds     \* OpenFile objects created by add() in one behaviour

Fds == FdStart..(FdMax - 1)
Objs == 1..MaxAdds
NoFd == FdMax + 1

VARIABLES
    files,      \* files_: descriptor -> OpenFile
    fdIdx,      \* fd_idx
    valid,      \* fd_validation_needed
    pc,         \* pc[t]: "idle", or "insert" between generating and inserting
    pend,       \* pend[t]: the descriptor thread t generated
    obj,        \* obj[t]: the OpenFile thread t is adding
    nextObj,    \* the next OpenFile object to create
    handed      \* ghost: descriptor -> the OpenFile it was returned for

vars == <<files, fdIdx, valid, pc, pend, obj, nextObj, handed>>

\* mutant: fd_idx wraps one step late, handing out INT_MAX itself
GenerateFdIdxLate(idx, v) ==
    IF idx > FdMax
    THEN [fd |-> FdStart, idx |-> FdStart + 1, valid |-> TRUE]
    ELSE [fd |-> idx, idx |-> idx + 1, valid |-> v]

\* mutant: the wrap never raises fd_validation_needed
GenerateFdIdxNoFlag(idx, v) ==
    IF idx = FdMax
    THEN [fd |-> FdStart, idx |-> FdStart + 1, valid |-> v]
    ELSE [fd |-> idx, idx |-> idx + 1, valid |-> v]

\* generate_fd_idx: the next index, wrapping to START_FD at INT_MAX
GenerateFdIdx(idx, v) ==
    IF idx = FdMax
    THEN [fd |-> FdStart, idx |-> FdStart + 1, valid |-> TRUE]
    ELSE [fd |-> idx, idx |-> idx + 1, valid |-> v]

\* the loop of safe_generate_fd_idx_: while the flag is set, draw again
\* while the drawn descriptor is in use; fuel runs out only when every
\* descriptor is in use, where the code spins forever (NoFd)
RECURSIVE ValidateLoop(_, _, _)
ValidateLoop(g, used, fuel) ==
    IF ~g.valid \/ g.fd \notin used THEN g
    ELSE IF fuel = 0 THEN [g EXCEPT !.fd = NoFd]
    ELSE ValidateLoop(GenerateFdIdx(g.idx, g.valid), used, fuel - 1)

SafeGenerateFdIdx(idx, v, used) ==
    ValidateLoop(GenerateFdIdx(idx, v), used, Cardinality(Fds))

\* unordered_map::insert: a descriptor already present keeps its file
InsertFd(f, fd, o) == IF fd \in DOMAIN f THEN f ELSE f @@ (fd :> o)

EraseFd(f, fd) == [x \in DOMAIN f \ {fd} |-> f[x]]

\* mutant: every remove() clears fd_validation_needed
FlagAfterRemoveAlways(v, rest) == FALSE

\* remove(): the flag is cleared once the table is empty
FlagAfterRemove(v, rest) == v /\ rest # {}

Init ==
    /\ files = <<>>
    /\ fdIdx = FdStart
    /\ valid = FALSE
    /\ pc = [t \in Threads |-> "idle"]
    /\ pend = [t \in Threads |-> NoFd]
    /\ obj = [t \in Threads |-> 0]
    /\ nextObj = 1
    /\ handed = <<>>

\* add(): safe_generate_fd_idx_ for a new OpenFile
AddGenerate(t) ==
    LET g == SafeGenerateFdIdx(fdIdx, valid, DOMAIN files) IN
    /\ pc[t] = "idle"
    /\ nextObj <= MaxAdds
    /\ g.fd # NoFd
    /\ fdIdx' = g.idx
    /\ valid' = g.valid
    /\ pend' = [pend EXCEPT ![t] = g.fd]
    /\ obj' = [obj EXCEPT ![t] = nextObj]
    /\ nextObj' = nextObj + 1
    /\ pc' = [pc EXCEPT ![t] = "insert"]
    /\ UNCHANGED <<files, handed>>

\* add(): files_.insert under files_mutex_, then return the descriptor
AddInsert(t) ==
    /\ pc[t] = "insert"
    /\ files' = InsertFd(files, pend[t], obj[t])
    /\ handed' = [x \in DOMAIN handed \cup {pend[t]} |->
                    IF x = pend[t] THEN obj[t] ELSE handed[x]]
    /\ pc' = [pc EXCEPT ![t] = "idle"]
    /\ pend' = [pend EXCEPT ![t] = NoFd]
    /\ UNCHANGED <<fdIdx, valid, obj, nextObj>>

\* remove(fd): erase, and clear the flag when the table becomes empty
Remove(t, fd) ==
    /\ pc[t] = "idle"
    /\ fd \in DOMAIN files
    /\ files' = EraseFd(files, fd)
    /\ valid' = FlagAfterRemove(valid, DOMAIN files')
    /\ handed' = EraseFd(handed, fd)
    /\ UNCHANGED <<fdIdx, pc, pend, obj, nextObj>>

\* dup(oldfd): a fresh descriptor for the same OpenFile
Dup(t, oldfd) ==
    LET g == SafeGenerateFdIdx(fdIdx, valid, DOMAIN files) IN
    /\ pc[t] = "idle"
    /\ oldfd \in DOMAIN files
    /\ g.fd # NoFd
    /\ fdIdx' = g.idx
    /\ valid' = g.valid
    /\ files' = InsertFd(files, g.fd, files[oldfd])
    /\ handed' = [x \in DOMAIN handed \cup {g.fd} |->
                    IF x = g.fd THEN files[oldfd] ELSE handed[x]]
    /\ UNCHANGED <<pc, pend, obj, nextObj>>

Next ==
    \E t \in Threads :
        \/ AddGenerate(t) \/ AddInsert(t)
        \/ \E fd \in Fds : Remove(t, fd) \/ Dup(t, fd)

Spec == Init /\ [][Next]_vars

TypeOK ==
    /\ DOMAIN files \subseteq Fds /\ \A fd \in DOMAIN files : files[fd] \in Objs
    /\ fdIdx \in FdStart..FdMax
    /\ valid \in BOOLEAN
    /\ pc \in [Threads -> {"idle", "insert"}]
    /\ pend \in [Threads -> Fds \cup {NoFd}]
    /\ nextObj \in 1..(MaxAdds + 1)

\* Every descriptor that add() or dup() returned, and that has not been
\* removed since, still names the OpenFile it was returned for: a wrapped
\* fd_idx never hands out a descriptor that is in use (safe_generate_fd_idx_
\* with fd_validation_needed, cleared again in remove()).
HandedFdsMapped ==
    \A fd \in DOMAIN handed : fd \in DOMAIN files /\ files[fd] = handed[fd]

\* While fd_validation_needed is clear, every descriptor in the table, and
\* every one generated but not yet inserted, lies below fd_idx: the
\* unchecked path of safe_generate_fd_idx_ relies on it.
UncheckedBelowIdx ==
    ~valid => \A fd \in DOMAIN files \cup ({pend[t] : t \in Threads} \ {NoFd}) :
                  fd < fdIdx
==============================================================================
