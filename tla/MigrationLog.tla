----------------------------- MODULE MigrationLog -----------------------------
(***************************************************************************)
(* The migration log of a region split on one origin worker: log_op in    *)
(* the mknod and unlink handlers (src/src/server/server_handler.cc), the   *)
(* log rounds of rpc_send_region_log (src/src/server/region_and_log.cc)   *)
(* and their replay by s2s_send_region_log_handler on the target worker.  *)
(*                                                                         *)
(* The origin worker serves the regions Regions, all in its one log_db.   *)
(* The keys are files in directories that are not in the worker's         *)
(* pinode_table (the root, directories of other workers), so the bulk copy *)
(* ships none of them and the new region is built from the log alone.     *)
(* Ranges, the region map and routing are RegionSplit's part: here every  *)
(* request for a key of r reaches r, and the range check of a handler has *)
(* no effect because it does not return.                                   *)
(***************************************************************************)
EXTENDS Integers, Sequences, FiniteSets, TLC

CONSTANTS
    Regions,        \* region ids of the origin worker
    Names,          \* file names
    Threshold,      \* region_split_threshold
    LogAlmostDone,  \* log_almost_done_threshold
    BatchMax,       \* log entries that fit one SendRegionLogReq
    MaxOps,         \* bound on client requests
    MaxSplits       \* bound on the region ids global_region_id hands out

Keys     == Regions \X Names
Ops      == {"mknod", "unlink"}
LogEntry == [rid : Regions, id : Nat, op : {"put", "del"}, key : Keys]
Pcs      == {"idle", "log", "send", "resp"}

VARIABLES
    region,      \* region[r]: kv_num, log_id and region_status of r
    store,       \* store: the keys in the origin worker's metadb
    logdb,       \* logdb: the entries of the worker's log_db
    queue,       \* shared_split_queue: the regions waiting to be split
    coord,       \* split_region_thread inside rpc_send_region_log
    child,       \* the new region on the target worker: its metadb keys,
                 \* kv_num and status
    hreq,        \* the request the worker thread is handling
    opsLeft,     \* client requests still to arrive
    splitsLeft,  \* region ids still available
    replayed     \* ghost: replayed[r], the entries of r's current split
                 \* the target has replayed

vars == <<region, store, logdb, queue, coord, child, hreq, opsLeft,
          splitsLeft, replayed>>

NoReq == [phase |-> "none", r |-> CHOOSE r \in Regions : TRUE, op |-> "mknod",
          k |-> CHOOSE k \in Keys : TRUE, id |-> 0, lop |-> "put"]

IdleCoord == [pc |-> "idle", parent |-> CHOOSE r \in Regions : TRUE,
              next |-> 0, batch |-> <<>>, lstatus |-> "FarToDone"]

\* check_region_status: Normal and IsSplit accept requests
StatusAccepts(st) == st \in {"Normal", "IsSplit"}

\* log_op writes at <<region_id, log_id>>; a Put on an existing key of
\* log_db replaces the entry
LogOp(r, id, op, k) ==
    {e \in logdb : e.rid # r \/ e.id # id}
      \cup {[rid |-> r, id |-> id, op |-> op, key |-> k]}

\* the order of log_key in log_db: by region id, then by log id
LogBefore(a, b) == a.rid < b.rid \/ (a.rid = b.rid /\ a.id < b.id)

\* Seek(<<rid, next>>) on the log iterator, then the entries in key order
\* while the batch has room
RECURSIVE ScanLog(_, _)
ScanLog(S, n) ==
    IF n = 0 \/ S = {} THEN <<>>
    ELSE LET m == CHOOSE e \in S : \A f \in S : ~LogBefore(f, e)
         IN  <<m>> \o ScanLog(S \ {m}, n - 1)

SeekFrom(rid, next) ==
    {e \in logdb : e.rid > rid \/ (e.rid = rid /\ e.id >= next)}

\* mutant: Done one entry early
LogStatusEarly(logLeft) ==
    IF logLeft <= 1 THEN "Done"
    ELSE IF logLeft < LogAlmostDone THEN "AlmostDone" ELSE "FarToDone"

\* the log status computed by rpc_send_region_log
LogStatus(logLeft) ==
    IF logLeft <= 0 THEN "Done"
    ELSE IF logLeft < LogAlmostDone THEN "AlmostDone" ELSE "FarToDone"

\* a put is InsertFileInode, which leaves an existing key alone; a delete
\* is DeleteFileInode
RECURSIVE ReplayKeys(_, _)
ReplayKeys(s, b) ==
    IF b = <<>> THEN s
    ELSE ReplayKeys(IF Head(b).op = "put" THEN s \cup {Head(b).key}
                    ELSE s \ {Head(b).key}, Tail(b))

\* kv_num++ for every put and kv_num-- for every delete, applied or not
ReplayKvDelta(b) ==
    Cardinality({i \in 1..Len(b) : b[i].op = "put"})
      - Cardinality({i \in 1..Len(b) : b[i].op = "del"})

Init ==
    /\ region = [r \in Regions |-> [kv |-> 0, logId |-> 0, status |-> "Normal"]]
    /\ store = {}
    /\ logdb = {}
    /\ queue = <<>>
    /\ coord = IdleCoord
    /\ child = [keys |-> {}, kv |-> 0, status |-> "NotReady"]
    /\ hreq = NoReq
    /\ opsLeft = MaxOps
    /\ splitsLeft = MaxSplits
    /\ replayed = [r \in Regions |-> <<>>]

-----------------------------------------------------------------------------
(* The worker thread.  The prologue of fs_mknod_handler / fs_unlink_handler *)
(* (region lookup, range check, check_region_status), the body, the status  *)
(* re-read with log_id++ and the log_db Put are separate steps: the split   *)
(* thread changes the region between any two of them.                       *)

\* a request for key k arrives; a region that is SplitAlmostDone or
\* NotReady answers kUpdateRegionMap or kEBUSY and does nothing else
Recv ==
    /\ hreq.phase = "none"
    /\ opsLeft > 0
    /\ \E op \in Ops, k \in Keys :
         \/ /\ StatusAccepts(region[k[1]].status)
            /\ hreq' = [NoReq EXCEPT !.phase = "body", !.r = k[1], !.op = op, !.k = k]
         \/ /\ ~StatusAccepts(region[k[1]].status)
            /\ UNCHANGED hreq
    /\ opsLeft' = opsLeft - 1
    /\ UNCHANGED <<region, store, logdb, queue, coord, child, splitsLeft,
                   replayed>>

\* log_op, first half: log_key(region_id, log_id++) reserves the id; the
\* request stays with the worker thread until the entry is Put
LogReserved(logged, id, lop) ==
    IF logged THEN [hreq EXCEPT !.phase = "log", !.id = id, !.lop = lop]
    ELSE NoReq

\* the CAS of the mknod handler: the region crossed the threshold and was
\* Normal
SplitTriggered(kv, st) == kv > Threshold /\ st = "Normal"

\* the body of fs_mknod_handler: InsertFileInode (kv_num++ on success),
\* then the CAS that starts a split and check_region_and_split, which
\* pushes the region onto the split queue
Mknod ==
    /\ hreq.phase = "body"
    /\ hreq.op = "mknod"
    /\ LET r       == hreq.r
           reg     == region[r]
           ok      == hreq.k \notin store
           kv      == reg.kv + (IF ok THEN 1 ELSE 0)
           trigger == SplitTriggered(kv, reg.status)
       IN  /\ trigger => splitsLeft > 0
           /\ region' = [region EXCEPT ![r] =
                 [reg EXCEPT !.kv = kv,
                             !.status = IF trigger THEN "IsSplit" ELSE @]]
           /\ store' = store \cup {hreq.k}
           /\ queue' = IF trigger THEN Append(queue, r) ELSE queue
           /\ splitsLeft' = IF trigger THEN splitsLeft - 1 ELSE splitsLeft
    /\ hreq' = [hreq EXCEPT !.phase = "status"]
    /\ UNCHANGED <<logdb, coord, child, opsLeft, replayed>>

\* mutant: kv_num-- whether or not DeleteFileInode found the key
KvAfterDeleteAlways(kv, ok) == kv - 1

\* kv_num-- only when DeleteFileInode succeeded
KvAfterDelete(kv, ok) == IF ok THEN kv - 1 ELSE kv

\* the body of fs_unlink_handler: DeleteFileInode (kv_num-- on success)
Unlink ==
    /\ hreq.phase = "body"
    /\ hreq.op = "unlink"
    /\ LET r  == hreq.r
           ok == hreq.k \in store
       IN  region' = [region EXCEPT ![r].kv = KvAfterDelete(@, ok)]
    /\ store' = store \ {hreq.k}
    /\ hreq' = [hreq EXCEPT !.phase = "status"]
    /\ UNCHANGED <<logdb, queue, coord, child, opsLeft, splitsLeft, replayed>>

\* both handlers then read region_status again and call log_op while the
\* region splits, whether or not the metadb change succeeded; log_op
\* reserves the id (LogPut writes the entry).  The split thread may have
\* run a log round since the body.
LogCheck ==
    /\ hreq.phase = "status"
    /\ LET r      == hreq.r
           logged == region[r].status \in {"IsSplit", "SplitAlmostDone"}
       IN  /\ region' = IF logged THEN [region EXCEPT ![r].logId = @ + 1]
                        ELSE region
           /\ hreq' = LogReserved(logged, region[r].logId,
                                  IF hreq.op = "mknod" THEN "put" ELSE "del")
    /\ UNCHANGED <<store, logdb, queue, coord, child, opsLeft, splitsLeft,
                   replayed>>

\* log_op, second half: log_db->Put of the entry at the reserved id; the
\* split thread may have read log_id in between
LogPut ==
    /\ hreq.phase = "log"
    /\ logdb' = LogOp(hreq.r, hreq.id, hreq.lop, hreq.k)
    /\ hreq' = NoReq
    /\ UNCHANGED <<region, store, queue, coord, child, opsLeft, splitsLeft,
                   replayed>>

-----------------------------------------------------------------------------
(* The split thread.                                                       *)

\* split_region_thread pops a task; rpc_create_region makes the new region
\* NotReady on the target, and rpc_send_region walks a pinode_table that
\* holds none of the keys' directories, then starts the log at id 0
Pop ==
    /\ coord.pc = "idle"
    /\ queue # <<>>
    /\ coord' = [IdleCoord EXCEPT !.pc = "log", !.parent = Head(queue)]
    /\ queue' = Tail(queue)
    /\ child' = [keys |-> {}, kv |-> 0, status |-> "NotReady"]
    /\ UNCHANGED <<region, store, logdb, hreq, opsLeft, splitsLeft, replayed>>

\* a round of rpc_send_region_log up to the send: the batch from
\* <<parent, next>> on, the log status from the parent's log_id, and on
\* AlmostDone or Done the publication of the split (SplitAlmostDone)
PrepareLog ==
    /\ coord.pc = "log"
    /\ LET p     == coord.parent
           batch == ScanLog(SeekFrom(p, coord.next), BatchMax)
           ls    == LogStatus(region[p].logId - (coord.next + Len(batch)))
       IN  /\ coord' = [coord EXCEPT !.pc = "send", !.batch = batch,
                                     !.lstatus = ls]
           /\ region' = IF ls \in {"AlmostDone", "Done"}
                           /\ region[p].status # "SplitAlmostDone"
                        THEN [region EXCEPT ![p].status = "SplitAlmostDone"]
                        ELSE region
    /\ UNCHANGED <<store, logdb, queue, child, hreq, opsLeft, splitsLeft,
                   replayed>>

\* s2s_send_region_log_handler on the target: replay the batch in order,
\* and on Done make the new region Normal
SendLog ==
    /\ coord.pc = "send"
    /\ child' = [keys |-> ReplayKeys(child.keys, coord.batch),
                 kv |-> child.kv + ReplayKvDelta(coord.batch),
                 status |-> IF coord.lstatus = "Done" THEN "Normal"
                            ELSE child.status]
    /\ replayed' = [replayed EXCEPT ![coord.parent] = @ \o coord.batch]
    /\ coord' = [coord EXCEPT !.pc = "resp"]
    /\ UNCHANGED <<region, store, logdb, queue, hreq, opsLeft, splitsLeft>>

\* the reply of a round: on Done reset the parent's log_id and make it
\* Normal; otherwise go on from the next_log_id the target echoed
LogResp ==
    /\ coord.pc = "resp"
    /\ \/ /\ coord.lstatus = "Done"
          /\ region' = [region EXCEPT ![coord.parent].logId = 0,
                                      ![coord.parent].status = "Normal"]
          /\ replayed' = [replayed EXCEPT ![coord.parent] = <<>>]
          /\ coord' = IdleCoord
       \/ /\ coord.lstatus # "Done"
          /\ coord' = [coord EXCEPT !.pc = "log",
                                    !.next = coord.next + Len(coord.batch)]
          /\ UNCHANGED <<region, replayed>>
    /\ UNCHANGED <<store, logdb, queue, child, hreq, opsLeft, splitsLeft>>

Next ==
    \/ Recv \/ Mknod \/ Unlink \/ LogCheck \/ LogPut
    \/ Pop \/ PrepareLog \/ SendLog \/ LogResp

\* the worker thread finishes the request it started, and the split thread
\* (polling every 100 ms, with RPCs the target always answers) runs on
Fairness ==
    /\ WF_vars(Mknod) /\ WF_vars(Unlink) /\ WF_vars(LogCheck)
    /\ WF_vars(LogPut)
    /\ WF_vars(Pop) /\ WF_vars(PrepareLog) /\ WF_vars(SendLog)
    /\ WF_vars(LogResp)

Spec == Init /\ [][Next]_vars /\ Fairness

-----------------------------------------------------------------------------
(* Properties.                                                             *)

TypeOK ==
    /\ region \in [Regions -> [kv : Nat, logId : Nat,
                               status : {"Normal", "IsSplit", "SplitAlmostDone"}]]
    /\ store \subseteq Keys
    /\ logdb \subseteq LogEntry
    /\ queue \in Seq(Regions)
    /\ coord.pc \in Pcs /\ coord.parent \in Regions
    /\ child.keys \subseteq Keys
    /\ child.status \in {"NotReady", "Normal"}
    /\ opsLeft \in 0..MaxOps
    /\ splitsLeft \in 0..MaxSplits

\* what a log entry says, without its place in log_db
AbsEntry(e) == [op |-> e.op, key |-> e.key]

AbsSeq(s) == [i \in 1..Len(s) |-> AbsEntry(s[i])]

\* the split of r: Normal, shipping, or past the final (Done) batch
PhaseOf(r) ==
    IF region[r].status = "Normal" THEN "normal"
    ELSE IF coord.parent = r /\ coord.pc \in {"send", "resp"}
            /\ coord.lstatus = "Done" THEN "closed"
    ELSE "splitting"

\* the log of r's current split: the log_db entries <<r, 0>> .. <<r, log_id - 1>>,
\* where an id reserved and not yet Put holds the worker's pending entry
PendingAt(r, id) == hreq.phase = "log" /\ hreq.r = r /\ hreq.id = id
PlogOf(r) ==
    IF region[r].status = "Normal" THEN <<>>
    ELSE [i \in 1..region[r].logId |->
            IF PendingAt(r, i - 1) THEN [op |-> hreq.lop, key |-> hreq.k]
            ELSE AbsEntry(CHOOSE e \in logdb : e.rid = r /\ e.id = i - 1)]

\* what the new region has received: what it replayed, and the batch on the wire
DeliveredOf(r) ==
    AbsSeq(replayed[r]
           \o (IF coord.parent = r /\ coord.pc = "send" THEN coord.batch
               ELSE <<>>))

Abs == INSTANCE MigrationLogSpec WITH
         Entries <- [op : {"put", "del"}, key : Keys],
         phase <- [r \in Regions |-> PhaseOf(r)],
         plog <- [r \in Regions |-> PlogOf(r)],
         delivered <- [r \in Regions |-> DeliveredOf(r)]

\* rpc_send_region_log ships exactly the split's log, in order, and ends the
\* split only once all of it is shipped, and every split ends: the log
\* iterator, the log_id arithmetic and the Done test implement MigrationLogSpec
LogRefinement == Abs!ASpec

\* rpc_send_region_log cuts the final (Done) batch only when no handler
\* holds a mutation of the region that it applied to the metadb and has not
\* yet put in log_db.  Such a mutation (the one whose CAS started the split,
\* or any body that passed check_region_status before the cut) is logged
\* behind the cut, or not at all once the split reset the region to
\* Normal, and never reaches the new region.
NoOpBehindFinalBatch ==
    \A r \in Regions :
        PhaseOf(r) = "closed" => ~(hreq.r = r /\ hreq.phase \in {"status", "log"})

==============================================================================
