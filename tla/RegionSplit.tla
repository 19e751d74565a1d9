---------------------------- MODULE RegionSplit ----------------------------
(***************************************************************************)
(* The region (shard) split protocol of the MetaFS metadata server: the   *)
(* per-worker region state machine, the request handlers that drive it    *)
(* (src/src/server/server_handler.cc), the split thread that migrates a   *)
(* region to another worker (src/src/server/region_and_log.cc) and the    *)
(* client's region cache and retry (src/src/client, src/src/rpc).         *)
(*                                                                         *)
(* One server process with NumWorkers worker threads; worker w serves the *)
(* session w and owns region w initially.  A metadata key is <<dir, name>>*)
(* and lives in the region whose hash span contains DirHash[dir].         *)
(***************************************************************************)
EXTENDS Integers, Sequences, FiniteSets, Functions, TLC

CONSTANTS
    NumWorkers,     \* server_fg_threads of the single server process
    H,              \* PINODE_HASH_RANGE: width of every initial region
    Dirs,           \* directory inodes (parents of keys)
    Names,          \* file names
    DirHash,        \* XXH3(pinode) % PINODE_HASH_RANGE, for every dir
    DirOf,          \* the directory inode a mkdir of a key allocates
    JCH,            \* JumpConsistentHash(id, NumWorkers), for every region id
    MaxRegionId,    \* bound on region ids drawn from global_region_id
    Threshold,      \* region_split_threshold
    LogAlmostDone,  \* log_almost_done_threshold
    BatchMax,       \* log entries that fit one SendRegionLogReq
    Ops,            \* the client operations issued
    MaxOps          \* bound on client operations

Workers   == 0..(NumWorkers - 1)
Keys      == Dirs \X Names
RegionIds == 0..MaxRegionId
HashSpace == 0..(NumWorkers * H - 1)
Statuses  == {"Normal", "ToBeSplit", "IsSplit", "SplitAlmostDone", "NotReady"}
Resps     == {"kSuccess", "kEXIST", "kENOENT", "kEBUSY", "kUpdateRegionMap"}
LogStats  == {"FarToDone", "AlmostDone", "Done"}
Pcs       == {"idle", "create", "copy", "log", "send", "resp"}

VARIABLES
    rmap,      \* rmap[w]: s_ctx->region_map of worker w, id -> ServerRegion
    gmap,      \* global_region_map: id -> [start, end]
    nextRid,   \* global_region_id
    store,     \* store[w]: key -> "file" or "dir", worker w's metadb
    pinode,    \* pinode[w]: directories in worker w's pinode_table
    logdb,     \* logdb[w]: entries of worker w's log_db
    queue,     \* shared_split_queue: <<thread_id, new region id>>
    coord,     \* split_region_thread: the split being migrated
    crashed,   \* the process aborted (p_assert or null dereference)
    creq,      \* the client's outstanding request
    cache,     \* c_ctx->region_map of the client
    opsLeft,   \* client operations still to issue
    acked      \* ghost: keys whose last successful operation created them

vars == <<rmap, gmap, nextRid, store, pinode, logdb, queue, coord, crashed,
          creq, cache, opsLeft, acked>>
coordVars  == <<queue, coord>>
clientVars == <<creq, cache, opsLeft>>
ghostVars  == <<acked>>

NoReq == [phase |-> "none", op |-> "mknod", key |-> CHOOSE k \in Keys : TRUE,
          rid |-> 0, h |-> 0, w |-> 0, resp |-> <<>>, try |-> 0]

Span(r) == r.start..r.end

\* check_is_blong_to_region (region_and_log.h)
BelongsTo(r, h) == h >= r.start /\ h <= r.end

\* the session a region id is served by (rpc_client.cc, region_and_log.cc)
Route(rid) == IF rid < NumWorkers THEN rid ELSE JCH[rid]

\* new ServerRegion(id, skey, ekey): kv_num 0, log_id 0, Normal, left 0
NewRegion(s, e, st, l) ==
    [start |-> s, end |-> e, kv |-> 0, logId |-> 0, status |-> st, left |-> l]

\* check_region_status: Normal and IsSplit accept requests
StatusAccepts(st) == st \in {"Normal", "IsSplit"}

\* mutant: the new region id is not redrawn when it maps back to this worker
NextTargetIdNoSkip(n, w) == n

\* the retry loop of check_region_and_split: skip ids served by this worker
RECURSIVE NextTargetId(_, _)
NextTargetId(n, w) ==
    IF n <= MaxRegionId /\ JCH[n] = w THEN NextTargetId(n + 1, w) ELSE n

\* the order of log_key in log_db: by region id, then by log id
LogBefore(a, b) == a.rid < b.rid \/ (a.rid = b.rid /\ a.id < b.id)

\* the log iterator: Seek(<<rid, next>>), then up to n entries in key order
RECURSIVE ScanLog(_, _)
ScanLog(S, n) ==
    IF n = 0 \/ S = {} THEN <<>>
    ELSE LET m == CHOOSE e \in S : \A f \in S : ~LogBefore(f, e)
         IN  <<m>> \o ScanLog(S \ {m}, n - 1)

SeekFrom(S, rid, next) ==
    {e \in S : e.rid > rid \/ (e.rid = rid /\ e.id >= next)}

\* replaying a batch on the target metadb s: a put is InsertFileInode (it
\* leaves an existing entry alone), a delete is DeleteFileInode
RECURSIVE ReplayStore(_, _)
ReplayStore(s, b) ==
    IF b = <<>> THEN s
    ELSE ReplayStore(IF Head(b).op = "put" THEN s @@ (Head(b).key :> Head(b).kind)
                     ELSE Restrict(s, DOMAIN s \ {Head(b).key}), Tail(b))

\* s2s_send_region_log_handler: kv_num++ per put and kv_num-- per delete
ReplayKvDelta(b) ==
    Cardinality({i \in 1..Len(b) : b[i].op = "put"})
      - Cardinality({i \in 1..Len(b) : b[i].op = "del"})

\* mutant: Done only once more entries were sent than were logged
LogStatusStrict(logLeft) ==
    IF logLeft < 0 THEN "Done"
    ELSE IF logLeft < LogAlmostDone THEN "AlmostDone" ELSE "FarToDone"

\* the log status computed by rpc_send_region_log
LogStatus(logLeft) ==
    IF logLeft <= 0 THEN "Done"
    ELSE IF logLeft < LogAlmostDone THEN "AlmostDone" ELSE "FarToDone"

-----------------------------------------------------------------------------
(* Start-up: register_region on every worker, the client's first          *)
(* ReadRegionmap, and an idle split thread.                                *)

\* mutant: the end key of an initial region without the - 1
InitRegionPastEnd(w) == NewRegion(w * H, (w + 1) * H, "Normal", 0)

InitRegion(w) == NewRegion(w * H, (w + 1) * H - 1, "Normal", 0)

IdleCoord == [pc |-> "idle", w |-> 0, rid |-> 0, tw |-> 0, left |-> 0,
              hash |-> 0, next |-> 0, batch |-> <<>>, lstatus |-> "FarToDone"]

Init ==
    /\ rmap = [w \in Workers |-> w :> InitRegion(w)]
    /\ gmap = [w \in Workers |-> [start |-> InitRegion(w).start,
                                   end |-> InitRegion(w).end]]
    /\ nextRid = NumWorkers
    /\ store = [w \in Workers |-> [k \in {} |-> "file"]]
    /\ pinode = [w \in Workers |-> {}]
    /\ logdb = [w \in Workers |-> {}]
    /\ queue = <<>>
    /\ coord = IdleCoord
    /\ crashed = FALSE
    /\ creq = NoReq
    /\ cache = gmap
    /\ opsLeft = MaxOps
    /\ acked = {}

-----------------------------------------------------------------------------
(* The client: RPC_Mknod / RPC_Unlink / RPC_Mkdir route by the cached map  *)
(* (find_region_id, then the session of the region id); MetaClient retries *)
(* once after kUpdateRegionMap (re-reading the map) or kEBUSY.            *)

\* find_region_id: the cached regions whose span holds the hash
Lookup(c, h) == {r \in DOMAIN c : BelongsTo(c[r], h)}

NewReq(op, k, r, t) ==
    [phase |-> "sent", op |-> op, key |-> k, rid |-> r, h |-> DirHash[k[1]],
     w |-> Route(r), resp |-> <<>>, try |-> t]

ClientSend ==
    /\ ~crashed
    /\ creq.phase = "none"
    /\ opsLeft > 0
    /\ \E op \in Ops, k \in Keys :
         \E r \in Lookup(cache, DirHash[k[1]]) : creq' = NewReq(op, k, r, 1)
    /\ opsLeft' = opsLeft - 1
    /\ UNCHANGED <<rmap, gmap, nextRid, store, pinode, logdb, queue, coord,
                   crashed, cache, ghostVars>>

\* read_region_map_handler: a copy of global_region_map under its ReadGuard
RegionMapSnapshot == gmap

\* handle_rpc_resp and the single retry of MetaClient::Mknod/Unlink/Mkdir.
\* A handler that enqueued two responses leaves it undefined which one the
\* client reads, so either may be the one handled.
ClientRecv ==
    /\ ~crashed
    /\ creq.phase = "done"
    /\ \E res \in {creq.resp[1], creq.resp[Len(creq.resp)]} :
         LET retry == res \in {"kUpdateRegionMap", "kEBUSY"} /\ creq.try = 1
             c1    == IF res = "kUpdateRegionMap" THEN RegionMapSnapshot
                      ELSE cache
         IN  /\ cache' = c1
             /\ \/ retry /\ \E r \in Lookup(c1, creq.h) :
                               creq' = NewReq(creq.op, creq.key, r, 2)
                \/ ~retry /\ creq' = NoReq
    /\ UNCHANGED <<rmap, gmap, nextRid, store, pinode, logdb, queue, coord,
                   crashed, opsLeft, ghostVars>>

-----------------------------------------------------------------------------
(* The request handlers of the worker creq.w.  The prologue (region lookup,*)
(* range check, check_region_status) and the body are separate steps: the *)
(* split thread runs between them on the same ServerRegion.                *)

\* the out-of-range reply has no return: the handler goes on to the status
\* check and may execute the operation after replying kUpdateRegionMap
ReqCheck ==
    /\ ~crashed
    /\ creq.phase = "sent"
    \* region_map[id] of a missing id is a nullptr (see ServedRegions)
    /\ creq.rid \in DOMAIN rmap[creq.w]
    /\ LET r     == rmap[creq.w][creq.rid]
           stale == IF BelongsTo(r, creq.h) THEN <<>>
                    ELSE <<"kUpdateRegionMap">>
       IN  \/ StatusAccepts(r.status)
              /\ creq' = [creq EXCEPT !.phase = "apply", !.resp = stale]
           \/ ~StatusAccepts(r.status)
              /\ creq' = [creq EXCEPT !.phase = "done", !.resp = stale \o
                    <<IF r.status = "SplitAlmostDone" THEN "kUpdateRegionMap"
                      ELSE "kEBUSY">>]
    /\ UNCHANGED <<rmap, gmap, nextRid, store, pinode, logdb, queue, coord,
                   crashed, cache, opsLeft, ghostVars>>

\* mutant: the trigger without the compare-and-swap on Normal
SplitTriggeredNoCas(kv, st) == kv > Threshold

\* mutant: the new region starts at end_key.hi >> 1, one hash too low
ChildStartNoInc(r) == r.end \div 2

\* the split trigger of fs_mknod_handler and fs_mkdir_handler:
\* kv_num > region_split_threshold && CAS(Normal -> IsSplit)
SplitTriggered(kv, st) == kv > Threshold /\ st = "Normal"

\* check_region_and_split: the new region takes the upper part of the range
ChildStart(r) == r.end \div 2 + 1

Splitting(st) == st \in {"IsSplit", "SplitAlmostDone"}

\* log_op: Put(<<region_id, log_id++>>, the operation) into the worker's
\* log_db, replacing whatever was stored under that key
LogOp(w, rid, id, op, k, kind) ==
    [logdb EXCEPT ![w] = {e \in @ : e.rid # rid \/ e.id # id}
                         \cup {[rid |-> rid, id |-> id, op |-> op, key |-> k,
                                kind |-> kind]}]

\* check_region_and_split on region r of worker w, which the caller has
\* just moved to IsSplit: draw an id whose session is another worker, add
\* the new region (upper part of the range, left_region_id = rid) to the
\* worker's region_map and push the task to shared_split_queue
CheckRegionAndSplit(w, rid, r) ==
    LET child == NextTargetId(nextRid, w)
    IN  /\ child <= MaxRegionId
        /\ rmap' = [rmap EXCEPT ![w] = [@ EXCEPT ![rid] = r] @@
                      (child :> NewRegion(ChildStart(r), r.end, "Normal", rid))]
        /\ nextRid' = child + 1
        /\ queue' = Append(queue, [w |-> w, rid |-> child])

\* The common tail of the mutating handlers, given the region r after the
\* metadb change: the split trigger (mknod and mkdir only), log_op while
\* the region is splitting (when dolog), and the reply.
Finish(w, rid, r, trigger, dolog, op, k, kind, res) ==
    LET split  == trigger /\ SplitTriggered(r.kv, r.status)
        st     == IF split THEN "IsSplit" ELSE r.status
        logged == dolog /\ Splitting(st)
        r1     == [r EXCEPT !.status = st,
                            !.logId = IF logged THEN @ + 1 ELSE @]
    IN  /\ logdb' = IF logged THEN LogOp(w, rid, r.logId, op, k, kind)
                    ELSE logdb
        /\ \/ split /\ CheckRegionAndSplit(w, rid, r1)
           \/ ~split /\ rmap' = [rmap EXCEPT ![w][rid] = r1]
                     /\ UNCHANGED <<nextRid, queue>>
        /\ creq' = [creq EXCEPT !.phase = "done", !.resp = @ \o <<res>>]

Applying(op) == ~crashed /\ creq.phase = "apply" /\ creq.op = op

\* the metadb of worker w with key k inserted or removed
Insert(w, k, kind) == [store EXCEPT ![w] = @ @@ (k :> kind)]
Remove(w, k) == [store EXCEPT ![w] = Restrict(@, DOMAIN @ \ {k})]

\* fs_mknod_handler after the prologue: InsertFileInode, kv_num++ if it
\* succeeded, the split trigger, log_op even when the insert failed
ApplyMknod ==
    /\ Applying("mknod")
    /\ LET w  == creq.w
           r  == rmap[w][creq.rid]
           ok == creq.key \notin DOMAIN store[w]
       IN  /\ store' = IF ok THEN Insert(w, creq.key, "file") ELSE store
           /\ acked' = IF ok THEN acked \cup {creq.key} ELSE acked
           /\ Finish(w, creq.rid, [r EXCEPT !.kv = @ + IF ok THEN 1 ELSE 0],
                     TRUE, TRUE, "put", creq.key, "file",
                     IF ok THEN "kSuccess" ELSE "kEXIST")
    /\ UNCHANGED <<gmap, pinode, coord, crashed, cache, opsLeft>>

\* fs_unlink_handler after the prologue: DeleteFileInode, kv_num-- if it
\* succeeded, log_op of the delete even when it failed
ApplyUnlink ==
    /\ Applying("unlink")
    /\ LET w  == creq.w
           r  == rmap[w][creq.rid]
           ok == creq.key \in DOMAIN store[w]
       IN  /\ store' = IF ok THEN Remove(w, creq.key) ELSE store
           /\ acked' = acked \ {creq.key}
           /\ Finish(w, creq.rid, [r EXCEPT !.kv = @ - IF ok THEN 1 ELSE 0],
                     FALSE, TRUE, "del", creq.key, "file",
                     IF ok THEN "kSuccess" ELSE "kENOENT")
    /\ UNCHANGED <<gmap, pinode, coord, crashed, cache, opsLeft>>

\* fs_mkdir_handler after the prologue: as mknod, and a new directory is
\* put in pinode_table only while the region is Normal (or ToBeSplit); that
\* WriteGuard waits while the bulk copy holds the table's ReadGuard
ApplyMkdir ==
    /\ Applying("mkdir")
    /\ LET w        == creq.w
           r        == rmap[w][creq.rid]
           ok       == creq.key \notin DOMAIN store[w]
           register == ok /\ r.status \in {"Normal", "ToBeSplit"}
       IN  /\ ~(register /\ coord.pc = "copy" /\ coord.w = w)
           /\ store' = IF ok THEN Insert(w, creq.key, "dir") ELSE store
           /\ pinode' = IF register
                        THEN [pinode EXCEPT ![w] = @ \cup {DirOf[creq.key]}]
                        ELSE pinode
           /\ acked' = IF ok THEN acked \cup {creq.key} ELSE acked
           /\ Finish(w, creq.rid, [r EXCEPT !.kv = @ + IF ok THEN 1 ELSE 0],
                     TRUE, TRUE, "put", creq.key, "dir",
                     IF ok THEN "kSuccess" ELSE "kEXIST")
    /\ UNCHANGED <<gmap, coord, crashed, cache, opsLeft>>

\* fs_rmdir_handler after the prologue: a name that is a directory is
\* removed, kv_num-- and logged; has_files = (count == 0) is inverted, so
\* the ReadDir of the directory (on this worker's metadb) never stops the
\* removal of one with entries.  For an empty directory metakv may return
\* no buffer (removed) or a buffer with num_result 0 (kept, kSuccess).  A
\* file or a missing name fails with nothing changed.
ApplyRmdir ==
    /\ Applying("rmdir")
    /\ LET w     == creq.w
           r     == rmap[w][creq.rid]
           isDir == creq.key \in DOMAIN store[w]
                    /\ store[w][creq.key] = "dir"
           empty == \A k \in DOMAIN store[w] : k[1] # DirOf[creq.key]
       IN  \E keep \in IF isDir /\ empty THEN BOOLEAN ELSE {FALSE} :
             LET del == isDir /\ ~keep
             IN  /\ store' = IF del THEN Remove(w, creq.key) ELSE store
                 /\ acked' = IF del THEN acked \ {creq.key} ELSE acked
                 /\ Finish(w, creq.rid, [r EXCEPT !.kv = @ - IF del THEN 1 ELSE 0],
                           FALSE, del, "del", creq.key, "dir",
                           IF isDir THEN "kSuccess" ELSE "kENOENT")
    /\ UNCHANGED <<gmap, pinode, coord, crashed, cache, opsLeft>>

\* fs_stat_handler after the prologue: GetFileInode and GetStat
ApplyStat ==
    /\ Applying("stat")
    /\ creq' = [creq EXCEPT !.phase = "done", !.resp = @ \o
          <<IF creq.key \in DOMAIN store[creq.w] THEN "kSuccess"
            ELSE "kENOENT">>]
    /\ UNCHANGED <<rmap, gmap, nextRid, store, pinode, logdb, queue, coord,
                   crashed, cache, opsLeft, ghostVars>>

\* fs_readdir_handler after the prologue: ReadDir of the directory; an
\* empty directory (res == NULL) is a success with no entries
ApplyReaddir ==
    /\ Applying("readdir")
    /\ creq' = [creq EXCEPT !.phase = "done", !.resp = @ \o <<"kSuccess">>]
    /\ UNCHANGED <<rmap, gmap, nextRid, store, pinode, logdb, queue, coord,
                   crashed, cache, opsLeft, ghostVars>>

-----------------------------------------------------------------------------
(* split_region_thread: pop a split task, then rpc_create_region,         *)
(* rpc_send_region (bulk copy by pinode_table) and rpc_send_region_log,   *)
(* each RPC waited for synchronously; the target's s2s handlers run as    *)
(* one step each on the target worker.                                     *)

Pop ==
    /\ ~crashed
    /\ coord.pc = "idle"
    /\ queue # <<>>
    /\ LET t == Head(queue)
           l == rmap[t.w][t.rid].left
       IN  coord' = [coord EXCEPT !.pc = "create", !.w = t.w, !.rid = t.rid,
                        !.tw = Route(t.rid), !.left = l]
    /\ queue' = Tail(queue)
    /\ UNCHANGED <<rmap, gmap, nextRid, store, pinode, logdb, crashed,
                   clientVars, ghostVars>>

\* s2s_create_region_handler on worker tw: a NotReady region with the range
\* of c, inserted into region_map only if the id is absent
CreateRegionHandler(tw, rid, c) ==
    [rmap EXCEPT ![tw] = @ @@ (rid :> NewRegion(c.start, c.end, "NotReady", 0))]

\* rpc_create_region, the target's handler and rpc_create_region_cb
CreateRegion ==
    /\ ~crashed
    /\ coord.pc = "create"
    /\ LET c == rmap[coord.w][coord.rid]
       IN  /\ rmap' = CreateRegionHandler(coord.tw, coord.rid, c)
           /\ coord' = [coord EXCEPT !.pc = "copy", !.hash = c.start]
    /\ UNCHANGED <<gmap, nextRid, store, pinode, logdb, queue, crashed,
                   clientVars, ghostVars>>

\* rpc_send_region, one pinode_hash of the range per step: ReadDir of a
\* registered directory that has entries reaches p_assert(false, "entry...")
CopyHash ==
    /\ ~crashed
    /\ coord.pc = "copy"
    /\ coord.hash <= rmap[coord.w][coord.rid].end
    /\ LET w        == coord.w
           nonEmpty == \E d \in pinode[w], n \in Names :
                         DirHash[d] = coord.hash /\ <<d, n>> \in DOMAIN store[w]
       IN  \/ nonEmpty /\ crashed' = TRUE /\ UNCHANGED coord
           \/ ~nonEmpty /\ coord' = [coord EXCEPT !.hash = @ + 1]
                        /\ UNCHANGED crashed
    /\ UNCHANGED <<rmap, gmap, nextRid, store, pinode, logdb, queue,
                   clientVars, ghostVars>>

CopyDone ==
    /\ ~crashed
    /\ coord.pc = "copy"
    /\ coord.hash > rmap[coord.w][coord.rid].end
    /\ coord' = [coord EXCEPT !.pc = "log", !.next = 0]
    /\ UNCHANGED <<rmap, gmap, nextRid, store, pinode, logdb, queue, crashed,
                   clientVars, ghostVars>>

\* One round of rpc_send_region_log: read the parent, read up to BatchMax
\* entries from Seek(<<parent, next>>) on (the iterator is not bounded by the
\* parent's id), compute the log status, and on AlmostDone or Done publish
\* the split in global_region_map: erase the parent, halve its end_key
\* (p_assert(end_key.hi > 0)), insert both regions, mark it SplitAlmostDone.
PrepareLog ==
    /\ ~crashed
    /\ coord.pc = "log"
    /\ LET w       == coord.w
           c       == rmap[w][coord.rid]
           lid     == coord.left
           l       == rmap[w][lid]
           batch   == ScanLog(SeekFrom(logdb[w], lid, coord.next), BatchMax)
           ls      == LogStatus(l.logId - (coord.next + Len(batch)))
           publish == ls \in {"AlmostDone", "Done"}
                      /\ l.status # "SplitAlmostDone"
           newEnd  == l.end \div 2
           sent    == [coord EXCEPT !.pc = "send", !.batch = batch,
                                    !.lstatus = ls]
       IN  \/ /\ ~publish
              /\ coord' = sent
              /\ UNCHANGED <<rmap, gmap, crashed>>
           \/ /\ publish
              /\ newEnd <= 0
              /\ crashed' = TRUE
              /\ UNCHANGED <<rmap, gmap, coord>>
           \/ /\ publish
              /\ newEnd > 0
              /\ gmap' = (Restrict(gmap, DOMAIN gmap \ {lid})
                            @@ (coord.rid :> [start |-> c.start, end |-> c.end]))
                            @@ (lid :> [start |-> l.start, end |-> newEnd])
              /\ rmap' = [rmap EXCEPT ![w][lid].end = newEnd,
                                      ![w][lid].status = "SplitAlmostDone"]
              /\ coord' = sent
              /\ UNCHANGED crashed
    /\ UNCHANGED <<nextRid, store, pinode, logdb, queue, clientVars, ghostVars>>

\* s2s_send_region_log_handler on the target worker: replay the batch in
\* order (kv_num moves per entry whether or not it applied), and on Done
\* make the new region Normal.
SendLog ==
    /\ ~crashed
    /\ coord.pc = "send"
    /\ LET tw == coord.tw
           b  == coord.batch
       IN  /\ store' = [store EXCEPT ![tw] = ReplayStore(@, b)]
           /\ rmap' = [rmap EXCEPT
                 ![tw][coord.rid].kv = @ + ReplayKvDelta(b),
                 ![tw][coord.rid].status =
                     IF coord.lstatus = "Done" THEN "Normal" ELSE @]
    /\ coord' = [coord EXCEPT !.pc = "resp"]
    /\ UNCHANGED <<gmap, nextRid, pinode, logdb, queue, crashed, clientVars,
                   ghostVars>>

\* The reply of a log round: on Done drop the temporary region from the
\* origin's region_map, reset the parent's log_id and make it Normal;
\* otherwise continue from the next_log_id echoed by the target.
LogResp ==
    /\ ~crashed
    /\ coord.pc = "resp"
    /\ \/ /\ coord.lstatus = "Done"
          /\ rmap' = [rmap EXCEPT ![coord.w] =
                [Restrict(@, DOMAIN @ \ {coord.rid}) EXCEPT
                    ![coord.left].logId = 0,
                    ![coord.left].status = "Normal"]]
          /\ coord' = IdleCoord
       \/ /\ coord.lstatus # "Done"
          /\ coord' = [coord EXCEPT !.pc = "log",
                                    !.next = coord.next + Len(coord.batch)]
          /\ UNCHANGED rmap
    /\ UNCHANGED <<gmap, nextRid, store, pinode, logdb, queue, crashed,
                   clientVars, ghostVars>>

-----------------------------------------------------------------------------
Next ==
    \/ ClientSend \/ ClientRecv
    \/ ReqCheck
    \/ ApplyMknod \/ ApplyUnlink \/ ApplyMkdir \/ ApplyRmdir
    \/ ApplyStat \/ ApplyReaddir
    \/ Pop \/ CreateRegion \/ CopyHash \/ CopyDone
    \/ PrepareLog \/ SendLog \/ LogResp

\* Every worker thread serves its queued request, the split thread polls
\* the queue every 100 ms and the client waits for each reply: all but the
\* issuing of new operations is weakly fair.
Fairness ==
    /\ WF_vars(ClientRecv)
    /\ WF_vars(ReqCheck)
    /\ WF_vars(ApplyMknod) /\ WF_vars(ApplyUnlink) /\ WF_vars(ApplyMkdir)
    /\ WF_vars(ApplyRmdir) /\ WF_vars(ApplyStat) /\ WF_vars(ApplyReaddir)
    /\ WF_vars(Pop) /\ WF_vars(CreateRegion) /\ WF_vars(CopyHash)
    /\ WF_vars(CopyDone) /\ WF_vars(PrepareLog) /\ WF_vars(SendLog)
    /\ WF_vars(LogResp)

Spec == Init /\ [][Next]_vars /\ Fairness

-----------------------------------------------------------------------------
(* Properties *)

Region == [start : HashSpace, end : HashSpace, kv : Int, logId : Nat, status : Statuses,
           left : RegionIds]
LogEntry == [rid : RegionIds, id : Nat, key : Keys, op : {"put", "del"},
             kind : {"file", "dir"}]

TypeOK ==
    /\ \A w \in Workers : DOMAIN rmap[w] \subseteq RegionIds
                          /\ \A r \in DOMAIN rmap[w] : rmap[w][r] \in Region
    /\ DOMAIN gmap \subseteq RegionIds
    /\ \A r \in DOMAIN gmap : gmap[r] \in [start : HashSpace, end : HashSpace]
    /\ nextRid \in NumWorkers..(MaxRegionId + 1)
    /\ \A w \in Workers : DOMAIN store[w] \subseteq Keys
                          /\ \A k \in DOMAIN store[w] : store[w][k] \in {"file", "dir"}
    /\ pinode \in [Workers -> SUBSET Dirs]
    /\ \A w \in Workers : logdb[w] \subseteq LogEntry
    /\ queue \in Seq([w : Workers, rid : RegionIds])
    /\ coord.pc \in Pcs /\ coord.lstatus \in LogStats
    /\ crashed \in BOOLEAN
    /\ creq.phase \in {"none", "sent", "apply", "done"}
    /\ \A i \in DOMAIN creq.resp : creq.resp[i] \in Resps
    /\ opsLeft \in 0..MaxOps

\* global_region_map, which every client copies to route its requests,
\* always partitions the hash space: no hash is owned by two regions and
\* none by no region, across any interleaving of splits published by
\* rpc_send_region_log with the ranges check_region_and_split computes.
MapPartition ==
    /\ \A r1, r2 \in DOMAIN gmap :
         r1 # r2 => Span(gmap[r1]) \cap Span(gmap[r2]) = {}
    /\ \A x \in HashSpace : \E r \in DOMAIN gmap : BelongsTo(gmap[r], x)

\* Every region id global_region_map publishes is in the region_map of the
\* worker its requests are routed to, with the published range: a handler
\* never reads the nullptr of region_map[id], and the range it checks is
\* the one the client routed by.  This needs check_region_and_split to pick
\* a target other than the origin, since the split's end erases the
\* temporary region from the origin's region_map.
ServedRegions ==
    \A r \in DOMAIN gmap :
        /\ r \in DOMAIN rmap[Route(r)]
        /\ rmap[Route(r)][r].start = gmap[r].start
        /\ rmap[Route(r)][r].end = gmap[r].end

\* splits of parent r queued in shared_split_queue or being migrated
PendingSplits(r) ==
    Cardinality({i \in 1..Len(queue) : rmap[queue[i].w][queue[i].rid].left = r})
      + (IF coord.pc # "idle" /\ coord.left = r THEN 1 ELSE 0)

\* A region served by a worker is IsSplit or SplitAlmostDone exactly while
\* one split of it is queued or in progress, and never has two: the CAS of
\* the handlers and the reset by rpc_send_region_log keep the split thread
\* and the workers in step.
SplitExclusive ==
    \A w \in Workers : \A r \in DOMAIN rmap[w] :
        Route(r) = w =>
            PendingSplits(r) =
                IF rmap[w][r].status \in {"IsSplit", "SplitAlmostDone"}
                THEN 1 ELSE 0

\* Every split a handler requests is eventually completed by the split
\* thread (or the process aborts): the log shipping of rpc_send_region_log
\* reaches Done even while the workers keep appending to the log.
SplitTerminates ==
    \A r \in RegionIds :
        PendingSplits(r) > 0 ~> (crashed \/ PendingSplits(r) = 0)

\* The process never aborts: p_assert is reserved for fatal internal
\* invariant violations, yet the bulk copy of rpc_send_region and the range
\* narrowing of rpc_send_region_log assert on ordinary data.
NoAbort == ~crashed

\* A handler executes an operation only when the hash is inside the range
\* of the region it names (otherwise it answers kUpdateRegionMap and does
\* nothing else).
StaleRequestRejected ==
    creq.phase = "apply" => BelongsTo(rmap[creq.w][creq.rid], creq.h)

\* A split loses no entry: every key the client created (and did not
\* delete) is in the metadb of the worker serving the region that
\* global_region_map assigns to its hash, whenever that region accepts
\* requests.
SplitPreservesEntries ==
    \A k \in acked : \A r \in DOMAIN gmap :
        /\ BelongsTo(gmap[r], DirHash[k[1]])
        /\ StatusAccepts(rmap[Route(r)][r].status)
        => k \in DOMAIN store[Route(r)]

=============================================================================
