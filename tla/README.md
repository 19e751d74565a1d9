# TLA+ models of MetaFS

These models cover the metadata-partitioning core of MetaFS (`src/`) and its
client library. The hash
space of parent-directory inodes is cut into *regions* (shards). Worker
threads of the metadata server serve the regions. A background thread splits
a region that grew too large and migrates one half to another worker while
writes continue.

## The system

| Part | Code | What it does |
|---|---|---|
| Region state machine | `include/common/region.h`, `region_and_log.cc:33-73` | `ServerRegion{range, kv_num, log_id, status}`. The states are Normal, IsSplit, SplitAlmostDone and NotReady (ToBeSplit is never set). A CAS Normal→IsSplit in the mknod/mkdir handlers triggers `check_region_and_split`. |
| Request handlers | `server_handler.cc` | Each handler does three things in order: (1) look up `region_map[region_id]`; (2) if the hash is out of range, enqueue kUpdateRegionMap (and do **not** return); (3) call `check_region_status`, then run the operation and `log_op` while the region is splitting. |
| Split task queue | `threadsafe_queue.h`, `metafs_server.cc:150-163` | A mutex FIFO of `<worker, new region id>`. One split thread per process polls it every 100 ms. |
| Split coordinator | `region_and_log.cc:95-368, 763-780` | Runs synchronous RPCs in this order: create the region on the target (NotReady); bulk copy by walking the origin's `pinode_table`; ship the migration log in batches. It publishes the split in `global_region_map` once fewer than 30 entries remain (SplitAlmostDone), and returns the parent to Normal when the target reports Done. |
| Migration log | `region_and_log.cc:75-90`, `region_and_log.h:16-32` | Per-worker rocksdb, keyed by `(region_id, log_id)`. Logs are never deleted, and `log_id` is reset after a split. |
| Global region map | `region_and_log.cc:9-31, 173-196`, `server_handler.cc:513-532` | Per process, under a RW lock. Clients copy it. |
| Client router | `hooks.h:87-94`, `rpc_client.cc`, `metaclient.cc:12-33` | Looks up the first cached range containing the hash. The session is the id itself if it is below the number of sessions, otherwise the jump consistent hash of the id. The client retries once after kUpdateRegionMap (re-reading the map) or kEBUSY. |
| Syscall hooks | `hooks.cc:170-712` | syscall_intercept hands every syscall to `hook()`, which serves paths under the mount point and descriptors from `START_FD` on, and returns 1 ("not hooked") to let the kernel run the rest. |
| Path resolution and dentry cache | `metaclient.cc:42-137`, `dentry_cache.h` | Walks the path from inode 0 one component at a time, through an LRU cache of `(parent, name) -> inode` that is filled on a miss and never invalidated. |
| Open file table | `open_file_map.cc` | Descriptor -> `OpenFile`/`OpenDir`. Descriptors come from a counter `fd_idx` that wraps at INT_MAX; after a wrap a flag makes new descriptors skip open ones. An `OpenDir` holds the whole listing read at open and a position for getdents. |
| Directory listing | `metaclient.cc:298-316`, `rpc_client.cc:236-299`, `server_handler.cc:342-396`, `rpc_common.h:169-215` | `opendir` fills an `OpenDir` by paging: each reply carries `is_uncomplete` and `next_offset`, and the client asks again at `next_offset` while `is_uncomplete` is set. A refused call is retried once from an empty list. The server writes every reply into eRPC's `pre_resp_msgbuf_` of the session slot, a buffer every later reply of that session reuses; the `wire_resp_t` structs overlay each other in it. |

How they interact:
- Workers and the split thread share `ServerRegion` objects, `region_map`, `pinode_table`, `log_db` and `global_region_map`.
- The split thread reaches the target worker only through its s2s handlers, which run on that worker's thread.
- A client's hooks resolve the path (cache, then `RPC_Getinode`), call one `MetaClient` operation, which sends one RPC and retries once on a busy or stale answer, and add or remove descriptors in the open file table.

## Modules

- **`RegionSplit.tla`** is the whole core, with one server process of `NumWorkers` workers (worker `w` owns region `w` at start-up).
  - Variables:
    - `rmap[w]`: `region_map` of worker `w`;
    - `gmap`: `global_region_map`;
    - `nextRid`: `global_region_id`;
    - `store[w]`: the worker's metadb, key → file or dir;
    - `pinode[w]`: `pinode_table`;
    - `logdb[w]`;
    - `queue`;
    - `coord`: the split thread's program counter and cursor;
    - `crashed`: a `p_assert` or null dereference aborted the process;
    - `creq`, `cache`, `opsLeft`: the client;
    - `acked`: ghost, the keys the client created and did not delete.
  - Actions:
    - `ClientSend`, `ClientRecv` (`handle_rpc_resp`);
    - `ReqCheck`: the handler prologue;
    - one `Apply*` per handler body: mknod, unlink, mkdir, rmdir, stat, readdir;
    - `Pop`: the split thread;
    - `CreateRegion`: `rpc_create_region` plus the target handler and callback;
    - `CopyHash` / `CopyDone`: `rpc_send_region`, one hash per step;
    - `PrepareLog`: a round of `rpc_send_region_log` up to the send, including publication;
    - `SendLog`: `s2s_send_region_log_handler`;
    - `LogResp`: the rest of the round.

  A handler is two steps (prologue, body) because the split thread changes the same `ServerRegion` between them. Each coordinator step is one RPC, or one loop iteration, of the code.
- **`MCRegionSplit.tla`** supplies the constants:
  - model values for directories and names;
  - `DirHash`, standing for `XXH3(pinode) % PINODE_HASH_RANGE`;
  - `DirOf`, the inode a mkdir allocates;
  - tables of `JumpConsistentHash(id, n)` for n = 2 and 3 and ids 0..11, printed by a program that includes `jump_hash.h`. Routing uses the table. `ASSUME TablesAgree` makes TLC check, before every run of the module, that the `JumpHash` operator gives the same values; it is an assumption and not a property, since it is about constants and not about the system's behaviour.
- **`JumpHash.tla`** is `JumpConsistentHash` of `jump_hash.h` as a pure operator. TLC's integers stop at 2^31 - 1, so:
  - the `uint64_t` key is 8 bytes, least significant first;
  - `NextKey` is `key * 2862933555777941757 + 1` computed bytewise (`MulAddFrom`), and dropping the carry out of the last byte is the wrap modulo 2^64;
  - `Divisor` is `(key >> 33) + 1` in two 16-bit halves, since it can reach 2^31;
  - the double `j = (b + 1) * 2^31 / divisor` matters only through whether it is below `num_buckets` and, if so, its floor. `Jump` finds both by exact comparisons (`AtMost`). The double can differ from the exact quotient only where that quotient lies very close to an integer. `TablesAgree` shows that no id of the checked range meets such a case.
  - `JumpLoop` is the `while` loop.
  
  The module is longer than the nine lines it models because of the 64-bit arithmetic.
- **`MigrationLog.tla`** zooms in on the log of one origin worker: `log_op` in the mknod and unlink handlers, the rounds of `rpc_send_region_log`, and their replay by `s2s_send_region_log_handler`. Its keys live in directories outside `pinode_table`, so the new region is built from the log alone.
  - Variables: `region` (kv_num, log_id, status per region id), `store`, `logdb`, `queue`, `coord` (the split thread), `child` (the new region), `hreq` (the request a worker thread is handling).
  - A mutating handler is four steps, as in the code, and the split thread can act between any two of them:
    - `Recv`: the prologue and `check_region_status`;
    - `Mknod`/`Unlink`: the body. This is the metadb change and kv_num; for mknod it also includes the CAS Normal→IsSplit and the push of the split task;
    - `LogCheck`: the status re-read, and the id reservation of `log_op` (`log_id++`, `LogReserved`);
    - `LogPut`: the `log_db` Put.
  - Between `LogCheck` and `LogPut` the split thread counts the reserved id in `log_id` but does not find the entry. TLC reaches the state where a round is cut while the entry is still unwritten.
  - Between the body and `LogCheck`, the split thread can pop the split that the body just requested, read `log_id` 0 and cut the final batch (trigger_lost).
  - **`MigrationLogSpec.tla`** is what the log promises about the entries it is given. A split begins with an empty log, when the CAS moves the region to IsSplit. Every entry the handlers log during it is appended, and the new region receives a growing prefix of the log, in order. The split closes only once all of it was delivered, and it then ends. Entries written after the cut are allowed there. That the handlers leave nothing behind the cut is the separate invariant `NoOpBehindFinalBatch`, which the code violates (trigger_lost).
  - `MigrationLog` instantiates it (`Abs == INSTANCE MigrationLogSpec WITH ...`). The mapping: `phase` from the region status and the coordinator's last answer; `plog` is the entries with ids `0..log_id-1` of the region in `logdb`, where a reserved id not yet written holds the worker's pending entry; `delivered` is what the child replayed plus the batch in flight. `LogRefinement == Abs!ASpec` is checked as a temporal property.
- **`OpenFileMap.tla`** is `open_file_map.cc` with several threads.
  - `add` is two steps: `safe_generate_fd_idx_` under `fd_idx_mutex_`, then the insert under `files_mutex_`. `remove` and `dup` are one step each.
  - `INT_MAX` is scaled down to `FdMax`. `ValidateLoop` is the skip loop of `safe_generate_fd_idx_`: recursive, with fuel that runs out only where the code would spin forever.
  - The ghost `handed` records which `OpenFile` each descriptor was returned for. `dup2` is left out: no hook calls it.
- **`ClientFS.tla`** composes the client library with a server namespace. Each client is one application thread whose hooks run as single steps; clients interleave between syscalls.
  - The server is `dents` (a set of `(parent, name, inode)`) and `alloc` (`alloc_inode`). `SGetinode`, `SCreate`, `SUnlink`, `SRmdir` and `SReaddir` are the handler bodies, with the code's inode numbering: a directory is `alloc_inode | msb`, here `+ DirBit`.
  - Routing and splits are `RegionSplit`'s part. Here a request meets a split only as an answer kind:
    - `busy`: kEBUSY, or kUpdateRegionMap from a SplitAlmostDone parent; nothing is done;
    - `stale`: kUpdateRegionMap from the range check, with the operation still executed, because the handler does not return.

    `MaxRetries` bounds how many such answers one behaviour meets.
  - `MetaCall` is a `MetaClient` operation: the RPC, `handle_rpc_resp`, and the one retry. `Resolve` is `ResolvePath`/`Internal_ResolvePath` with the dentry cache (`cache[c]`).
  - There is one action per hook:
    - `Creat` and `Open`: the two branches of `hook_openat`;
    - `Mkdir`: `hook_mkdirat`;
    - `Remove`: `hook_unlinkat`, for unlink and rmdir;
    - `StatPath`: `hook_stat` and `hook_access`;
    - `Fstat`, `Close`, `Lseek`;
    - `FdNoop`: `fsync`, `read` and `write`;
    - `Getdents`: both getdents calls, with the fill loop `FillCount`.

    `ev` is a ghost record of the last syscall and what it returned.
  - `hook_unlinkat` asserts that the path resolved. The build files are not in the repository, so `NDEBUG` is unknown, and `Remove` takes both outcomes: the application aborts (`alive` becomes false), or the request goes out and fails.
- **`ReaddirPaging.tla`** is one listing thread of a client, the worker that owns its directories, and other clients that create and delete entries at any time.
  - Variables:
    - `dir`: the names of each directory in the storage engine;
    - `resp`: the session's response buffer seen through `FSReaddirResp` (type, `is_uncomplete`, `num_result`, `next_offset`, the entries);
    - `req`: the client's `FSReaddirReq` (inode, offset);
    - `pc`, `attempt`, `ents`: the listing thread, the retry of `MetaClient::Readdir`, and `open_dir->entries`;
    - `seen`, `ever`: history, the names present throughout and at some point of the current call.
  - Actions:
    - `StartReaddir`: `hook_openat` on a directory;
    - `ServeRefuse`, `ServeBuffer`, `ServeNull`: the three outcomes of `fs_readdir_handler`. These are a splitting region (only `resp_type` written), a page from `ReadDir` (every field written), and a NULL result (only `num_result = 0` and kSuccess written);
    - `PageMore`, `PageLast`: the page loop of `RPC_Readdir`;
    - `Retry`, `Fail`: `MetaClient::Readdir` after a refusal;
    - `OtherRpc`: another reply on the same session between listings. `RegionmapReply` puts `num_entries` where `is_uncomplete` lies. `StatReply` puts `stat.oid.lo` where `next_offset` lies;
    - `Create`, `Delete`: the mknod and unlink handlers of other clients.
  - `ReadDir` belongs to metakv, outside the repository. `PageOf` models it with a key cursor: up to `PageSize` names after the offset, in key order, and whether more remain. A cursor never repeats or skips a name, which is the most favourable reading of the engine. An empty page may come back as a buffer or as NULL. The code allows both: `fs_rmdir_handler` handles NULL as "no entries", and the NULL branch of the readdir handler is commented "read empty directory".
- **`MCMigrationLog.tla`, `MCOpenFileMap.tla`, `MCClientFS.tla` and `MCReaddirPaging.tla`** declare the model values and symmetry sets.

Data is abstracted: names and inodes are model values or small numbers, a metadb is a set of keys, and a log entry is `(region, id, put|del, key)`. Control is kept: every guard, early return, `p_assert` (as `crashed`) and branch of the handlers, the coordinator and the hooks is in an action.

## Runs

| Run | cfg | Checks | Result |
|---|---|---|---|
| split_safety | `MCRegionSplit.cfg` | TypeOK, MapPartition, ServedRegions, SplitExclusive, SplitTerminates | pass (about 104k states, 90 s) |
| abort_copy | `MCRegionSplit_abort_copy.cfg` | NoAbort | violated: the bulk copy's `p_assert(false)` (region_and_log.cc:311) fires for any registered directory with entries |
| stale_race | `MCRegionSplit_stale_race.cfg` | StaleRequestRejected | violated: publication happens between a handler's check and its body |
| lost_entries | `MCRegionSplit_lost_entries.cfg` | SplitPreservesEntries | violated: entries of directories missing from `pinode_table` are never copied |
| log_refinement | `MCMigrationLog.cfg` | TypeOK, LogRefinement | pass (66,329 states, 45 s): one split with several log rounds, requests in every round |
| stale_replay | `MCMigrationLog_stale_replay.cfg` | LogRefinement | violated: the second split of a region starts again at log_id 0 over the first split's entries and replays them |
| trigger_lost | `MCMigrationLog_trigger_lost.cfg` | NoOpBehindFinalBatch | violated in 8 states: the second mknod's CAS starts the split, the split thread pops it, reads log_id 0 and cuts the final batch, and only then does the mknod re-read the status and log its entry, which is never shipped |
| ofm_wrap | `MCOpenFileMap.cfg` | TypeOK, HandedFdsMapped, UncheckedBelowIdx | pass (1244 states): fd_idx wraps with descriptors open, and again after the table empties |
| client_pass | `MCClientFS.cfg` | TypeOK, GetdentsWithinBuffer | pass (about 78k states, 18 s) |
| stale_dentry | `MCClientFS_stale_dentry.cfg` | CreatedFileReachable | violated: creat /a, open /a/a (caches /a), unlink /a, creat /a/a; the file is made under the dead inode and no path reaches it |
| readdir_pass | `MCReaddirPaging.cfg` | TypeOK, ListingExact | pass (621,856 states, 30 s) |
| readdir_hang | `MCReaddirPaging_returns.cfg` | ReaddirReturns | violated: opendir of an empty directory. The worker answers kUpdateRegionMap and the client re-reads the region map on the same session. The retried `ReadDir` gives NULL, the reply keeps `num_entries` as `is_uncomplete`, and `RPC_Readdir` asks again for ever, with no other client acting |

What the passing properties of split_safety say:
- **MapPartition:** the published map partitions the hash space.
- **ServedRegions:** every published id is in the `region_map` of the worker it routes to, with the published range. So no handler dereferences the nullptr of `region_map[id]`, and that case is not an action.
- **SplitExclusive:** a served region is IsSplit or SplitAlmostDone exactly while one split of it is queued or running.
- **SplitTerminates:** every requested split completes unless the process aborted.

Every other property of the passing run has a mutant in `RegionSplit.tla` that breaks it. Each mutant is a plausible bug:
- the `- 1` missing from an initial end key;
- `end >> 1` without `+ 1`;
- no redraw of a target id that maps back to the origin;
- the trigger without the CAS;
- Done only when `log_left < 0`.

**Bounds of the RegionSplit runs:**
- 2 workers, H = 4 (hash space 0..7), three directories. Their hashes 0, 3 and 6 put one directory in each half of region 0 and one in region 1. In the code `pinode_table` hashes are taken modulo `PINODE_HASH_RANGE`, so only region 0's range is reached. The hash 6 is a model choice: it gives worker 1 requests of its own from the start, which the code would not.
- One name, at most four client operations, Threshold 1, LogAlmostDone 2, BatchMax 1.

This is enough for two splits, for a split with log rounds before and after publication, and for a second split of the same parent (kv_num is never lowered).

The violation runs change only what their scenario needs.

**Fairness of RegionSplit.** Weak fairness is assumed on every handler step, every split-thread step and the client's receipt of a reply:
- a worker thread serves its queued request;
- the split thread polls the queue every 100 ms;
- the RPCs always answer, because the target worker handles them.

Issuing new operations is not fair. Deadlock is not checked: the client's operations are bounded and a `p_assert` stops the process, so the system really does stop.

What the other passing properties say:
- **LogRefinement** (log_refinement): the log iterator, the log_id arithmetic and the Done test of `rpc_send_region_log` implement `MigrationLogSpec`, including its fairness, so every split that starts ends and every entry logged before the cut is shipped once, in order. This also holds when a round is cut between the reservation and the Put of an entry: `log_left` then stays positive, so the round cannot be Done, and the next round picks the entry up. It does not say that every mutation is logged before the cut; trigger_lost shows that it is not.
- **HandedFdsMapped** (ofm_wrap): every descriptor that `add` or `dup` returned, and that has not been removed since, still names its `OpenFile`. A wrapped `fd_idx` never hands out a descriptor that is in use.
- **UncheckedBelowIdx** (ofm_wrap): while the validation flag is clear, every descriptor in the table, and every one generated but not yet inserted, is below `fd_idx`. This is what makes skipping the check safe. It breaks if `remove` clears the flag before the table is empty.
- **GetdentsWithinBuffer** (client_pass): getdents never writes more bytes than the caller's count, for buffers smaller than one record and for buffers of two records.
- **ListingExact** (readdir_pass) is an action property of the step in which `Readdir` returns success. The listing holds no name twice, every name the directory held throughout the call, and no name it never held during the call. This holds while other clients write between pages, pages are refused, the call is retried, and NULL pages and other replies leave stale fields. A stale `is_uncomplete` only ever comes with an empty directory, so it never adds or skips a name; the danger is that the call never returns (readdir_hang). The property breaks if the retry keeps the entries of the refused attempt.

**Bounds of the log and client runs:**
- log_refinement: one region, two names, Threshold 1, LogAlmostDone 2, one entry per batch, six requests. That gives a split with rounds before and after AlmostDone, with requests landing in each. stale_replay needs a second split (MaxSplits 2, seven requests). trigger_lost needs four requests and one split.
- ofm_wrap: one thread, descriptors 3..5 (`FdMax` 6), five adds. Wraps happen with the table non-empty, so the skip loop runs, and with it empty.
- client_pass:
  - two clients (symmetric);
  - one name, so the paths are `/a` and `/a/a`, which allows a directory with a child;
  - four syscalls, at most two busy or stale answers, two descriptors per client;
  - getdents counts 23 and 48, and a3 = -1.
- readdir_pass: two directories (symmetric), three names, two names per page. A full directory takes two pages, so a refusal or a write can fall between pages. Names are created and deleted without bound, and every reply kind can precede a listing. readdir_hang needs only one directory, two names and one name per page; its counterexample uses none of the writers.

**Fairness of the log and client models.** `MigrationLog` assumes weak fairness of the handlers and of the split thread, for the reasons given for `RegionSplit`. `OpenFileMap` and `ClientFS` assume none and check no liveness: their steps are calls made by the application, which may stop at any time.
`ReaddirPaging` assumes weak fairness of the worker's reply (`ServeReaddir`) and of the listing thread's handling of it (`ClientStep`). The worker polls its queue, and the thread spins in `run_event_loop_once` until the reply is in. Starting listings, other RPCs and other clients' writes are not fair. `ReaddirReturns` assumes that writes eventually stop (`WritesStop`). Without that, a writer that keeps toggling names would also hold the call in the loop, which says less.

## Not modelled

Findings and hazards are listed in `PROJECT.json`. These further defects were read off the code and have no run of their own:
- `hook_mkdirat` sets `*res = 0` whatever `hook_openat` answered (hooks.cc:303), so a failed mkdir reports success.
- `if(flag = SEEK_SET)` in `hook_lseek` (hooks.cc:493) is an assignment, so lseek is never served.
- `fs_rmdir_handler` computes `has_files = (count == 0)` (server_handler.cc:437), the inverse of its intent. A directory with entries is removed and answers 0, and an empty one whose `ReadDir` returns a buffer with no entries is kept and also answers 0. `SRmdir` (ClientFS) and `ApplyRmdir` (RegionSplit) model both outcomes. It is a one-step bug that any test of rmdir on a non-empty directory reaches, so no run is spent on it.
- `handle_rpc_resp` retries a busy or stale answer once, and a second one fails the call (metaclient.cc:23). `hook_openat` reports that as -EEXIST, while spec 4.6 says busy is retried without bound.
- `hook()` passes `(int)a3`, an unrelated register, as the count of SYS_getdents64 (hooks.cc:700). `ClientFS` models the dispatch, with a3 = -1, but no run checks the overflow.
- `s_ctx->region_map[c_req->region_id]` uses `operator[]` under a read lock (server_handler.cc:350 and every handler). An id the worker does not own inserts a nullptr, and `check_is_blong_to_region` dereferences it.
- The `return` after kUpdateRegionMap is missing (server_handler.cc:95). `ClientFS` models it as the `stale` answer.
- kv_num drifts in the log replay (server_handler.cc:647).

Not modelled:
- **Client request fields.** No `RPC_*` builder writes `region_id` or `pinode_hash` (rpc_client.cc). The server reads the client id that `RPC_ReadRegionmap` left at offset 0, and whatever earlier requests of the window left in the hash bytes. Client ids start at 0 (`mt_incr` returns the counter minus one), so every request of client `c` looks up `region_map[c]`. Only the worker that owns region `c` can answer. Any other worker dereferences the nullptr that `operator[]` inserts. This is one step on one buffer, with no interleaving to explore, so the models route with the fields spec 4.5 describes. `ReaddirPaging` models the response buffer's reuse, but not the request buffer's.
- **Several server processes.** Region ids collide, and each process's map is partial.
- **Threads sharing the client.** All application threads share one eRPC `Rpc` object. That is a data race, not an interleaving of atomic steps.
- **The handlers' two-step tail in RegionSplit.** `Finish` runs the CAS, the push, the status re-read and `log_op` of a handler as one step. `MigrationLog` models these steps separately, and trigger_lost shows what the window between them allows. RegionSplit keeps them together to stay within its state space.
- **Smaller parts:**
  - `s2s_send_region_handler`, which is unreachable behind the `p_assert`;
  - `hook_statfs`;
  - `dup2`, which no hook calls; `OpenFileMap` models `dup` (open_file_map.cc:150-160), which no hook calls either, for the flag it raises;
  - the preload wrappers (`open`, `mkdir`, `rmdir`... at hooks.cc:736-917). They are compiled only when `HOOK_REWRITE` is set, and hooks.h:18 defines it as 0. The `rmdir` wrapper calls `hook_unlink`;
  - eRPC;
  - metakv and rocksdb internals;
  - configuration parsing.
