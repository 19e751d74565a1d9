--------------------------- MODULE ReaddirPaging ---------------------------
(***************************************************************************)
(* Paged directory listing: MetaClient::Readdir (metaclient.cc), the page  *)
(* loop of RpcClient::RPC_Readdir (rpc_client.cc), fs_readdir_handler      *)
(* (server_handler.cc) and the response layout (rpc_common.h).             *)
(*                                                                         *)
(* A handler writes its answer into req_handle->pre_resp_msgbuf_, the      *)
(* response buffer eRPC allocates once per session slot and hands to every *)
(* later request of the same client session.  The response structs of     *)
(* wire_resp_t overlay each other, so a field a handler does not write     *)
(* still holds what an earlier response of that session put there.  The    *)
(* variable resp is that buffer, seen through FSReaddirResp.               *)
(***************************************************************************)
EXTENDS Naturals, Sequences, SequencesExt, Functions

CONSTANTS
    Dirs,       \* directory inodes the listing client may open
    NumNames,   \* names are 1..NumNames, in the storage engine's key order
    PageSize    \* directory entries that fit in MSG_ENTEY_MAX_SIZE bytes

ASSUME NumNames \in Nat \ {0} /\ PageSize \in Nat \ {0}

Names   == 1..NumNames
\* ReadDir offsets: 0 starts a directory, n resumes after name n.
Cursors == 0..NumNames
RespTypes == {"success", "busy", "update"}

VARIABLES
    dir,      \* storage engine: the names in each directory
    resp,     \* FSReaddirResp view of the session's pre_resp_msgbuf_
    req,      \* window-0 FSReaddirReq of the client: inode and offset
    pc,       \* listing thread: "idle", "sent" (waiting), "replied"
    attempt,  \* 1 for the first RPC_Readdir of a call, 2 for the retry
    ents,     \* open_dir->entries
    seen,     \* history: names present at every step of the current call
    ever      \* history: names present at some step of the current call

vars == <<dir, resp, req, pc, attempt, ents, seen, ever>>

TypeOK ==
    /\ dir \in [Dirs -> SUBSET Names]
    /\ resp \in [type : RespTypes, unc : BOOLEAN, num : 0..PageSize,
                 next : Cursors, page : Seq(Names)]
    /\ req \in [inode : Dirs, offset : Cursors]
    /\ pc \in {"idle", "sent", "replied"}
    /\ attempt \in {1, 2}
    /\ ents \in Seq(Names)

Init ==
    /\ dir \in [Dirs -> SUBSET Names]
    /\ resp = [type |-> "success", unc |-> FALSE, num |-> 0, next |-> 0,
               page |-> <<>>]
    /\ req \in [inode : Dirs, offset : {0}]
    /\ pc = "idle"
    /\ attempt = 1
    /\ ents = <<>>
    /\ seen = {} /\ ever = {}

(***************************************************************************)
(* The storage engine's ReadDir (metakv, outside this repository): the     *)
(* names after the offset in key order, at most PageSize of them, whether  *)
(* more remain, and the offset to resume from.                             *)
(***************************************************************************)
After(d, off) == {n \in dir[d] : n > off}
PageOf(d, off) ==
    LET S == After(d, off)
        k == IF Cardinality(S) < PageSize THEN Cardinality(S) ELSE PageSize
    IN  [i \in 1..k |-> CHOOSE n \in S : Cardinality({m \in S : m < n}) = i - 1]

\* RpcClient::RPC_Readdir's set-up and its first request at offset 0.
FirstRequest(d) ==
    /\ req' = [inode |-> d, offset |-> 0]
    /\ pc' = "sent"

\* hook_openat on a directory calls MetaClient::Readdir with a new OpenDir.
StartReaddir(d) ==
    /\ pc = "idle"
    /\ FirstRequest(d)
    /\ attempt' = 1
    /\ ents' = <<>>
    /\ seen' = dir[d] /\ ever' = dir[d]
    /\ UNCHANGED <<dir, resp>>

\* check_region_status fails: the region is splitting; only resp_type is
\* written.
ServeRefuse ==
    /\ pc = "sent"
    /\ \E t \in {"busy", "update"} : resp' = [resp EXCEPT !.type = t]
    /\ pc' = "replied"
    /\ UNCHANGED <<dir, req, attempt, ents, seen, ever>>

\* ReadDir hands back a buffer: every FSReaddirResp field is written.
ServeBuffer ==
    /\ pc = "sent"
    /\ LET pg == PageOf(req.inode, req.offset)
       IN  resp' = [type |-> "success",
                    unc  |-> Len(pg) < Cardinality(After(req.inode, req.offset)),
                    num  |-> Len(pg),
                    next |-> IF pg = <<>> THEN req.offset ELSE Last(pg),
                    page |-> pg]
    /\ pc' = "replied"
    /\ UNCHANGED <<dir, req, attempt, ents, seen, ever>>

\* ReadDir finds nothing and leaves res == NULL: the handler sets num_result
\* to 0 and answers kSuccess; is_uncomplete and next_offset are not written.
ServeNull ==
    /\ pc = "sent"
    /\ PageOf(req.inode, req.offset) = <<>>
    /\ resp' = [resp EXCEPT !.type = "success", !.num = 0]
    /\ pc' = "replied"
    /\ UNCHANGED <<dir, req, attempt, ents, seen, ever>>

ServeReaddir == ServeRefuse \/ ServeBuffer \/ ServeNull

\* The answer to RPC_ReadRegionmap when it picked this session: num_entries
\* (at least one region) lies where FSReaddirResp keeps is_uncomplete, and
\* the first ClientRegion covers next_offset.
RegionmapReply(r, c) == [r EXCEPT !.type = "success", !.unc = TRUE, !.next = c]

\* A reply to open, stat or mknod: stat.oid.lo lies over next_offset.
StatReply(r, c) == [r EXCEPT !.type = "success", !.next = c]

\* Another metadata RPC of this client on the same session, between calls.
OtherRpc ==
    /\ pc = "idle"
    /\ \E c \in Cursors :
          resp' \in {RegionmapReply(resp, c), StatReply(resp, c)}
    /\ UNCHANGED <<dir, req, pc, attempt, ents, seen, ever>>

(***************************************************************************)
(* Client side of a reply: RPC_Readdir returns a refusal to                *)
(* MetaClient::Readdir, or appends the num_result entries of the page and  *)
(* asks for the next one while is_uncomplete is set.                       *)
(***************************************************************************)
AddPage(r) == ents \o SubSeq(r.page, 1, r.num)

\* handle_rpc_resp: kUpdateRegionMap re-reads the region map, which
\* RPC_ReadRegionmap asks of a random session, this one or another.
RefusalHandled(r) ==
    IF r.type = "update"
    THEN {r} \cup {RegionmapReply(r, c) : c \in Cursors}
    ELSE {r}

\* Readdir returns; the history of the call is dropped.
Finish ==
    /\ pc' = "idle"
    /\ seen' = {} /\ ever' = {}

RetryNoClear ==
    /\ pc = "replied" /\ resp.type # "success" /\ attempt = 1
    /\ resp' \in RefusalHandled(resp)
    /\ attempt' = 2
    /\ FirstRequest(req.inode)
    /\ UNCHANGED <<dir, ents, seen, ever>>

\* The first RPC_Readdir was refused: clearEntries and one more RPC_Readdir.
Retry ==
    /\ pc = "replied" /\ resp.type # "success" /\ attempt = 1
    /\ resp' \in RefusalHandled(resp) /\ attempt' = 2 /\ ents' = <<>>
    /\ FirstRequest(req.inode) /\ UNCHANGED <<dir, seen, ever>>

\* The retry was refused too: Readdir returns -ENOENT.
Fail ==
    /\ pc = "replied" /\ resp.type # "success" /\ attempt = 2
    /\ Finish /\ UNCHANGED <<dir, resp, req, attempt, ents>>

PageMoreSkip ==
    /\ pc = "replied" /\ resp.type = "success" /\ resp.unc
    /\ ents' = AddPage(resp)
    /\ req' = [req EXCEPT !.offset = resp.next + 1]
    /\ pc' = "sent"
    /\ UNCHANGED <<dir, resp, attempt, seen, ever>>

\* is_uncomplete set: the next request resumes at next_offset.
PageMore ==
    /\ pc = "replied" /\ resp.type = "success" /\ resp.unc
    /\ ents' = AddPage(resp)
    /\ req' = [req EXCEPT !.offset = resp.next]
    /\ pc' = "sent"
    /\ UNCHANGED <<dir, resp, attempt, seen, ever>>

\* is_uncomplete clear: RPC_Readdir and Readdir return success.
PageLast ==
    /\ pc = "replied" /\ resp.type = "success" /\ ~resp.unc
    /\ ents' = AddPage(resp) /\ Finish /\ UNCHANGED <<dir, resp, req, attempt>>

ClientStep == Retry \/ Fail \/ PageMore \/ PageLast

(***************************************************************************)
(* Other clients create and remove entries through the mknod and unlink    *)
(* handlers, at any time, also between two pages of a listing.             *)
(***************************************************************************)
Observe ==
    \/ pc = "idle" /\ UNCHANGED <<seen, ever>>
    \/ /\ pc # "idle"
       /\ seen' = seen \cap dir'[req.inode]
       /\ ever' = ever \cup dir'[req.inode]

Create(d, n) ==
    /\ n \notin dir[d]
    /\ dir' = [dir EXCEPT ![d] = @ \cup {n}]
    /\ Observe
    /\ UNCHANGED <<resp, req, pc, attempt, ents>>

Delete(d, n) ==
    /\ n \in dir[d]
    /\ dir' = [dir EXCEPT ![d] = @ \ {n}]
    /\ Observe
    /\ UNCHANGED <<resp, req, pc, attempt, ents>>

Next ==
    \/ \E d \in Dirs : StartReaddir(d)
    \/ ServeReaddir
    \/ ClientStep
    \/ OtherRpc
    \/ \E d \in Dirs, n \in Names : Create(d, n) \/ Delete(d, n)

\* The server worker keeps polling its queue and the listing thread spins in
\* run_event_loop_once until its reply is in; writers and new calls need not
\* happen.
Fairness == WF_vars(ServeReaddir) /\ WF_vars(ClientStep)

Spec == Init /\ [][Next]_vars /\ Fairness

(***************************************************************************)
(* Properties                                                              *)
(***************************************************************************)

\* A step in which Readdir reports success hands back a listing that holds
\* every name at most once, every name the directory held throughout the
\* call, and only names it held at some point of the call: the page loop of
\* RPC_Readdir and the clearEntries before the retry in MetaClient::Readdir
\* keep the pages of a call and of a refused attempt apart while other
\* clients change the directory between pages.
Exact(l) ==
    /\ IsInjective(l)
    /\ seen \subseteq ToSet(l)
    /\ ToSet(l) \subseteq ever
ListingExact == [][PageLast => Exact(ents')]_vars

\* Every Readdir call returns once other clients stop changing directories:
\* the page loop of RPC_Readdir ends when the server stops setting
\* is_uncomplete, and a refusal is retried only once.
WritesStop ==
    <>[][\A d \in Dirs, n \in Names : ~Create(d, n) /\ ~Delete(d, n)]_vars
ReaddirReturns == WritesStop => ((pc # "idle") ~> (pc = "idle"))
====
