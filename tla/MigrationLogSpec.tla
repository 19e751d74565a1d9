--------------------------- MODULE MigrationLogSpec ---------------------------
(***************************************************************************)
(* What the migration log of a region split promises (spec.md, "A split   *)
(* never loses or duplicates an entry ... replayed exactly once from the  *)
(* migration log").  While a region splits, every mutation it accepts is  *)
(* appended to the split's log; the new region receives a growing prefix  *)
(* of that log, in order; the split may close only once the whole log     *)
(* written so far has been delivered, and it then ends.                    *)
(*                                                                         *)
(* The split begins when a handler's CAS moves the region to IsSplit,    *)
(* before that handler has logged anything; its mutation is an ordinary   *)
(* entry.  An entry written after the final batch was cut is allowed by   *)
(* this spec: the log cannot ship what is written after the cut.  That    *)
(* the handlers leave nothing behind the cut is MigrationLog's            *)
(* NoOpBehindFinalBatch, and the range race is RegionSplit's              *)
(* StaleRequestRejected.                                                   *)
(***************************************************************************)
EXTENDS Sequences, SequencesExt

CONSTANTS
    Regions,    \* the regions that may split
    Entries     \* the log entries a region may write

VARIABLES
    phase,      \* phase[r]: "normal", "splitting" or "closed"
    plog,       \* plog[r]: the entries r logged since its split began
    delivered   \* delivered[r]: the entries the new region has received

avars == <<phase, plog, delivered>>

ATypeOK ==
    /\ phase \in [Regions -> {"normal", "splitting", "closed"}]
    /\ plog \in [Regions -> Seq(Entries)]
    /\ delivered \in [Regions -> Seq(Entries)]

AInit ==
    /\ phase = [r \in Regions |-> "normal"]
    /\ plog = [r \in Regions |-> <<>>]
    /\ delivered = [r \in Regions |-> <<>>]

\* the split of r begins, with an empty log
Begin(r) ==
    /\ phase[r] = "normal"
    /\ phase' = [phase EXCEPT ![r] = "splitting"]
    /\ UNCHANGED <<plog, delivered>>

\* r accepts a mutation while it splits
LogEntry(r, e) ==
    /\ phase[r] # "normal"
    /\ plog' = [plog EXCEPT ![r] = Append(@, e)]
    /\ UNCHANGED <<phase, delivered>>

\* the next part of the log reaches the new region; the split closes only
\* with a delivery that leaves nothing behind
Ship(r) ==
    /\ phase[r] = "splitting"
    /\ \E n \in Len(delivered[r])..Len(plog[r]) :
          /\ delivered' = [delivered EXCEPT ![r] = SubSeq(plog[r], 1, n)]
          /\ phase' \in {[phase EXCEPT ![r] = "splitting"]}
                \cup (IF n = Len(plog[r])
                      THEN {[phase EXCEPT ![r] = "closed"]} ELSE {})
    /\ UNCHANGED plog

\* the split ends and the next one of r starts from an empty log
End(r) ==
    /\ phase[r] = "closed"
    /\ phase' = [phase EXCEPT ![r] = "normal"]
    /\ plog' = [plog EXCEPT ![r] = <<>>]
    /\ delivered' = [delivered EXCEPT ![r] = <<>>]

ANext ==
    \E r \in Regions :
        \/ Begin(r)
        \/ \E e \in Entries : LogEntry(r, e)
        \/ Ship(r)
        \/ End(r)

\* a started split is eventually shipped, closed and ended
ASpec ==
    /\ AInit /\ [][ANext]_avars
    /\ \A r \in Regions : WF_avars(Ship(r) /\ phase'[r] = "closed")
    /\ \A r \in Regions : WF_avars(End(r))

\* the new region has only ever received a prefix of the split's log
DeliveredIsPrefix ==
    \A r \in Regions : IsPrefix(delivered[r], plog[r])
==============================================================================
