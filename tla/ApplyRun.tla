------------------------------ MODULE ApplyRun ------------------------------
(***************************************************************************)
(* gmail/runner.py as the messages table sees it: what an executing        *)
(* apply_actions run reads from it, once, and what it writes to it.        *)
(*                                                                         *)
(* The run selects the approved rows with the action staged for them, and  *)
(* then settles them: a trash or a skip one row at a time, the archives of *)
(* a batchModify call together.  The updates name the row by its id and    *)
(* nothing else.  A row that ends in an error is left as it is.  A dry run *)
(* never touches the table, so it has no step here.                        *)
(***************************************************************************)
EXTENDS Database

VARIABLE ap_todo    \* per row the run still has to settle, the action it read

applyVars == <<ap_todo>>

NothingToApply == [m \in Ids |-> NULL]
Unsettled == {m \in Ids : ap_todo[m] # NULL}

ApplyTypeOK == ap_todo \in [Ids -> Actionable \cup {NULL}]
ApplyInit == ap_todo = NothingToApply
ApplyIdle == Unsettled = {}

Approved == {m \in Ids : ApprovedActionable(row[m])}

(* apply --limit n keeps the first n rows.                                 *)
ApplyStart(n) ==
  /\ ApplyIdle
  /\ Approved # {}
  /\ ap_todo' = [m \in Ids |-> IF m \in FirstById(Approved, n)
                               THEN row[m].staged_action ELSE NULL]
  /\ UNCHANGED dbVars

Settled(S) == ap_todo' = [m \in Ids |-> IF m \in S THEN NULL ELSE ap_todo[m]]

SetStatusOf(S, status) ==
  row' = [m \in Ids |-> IF m \in S THEN [row[m] EXCEPT !.review_status = status]
                        ELSE row[m]]

(* The rows one Gmail call can act on.                                     *)
OneCall(S) ==
  /\ S # {}
  /\ S \subseteq Unsettled
  /\ Cardinality(S) = 1 \/ \A m \in S : ap_todo[m] = "archive"

ApplySucceed(S) ==
  /\ OneCall(S)
  /\ WriteLockFree
  /\ SetStatusOf(S, "applied")
  /\ Settled(S)
  /\ UNCHANGED <<hits, writer>>

ApplySkip(m) ==
  /\ m \in Unsettled
  /\ WriteLockFree
  /\ SetStatusOf({m}, "skipped")
  /\ Settled({m})
  /\ UNCHANGED <<hits, writer>>

ApplyError(S) ==
  /\ OneCall(S)
  /\ Settled(S)
  /\ UNCHANGED dbVars

ApplyDie ==
  /\ ~ApplyIdle
  /\ ap_todo' = NothingToApply
  /\ UNCHANGED dbVars

ApplyProgress ==
  \/ \E S \in SUBSET Ids : ApplySucceed(S) \/ ApplyError(S)
  \/ \E m \in Ids : ApplySkip(m)

ApplyStep == ApplyProgress \/ ApplyDie
=============================================================================
