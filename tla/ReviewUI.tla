------------------------------ MODULE ReviewUI ------------------------------
(***************************************************************************)
(* review/components.py: what the buttons of the review pages write.  Each *)
(* is one executemany over the ids the page hands it, and one commit.      *)
(***************************************************************************)
EXTENDS Database

(* Mutant: without the guard that the two UPDATEs share.                   *)
MayBecomeAgain(r, status) == status = "approved" => r.staged_action # NULL

(* Approve refuses undecided rows, and both buttons refuse applied ones.   *)
MayBecome(r, status) ==
  /\ r.review_status # "applied"
  /\ status = "approved" => r.staged_action # NULL

SetStatus(ids, status) ==
  /\ WriteLockFree
  /\ row' = [m \in Ids |->
       IF m \in ids /\ MayBecome(row[m], status)
       THEN [row[m] EXCEPT !.review_status = status] ELSE row[m]]
  /\ UNCHANGED <<hits, writer>>

(* set_decision: a human picks the action, which approves it.              *)
SetDecision(ids, action) ==
  /\ WriteLockFree
  /\ row' = [m \in Ids |->
       IF m \in ids /\ row[m].review_status # "applied"
       THEN WithDecision([row[m] EXCEPT !.review_status = "approved"],
                         Decided(action, "human"))
       ELSE row[m]]
  /\ UNCHANGED <<hits, writer>>

UIStep(ids) ==
  \/ \E status \in {"approved", "rejected"} : SetStatus(ids, status)
  \/ \E action \in Actions : SetDecision(ids, action)
=============================================================================
