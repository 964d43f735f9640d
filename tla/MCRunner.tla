------------------------------ MODULE MCRunner ------------------------------
(***************************************************************************)
(* Small instances of Runner for TLC.                                      *)
(***************************************************************************)
EXTENDS Runner

MCFacts ==
  [m \in Ids |-> [has_attachments |-> FALSE, age |-> 9, known_contact |-> FALSE]]

MCLiveOf == [m \in Ids |-> m]
MCMails == {MCLiveOf[m] : m \in Ids}

(* Rows the UI has approved for either action.                             *)
MCQueued ==
  {[WithDecision(FreshRow, Decided(a, "human")) EXCEPT
      !.ruled = TRUE, !.review_status = "approved"] : a \in Actionable}
=============================================================================
