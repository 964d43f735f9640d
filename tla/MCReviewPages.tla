---------------------------- MODULE MCReviewPages ----------------------------
(***************************************************************************)
(* Small instances of ReviewPages for TLC.                                 *)
(***************************************************************************)
EXTENDS ReviewPages

MCFacts ==
  [m \in Ids |-> [has_attachments |-> FALSE, age |-> 9, known_contact |-> FALSE]]

(* Each message from a sender of its own.                                  *)
MCGroupOf == [m \in Ids |-> IF m = 1 THEN "sender1" ELSE "sender2"]

MCRuleSets ==
  {<<[action |-> a, protect |-> FALSE, confirm_with_llm |-> FALSE,
      ephemeral |-> FALSE, on |-> Ids]>> : a \in {"trash", "archive"}}

MCParams ==
  {[trash_confidence |-> 1, archive_confidence |-> 1, llm_only_confidence |-> 1,
    rule_only_trash |-> TRUE, min_age |-> 5, ephemeral_min_age |-> 1]}

MCRuled(action) ==
  WithDecision([FreshRow EXCEPT !.ruled = TRUE, !.rule_action = action],
               Decided(action, "rule"))

MCStartRows ==
  {MCRuled("trash"), MCRuled("archive"),
   [MCRuled("trash") EXCEPT !.review_status = "auto_approved"]}
=============================================================================
