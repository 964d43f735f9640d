----------------------------- MODULE MCMigration -----------------------------
(***************************************************************************)
(* Small instances of Migration for TLC: the row states of the script's    *)
(* own test, and those v5 has on the way to them.                          *)
(***************************************************************************)
EXTENDS Migration

MCOld(llm, action, source, status) ==
  [llm_action |-> llm, staged_action |-> action, decision_source |-> source,
   review_status |-> status]

MCOldRows ==
  {MCOld("trash", "trash", "rule+llm", "auto_approved"),
   MCOld("keep", Review, "rule+llm", "pending"),
   MCOld("trash", Review, "rule+llm", "approved"),
   MCOld(Review, Review, "llm", "rejected"),
   MCOld("trash", "trash", "rule+llm", "applied"),
   MCOld(NULL, NULL, NULL, "approved")}
=============================================================================
