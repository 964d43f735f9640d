------------------------------- MODULE Models -------------------------------
(***************************************************************************)
(* The vocabulary that every stage of the cleaner shares (models.py and    *)
(* schema.sql): the actions, the sources of a decision, the review         *)
(* statuses, the shape of a row of the messages table and the predicates   *)
(* the stages select rows by.                                              *)
(*                                                                         *)
(* A confidence is an integer on the scale 0..FullConf, FullConf standing  *)
(* for 1.0 and NoConf for a NULL column.  Names, categories, reasons and   *)
(* timestamps are left out: no stage branches on them, except that         *)
(* ruled_at being NULL or not is the Boolean field "ruled".                *)
(***************************************************************************)
EXTENDS Integers

CONSTANT FullConf    \* the confidence that stands for 1.0

ASSUME FullConfAssumption == FullConf \in Nat \ {0}

NULL == "null"
NoConf == -1

Actions == {"keep", "archive", "trash"}
Review == "review"                   \* only ever an LLM verdict
Actionable == {"trash", "archive"}
Sources == {"rule", "llm", "rule+llm", "human"}
Approvable == {"approved", "auto_approved"}
Statuses == Approvable \cup {"pending", "rejected", "applied", "skipped"}

Confidences == 0 .. FullConf

(* What an LLM may answer: any schema-valid EmailClassification.           *)
Classifications ==
  [action : Actions \cup {Review}, confidence : Confidences, ephemeral : BOOLEAN]

Rows ==
  [ruled           : BOOLEAN,
   rule_action     : Actions \cup {NULL},
   rule_protected  : BOOLEAN,
   rule_ephemeral  : BOOLEAN,
   llm_action      : Actions \cup {Review, NULL},
   llm_confidence  : Confidences \cup {NoConf},
   llm_ephemeral   : BOOLEAN,
   staged_action   : Actions \cup {NULL},
   decision_source : Sources \cup {NULL},
   review_status   : Statuses]

(* A row as ingest inserts it: every decision column at its default.       *)
FreshRow ==
  [ruled |-> FALSE, rule_action |-> NULL, rule_protected |-> FALSE,
   rule_ephemeral |-> FALSE, llm_action |-> NULL, llm_confidence |-> NoConf,
   llm_ephemeral |-> FALSE, staged_action |-> NULL, decision_source |-> NULL,
   review_status |-> "pending"]

(* staged_action and decision_source, which every writer sets together.    *)
Decisions == [action : Actions \cup {NULL}, source : Sources \cup {NULL}]
Decided(a, s) == [action |-> a, source |-> s]
Undecided == Decided(NULL, NULL)

WithDecision(r, d) ==
  [r EXCEPT !.staged_action = d.action, !.decision_source = d.source]

(* Mutant: an LLM verdict "review" is staged like the others.              *)
FinalizeAnyVerdict(rule_action, llm_action) ==
  IF rule_action = NULL THEN Decided(llm_action, "llm")
  ELSE IF rule_action = llm_action THEN Decided(rule_action, "rule+llm")
       ELSE Undecided

(* The one place where a rule's verdict and the LLM's are combined.        *)
Finalize(rule_action, llm_action) ==
  IF rule_action = NULL
  THEN IF llm_action = Review THEN Undecided ELSE Decided(llm_action, "llm")
  ELSE IF rule_action = llm_action THEN Decided(rule_action, "rule+llm")
       ELSE Undecided

(* Mutant: undecided rows go to the LLM again.                             *)
AwaitingLLMAgain(r) == r.staged_action = NULL /\ r.ruled

AwaitingLLM(r) == r.staged_action = NULL /\ r.ruled /\ r.llm_action = NULL
NeedsDecision(r) == r.staged_action = NULL /\ r.llm_action # NULL

(* Mutant: a row need not be approved to be acted on.                      *)
Decidedly(r) ==
  r.review_status \in Approvable \cup {"pending"} /\ r.staged_action \in Actionable

ApprovedActionable(r) ==
  r.review_status \in Approvable /\ r.staged_action \in Actionable
=============================================================================
