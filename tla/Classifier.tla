----------------------------- MODULE Classifier -----------------------------
(***************************************************************************)
(* llm/classifier.py: classify_messages, one run at a time.                *)
(*                                                                         *)
(* A run selects the rows that await the LLM once, with the rule verdicts  *)
(* they carry at that moment, and works through them in batches.  The      *)
(* requests of a batch are in flight together; each answer is written when *)
(* it arrives, and only after all answers are in are the requests that     *)
(* failed MAX_ATTEMPTS times recorded as failures.  The batch is one       *)
(* transaction: it begins, and takes the write lock, with the first        *)
(* answer, and is committed at the end of the batch, or by Ctrl-C with     *)
(* whatever has been answered.  How a request is retried is left out: an   *)
(* answer arrives or the request has finally failed.                       *)
(***************************************************************************)
EXTENDS Database

CONSTANTS LLMAnswers,    \* the classifications the LLM may return
          LLMBatch       \* cfg.llm_batch_size

ASSUME LLMAnswersAssumption == LLMAnswers \subseteq Classifications
ASSUME LLMBatchAssumption == LLMBatch \in Nat \ {0}

VARIABLES cl_pc,       \* "idle", "next" (between batches), "batch", "failing"
          cl_todo,     \* rows selected and not yet in a batch
          cl_rule,     \* the rule_action each selected row had at the SELECT
          cl_batch,    \* rows of the current batch without a final result
          cl_result    \* per row, the result written in the open transaction

classifyVars == <<cl_pc, cl_todo, cl_rule, cl_batch, cl_result>>

(* A result is an answer, a failure (the action of neither) or no result.  *)
Failed == "failed"
NoResult == [action |-> NULL, confidence |-> 0, ephemeral |-> FALSE]
Failure == [action |-> Failed, confidence |-> 0, ephemeral |-> FALSE]
Results == Classifications \cup {NoResult, Failure}

ClassifyTypeOK ==
  /\ cl_pc \in {"idle", "next", "batch", "failing"}
  /\ cl_todo \subseteq Ids
  /\ cl_rule \in [Ids -> Actions \cup {NULL}]
  /\ cl_batch \subseteq Ids
  /\ cl_result \in [Ids -> Results]

ClassifyInit ==
  /\ cl_pc = "idle"
  /\ cl_todo = {}
  /\ cl_rule = [m \in Ids |-> NULL]
  /\ cl_batch = {}
  /\ cl_result = [m \in Ids |-> NoResult]

ClassifyIdle == cl_pc = "idle"

(* Mutant: a failed request leaves no trace on its row.                    *)
ClassifiedUnlessFailed(r, rule_action, result) ==
  IF result.action \in {NULL, Failed} THEN r
  ELSE WithDecision([r EXCEPT !.llm_action = result.action,
                              !.llm_confidence = result.confidence,
                              !.llm_ephemeral = result.ephemeral],
                    Finalize(rule_action, result.action))

(* _updates_for and _UPDATE_SQL, or _FAILURE_SQL: what one result writes.  *)
Classified(r, rule_action, result) ==
  CASE result.action = NULL -> r
    [] result.action = Failed ->
         [r EXCEPT !.llm_action = Review, !.llm_confidence = 0]
    [] OTHER ->
         WithDecision([r EXCEPT !.llm_action = result.action,
                                !.llm_confidence = result.confidence,
                                !.llm_ephemeral = result.ephemeral],
                      Finalize(rule_action, result.action))

(* Mutant: rows that are reviewed already are passed over.                 *)
AwaitingPending == {m \in Ids : AwaitingLLM(row[m]) /\ row[m].review_status = "pending"}

Awaiting == {m \in Ids : AwaitingLLM(row[m])}

-----------------------------------------------------------------------------
(* classify --limit n keeps the first n rows.                              *)
ClassifyStart(n) ==
  /\ ClassifyIdle
  /\ Awaiting # {}
  /\ cl_todo' = FirstById(Awaiting, n)
  /\ cl_rule' = [m \in Ids |-> IF m \in cl_todo' THEN row[m].rule_action ELSE NULL]
  /\ cl_pc' = "next"
  /\ UNCHANGED <<cl_batch, cl_result>>
  /\ UNCHANGED dbVars

NextBatch ==
  /\ cl_pc = "next"
  /\ cl_todo # {}
  /\ cl_batch' = FirstById(cl_todo, LLMBatch)
  /\ cl_todo' = cl_todo \ cl_batch'
  /\ cl_pc' = "batch"
  /\ UNCHANGED <<cl_rule, cl_result>>
  /\ UNCHANGED dbVars

(* Write a final result of row m: the first one takes the write lock.      *)
Record(m, result) ==
  /\ cl_batch' = cl_batch \ {m}
  /\ cl_result' = [cl_result EXCEPT ![m] = result]
  /\ writer' = Classifier
  /\ UNCHANGED <<row, hits, cl_todo, cl_rule>>

LLMAnswered(m, answer) ==
  /\ cl_pc = "batch"
  /\ m \in cl_batch
  /\ Record(m, answer)
  /\ UNCHANGED cl_pc

LLMGaveUp(m) ==
  /\ cl_pc \in {"batch", "failing"}
  /\ m \in cl_batch
  /\ Record(m, Failure)
  /\ cl_pc' = "failing"

CommitResults ==
  /\ row' = [m \in Ids |-> Classified(row[m], cl_rule[m], cl_result[m])]
  /\ cl_result' = [m \in Ids |-> NoResult]
  /\ writer' = NULL
  /\ UNCHANGED hits

BatchDone ==
  /\ cl_pc \in {"batch", "failing"}
  /\ cl_batch = {}
  /\ CommitResults
  /\ cl_pc' = "next"
  /\ cl_rule' = [m \in Ids |-> IF m \in cl_todo THEN cl_rule[m] ELSE NULL]
  /\ UNCHANGED <<cl_todo, cl_batch>>

ClassifyForget ==
  /\ cl_pc' = "idle"
  /\ cl_todo' = {}
  /\ cl_batch' = {}
  /\ cl_rule' = [m \in Ids |-> NULL]

ClassifyDone ==
  /\ cl_pc = "next"
  /\ cl_todo = {}
  /\ ClassifyForget
  /\ UNCHANGED cl_result
  /\ UNCHANGED dbVars

(* Ctrl-C mid-batch keeps what finished ...                                *)
ClassifyInterrupt ==
  /\ cl_pc \in {"batch", "failing"}
  /\ ClassifyForget
  /\ CommitResults

(* ... but a killed process loses its open transaction.  (Once the last    *)
(* batch is committed there is nothing left to lose.)                      *)
ClassifyKill ==
  /\ cl_pc \in {"batch", "failing"} \/ (cl_pc = "next" /\ cl_todo # {})
  /\ ClassifyForget
  /\ cl_result' = [m \in Ids |-> NoResult]
  /\ writer' = NULL
  /\ UNCHANGED <<row, hits>>

ClassifyProgress ==
  \/ NextBatch
  \/ \E m \in Ids : LLMGaveUp(m) \/ \E answer \in LLMAnswers : LLMAnswered(m, answer)
  \/ BatchDone
  \/ ClassifyDone

ClassifyStep == ClassifyProgress \/ ClassifyInterrupt \/ ClassifyKill
=============================================================================
