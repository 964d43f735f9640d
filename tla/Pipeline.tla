------------------------------ MODULE Pipeline ------------------------------
(***************************************************************************)
(* The whole decision pipeline over one database: the rules engine, the    *)
(* classifier, the policy gates, the review UI and the apply runner.       *)
(*                                                                         *)
(* Two switches name what the operator does.  With Overlap, any stage may  *)
(* start, and any button be pressed, while other stages are running, as    *)
(* the long-lived UI allows; without it one stage runs at a time.  With    *)
(* DecideUnruled, rows that the rules have not evaluated are approved,     *)
(* rejected or decided in the UI, which offers every row of the table;     *)
(* without it the operator only acts on ruled rows.  Stages may be         *)
(* interrupted and killed in either case.                                  *)
(***************************************************************************)
EXTENDS RulesEngine, Classifier, Policy, ReviewUI, ApplyRun

CONSTANTS Params,          \* the policy parameters the operator may choose
          Overlap,         \* may stages run side by side?
          DecideUnruled    \* are decisions made on rows not yet ruled?

ASSUME ParamsAssumption == Params \subseteq PolicyParams
ASSUME SwitchesAssumption == Overlap \in BOOLEAN /\ DecideUnruled \in BOOLEAN

vars == <<dbVars, rulesVars, classifyVars, applyVars>>

TypeOK == DatabaseTypeOK /\ RulesTypeOK /\ ClassifyTypeOK /\ ApplyTypeOK

Init == DatabaseInit /\ RulesInit /\ ClassifyInit /\ ApplyInit

-----------------------------------------------------------------------------

Quiet == (\A p \in RulesRuns : RulesIdle(p)) /\ ClassifyIdle /\ ApplyIdle
MayStart == Overlap \/ Quiet

Limits == {1, Cardinality(Ids)}      \* --limit 1, or none

StartRules ==
  /\ MayStart
  /\ \E p \in RulesRuns : RulesStart(p)
  /\ UNCHANGED <<classifyVars, applyVars>>

RunsRules ==
  /\ \E p \in RulesRuns : RulesStep(p)
  /\ UNCHANGED <<classifyVars, applyVars>>

StartClassify ==
  /\ MayStart
  /\ \E n \in Limits : ClassifyStart(n)
  /\ UNCHANGED <<rulesVars, applyVars>>

RunsClassify == ClassifyStep /\ UNCHANGED <<rulesVars, applyVars>>

RunsPolicy ==
  /\ MayStart
  /\ \E q \in Params : ApplyPolicy(q)
  /\ UNCHANGED <<rulesVars, classifyVars, applyVars>>

HumanReviews ==
  /\ MayStart
  /\ \E ids \in SUBSET Ids :
       /\ DecideUnruled \/ \A m \in ids : row[m].ruled
       /\ UIStep(ids)
  /\ UNCHANGED <<rulesVars, classifyVars, applyVars>>

StartApply ==
  /\ MayStart
  /\ \E n \in Limits : ApplyStart(n)
  /\ UNCHANGED <<rulesVars, classifyVars>>

RunsApply == ApplyStep /\ UNCHANGED <<rulesVars, classifyVars>>

Next ==
  \/ StartRules \/ RunsRules
  \/ StartClassify \/ RunsClassify
  \/ RunsPolicy
  \/ HumanReviews
  \/ StartApply \/ RunsApply

Spec == Init /\ [][Next]_vars

-----------------------------------------------------------------------------
(* Fairness.  A stage that runs keeps running: nothing in its loop waits   *)
(* for anything but the LLM, Gmail and the write lock, and all three calls *)
(* end, by an answer or by giving up.  That the operator keeps running     *)
(* "rules" and "classify" is the workflow the README prescribes; nobody    *)
(* has to press a button of the UI.                                        *)

RulesContinue ==
  (\E p \in RulesRuns : RulesProgress(p)) /\ UNCHANGED <<classifyVars, applyVars>>
ClassifyContinue == ClassifyProgress /\ UNCHANGED <<rulesVars, applyVars>>
ApplyContinue == ApplyProgress /\ UNCHANGED <<rulesVars, classifyVars>>

RulesOnNewRows ==
  /\ MayStart
  /\ \E p \in RulesRuns, rs \in RuleSets : RunRules(p, rs)
  /\ UNCHANGED <<classifyVars, applyVars>>

FairSpec ==
  /\ Spec
  /\ WF_vars(RulesContinue) /\ WF_vars(ClassifyContinue) /\ WF_vars(ApplyContinue)
  /\ SF_vars(RulesOnNewRows) /\ SF_vars(StartClassify)

(* What can keep the pipeline from getting anywhere: a reset throws its    *)
(* work away, a killed or interrupted rules or classify run leaves it      *)
(* undone.  A reset that takes nothing from any row is no setback: it is   *)
(* the start of a run like any other.                                      *)
Setback ==
  \/ \E p \in RulesRuns :
       \/ RulesDie(p)
       \/ row' # row /\ \E rs \in RuleSets, full \in BOOLEAN : ResetRules(p, rs, full)
  \/ ClassifyInterrupt \/ ClassifyKill

-----------------------------------------------------------------------------
(* Properties that hold whatever runs beside whatever, and is killed when. *)

(* staged_action and decision_source are NULL together or set together     *)
(* (schema.sql on the two columns): no stage's write of one is ever mixed  *)
(* with another's write of the other.                                      *)
DecidedTogether ==
  \A m \in Ids : row[m].staged_action = NULL <=> row[m].decision_source = NULL

(* A human decision is never in front of the policy gates: they may only   *)
(* take up, or withdraw, what the rules and the LLM decided (policy.py:    *)
(* "the gates only touch 'pending'").  The archive gate does not look at   *)
(* decision_source, so it relies on this.                                  *)
HumanNeverGated ==
  \A m \in Ids : row[m].decision_source = "human" =>
                   row[m].review_status \notin {"pending", "auto_approved"}

(* rule_hits records why the row carries its rule verdict (schema.sql on   *)
(* rule_hits): the recorded winner is the row's rule, a row without a rule *)
(* has no hits, and a row not evaluated has none left over.                *)
HitsExplainVerdict ==
  \A m \in Ids :
    {hit.action : hit \in {h \in hits[m] : h.won}} =
      IF row[m].ruled /\ row[m].rule_action # NULL THEN {row[m].rule_action} ELSE {}

(* The Policy page's preview is what running the gates would leave         *)
(* auto-approved, in whatever state the rows are (policy.py,               *)
(* preview_policy: "cannot drift from what execution would do").           *)
PreviewIsExact ==
  \A q \in Params :
    Preview(q) = {m \in Ids : Gated(Demoted(row[m]), hits[m], Facts[m], q).review_status
                                = "auto_approved"}

(* Nothing ever takes an applied row back, so nothing is applied twice by  *)
(* runs that follow one another (components.py, set_status: "Applied rows  *)
(* are never overwritten").                                                *)
AppliedIsFinal ==
  [][\A m \in Ids : row[m].review_status = "applied" =>
                      row'[m].review_status = "applied"]_vars

LLMVerdict(r) == <<r.llm_action, r.llm_confidence, r.llm_ephemeral>>

(* A message is paid for once: a stored verdict, or failure, is never      *)
(* replaced by another.  Only a full reset takes one away, and only from a *)
(* pending row, together with the rule verdict (engine.py, run_rules).     *)
VerdictPaidOnce ==
  [][\A m \in Ids :
       row[m].llm_action # NULL /\ LLMVerdict(row'[m]) # LLMVerdict(row[m]) =>
         /\ row[m].review_status = "pending"
         /\ row'[m].llm_action = NULL
         /\ ~row'[m].ruled]_vars

-----------------------------------------------------------------------------
(* Properties of the workflow: one stage at a time, decisions on ruled     *)
(* rows.  Stages may still be interrupted, killed and started again.       *)

(* decision_source tells the truth about the verdicts the row carries      *)
(* (models.py, DecisionSource): a rule decided alone, the LLM decided      *)
(* where no rule matched, or both said the same.  What the LLM decided     *)
(* alone is not ephemeral to the trash gate (policy.py: "LLM-only rows     *)
(* always need the full floor: rule_ephemeral is 0 for them").             *)
ProvenanceAgrees ==
  \A m \in Ids : LET r == row[m] IN
    CASE r.decision_source = "rule" -> r.staged_action = r.rule_action
      [] r.decision_source = "llm" ->
           /\ r.rule_action = NULL /\ ~r.rule_ephemeral
           /\ r.staged_action = r.llm_action
      [] r.decision_source = "rule+llm" ->
           r.staged_action = r.rule_action /\ r.staged_action = r.llm_action
      [] OTHER -> TRUE

(* Whatever is auto-approved is still what a gate accepted (policy.py:     *)
(* "the one place auto-approval can happen"): no later reset, rules run or *)
(* classification changes it underneath the approval.                      *)
AutoApprovalIsGated ==
  \A m \in Ids : row[m].review_status = "auto_approved" =>
    \E q \in Params : \/ TrashGate(Demoted(row[m]), hits[m], Facts[m], q)
                      \/ ArchiveGate(Demoted(row[m]), hits[m], Facts[m], q)

(* An approval always approves something (components.py, set_status:       *)
(* approving an undecided row "would be a silent no-op").                  *)
ApprovalHasAction ==
  \A m \in Ids : row[m].review_status = "approved" => row[m].staged_action # NULL

(* A human decision is changed by humans only (engine.py: "human decisions *)
(* ... live on approved rows, which reset (pending-only) never touches").  *)
HumanDecisionStands ==
  [][\A m \in Ids : row[m].decision_source = "human" =>
                      row'[m].decision_source = "human"]_vars

(* No verdict is stranded: unless a rules run was cut short, a row waits   *)
(* for a human only when its rule and the LLM really leave it undecided.   *)
(* (The classifier never looks at such a row again, as its llm_action is   *)
(* set; only the last step of a rules run can decide it.)                  *)
NoStrandedVerdict ==
  (Quiet /\ \A p \in RulesRuns : rr_pc[p] # "dead") =>
    \A m \in Ids : NeedsDecision(row[m]) /\ row[m].ruled =>
                     Finalize(row[m].rule_action, row[m].llm_action) = Undecided

(* Every message ends up ruled, and either decided or in the queue of      *)
(* decisions that wait for a human, also when the LLM fails on it, once    *)
(* the setbacks stop; and this whatever the review status of its row: one  *)
(* approved or rejected before the rules or the LLM reach it is no         *)
(* exception (models.py, AWAITING_LLM_WHERE; engine.py, run_rules).        *)
EveryMessageIsSpokenFor ==
  <>[][~Setback]_vars =>
    <>[](\A m \in Ids : row[m].ruled /\ ~AwaitingLLM(row[m]))

Contract == INSTANCE ReviewContract WITH
  decision <- [m \in Ids |-> Decided(row[m].staged_action, row[m].decision_source)],
  status <- [m \in Ids |-> row[m].review_status]

(* The pipeline keeps the contract between its stages and its user.        *)
KeepsContract == Contract!ContractSpec
=============================================================================
