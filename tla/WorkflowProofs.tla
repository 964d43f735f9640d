--------------------------- MODULE WorkflowProofs ---------------------------
(***************************************************************************)
(* Proofs about the workflow that the README of the cleaner prescribes:    *)
(* one stage at a time, and decisions on ruled rows only, for every set of *)
(* messages, rule sets, answers, policy parameters and batch sizes, and    *)
(* with stages interrupted and killed anywhere.                            *)
(*                                                                         *)
(* The invariant says of each row that its decision comes from the         *)
(* verdicts it carries, and of each stage that what it has read is still   *)
(* so: that is what overlapping stages lose.                               *)
(***************************************************************************)
EXTENDS VerdictProofs

(* A row on its own: what is past review has a decision, an unruled row    *)
(* has not been touched, and the source of a decision tells the truth.     *)
Lawful(r) ==
  /\ r.review_status \notin {"pending", "rejected"} => r.staged_action # NULL
  /\ ~r.ruled => r.review_status = "pending" /\ r.staged_action = NULL
  /\ r.decision_source = "rule" => r.staged_action = r.rule_action
  /\ r.decision_source = "llm" => r.rule_action = NULL /\ r.staged_action = r.llm_action
  /\ r.decision_source = "rule+llm" =>
       r.staged_action = r.rule_action /\ r.staged_action = r.llm_action

OneStage ==
  /\ \A p, q \in RulesRuns : ~RulesIdle(p) /\ ~RulesIdle(q) => p = q
  /\ (\E p \in RulesRuns : ~RulesIdle(p)) => ClassifyIdle /\ ApplyIdle
  /\ ClassifyIdle \/ ApplyIdle

(* What the stages have read still holds.                                  *)
LawfulPlans ==
  \A p \in RulesRuns :
    /\ rr_pc[p] # "merge" => rr_plan[p] = NoPlan
    /\ \A m \in Ids : rr_plan[p][m].action # NULL =>
         /\ Mergeable(row[m])
         /\ rr_plan[p][m] = Finalize(row[m].rule_action, row[m].llm_action)
LawfulWork ==
  \A m \in Ids : InWork(m) => AwaitingLLM(row[m]) /\ cl_rule[m] = row[m].rule_action
LawfulTodo == \A m \in Unsettled : ApprovedActionable(row[m])

(* A row whose verdicts decide it, undecided, where nobody looks again.    *)
Stranded(r) ==
  NeedsDecision(r) /\ r.ruled /\ Finalize(r.rule_action, r.llm_action) # Undecided

NothingStranded ==
  /\ (\A p \in RulesRuns : rr_pc[p] = "idle") => \A m \in Ids : ~Stranded(row[m])
  /\ \A p \in RulesRuns : rr_pc[p] = "merge" =>
       \A m \in Ids : Stranded(row[m]) => rr_plan[p][m].action # NULL

WInv ==
  /\ OneStage /\ SoundChunks /\ LawfulPlans /\ LawfulWork /\ LawfulTodo
  /\ NothingStranded /\ AutoApprovalIsGated
  /\ \A m \in Ids : Lawful(row[m])

(* What a step does to a row, ...                                          *)
Obeys(m) ==
  /\ Lawful(row'[m])
  /\ Contract!ContractStep(m)
  /\ row[m].decision_source = "human" => row'[m].decision_source = "human"

(* ... and, but for the gates, to an automatic approval, which is nothing. *)
AutoKept(m) ==
  row'[m].review_status = "auto_approved" => row'[m] = row[m] /\ hits'[m] = hits[m]

-----------------------------------------------------------------------------
(* The contract, read off the row.                                         *)

SameDecision(r, s) ==
  s.staged_action = r.staged_action /\ s.decision_source = r.decision_source

(* The rules and the LLM may write what nobody has approved.               *)
LEMMA StageMay ==
  ASSUME NEW m \in Ids,
         \/ row[m].review_status = "pending"
         \/ /\ row[m].review_status = "rejected"
            /\ row[m].staged_action = NULL /\ row[m].decision_source = NULL,
         row'[m].review_status = row[m].review_status,
         row'[m].decision_source # "human"
  PROVE  Contract!ContractStep(m)
  BY DEF Contract!ContractStep, Contract!StageDecides, Contract!Is, Contract!HumanDecision,
         Contract!Undecided, Contract!Decided, Contract!NULL, Decided, NULL

(* The gates may approve what the stages decided, or withdraw that.        *)
LEMMA GatesMay ==
  ASSUME NEW m \in Ids, SameDecision(row[m], row'[m]),
         \/ /\ row[m].review_status = "pending" /\ row'[m].review_status = "auto_approved"
            /\ row[m].staged_action \in Actionable
            /\ row[m].decision_source \notin {"human", NULL}
         \/ row[m].review_status = "auto_approved" /\ row'[m].review_status = "pending"
         \/ row'[m].review_status = row[m].review_status
  PROVE  Contract!ContractStep(m)
  BY DEF Contract!ContractStep, Contract!GateApproves, Contract!GateWithdraws,
         Contract!Is, Contract!Becomes, Contract!SameDecision, SameDecision,
         Contract!Actionable, Actionable, Contract!NULL, NULL, Decided

(* Humans may approve decisions, reject, and decide.                       *)
LEMMA HumansMay ==
  ASSUME NEW m \in Ids, row[m].review_status # "applied",
         \/ /\ SameDecision(row[m], row'[m])
            /\ \/ row'[m].review_status = "rejected"
               \/ row'[m].review_status = "approved" /\ row[m].staged_action # NULL
         \/ /\ row'[m].review_status = "approved" /\ row'[m].decision_source = "human"
            /\ row'[m].staged_action \in Actions
  PROVE  Contract!ContractStep(m)
  BY DEF Contract!ContractStep, Contract!HumanApproves, Contract!HumanRejects,
         Contract!HumanDecides, Contract!HumanDecision, Contract!Is, Contract!Becomes,
         Contract!SameDecision, SameDecision, Contract!Undecided, Contract!Decided,
         Contract!Actions, Actions, Contract!NULL, NULL, Decided

(* The runner may settle what is approved and actionable.                  *)
LEMMA RunnerMay ==
  ASSUME NEW m \in Ids, SameDecision(row[m], row'[m]), ApprovedActionable(row[m]),
         row'[m].review_status \in {"applied", "skipped"}
  PROVE  Contract!ContractStep(m)
  BY DEF Contract!ContractStep, Contract!RunnerSettles, Contract!Becomes,
         Contract!SameDecision, SameDecision, ApprovedActionable, Approvable, Actionable,
         Contract!Approvable, Contract!Actionable, Decided

(* A row that is left as it is obeys.                                      *)
LEMMA UnchangedObeys ==
  ASSUME NEW m \in Ids, Lawful(row[m]), row'[m] = row[m]
  PROVE  Obeys(m)
  BY DEF Obeys, Contract!ContractStep, Contract!SameDecision, Decided

-----------------------------------------------------------------------------
(* The rules.                                                              *)

(* A decision of Finalize is explained by its arguments, and it decides    *)
(* unless it withdraws both columns.                                       *)
LEMMA FinalizeTellsTheTruth ==
  ASSUME NEW ra \in Actions \cup {NULL}, NEW la \in Actions \cup {Review}
  PROVE  LET d == Finalize(ra, la) IN
           /\ d.source \in {NULL, "llm", "rule+llm"}
           /\ d.source = "llm" => ra = NULL /\ d.action = la
           /\ d.source = "rule+llm" => d.action = ra /\ d.action = la
           /\ d.action = NULL <=> d.source = NULL
           /\ d.action = NULL <=> d = Undecided
           /\ la = Review => d = Undecided
  BY DEF Finalize, Undecided, Decided, Actions, NULL, Review

(* An undecided row is pending or rejected, and has no source.             *)
LEMMA UndecidedRow ==
  ASSUME NEW r, SoundRow(r), Lawful(r), r.staged_action = NULL
  PROVE  r.review_status \in {"pending", "rejected"} /\ r.decision_source = NULL
  BY DEF SoundRow, Lawful

(* The rows, under each step of a rules run that has the stage to itself.  *)
LEMMA RulesObey ==
  ASSUME IInv, WInv, NEW p \in RulesRuns, RulesStart(p) \/ RulesStep(p), NEW m \in Ids
  PROVE  Obeys(m) /\ AutoKept(m)
<1> DEFINE r == row[m]
           s == row'[m]
<1>1. SoundRow(r) /\ Lawful(r) /\ r \in Rows
  BY DEF IInv, WInv, SoundRows, SoundRow
<1>2. CASE UNCHANGED dbVars
  BY <1>1, <1>2, UnchangedObeys DEF dbVars, AutoKept
<1>3. ASSUME NEW rs \in RuleSets, NEW full \in BOOLEAN, ResetRules(p, rs, full)
      PROVE  Obeys(m) /\ AutoKept(m)
  <2>1. CASE Resettable(r)
    <3>1. s = Reset(r, full)
      BY <1>3, <2>1 DEF ResetRules
    <3>2. /\ ~s.ruled /\ s.staged_action = NULL /\ s.decision_source = NULL
          /\ s.review_status = "pending" /\ r.review_status = "pending"
      BY <1>1, <2>1, <3>1, ResetColumns DEF Resettable
    <3>3. Lawful(s)
      BY <3>2 DEF Lawful, NULL
    <3>4. r.decision_source # "human"
      BY <1>1, <3>2 DEF SoundRow
    <3>5. Contract!ContractStep(m)
      BY <3>2, StageMay DEF NULL
    <3> QED
      BY <3>2, <3>3, <3>4, <3>5 DEF Obeys, AutoKept
  <2>2. CASE ~Resettable(r)
    BY <1>1, <1>3, <2>2, UnchangedObeys DEF ResetRules, AutoKept
  <2> QED
    BY <2>1, <2>2
<1>4. ASSUME WriteChunk(p) PROVE Obeys(m) /\ AutoKept(m)
  <2>1. CASE m \in rr_chunk[p]
    <3>1. s = Evaluated(r, rr_set[p], m) /\ ~r.ruled
      BY <1>4, <2>1 DEF WriteChunk, WInv, SoundChunks
    <3>2. r.review_status = "pending" /\ r.staged_action = NULL /\ r.decision_source = NULL
      BY <1>1, <3>1 DEF Lawful, SoundRow
    <3>3. rr_set[p] \in Seq(Rules)
      BY RuleSetOfRun
    <3>4. /\ s.ruled /\ s.review_status = "pending"
          /\ \/ s.staged_action = NULL /\ s.decision_source = NULL
             \/ s.staged_action = s.rule_action /\ s.decision_source = "rule"
      BY <1>1, <3>1, <3>2, <3>3, EvaluatedColumns
    <3>5. Lawful(s) /\ s.decision_source # "human"
      BY <3>4 DEF Lawful, NULL
    <3>6. Contract!ContractStep(m)
      BY <3>2, <3>4, <3>5, StageMay
    <3> QED
      BY <3>2, <3>4, <3>5, <3>6 DEF Obeys, AutoKept, NULL
  <2>2. CASE m \notin rr_chunk[p]
    BY <1>1, <1>4, <2>2, UnchangedObeys DEF WriteChunk, AutoKept
  <2> QED
    BY <2>1, <2>2
<1>5. ASSUME WriteStored(p) PROVE Obeys(m) /\ AutoKept(m)
  <2>1. CASE rr_plan[p][m].action # NULL
    <3> DEFINE d == Finalize(r.rule_action, r.llm_action)
    <3>1. s = WithDecision(r, rr_plan[p][m])
      BY <1>5, <2>1 DEF WriteStored
    <3>2. rr_plan[p][m] = d /\ d.action # NULL /\ Mergeable(r)
      BY <2>1 DEF WInv, LawfulPlans
    <3>3. r.rule_action \in Actions \cup {NULL} /\ r.llm_action \in Actions \cup {Review}
      BY <1>1, <3>2 DEF Mergeable, NeedsDecision, Rows
    <3>4. /\ s.ruled = r.ruled /\ s.rule_action = r.rule_action /\ s.llm_action = r.llm_action
          /\ s.review_status = r.review_status
          /\ s.staged_action = d.action /\ s.decision_source = d.source
      <4> HIDE DEF d
      <4> QED
        BY <1>1, <3>1, <3>2, WithDecisionColumns
    <3>5. Lawful(s) /\ s.decision_source # "human"
      <4>1. /\ d.source \in {NULL, "llm", "rule+llm"}
            /\ d.source = "llm" => r.rule_action = NULL /\ d.action = r.llm_action
            /\ d.source = "rule+llm" => d.action = r.rule_action /\ d.action = r.llm_action
        BY <3>3, FinalizeTellsTheTruth
      <4> HIDE DEF d
      <4> QED
        BY <3>2, <3>4, <4>1 DEF Lawful, Mergeable, NULL
    <3>6. /\ r.review_status \in {"pending", "rejected"}
          /\ r.staged_action = NULL /\ r.decision_source = NULL
      BY <1>1, <3>2, UndecidedRow DEF Mergeable, NeedsDecision
    <3>7. Contract!ContractStep(m)
      BY <3>4, <3>5, <3>6, StageMay
    <3> QED
      BY <3>4, <3>5, <3>6, <3>7 DEF Obeys, AutoKept, NULL
  <2>2. CASE rr_plan[p][m].action = NULL
    BY <1>1, <1>5, <2>2, UnchangedObeys DEF WriteStored, AutoKept
  <2> QED
    BY <2>1, <2>2
<1> QED
  BY <1>2, <1>3, <1>4, <1>5
     DEF RulesStart, RulesStep, RulesProgress, RunRules, SelectChunk, SelectStored, RulesDie

(* The plans of a run are made of the verdicts the rows carry, and miss no *)
(* row that they decide.                                                   *)
LEMMA RulesPlan ==
  ASSUME IInv, WInv, NEW p \in RulesRuns, RulesStart(p) \/ RulesStep(p),
         \A q \in RulesRuns \ {p} : RulesIdle(q)
  PROVE  LawfulPlans' /\ NothingStranded'
<1> DEFINE Goal == LawfulPlans' /\ NothingStranded'
<1>1. /\ rr_pc \in [RulesRuns -> {"idle", "select", "chunk", "finalize", "merge", "dead"}]
      /\ rr_plan \in [RulesRuns -> [Ids -> Decisions]]
  BY DEF IInv, TypeOK, RulesTypeOK
<1>2. \A q \in RulesRuns \ {p} :
        /\ rr_pc[q] # "merge" /\ rr_plan[q] = NoPlan
        /\ rr_pc'[q] = rr_pc[q] /\ rr_plan'[q] = rr_plan[q]
  <2>1. \A q \in RulesRuns \ {p} : rr_pc[q] # "merge" /\ rr_plan[q] = NoPlan
    BY DEF RulesIdle, WInv, LawfulPlans
  <2>2. \E c, d : /\ rr_pc' = [rr_pc EXCEPT ![p] = c]
                  /\ rr_plan' = [rr_plan EXCEPT ![p] = d]
    <3>1. rr_plan = [rr_plan EXCEPT ![p] = rr_plan[p]]
      BY <1>1
    <3> QED
      BY <3>1 DEF RulesStart, RulesStep, RulesProgress, RunRules, ResetRules, SelectChunk,
         WriteChunk, SelectStored, WriteStored, RulesDie
  <2> QED
    BY <1>1, <2>1, <2>2
<1>3. \A m \in Ids : NoPlan[m].action = NULL
  BY DEF NoPlan, Undecided, Decided
<1>4. ASSUME rr_pc'[p] \notin {"idle", "merge"}, rr_plan'[p] = NoPlan PROVE Goal
  BY <1>2, <1>3, <1>4 DEF LawfulPlans, NothingStranded
<1>5. ASSUME \/ \E rs \in RuleSets :
                  RunRules(p, rs) \/ \E full \in BOOLEAN : ResetRules(p, rs, full)
             \/ SelectChunk(p) \/ WriteChunk(p) \/ RulesDie(p)
      PROVE  Goal
  <2>1. rr_pc'[p] \notin {"idle", "merge"}
    BY <1>1, <1>5 DEF RunRules, ResetRules, SelectChunk, WriteChunk, RulesDie
  <2>2. rr_plan'[p] = NoPlan
    <3>1. RulesDie(p) \/ (rr_pc[p] # "merge" /\ rr_plan' = rr_plan)
      BY <1>1, <1>5
         DEF RunRules, ResetRules, SelectChunk, WriteChunk, RulesDie, RulesIdle
    <3> QED
      BY <1>1, <3>1 DEF RulesDie, WInv, LawfulPlans
  <2> QED
    BY <1>4, <2>1, <2>2
<1>6. ASSUME SelectStored(p) PROVE Goal
  <2> DEFINE plan == [m \in Ids |->
                       IF Mergeable(row[m])
                       THEN Finalize(row[m].rule_action, row[m].llm_action)
                       ELSE Undecided]
  <2>1. /\ rr_plan'[p] = plan /\ row' = row
        /\ rr_pc'[p] = IF plan = NoPlan THEN "idle" ELSE "merge"
    BY <1>1, <1>6 DEF SelectStored, dbVars
  <2>2. ASSUME NEW m \in Ids
        PROVE  /\ plan[m].action # NULL => /\ Mergeable(row[m])
                                           /\ plan[m] = Finalize(row[m].rule_action,
                                                                 row[m].llm_action)
               /\ Stranded(row[m]) => plan[m].action # NULL
    <3>1. Undecided.action = NULL
      BY DEF Undecided, Decided
    <3>2. CASE Mergeable(row[m])
      <4>1. /\ row[m].rule_action \in Actions \cup {NULL}
            /\ row[m].llm_action \in Actions \cup {Review}
        BY <3>2 DEF IInv, TypeOK, DatabaseTypeOK, Rows, Mergeable, NeedsDecision
      <4>2. plan[m] = Finalize(row[m].rule_action, row[m].llm_action)
        BY <3>2
      <4>3. Finalize(row[m].rule_action, row[m].llm_action) # Undecided =>
              Finalize(row[m].rule_action, row[m].llm_action).action # NULL
        BY <4>1, FinalizeTellsTheTruth
      <4> HIDE DEF plan
      <4> QED
        BY <3>2, <4>2, <4>3 DEF Stranded
    <3>3. CASE ~Mergeable(row[m])
      <4>1. plan[m] = Undecided
        BY <3>3
      <4> HIDE DEF plan
      <4> QED
        BY <3>1, <3>3, <4>1 DEF Stranded, Mergeable
    <3> QED
      BY <3>2, <3>3
  <2> HIDE DEF plan
  <2> QED
    BY <1>2, <1>3, <2>1, <2>2 DEF LawfulPlans, NothingStranded
<1>7. ASSUME WriteStored(p) PROVE Goal
  <2>1. rr_pc[p] = "merge" /\ rr_pc'[p] = "idle" /\ rr_plan'[p] = NoPlan
    BY <1>1, <1>7 DEF WriteStored
  <2>2. ASSUME NEW m \in Ids, Stranded(row'[m]) PROVE FALSE
    <3>1. CASE rr_plan[p][m].action # NULL
      <4>1. row'[m] = WithDecision(row[m], rr_plan[p][m]) /\ row[m] \in Rows
        BY <1>7, <3>1 DEF WriteStored, IInv, TypeOK, DatabaseTypeOK
      <4>2. row'[m].staged_action = rr_plan[p][m].action
        BY <4>1, WithDecisionColumns
      <4> QED
        BY <2>2, <3>1, <4>2 DEF Stranded, NeedsDecision
    <3>2. CASE rr_plan[p][m].action = NULL
      <4>1. row'[m] = row[m]
        BY <1>7, <3>2 DEF WriteStored
      <4> QED
        BY <2>1, <2>2, <3>2, <4>1 DEF WInv, NothingStranded
    <3> QED
      BY <3>1, <3>2
  <2> QED
    BY <1>2, <1>3, <2>1, <2>2 DEF LawfulPlans, NothingStranded
<1> QED
  BY <1>5, <1>6, <1>7 DEF RulesStart, RulesStep, RulesProgress

(* While no rules run is active, others strand nothing if they leave no    *)
(* row stranded that was not.                                              *)
LEMMA RulesAtRest ==
  ASSUME IInv, WInv, \A p \in RulesRuns : RulesIdle(p), UNCHANGED rulesVars,
         \A m \in Ids : Stranded(row'[m]) => Stranded(row[m])
  PROVE  SoundChunks' /\ LawfulPlans' /\ NothingStranded'
<1>1. \A p \in RulesRuns : rr_pc[p] \notin {"chunk", "merge"}
  BY DEF RulesIdle
<1>2. \A p \in RulesRuns : rr_chunk[p] = {} /\ rr_plan[p] = NoPlan
  BY <1>1 DEF WInv, SoundChunks, LawfulPlans
<1>3. \A m \in Ids : NoPlan[m].action = NULL
  BY DEF NoPlan, Undecided, Decided
<1> QED
  BY <1>1, <1>2, <1>3 DEF WInv, SoundChunks, LawfulPlans, NothingStranded, rulesVars

(* Approvals that nobody touches remain gated.                             *)
LEMMA ApprovalsKeptStayGated ==
  ASSUME AutoApprovalIsGated, \A m \in Ids : AutoKept(m)
  PROVE  AutoApprovalIsGated'
  BY DEF AutoApprovalIsGated, AutoKept

(* The classifier, when it has nothing in hand.                            *)
LEMMA ClassifierAtRest ==
  ASSUME SoundWork, ClassifyIdle, UNCHANGED classifyVars
  PROVE  ClassifyIdle' /\ LawfulWork'
<1>1. cl_todo = {} /\ cl_batch = {} /\ \A m \in Ids : cl_result[m].action = NULL
  BY DEF SoundWork, ClassifyIdle, NoResult
<1> QED
  BY <1>1 DEF ClassifyIdle, LawfulWork, InWork, classifyVars

(* The runner likewise.                                                    *)
LEMMA RunnerAtRest ==
  ASSUME ApplyIdle, UNCHANGED applyVars
  PROVE  ApplyIdle' /\ LawfulTodo'
  BY DEF ApplyIdle, LawfulTodo, Unsettled, applyVars

(* A step of the rules, in all.                                            *)
LEMMA RulesKeepLaw ==
  ASSUME IInv, SoundWork, WInv, NEW p \in RulesRuns, RulesStart(p) \/ RulesStep(p),
         \A q \in RulesRuns \ {p} : RulesIdle(q), ClassifyIdle, ApplyIdle,
         UNCHANGED <<classifyVars, applyVars>>
  PROVE  WInv' /\ \A m \in Ids : Obeys(m)
<1>1. \A m \in Ids : Obeys(m) /\ AutoKept(m)
  BY RulesObey
<1>2. LawfulPlans' /\ NothingStranded'
  BY RulesPlan
<1>3. SoundChunks'
  BY ChunksKeep DEF WInv
<1>4. ClassifyIdle' /\ LawfulWork' /\ ApplyIdle' /\ LawfulTodo'
  BY ClassifierAtRest, RunnerAtRest
<1>5. OneStage'
  <2>1. \A q \in RulesRuns \ {p} : rr_pc'[q] = rr_pc[q]
    BY DEF IInv, TypeOK, RulesTypeOK, RulesStart, RulesStep, RulesProgress, RunRules,
       ResetRules, SelectChunk, WriteChunk, SelectStored, WriteStored, RulesDie
  <2>2. \A q \in RulesRuns \ {p} : RulesIdle(q)'
    BY <2>1 DEF RulesIdle
  <2> QED
    BY <1>4, <2>2 DEF OneStage
<1>6. AutoApprovalIsGated'
  BY <1>1, ApprovalsKeptStayGated DEF WInv
<1> QED
  BY <1>1, <1>2, <1>3, <1>4, <1>5, <1>6 DEF WInv, Obeys

-----------------------------------------------------------------------------
(* The classifier.                                                         *)

(* What it commits: the rows have not changed since they were selected.    *)
LEMMA CommitObeys ==
  ASSUME IInv, WInv, CommitResults, NEW m \in Ids
  PROVE  /\ Obeys(m) /\ AutoKept(m)
         /\ Stranded(row'[m]) => Stranded(row[m])
<1> DEFINE r == row[m]
           s == row'[m]
           a == cl_result[m].action
<1>1. SoundRow(r) /\ Lawful(r) /\ r \in Rows
  BY DEF IInv, WInv, SoundRows, SoundRow
<1>2. s = Classified(r, cl_rule[m], cl_result[m]) /\ cl_result[m] \in Results /\ hits' = hits
  BY DEF CommitResults, IInv, TypeOK, ClassifyTypeOK
<1>3. /\ s.ruled = r.ruled /\ s.rule_action = r.rule_action
      /\ s.review_status = r.review_status
      /\ a = NULL => s = r
      /\ a = Failed => /\ s.llm_action = Review /\ s.staged_action = r.staged_action
                       /\ s.decision_source = r.decision_source
      /\ a \notin {NULL, Failed} => /\ s.llm_action = a
                                    /\ s.staged_action = Finalize(cl_rule[m], a).action
                                    /\ s.decision_source = Finalize(cl_rule[m], a).source
  BY <1>1, <1>2, ClassifiedColumns
<1>4. r.rule_action \in Actions \cup {NULL}
  BY <1>1 DEF Rows
<1>5. CASE a = NULL
  BY <1>1, <1>2, <1>3, <1>5, UnchangedObeys DEF AutoKept
<1>6. ASSUME a # NULL PROVE /\ r.staged_action = NULL /\ r.ruled
                            /\ r.review_status \in {"pending", "rejected"}
                            /\ r.decision_source = NULL /\ cl_rule[m] = r.rule_action
  BY <1>1, <1>6, UndecidedRow DEF WInv, LawfulWork, InWork, AwaitingLLM
<1>7. CASE a = Failed
  <2>1. a # NULL
    BY <1>7 DEF Failed, NULL
  <2>2. Lawful(s) /\ s.decision_source = NULL
    BY <1>3, <1>6, <1>7, <2>1 DEF Lawful, NULL
  <2>3. Contract!ContractStep(m)
    BY <1>3, <1>6, <2>1, <2>2, StageMay DEF NULL
  <2>4. ~Stranded(s)
    <3>1. Finalize(r.rule_action, Review) = Undecided
      BY <1>4, FinalizeTellsTheTruth
    <3> QED
      BY <1>3, <1>7, <3>1 DEF Stranded
  <2> QED
    BY <1>3, <1>6, <2>1, <2>2, <2>3, <2>4 DEF Obeys, AutoKept, NULL
<1>8. CASE a \notin {NULL, Failed}
  <2> DEFINE d == Finalize(cl_rule[m], a)
  <2>1. a \in Actions \cup {Review}
    BY <1>2, <1>8 DEF Results, Classifications, NoResult, Failure
  <2>2. /\ d.source \in {NULL, "llm", "rule+llm"}
        /\ d.source = "llm" => r.rule_action = NULL /\ d.action = a
        /\ d.source = "rule+llm" => d.action = r.rule_action /\ d.action = a
        /\ d.action = NULL <=> d.source = NULL
        /\ d.action = NULL <=> d = Undecided
    BY <1>4, <1>6, <1>8, <2>1, FinalizeTellsTheTruth
  <2>3. /\ s.llm_action = a /\ s.staged_action = d.action /\ s.decision_source = d.source
        /\ d = Finalize(s.rule_action, s.llm_action)
    BY <1>3, <1>6, <1>8
  <2> HIDE DEF d
  <2>4. Lawful(s) /\ s.decision_source # "human"
    BY <1>3, <1>6, <1>8, <2>2, <2>3 DEF Lawful, NULL
  <2>5. Contract!ContractStep(m)
    BY <1>3, <1>6, <1>8, <2>4, StageMay
  <2>6. ~Stranded(s)
    BY <2>2, <2>3 DEF Stranded, NeedsDecision
  <2> QED
    BY <1>3, <1>6, <1>8, <2>4, <2>5, <2>6 DEF Obeys, AutoKept, NULL
<1> QED
  BY <1>5, <1>7, <1>8

(* What it has in hand is as it was selected.                              *)
LEMMA WorkStaysLawful ==
  ASSUME IInv, SoundWork, WInv, (\E n \in Limits : ClassifyStart(n)) \/ ClassifyStep
  PROVE  LawfulWork'
<1> USE DEF dbVars
<1>0. /\ cl_todo \subseteq Ids /\ cl_batch \subseteq Ids /\ cl_result \in [Ids -> Results]
      /\ \A S, n : FirstById(S, n) \subseteq S
      /\ NoResult.action = NULL
  BY DEF IInv, TypeOK, ClassifyTypeOK, FirstById, NoResult
<1>1. ASSUME NEW n, ClassifyStart(n) PROVE LawfulWork'
  <2>1. \A m \in Ids : cl_result'[m].action = NULL /\ m \notin cl_batch'
    BY <1>0, <1>1 DEF ClassifyStart, ClassifyIdle, SoundWork
  <2>2. \A m \in cl_todo' : AwaitingLLM(row[m])
    BY <1>0, <1>1 DEF ClassifyStart, Awaiting
  <2>3. row' = row /\ \A m \in Ids : m \in cl_todo' => cl_rule'[m] = row[m].rule_action
    BY <1>1 DEF ClassifyStart
  <2> QED
    BY <2>1, <2>2, <2>3 DEF LawfulWork, InWork
<1>2. ASSUME NextBatch PROVE LawfulWork'
  BY <1>0, <1>2 DEF NextBatch, WInv, LawfulWork, InWork
<1>3. ASSUME NEW m \in Ids, NEW result, Record(m, result), m \in cl_batch
      PROVE  LawfulWork'
  BY <1>0, <1>3 DEF Record, WInv, LawfulWork, InWork
<1>4. ASSUME BatchDone PROVE LawfulWork'
  <2>1. CommitResults /\ cl_batch' = {} /\ cl_todo' = cl_todo
        /\ \A m \in Ids : m \in cl_todo => cl_rule'[m] = cl_rule[m]
    BY <1>4 DEF BatchDone
  <2>2. \A m \in Ids : cl_result'[m].action = NULL
    BY <1>0, <2>1 DEF CommitResults
  <2>3. \A m \in cl_todo : row'[m] = row[m]
    BY <1>0, <2>1, CommitPays DEF SoundWork
  <2> QED
    BY <2>1, <2>2, <2>3 DEF WInv, LawfulWork, InWork
<1>5. ASSUME ClassifyForget, \A m \in Ids : cl_result'[m].action = NULL
      PROVE  LawfulWork'
  BY <1>5 DEF ClassifyForget, LawfulWork, InWork
<1>6. ASSUME ClassifyDone \/ ClassifyInterrupt \/ ClassifyKill
      PROVE  LawfulWork'
  <2>1. \A m \in Ids : cl_result'[m].action = NULL
    BY <1>0, <1>6
       DEF ClassifyDone, ClassifyInterrupt, ClassifyKill, CommitResults, SoundWork
  <2> QED
    BY <1>5, <1>6, <2>1 DEF ClassifyDone, ClassifyInterrupt, ClassifyKill
<1> QED
  BY <1>1, <1>2, <1>3, <1>4, <1>6
     DEF ClassifyStep, ClassifyProgress, LLMGaveUp, LLMAnswered

(* A step of the classifier, in all.                                       *)
LEMMA ClassifyKeepsLaw ==
  ASSUME IInv, SoundWork, WInv, (\E n \in Limits : ClassifyStart(n)) \/ ClassifyStep,
         \A p \in RulesRuns : RulesIdle(p), ApplyIdle, UNCHANGED <<rulesVars, applyVars>>
  PROVE  WInv' /\ \A m \in Ids : Obeys(m)
<1>1. CommitResults \/ UNCHANGED <<row, hits>>
  BY DEF ClassifyStart, ClassifyStep, ClassifyProgress, NextBatch, LLMGaveUp, LLMAnswered,
     Record, BatchDone, ClassifyDone, ClassifyInterrupt, ClassifyKill, dbVars
<1>2. \A m \in Ids : /\ Obeys(m) /\ AutoKept(m)
                     /\ Stranded(row'[m]) => Stranded(row[m])
  <2>1. CASE CommitResults
    BY <2>1, CommitObeys
  <2>2. CASE UNCHANGED <<row, hits>>
    BY <2>2, UnchangedObeys DEF WInv, AutoKept
  <2> QED
    BY <1>1, <2>1, <2>2
<1>3. SoundChunks' /\ LawfulPlans' /\ NothingStranded'
  BY <1>2, RulesAtRest
<1>4. ApplyIdle' /\ LawfulTodo' /\ LawfulWork'
  BY RunnerAtRest, WorkStaysLawful
<1>5. \A p \in RulesRuns : RulesIdle(p)'
  BY DEF RulesIdle, rulesVars
<1>6. AutoApprovalIsGated'
  BY <1>2, ApprovalsKeptStayGated DEF WInv
<1> QED
  BY <1>2, <1>3, <1>4, <1>5, <1>6 DEF WInv, Obeys, OneStage

-----------------------------------------------------------------------------
(* The gates, the reviewer and the runner.                                 *)

(* The gates leave a row as it is, or approve or withdraw its decision;    *)
(* what is then approved they would approve again.                         *)
LEMMA GatesObey ==
  ASSUME IInv, WInv, NEW q \in Params, ApplyPolicy(q), NEW m \in Ids
  PROVE  /\ Obeys(m) /\ SameDecision(row[m], row'[m])
         /\ row'[m].review_status = "auto_approved" =>
              \/ TrashGate(Demoted(row'[m]), hits'[m], Facts[m], q)
              \/ ArchiveGate(Demoted(row'[m]), hits'[m], Facts[m], q)
<1> DEFINE r == row[m]
           s == row'[m]
           d == Demoted(r)
           gated == TrashGate(d, hits[m], Facts[m], q) \/ ArchiveGate(d, hits[m], Facts[m], q)
<1>1. SoundRow(r) /\ Lawful(r) /\ r \in Rows
  BY DEF IInv, WInv, SoundRows, SoundRow
<1>2. /\ s = IF gated THEN [d EXCEPT !.review_status = "auto_approved"] ELSE d
      /\ hits'[m] = hits[m]
  BY DEF ApplyPolicy, Gated
<1>3. /\ d \in Rows /\ SameDecision(r, d)
      /\ d.ruled = r.ruled /\ d.rule_action = r.rule_action /\ d.llm_action = r.llm_action
      /\ d.review_status = IF r.review_status = "auto_approved" THEN "pending"
                           ELSE r.review_status
  BY <1>1 DEF Demoted, SameDecision, Rows, Statuses, Approvable
<1>4. gated => d.review_status = "pending" /\ d.staged_action \in Actionable
  BY DEF TrashGate, ArchiveGate, TrashWorthy, ArchiveWorthy, Actionable
<1>5. /\ SameDecision(r, s)
      /\ s.ruled = r.ruled /\ s.rule_action = r.rule_action /\ s.llm_action = r.llm_action
      /\ s.review_status = IF gated THEN "auto_approved" ELSE d.review_status
  <2> HIDE DEF gated, d
  <2> QED
    BY <1>2, <1>3 DEF SameDecision, Rows
<1>6. d.review_status = "pending" => Demoted([d EXCEPT !.review_status = "auto_approved"]) = d
  <2> HIDE DEF d
  <2> QED
    BY <1>3 DEF Demoted, Rows
<1> HIDE DEF d, gated
<1>7. Lawful(s)
  BY <1>1, <1>3, <1>4, <1>5 DEF Lawful, SameDecision, Actionable, NULL
<1>8. Contract!ContractStep(m)
  <2>1. gated => \/ r.review_status = "auto_approved"
                 \/ /\ r.review_status = "pending" /\ r.staged_action \in Actionable
                    /\ r.decision_source \notin {"human", NULL}
    BY <1>1, <1>3, <1>4 DEF SoundRow, SameDecision, Actionable, NULL
  <2> QED
    BY <1>3, <1>5, <2>1, GatesMay
<1>9. s.review_status = "auto_approved" => gated /\ Demoted(s) = d
  BY <1>2, <1>3, <1>4, <1>5, <1>6
<1> QED
  BY <1>2, <1>5, <1>7, <1>8, <1>9 DEF Obeys, SameDecision, gated

(* The buttons, pressed on ruled rows.                                     *)
LEMMA ReviewObeys ==
  ASSUME IInv, WInv, NEW ids \in SUBSET Ids, \A m \in ids : row[m].ruled, UIStep(ids),
         NEW m \in Ids
  PROVE  /\ Obeys(m) /\ AutoKept(m)
         /\ row'[m].staged_action = NULL => row[m].staged_action = NULL
<1> DEFINE r == row[m]
           s == row'[m]
<1>1. SoundRow(r) /\ Lawful(r) /\ r \in Rows
  BY DEF IInv, WInv, SoundRows, SoundRow
<1>2. CASE s = r /\ hits' = hits
  BY <1>1, <1>2, UnchangedObeys DEF AutoKept
<1>3. ASSUME NEW status \in {"approved", "rejected"}, m \in ids, MayBecome(r, status),
             s = [r EXCEPT !.review_status = status]
      PROVE  Obeys(m) /\ AutoKept(m) /\ SameDecision(r, s)
  <2>1. /\ s.review_status = status /\ SameDecision(r, s)
        /\ s.ruled = r.ruled /\ s.rule_action = r.rule_action
        /\ s.llm_action = r.llm_action
    BY <1>1, <1>3 DEF Rows, SameDecision
  <2>2. Lawful(s)
    BY <1>1, <1>3, <2>1 DEF Lawful, SameDecision, MayBecome
  <2>3. Contract!ContractStep(m)
    BY <1>3, <2>1, HumansMay DEF MayBecome
  <2> QED
    BY <1>3, <2>1, <2>2, <2>3 DEF Obeys, AutoKept, SameDecision
<1>4. ASSUME NEW action \in Actions, m \in ids, r.review_status # "applied",
             s = WithDecision([r EXCEPT !.review_status = "approved"],
                              Decided(action, "human"))
      PROVE  Obeys(m) /\ AutoKept(m) /\ s.staged_action # NULL
  <2>1. /\ s.review_status = "approved" /\ s.ruled = r.ruled
        /\ s.staged_action = action /\ s.decision_source = "human"
    BY <1>1, <1>4 DEF Rows, WithDecision, Decided
  <2>2. Lawful(s)
    BY <1>4, <2>1 DEF Lawful, Actions, NULL
  <2>3. Contract!ContractStep(m)
    BY <1>4, <2>1, HumansMay
  <2> QED
    BY <1>4, <2>1, <2>2, <2>3 DEF Obeys, AutoKept, Actions, NULL
<1>5. hits' = hits
  BY DEF UIStep, SetStatus, SetDecision
<1>6. \/ s = r
      \/ \E status \in {"approved", "rejected"} :
           m \in ids /\ MayBecome(r, status) /\ s = [r EXCEPT !.review_status = status]
      \/ \E action \in Actions :
           /\ m \in ids /\ r.review_status # "applied"
           /\ s = WithDecision([r EXCEPT !.review_status = "approved"],
                               Decided(action, "human"))
  BY DEF UIStep, SetStatus, SetDecision
<1> QED
  BY <1>2, <1>3, <1>4, <1>5, <1>6 DEF SameDecision

(* The runner, and what it still has to settle.                            *)
LEMMA ApplyObeys ==
  ASSUME IInv, WInv, (\E n \in Limits : ApplyStart(n)) \/ ApplyStep
  PROVE  /\ \A m \in Ids : Obeys(m) /\ AutoKept(m) /\ SameDecision(row[m], row'[m])
         /\ LawfulTodo'
<1> DEFINE Goal == /\ \A m \in Ids : /\ Obeys(m) /\ AutoKept(m)
                                     /\ SameDecision(row[m], row'[m])
                   /\ LawfulTodo'
<1>1. \A m \in Ids : SoundRow(row[m]) /\ Lawful(row[m]) /\ row[m] \in Rows
  BY DEF IInv, WInv, SoundRows, SoundRow
<1>2. CASE UNCHANGED dbVars /\ \A m \in Unsettled' : ApprovedActionable(row[m])
  BY <1>1, <1>2, UnchangedObeys DEF dbVars, AutoKept, SameDecision, LawfulTodo
<1>3. ASSUME NEW S \in SUBSET Unsettled, NEW status \in {"applied", "skipped"},
             SetStatusOf(S, status), Settled(S), hits' = hits
      PROVE  Goal
  <2>1. ASSUME NEW m \in S
        PROVE  Obeys(m) /\ AutoKept(m) /\ SameDecision(row[m], row'[m])
    <3>1. m \in Ids /\ ApprovedActionable(row[m])
      BY DEF Unsettled, WInv, LawfulTodo
    <3>2. row'[m] = [row[m] EXCEPT !.review_status = status]
      BY <1>3, <3>1 DEF SetStatusOf
    <3>3. /\ row'[m].review_status = status /\ SameDecision(row[m], row'[m])
          /\ row'[m].ruled = row[m].ruled /\ row'[m].rule_action = row[m].rule_action
          /\ row'[m].llm_action = row[m].llm_action
      BY <1>1, <3>1, <3>2 DEF Rows, SameDecision
    <3>4. Lawful(row'[m])
      BY <1>1, <3>1, <3>3
         DEF Lawful, SameDecision, ApprovedActionable, Approvable, Actionable, NULL
    <3>5. Contract!ContractStep(m)
      BY <1>3, <3>1, <3>3, RunnerMay
    <3> QED
      BY <1>3, <3>3, <3>4, <3>5 DEF Obeys, AutoKept, SameDecision
  <2>2. ASSUME NEW m \in Ids \ S
        PROVE  row'[m] = row[m]
    BY <1>3 DEF SetStatusOf
  <2>3. \A m \in Ids : Obeys(m) /\ AutoKept(m) /\ SameDecision(row[m], row'[m])
    BY <1>1, <1>3, <2>1, <2>2, UnchangedObeys DEF AutoKept, SameDecision
  <2>4. LawfulTodo'
    <3>1. ASSUME NEW m \in Unsettled' PROVE m \in Ids \ S /\ m \in Unsettled
      BY <1>3 DEF Unsettled, Settled
    <3> QED
      BY <2>2, <3>1 DEF WInv, LawfulTodo
  <2> QED
    BY <2>3, <2>4
<1>4. ASSUME NEW n, ApplyStart(n) PROVE Goal
  <2>1. \A m \in Unsettled' : ApprovedActionable(row[m])
    BY <1>4 DEF ApplyStart, Unsettled, FirstById, Approved
  <2> QED
    BY <1>2, <1>4, <2>1 DEF ApplyStart
<1>5. ASSUME NEW S \in SUBSET Ids, ApplyError(S) PROVE Goal
  <2>1. Unsettled' \subseteq Unsettled
    BY <1>5 DEF ApplyError, Settled, Unsettled
  <2> QED
    BY <1>2, <1>5, <2>1 DEF ApplyError, WInv, LawfulTodo
<1>6. ASSUME ApplyDie PROVE Goal
  <2>1. Unsettled' = {}
    BY <1>6 DEF ApplyDie, NothingToApply, Unsettled
  <2> QED
    BY <1>2, <1>6, <2>1 DEF ApplyDie
<1>7. ASSUME NEW S \in SUBSET Ids, ApplySucceed(S) PROVE Goal
  BY <1>3, <1>7 DEF ApplySucceed, OneCall
<1>8. ASSUME NEW m \in Ids, ApplySkip(m) PROVE Goal
  BY <1>3, <1>8 DEF ApplySkip
<1> QED
  BY <1>4, <1>5, <1>6, <1>7, <1>8 DEF ApplyStep, ApplyProgress

(* A step of any of the three, in all: verdicts and decisions stay.        *)
LEMMA SettlingKeepsLaw ==
  ASSUME IInv, SoundWork, WInv, \A p \in RulesRuns : RulesIdle(p), ClassifyIdle,
         UNCHANGED <<rulesVars, classifyVars>>,
         \A m \in Ids : SameVerdicts(row[m], row'[m]),
         \A m \in Ids : /\ Obeys(m)
                        /\ row'[m].staged_action = NULL => row[m].staged_action = NULL,
         AutoApprovalIsGated', LawfulTodo'
  PROVE  WInv'
<1>1. \A m \in Ids : Stranded(row'[m]) => Stranded(row[m])
  BY DEF Stranded, NeedsDecision, SameVerdicts
<1>2. SoundChunks' /\ LawfulPlans' /\ NothingStranded'
  BY <1>1, RulesAtRest
<1>3. ClassifyIdle' /\ LawfulWork'
  BY ClassifierAtRest
<1>4. \A p \in RulesRuns : RulesIdle(p)'
  BY DEF RulesIdle, rulesVars
<1> QED
  BY <1>2, <1>3, <1>4 DEF WInv, Obeys, OneStage

-----------------------------------------------------------------------------
(* The invariant, and what follows from it.                                *)

Workflow == Overlap = FALSE /\ DecideUnruled = FALSE

(* Every step of the workflow keeps all of that, and obeys the contract.   *)
LEMMA NextKeepsLaw ==
  ASSUME Workflow, IInv, SoundWork, WInv, [Next]_vars
  PROVE  WInv' /\ \A m \in Ids : Obeys(m)
<1>1. MayStart => (\A p \in RulesRuns : RulesIdle(p)) /\ ClassifyIdle /\ ApplyIdle
  BY DEF MayStart, Quiet, Workflow
<1>2. CASE StartRules
  BY <1>1, <1>2, RulesKeepLaw DEF StartRules
<1>3. CASE RunsRules
  <2>1. PICK p \in RulesRuns : RulesStep(p)
    BY <1>3 DEF RunsRules
  <2>2. ~RulesIdle(p)
    BY <2>1 DEF RulesStep, RulesProgress, SelectChunk, WriteChunk, SelectStored,
       WriteStored, RulesDie, RulesIdle
  <2>3. (\A q \in RulesRuns \ {p} : RulesIdle(q)) /\ ClassifyIdle /\ ApplyIdle
    BY <2>2 DEF WInv, OneStage
  <2> QED
    BY <1>3, <2>1, <2>3, RulesKeepLaw DEF RunsRules
<1>4. CASE StartClassify
  BY <1>1, <1>4, ClassifyKeepsLaw DEF StartClassify
<1>5. CASE RunsClassify
  <2>1. ~ClassifyIdle
    BY <1>5 DEF RunsClassify, ClassifyStep, ClassifyProgress, NextBatch, LLMGaveUp,
       LLMAnswered, BatchDone, ClassifyDone, ClassifyInterrupt, ClassifyKill, ClassifyIdle
  <2>2. (\A p \in RulesRuns : RulesIdle(p)) /\ ApplyIdle
    BY <2>1 DEF WInv, OneStage
  <2> QED
    BY <1>5, <2>2, ClassifyKeepsLaw DEF RunsClassify
<1>6. CASE RunsPolicy
  <2>1. PICK q \in Params : ApplyPolicy(q)
    BY <1>6 DEF RunsPolicy
  <2>2. \A m \in Ids : Obeys(m) /\ SameDecision(row[m], row'[m])
    BY <2>1, GatesObey
  <2>3. AutoApprovalIsGated'
    BY <2>1, GatesObey DEF AutoApprovalIsGated
  <2>4. LawfulTodo' /\ \A m \in Ids : SameVerdicts(row[m], row'[m])
    BY <1>1, <1>6, <2>1, RunnerAtRest, SettlingKeepsVerdicts DEF RunsPolicy
  <2> QED
    BY <1>1, <1>6, <2>2, <2>3, <2>4, SettlingKeepsLaw DEF RunsPolicy, SameDecision
<1>7. CASE HumanReviews
  <2>1. PICK ids \in SUBSET Ids : UIStep(ids) /\ \A m \in ids : row[m].ruled
    BY <1>7 DEF HumanReviews, Workflow
  <2>2. \A m \in Ids : /\ Obeys(m) /\ AutoKept(m)
                       /\ row'[m].staged_action = NULL => row[m].staged_action = NULL
    BY <2>1, ReviewObeys
  <2>3. AutoApprovalIsGated'
    BY <2>2, ApprovalsKeptStayGated DEF WInv
  <2>4. LawfulTodo' /\ \A m \in Ids : SameVerdicts(row[m], row'[m])
    BY <1>1, <1>7, <2>1, RunnerAtRest, SettlingKeepsVerdicts DEF HumanReviews
  <2> QED
    BY <1>1, <1>7, <2>2, <2>3, <2>4, SettlingKeepsLaw DEF HumanReviews
<1>8. CASE StartApply \/ RunsApply
  <2>1. (\A p \in RulesRuns : RulesIdle(p)) /\ ClassifyIdle
    <3>1. RunsApply => ~ApplyIdle
      BY DEF RunsApply, ApplyStep, ApplyProgress, ApplySucceed, ApplyError, ApplySkip,
         ApplyDie, OneCall, ApplyIdle
    <3> QED
      BY <1>1, <1>8, <3>1 DEF StartApply, WInv, OneStage
  <2>2. /\ \A m \in Ids : Obeys(m) /\ AutoKept(m) /\ SameDecision(row[m], row'[m])
        /\ LawfulTodo'
    BY <1>8, ApplyObeys DEF StartApply, RunsApply
  <2>3. AutoApprovalIsGated'
    BY <2>2, ApprovalsKeptStayGated DEF WInv
  <2>4. \A m \in Ids : SameVerdicts(row[m], row'[m])
    BY <1>8, SettlingKeepsVerdicts DEF StartApply, RunsApply
  <2> QED
    BY <1>8, <2>1, <2>2, <2>3, <2>4, SettlingKeepsLaw
       DEF StartApply, RunsApply, SameDecision
<1>9. CASE UNCHANGED vars
  <2>1. \A m \in Ids : Obeys(m)
    BY <1>9, UnchangedObeys DEF WInv, vars, dbVars
  <2>2. WInv'
    BY <1>9 DEF vars, dbVars, rulesVars, classifyVars, applyVars, WInv, OneStage,
       RulesIdle, ClassifyIdle, ApplyIdle, Unsettled, SoundChunks, LawfulPlans, LawfulWork,
       InWork, LawfulTodo, NothingStranded, AutoApprovalIsGated
  <2> QED
    BY <2>1, <2>2
<1> QED
  BY <1>2, <1>3, <1>4, <1>5, <1>6, <1>7, <1>8, <1>9 DEF Next

(* In the workflow every row is lawful and every stage's reading current.  *)
THEOREM WorkflowIsLawful ==
  ASSUME Workflow
  PROVE  Spec => []WInv
<1>1. Init => WInv
  <2> SUFFICES ASSUME Init PROVE WInv
    OBVIOUS
  <2> USE DEF Init, DatabaseInit, RulesInit, ClassifyInit, ApplyInit
  <2>1. OneStage /\ LawfulTodo
    BY DEF OneStage, RulesIdle, ClassifyIdle, ApplyIdle, LawfulTodo, Unsettled,
       NothingToApply
  <2>2. SoundChunks /\ LawfulPlans
    BY DEF SoundChunks, LawfulPlans, NoPlan, Undecided, Decided
  <2>3. LawfulWork
    BY DEF LawfulWork, InWork, NoResult
  <2>4. NothingStranded
    BY DEF NothingStranded, Stranded, NeedsDecision, FreshRow
  <2>5. AutoApprovalIsGated
    BY DEF AutoApprovalIsGated, FreshRow
  <2>6. \A m \in Ids : Lawful(row[m])
    BY DEF Lawful, FreshRow, NULL
  <2> QED
    BY <2>1, <2>2, <2>3, <2>4, <2>5, <2>6 DEF WInv
<1>2. IInv /\ SoundWork /\ WInv /\ [Next]_vars => WInv'
  BY NextKeepsLaw
<1> QED
  BY <1>1, <1>2, AlwaysSound, WorkIsSound, PTL DEF Spec

(* ProvenanceAgrees: decision_source tells the truth about the verdicts,   *)
(* and what the LLM decided alone waits for the full age.                  *)
THEOREM ProvenanceIsTrue ==
  ASSUME Workflow
  PROVE  Spec => []ProvenanceAgrees
<1>1. IInv /\ WInv => ProvenanceAgrees
  BY DEF IInv, SoundRows, SoundRow, WInv, Lawful, ProvenanceAgrees
<1> QED
  BY <1>1, AlwaysSound, WorkflowIsLawful, PTL

(* AutoApprovalIsGated: what is auto-approved a gate would approve again.  *)
THEOREM ApprovalsStayGated ==
  ASSUME Workflow
  PROVE  Spec => []AutoApprovalIsGated
<1>1. WInv => AutoApprovalIsGated
  BY DEF WInv
<1> QED
  BY <1>1, WorkflowIsLawful, PTL

(* ApprovalHasAction: an approval always approves something.               *)
THEOREM ApprovalsApprove ==
  ASSUME Workflow
  PROVE  Spec => []ApprovalHasAction
<1>1. WInv => ApprovalHasAction
  BY DEF WInv, Lawful, ApprovalHasAction
<1> QED
  BY <1>1, WorkflowIsLawful, PTL

(* NoStrandedVerdict: after a rules run that was not cut short, whatever   *)
(* waits for a human is left undecided by its verdicts.                    *)
THEOREM NoVerdictIsStranded ==
  ASSUME Workflow
  PROVE  Spec => []NoStrandedVerdict
<1>1. WInv => NoStrandedVerdict
  BY DEF WInv, NothingStranded, Stranded, NoStrandedVerdict, Quiet, RulesIdle
<1> QED
  BY <1>1, WorkflowIsLawful, PTL

(* HumanDecisionStands: only humans change what a human has decided.       *)
THEOREM HumansHaveTheLastWord ==
  ASSUME Workflow
  PROVE  Spec => HumanDecisionStands
<1> DEFINE Stands == \A m \in Ids : row[m].decision_source = "human" =>
                                      row'[m].decision_source = "human"
<1>1. IInv /\ SoundWork /\ WInv /\ [Next]_vars => [Stands]_vars
  BY NextKeepsLaw DEF Obeys
<1>2. Spec => [][Stands]_vars
  BY <1>1, AlwaysSound, WorkIsSound, WorkflowIsLawful, PTL DEF Spec
<1> QED
  BY <1>2 DEF HumanDecisionStands

(* KeepsContract: the pipeline implements the contract of each message's   *)
(* decision and status.                                                    *)
THEOREM WorkflowKeepsContract ==
  ASSUME Workflow
  PROVE  Spec => KeepsContract
<1>1. Init => Contract!ContractInit
  BY DEF Init, DatabaseInit, FreshRow, Contract!ContractInit, Contract!Undecided,
     Contract!Decided, Contract!NULL, Decided, NULL
<1>2. IInv /\ SoundWork /\ WInv /\ [Next]_vars => [Contract!ContractNext]_Contract!contract
  BY NextKeepsLaw DEF Obeys, Contract!ContractNext
<1> QED
  BY <1>1, <1>2, AlwaysSound, WorkIsSound, WorkflowIsLawful, PTL
     DEF Spec, KeepsContract, Contract!ContractSpec
=============================================================================
