--------------------------- MODULE PipelineProofs ---------------------------
(***************************************************************************)
(* Proofs about Pipeline for every set of messages, rule sets, answers,    *)
(* policy parameters and batch sizes, with or without overlapping stages.  *)
(*                                                                         *)
(* Each stage rewrites rows one at a time by an operator (Evaluated,       *)
(* Reset, WithDecision, Classified, Gated, ...).  The proofs have two      *)
(* layers accordingly: lemmas that each operator keeps a row sound, and    *)
(* the invariant that every row is sound and every decision that a stage   *)
(* carries between two of its steps is one a stage may write.              *)
(***************************************************************************)
EXTENDS Pipeline, FiniteSetTheorems, TLAPS

(* A decision as the rules and the LLM make them: whole, and not human.    *)
StageDecision(d) ==
  /\ d \in Decisions
  /\ d.action = NULL <=> d.source = NULL
  /\ d.source # "human"

(* What DecidedTogether and HumanNeverGated say of one row; and that only  *)
(* a rule sets the two flags that the gates read.                          *)
SoundRow(r) ==
  /\ r \in Rows
  /\ r.rule_action = NULL => ~r.rule_protected /\ ~r.rule_ephemeral
  /\ r.staged_action = NULL <=> r.decision_source = NULL
  /\ r.decision_source = "human" => r.review_status \notin {"pending", "auto_approved"}

SoundRows == \A m \in Ids : SoundRow(row[m])
SoundPlans == \A p \in RulesRuns, m \in Ids : StageDecision(rr_plan[p][m])

(* A row that the apply run still has to settle has not been applied: no   *)
(* stage but the run itself writes "applied".                              *)
SoundTodo == \A m \in Unsettled : row[m].review_status # "applied"

IInv == TypeOK /\ SoundRows /\ SoundPlans /\ SoundTodo

(* What a step of any stage may not do, ...                                *)
KeepsApplied ==
  \A m \in Ids : row[m].review_status = "applied" =>
                   row'[m].review_status = "applied"

(* ... and what every stage but the apply run does to the rows.            *)
Alike(r, s) == r.review_status = "applied" <=> s.review_status = "applied"
RowsKept ==
  /\ row' \in [Ids -> Rows]
  /\ \A m \in Ids : SoundRow(row'[m]) /\ Alike(row[m], row'[m])

-----------------------------------------------------------------------------
(* The row operators.                                                      *)

(* Withdrawing a decision is a decision a stage may write.                 *)
LEMMA UndecidedIsSound == StageDecision(Undecided)
  BY DEF StageDecision, Undecided, Decided, Decisions, NULL, Sources

(* Whatever verdicts are combined, the outcome is a whole decision.        *)
LEMMA FinalizeIsSound ==
  ASSUME NEW ra \in Actions \cup {NULL}, NEW la \in Actions \cup {Review}
  PROVE  StageDecision(Finalize(ra, la))
  BY DEF StageDecision, Finalize, Undecided, Decided, Decisions, NULL, Sources,
         Actions, Review

(* Writing a stage's decision keeps a row sound.                           *)
LEMMA WithDecisionIsSound ==
  ASSUME NEW r, SoundRow(r), NEW d, StageDecision(d)
  PROVE  SoundRow(WithDecision(r, d)) /\ Alike(r, WithDecision(r, d))
  BY DEF SoundRow, Alike, StageDecision, WithDecision, Rows, Decisions

(* A human decision, which approves at once, keeps a row sound.            *)
LEMMA HumanDecisionIsSound ==
  ASSUME NEW r, SoundRow(r), NEW a \in Actions
  PROVE  SoundRow(WithDecision([r EXCEPT !.review_status = "approved"],
                               Decided(a, "human")))
  BY DEF SoundRow, WithDecision, Decided, Rows, Actions, NULL, Sources, Statuses,
         Approvable

(* Resetting a row, with or without its LLM verdict, leaves it sound.      *)
LEMMA ResetIsSound ==
  ASSUME NEW r, SoundRow(r), NEW full \in BOOLEAN
  PROVE  SoundRow(Reset(r, full)) /\ Alike(r, Reset(r, full))
  BY DEF SoundRow, Alike, Reset, WithDecision, Undecided, Decided, Rows, NULL, NoConf

(* A nonempty set of matching rules has a first one: the initial segments  *)
(* of the set, ordered by strict inclusion, have a minimal element.        *)
LEMMA FirstOfMatching ==
  ASSUME NEW n \in Nat, NEW M \in SUBSET (1 .. n), M # {}
  PROVE  \E i \in M : \A j \in M : i <= j
<1> DEFINE Below(i) == {j \in M : j < i}
           Segments == {Below(i) : i \in M}
<1>1. M \subseteq Nat
  OBVIOUS
<1>2. IsFiniteSet(M)
  <2>1. IsFiniteSet(1 .. n) /\ M \subseteq 1 .. n
    BY FS_Interval
  <2> QED
    BY <2>1, FS_Subset
<1>3. IsWellFoundedOn(StrictSubsetOrdering(M), SUBSET M)
  BY <1>2, FS_StrictSubsetOrderingWellFounded, FS_FiniteSubsetsOfFinite
<1>4. Segments \subseteq SUBSET M /\ Segments # {}
  OBVIOUS
<1>5. PICK s \in Segments : \A t \in Segments : ~(<<t, s>> \in StrictSubsetOrdering(M))
  <2> HIDE DEF Segments
  <2> QED  BY <1>3, <1>4, WFMin
<1>6. PICK i \in M : s = Below(i)
  OBVIOUS
<1>7. ASSUME NEW j \in M PROVE i <= j
  <2>1. SUFFICES ASSUME j < i PROVE FALSE
    BY <1>1
  <2>2. j \in Below(i) /\ j \notin Below(j)
    BY <2>1, <1>1
  <2>3. Below(j) \subseteq Below(i)
    <3>1. \A k \in M : k < j => k < i
      BY <2>1, <1>1
    <3> QED
      BY <3>1
  <2>4. <<Below(j), Below(i)>> \in StrictSubsetOrdering(M)
    BY <2>2, <2>3 DEF StrictSubsetOrdering
  <2> QED
    BY <2>4, <1>5, <1>6
<1> QED
  BY <1>7

(* So the winning rule is a rule.                                          *)
LEMMA WinnerIsRule ==
  ASSUME NEW rs \in Seq(Rules), NEW m \in Ids, Matching(rs, m) # {}
  PROVE  Winner(rs, m) \in Rules
<1>1. Matching(rs, m) \subseteq 1 .. Len(rs) /\ Len(rs) \in Nat
  BY DEF Matching
<1>2. \E i \in Matching(rs, m) : \A j \in Matching(rs, m) : i <= j
  BY <1>1, FirstOfMatching
<1> QED
  BY <1>1, <1>2 DEF Winner

(* A row that the rules have ruled is sound, whatever they say.            *)
LEMMA EvaluatedIsSound ==
  ASSUME NEW r, SoundRow(r), NEW rs \in Seq(Rules), NEW m \in Ids
  PROVE  SoundRow(Evaluated(r, rs, m)) /\ Alike(r, Evaluated(r, rs, m))
<1>1. CASE Matching(rs, m) = {}
  BY <1>1 DEF Evaluated, SoundRow, Alike, WithDecision, Undecided, Decided, Rows, NULL
<1>2. CASE Matching(rs, m) # {}
  <2> DEFINE w == Winner(rs, m)
             s == [r EXCEPT !.ruled = TRUE, !.rule_action = w.action,
                            !.rule_protected = w.protect,
                            !.rule_ephemeral = w.ephemeral]
             d == IF DecidesAlone(w) THEN Decided(w.action, "rule") ELSE Undecided
  <2>1. w \in Rules
    BY <1>2, WinnerIsRule
  <2>2. /\ w.action \in Actions /\ w.action # NULL
        /\ w.protect \in BOOLEAN /\ w.ephemeral \in BOOLEAN
    BY <2>1 DEF Rules, Actions, NULL
  <2>3. SoundRow(s) /\ Alike(r, s)
    BY <2>2 DEF SoundRow, Alike, Rows
  <2>4. StageDecision(d)
    BY <2>2, UndecidedIsSound DEF StageDecision, Decided, Decisions, Sources, Actions,
       NULL
  <2>5. Evaluated(r, rs, m) = WithDecision(s, d)
    BY <1>2 DEF Evaluated
  <2> HIDE DEF s, d
  <2> QED
    BY <2>3, <2>4, <2>5, WithDecisionIsSound DEF Alike
<1> QED
  BY <1>1, <1>2

(* The write of a verdict or a failure keeps a row sound, however old the  *)
(* rule verdict it is combined with.                                       *)
LEMMA ClassifiedIsSound ==
  ASSUME NEW r, SoundRow(r), NEW ra \in Actions \cup {NULL}, NEW result \in Results
  PROVE  SoundRow(Classified(r, ra, result)) /\ Alike(r, Classified(r, ra, result))
<1>1. CASE result = NoResult
  <2>1. result.action = NULL /\ Failed # NULL
    BY <1>1 DEF NoResult, Failed, NULL
  <2> QED
    BY <2>1 DEF Classified, Alike
<1>2. CASE result = Failure
  <2>1. result.action = Failed /\ Failed # NULL
    BY <1>2 DEF Failure, Failed, NULL
  <2>2. Classified(r, ra, result) = [r EXCEPT !.llm_action = Review, !.llm_confidence = 0]
    BY <2>1 DEF Classified
  <2>3. 0 \in Confidences
    BY FullConfAssumption DEF Confidences
  <2> QED
    BY <2>2, <2>3 DEF SoundRow, Alike, Rows
<1>3. CASE result \in Classifications
  <2> DEFINE s == [r EXCEPT !.llm_action = result.action,
                            !.llm_confidence = result.confidence,
                            !.llm_ephemeral = result.ephemeral]
  <2>1. /\ result.action \in Actions \cup {Review}
        /\ result.confidence \in Confidences
        /\ result.ephemeral \in BOOLEAN
    BY <1>3 DEF Classifications
  <2>2. SoundRow(s) /\ Alike(r, s)
    BY <2>1 DEF SoundRow, Alike, Rows
  <2>3. result.action # NULL /\ result.action # Failed
    BY <2>1 DEF Actions, Review, Failed, NULL
  <2>4. Classified(r, ra, result) = WithDecision(s, Finalize(ra, result.action))
    BY <2>3 DEF Classified
  <2>5. StageDecision(Finalize(ra, result.action))
    BY <2>1, FinalizeIsSound
  <2> HIDE DEF s
  <2> QED
    BY <2>2, <2>4, <2>5, WithDecisionIsSound DEF Alike
<1> QED
  BY <1>1, <1>2, <1>3 DEF Results

(* Pending and auto-approved rows are alike as to soundness, so the gates  *)
(* need no guard on decision_source.                                       *)
LEMMA GatedIsSound ==
  ASSUME NEW r, SoundRow(r), NEW h, NEW f, NEW q
  PROVE  /\ SoundRow(Gated(Demoted(r), h, f, q))
         /\ Alike(r, Gated(Demoted(r), h, f, q))
<1>1. SoundRow(Demoted(r)) /\ Alike(r, Demoted(r))
  BY DEF Demoted, SoundRow, Alike, Rows, Statuses, Approvable
<1>2. ASSUME NEW s, SoundRow(s)
      PROVE  SoundRow(Gated(s, h, f, q)) /\ Alike(s, Gated(s, h, f, q))
  BY <1>2 DEF Gated, TrashGate, ArchiveGate, TrashWorthy, ArchiveWorthy,
       SoundRow, Alike, Rows, Statuses, Approvable
<1> QED
  BY <1>1, <1>2 DEF Alike

(* Any status but auto_approved may be given to any sound row.             *)
LEMMA StatusIsSound ==
  ASSUME NEW r, SoundRow(r),
         NEW s \in Statuses \ {"pending", "auto_approved"}
  PROVE  SoundRow([r EXCEPT !.review_status = s])
  BY DEF SoundRow, Rows

(* The columns of a sound row that other variables are typed by.           *)
LEMMA RowColumns ==
  ASSUME NEW r, SoundRow(r)
  PROVE  /\ r \in Rows
         /\ r.rule_action \in Actions \cup {NULL}
         /\ r.staged_action \in Actions \cup {NULL}
         /\ r.llm_action \in Actions \cup {Review, NULL}
  BY DEF SoundRow, Rows

-----------------------------------------------------------------------------
(* The steps of the stages.                                                *)

(* A step that leaves the rows alone keeps them.                           *)
LEMMA SameRows ==
  ASSUME IInv, row' = row
  PROVE  RowsKept
  BY DEF IInv, TypeOK, DatabaseTypeOK, SoundRows, RowsKept, Alike

(* Keeping each row is enough.                                             *)
LEMMA EachRowKept ==
  ASSUME row' = [m \in Ids |-> row'[m]],
         \A m \in Ids : SoundRow(row'[m]) /\ Alike(row[m], row'[m])
  PROVE  RowsKept
<1>1. \A m \in Ids : row'[m] \in Rows
  BY DEF SoundRow
<1> QED
  BY <1>1 DEF RowsKept

(* The rules a run works with are rules, also between two runs.            *)
LEMMA RuleSetOfRun ==
  ASSUME IInv, NEW p \in RulesRuns
  PROVE  rr_set[p] \in Seq(Rules)
<1>1. rr_set[p] \in RuleSets \cup {NoRules}
  BY DEF IInv, TypeOK, RulesTypeOK
<1>2. <<>> \in Seq(Rules)
  OBVIOUS
<1> QED
  BY <1>1, <1>2, RuleSetsAssumption DEF NoRules

(* The votes of a message are well-typed votes.                            *)
LEMMA HitsAreTyped ==
  ASSUME NEW rs \in Seq(Rules), NEW m \in Ids
  PROVE  HitsOf(rs, m) \subseteq Hits
<1>1. SUFFICES ASSUME NEW i \in Matching(rs, m)
               PROVE  [action |-> rs[i].action,
                       won |-> \A j \in Matching(rs, m) : i <= j] \in Hits
  BY DEF HitsOf
<1>2. rs[i] \in Rules
  BY DEF Matching
<1>3. rs[i].action \in Actions
  BY <1>2 DEF Rules
<1>4. (\A j \in Matching(rs, m) : i <= j) \in BOOLEAN
  OBVIOUS
<1> QED
  BY <1>3, <1>4 DEF Hits

(* Every step of a rules run keeps the rows and its own state sound.       *)
LEMMA RulesKeep ==
  ASSUME IInv, NEW p \in RulesRuns, RulesStart(p) \/ RulesStep(p)
  PROVE  RowsKept /\ DatabaseTypeOK' /\ RulesTypeOK' /\ SoundPlans'
<1> DEFINE Goal == RowsKept /\ DatabaseTypeOK' /\ RulesTypeOK' /\ SoundPlans'
<1> USE DEF IInv, TypeOK, DatabaseTypeOK, RulesTypeOK, dbVars
<1>1. ASSUME NEW rs \in RuleSets, RunRules(p, rs) PROVE Goal
  BY <1>1, SameRows DEF RunRules, SoundPlans
<1>2. ASSUME NEW rs \in RuleSets, NEW full \in BOOLEAN, ResetRules(p, rs, full)
      PROVE  Goal
  <2>1. ASSUME NEW m \in Ids PROVE SoundRow(row'[m]) /\ Alike(row[m], row'[m])
    <3>1. row'[m] = IF Resettable(row[m]) THEN Reset(row[m], full) ELSE row[m]
      BY <1>2 DEF ResetRules
    <3> QED
      BY <3>1, ResetIsSound DEF SoundRows, Alike
  <2>2. RowsKept
    <3>1. row' = [m \in Ids |-> row'[m]]
      BY <1>2 DEF ResetRules
    <3> QED
      BY <2>1, <3>1, EachRowKept
  <2>3. hits' \in [Ids -> SUBSET Hits]
    BY <1>2 DEF ResetRules
  <2>4. RulesTypeOK' /\ SoundPlans' /\ writer' = writer
    BY <1>2 DEF ResetRules, SoundPlans
  <2> QED
    BY <2>2, <2>3, <2>4 DEF RowsKept
<1>3. ASSUME SelectChunk(p) PROVE Goal
  <2>1. \A S : FirstById(S, RuleBatch) \subseteq S
    BY DEF FirstById
  <2> QED
    BY <1>3, <2>1, SameRows DEF SelectChunk, SoundPlans
<1>4. ASSUME WriteChunk(p) PROVE Goal
  <2> DEFINE rs == rr_set[p]
  <2>0. rs \in Seq(Rules)
    BY RuleSetOfRun
  <2>1. ASSUME NEW m \in Ids PROVE SoundRow(row'[m]) /\ Alike(row[m], row'[m])
    <3>1. row'[m] = IF m \in rr_chunk[p] THEN Evaluated(row[m], rs, m) ELSE row[m]
      BY <1>4 DEF WriteChunk
    <3> QED
      BY <2>0, <3>1, EvaluatedIsSound DEF SoundRows, Alike
  <2>2. RowsKept
    <3>1. row' = [m \in Ids |-> row'[m]]
      BY <1>4 DEF WriteChunk
    <3> QED
      BY <2>1, <3>1, EachRowKept
  <2>3. hits' \in [Ids -> SUBSET Hits]
    <3>1. hits' = [m \in Ids |-> IF m \in rr_chunk[p]
                                 THEN hits[m] \cup HitsOf(rs, m) ELSE hits[m]]
      BY <1>4 DEF WriteChunk
    <3> QED
      BY <2>0, <3>1, HitsAreTyped
  <2>4. RulesTypeOK' /\ SoundPlans' /\ writer' = writer
    BY <1>4 DEF WriteChunk, SoundPlans
  <2> QED
    BY <2>2, <2>3, <2>4 DEF RowsKept
<1>5. ASSUME SelectStored(p) PROVE Goal
  <2> DEFINE plan == [m \in Ids |->
                       IF Mergeable(row[m])
                       THEN Finalize(row[m].rule_action, row[m].llm_action)
                       ELSE Undecided]
  <2>1. ASSUME NEW m \in Ids PROVE StageDecision(plan[m])
    <3>1. CASE Mergeable(row[m])
      <4>1. /\ row[m].rule_action \in Actions \cup {NULL}
            /\ row[m].llm_action \in Actions \cup {Review}
        BY <3>1 DEF Rows, Mergeable, NeedsDecision
      <4>2. plan[m] = Finalize(row[m].rule_action, row[m].llm_action)
        BY <3>1
      <4> HIDE DEF plan
      <4> QED
        BY <4>1, <4>2, FinalizeIsSound
    <3>2. CASE ~Mergeable(row[m])
      <4>1. plan[m] = Undecided
        BY <3>2
      <4> HIDE DEF plan
      <4> QED
        BY <4>1, UndecidedIsSound
    <3> QED
      BY <3>1, <3>2
  <2>2. plan \in [Ids -> Decisions]
    <3>1. \A m \in Ids : plan[m] \in Decisions
      BY <2>1 DEF StageDecision
    <3>2. plan = [m \in Ids |-> plan[m]]
      OBVIOUS
    <3> HIDE DEF plan
    <3> QED
      BY <3>1, <3>2
  <2>3. /\ rr_plan' = [rr_plan EXCEPT ![p] = plan]
        /\ rr_pc' = [rr_pc EXCEPT ![p] = IF plan = NoPlan THEN "idle" ELSE "merge"]
        /\ rr_set' = [rr_set EXCEPT ![p] = NoRules]
        /\ UNCHANGED <<rr_chunk, row, hits, writer>>
    BY <1>5 DEF SelectStored
  <2> HIDE DEF plan
  <2>4. SoundPlans'
    BY <2>1, <2>3 DEF SoundPlans
  <2> QED
    BY <2>2, <2>3, <2>4, SameRows
<1>6. ASSUME WriteStored(p) PROVE Goal
  <2>1. ASSUME NEW m \in Ids PROVE SoundRow(row'[m]) /\ Alike(row[m], row'[m])
    <3>1. row'[m] = IF rr_plan[p][m].action # NULL
                    THEN WithDecision(row[m], rr_plan[p][m]) ELSE row[m]
      BY <1>6 DEF WriteStored
    <3> QED
      BY <3>1, WithDecisionIsSound DEF SoundRows, SoundPlans, Alike
  <2>2. RowsKept
    <3>1. row' = [m \in Ids |-> row'[m]]
      BY <1>6 DEF WriteStored
    <3> QED
      BY <2>1, <3>1, EachRowKept
  <2>3. RulesTypeOK' /\ SoundPlans' /\ hits' = hits /\ writer' = writer
    <3>1. StageDecision(Undecided)
      BY UndecidedIsSound
    <3> QED
      BY <1>6, <3>1 DEF WriteStored, SoundPlans, NoPlan, StageDecision
  <2> QED
    BY <2>2, <2>3 DEF RowsKept
<1>7. ASSUME RulesDie(p) PROVE Goal
  <2>1. StageDecision(Undecided)
    BY UndecidedIsSound
  <2> QED
    BY <1>7, <2>1, SameRows DEF RulesDie, SoundPlans, NoPlan, StageDecision
<1> QED
  BY <1>1, <1>2, <1>3, <1>4, <1>5, <1>6, <1>7 DEF RulesStart, RulesStep, RulesProgress

(* Every step of the classifier keeps the rows and its own state sound:    *)
(* the verdicts it read may be stale, but they are verdicts.               *)
LEMMA ClassifyKeeps ==
  ASSUME IInv, (\E n \in Limits : ClassifyStart(n)) \/ ClassifyStep
  PROVE  RowsKept /\ DatabaseTypeOK' /\ ClassifyTypeOK'
<1> DEFINE Goal == RowsKept /\ DatabaseTypeOK' /\ ClassifyTypeOK'
<1> USE DEF IInv, TypeOK, DatabaseTypeOK, ClassifyTypeOK, dbVars
<1>1. \A S, n : FirstById(S, n) \subseteq S
  BY DEF FirstById
<1>2. NoResult \in Results /\ Failure \in Results
  BY DEF Results
<1>3. ASSUME NEW n, ClassifyStart(n) PROVE Goal
  <2>1. cl_todo' \subseteq Ids
    BY <1>1, <1>3 DEF ClassifyStart, Awaiting
  <2>2. \A m \in Ids : row[m].rule_action \in Actions \cup {NULL}
    BY RowColumns DEF SoundRows
  <2>3. cl_rule' \in [Ids -> Actions \cup {NULL}]
    BY <1>3, <2>2 DEF ClassifyStart
  <2> QED
    BY <1>3, <2>1, <2>3, SameRows DEF ClassifyStart
<1>4. ASSUME NextBatch PROVE Goal
  BY <1>1, <1>4, SameRows DEF NextBatch
<1>5. ASSUME NEW m \in Ids, NEW result \in Results, Record(m, result)
      PROVE  RowsKept /\ DatabaseTypeOK' /\ (cl_pc' \in {"batch", "failing"} => ClassifyTypeOK')
  BY <1>5, SameRows DEF Record
<1>6. ASSUME NEW m \in Ids, LLMGaveUp(m) PROVE Goal
  BY <1>2, <1>5, <1>6 DEF LLMGaveUp
<1>7. ASSUME NEW m \in Ids, NEW answer \in LLMAnswers, LLMAnswered(m, answer)
      PROVE  Goal
  <2>1. answer \in Results
    BY LLMAnswersAssumption DEF Results
  <2> QED
    BY <1>5, <1>7, <2>1 DEF LLMAnswered
<1>8. ASSUME CommitResults
      PROVE  RowsKept /\ DatabaseTypeOK' /\ cl_result' \in [Ids -> Results]
  <2>1. ASSUME NEW m \in Ids PROVE SoundRow(row'[m]) /\ Alike(row[m], row'[m])
    <3>1. row'[m] = Classified(row[m], cl_rule[m], cl_result[m])
      BY <1>8 DEF CommitResults
    <3> QED
      BY <3>1, ClassifiedIsSound DEF SoundRows
  <2>2. RowsKept
    <3>1. row' = [m \in Ids |-> row'[m]]
      BY <1>8 DEF CommitResults
    <3> QED
      BY <2>1, <3>1, EachRowKept
  <2> QED
    BY <1>2, <1>8, <2>2 DEF CommitResults, RowsKept
<1>9. ASSUME BatchDone PROVE Goal
  BY <1>8, <1>9 DEF BatchDone
<1>10. ASSUME ClassifyDone PROVE Goal
  BY <1>10, SameRows DEF ClassifyDone, ClassifyForget
<1>11. ASSUME ClassifyInterrupt PROVE Goal
  BY <1>8, <1>11 DEF ClassifyInterrupt, ClassifyForget
<1>12. ASSUME ClassifyKill PROVE Goal
  BY <1>2, <1>12, SameRows DEF ClassifyKill, ClassifyForget
<1> QED
  BY <1>3, <1>4, <1>6, <1>7, <1>9, <1>10, <1>11, <1>12
     DEF ClassifyStep, ClassifyProgress

(* The gates keep the rows sound, whatever parameters they are given.      *)
LEMMA PolicyKeeps ==
  ASSUME IInv, NEW q, ApplyPolicy(q)
  PROVE  RowsKept /\ DatabaseTypeOK'
<1>1. ASSUME NEW m \in Ids PROVE SoundRow(row'[m]) /\ Alike(row[m], row'[m])
  <2>1. row'[m] = Gated(Demoted(row[m]), hits[m], Facts[m], q)
    BY DEF ApplyPolicy
  <2> QED
    BY <2>1, GatedIsSound DEF IInv, SoundRows
<1>2. RowsKept
  <2>1. row' = [m \in Ids |-> row'[m]]
    BY DEF ApplyPolicy
  <2> QED
    BY <1>1, <2>1, EachRowKept
<1> QED
  BY <1>2 DEF ApplyPolicy, RowsKept, IInv, TypeOK, DatabaseTypeOK

(* So do the buttons of the UI.                                            *)
LEMMA ReviewKeeps ==
  ASSUME IInv, NEW ids \in SUBSET Ids, UIStep(ids)
  PROVE  RowsKept /\ DatabaseTypeOK'
<1>1. ASSUME NEW m \in Ids PROVE SoundRow(row'[m]) /\ Alike(row[m], row'[m])
  <2>0. SoundRow(row[m])
    BY DEF IInv, SoundRows
  <2>1. ASSUME NEW status \in {"approved", "rejected"}, SetStatus(ids, status)
        PROVE  SoundRow(row'[m]) /\ Alike(row[m], row'[m])
    <3>1. \/ row'[m] = row[m]
          \/ /\ row[m].review_status # "applied"
             /\ row'[m] = [row[m] EXCEPT !.review_status = status]
      BY <2>1 DEF SetStatus, MayBecome
    <3>2. status \in Statuses \ {"pending", "auto_approved", "applied"}
      BY DEF Statuses, Approvable
    <3> QED
      BY <2>0, <3>1, <3>2, StatusIsSound DEF Alike, SoundRow, Rows
  <2>2. ASSUME NEW action \in Actions, SetDecision(ids, action)
        PROVE  SoundRow(row'[m]) /\ Alike(row[m], row'[m])
    <3>1. \/ row'[m] = row[m]
          \/ /\ row[m].review_status # "applied"
             /\ row'[m] = WithDecision([row[m] EXCEPT !.review_status = "approved"],
                                       Decided(action, "human"))
      BY <2>2 DEF SetDecision
    <3>2. WithDecision([row[m] EXCEPT !.review_status = "approved"],
                       Decided(action, "human")).review_status = "approved"
      BY <2>0 DEF WithDecision, SoundRow, Rows
    <3> QED
      BY <2>0, <3>1, <3>2, HumanDecisionIsSound DEF Alike
  <2> QED
    BY <2>1, <2>2 DEF UIStep
<1>2. /\ row' = [m \in Ids |-> row'[m]]
      /\ hits' = hits
      /\ writer' = writer
  BY DEF UIStep, SetStatus, SetDecision
<1>3. RowsKept
  BY <1>1, <1>2, EachRowKept
<1> QED
  BY <1>2, <1>3 DEF RowsKept, IInv, TypeOK, DatabaseTypeOK

(* The apply run is the one that writes "applied"; it settles the row with *)
(* the same step, and selects only rows that are approved.                 *)
LEMMA ApplyKeeps ==
  ASSUME IInv, (\E n \in Limits : ApplyStart(n)) \/ ApplyStep
  PROVE  DatabaseTypeOK' /\ SoundRows' /\ SoundTodo' /\ ApplyTypeOK' /\ KeepsApplied
<1> DEFINE Goal == /\ DatabaseTypeOK' /\ SoundRows' /\ SoundTodo' /\ ApplyTypeOK'
                   /\ KeepsApplied
<1> USE DEF IInv, TypeOK, DatabaseTypeOK, ApplyTypeOK, dbVars
<1>1. ASSUME NEW n, ApplyStart(n) PROVE Goal
  <2>1. ASSUME NEW m \in Ids
        PROVE  \/ ap_todo'[m] = NULL
               \/ /\ row[m].review_status # "applied"
                  /\ ap_todo'[m] \in Actionable
    <3>1. ap_todo'[m] = IF m \in FirstById(Approved, n) THEN row[m].staged_action ELSE NULL
      BY <1>1 DEF ApplyStart
    <3> QED
      BY <3>1 DEF FirstById, Approved, ApprovedActionable, Approvable
  <2>2. ap_todo' = [m \in Ids |-> ap_todo'[m]] /\ UNCHANGED <<row, hits, writer>>
    BY <1>1 DEF ApplyStart
  <2>3. ap_todo' \in [Ids -> Actionable \cup {NULL}]
    BY <2>1, <2>2
  <2> QED
    BY <2>1, <2>2, <2>3 DEF SoundRows, SoundTodo, Unsettled, KeepsApplied
<1>2. ASSUME NEW S \in SUBSET Ids, Settled(S), NEW status \in {"applied", "skipped"},
             SetStatusOf(S, status), hits' = hits, writer' = writer,
             status = "applied" \/ S \subseteq Unsettled
      PROVE  Goal
  <2>1. ASSUME NEW m \in Ids
        PROVE  /\ SoundRow(row'[m])
               /\ row'[m].review_status = IF m \in S THEN status
                                          ELSE row[m].review_status
    <3>1. row'[m] = IF m \in S THEN [row[m] EXCEPT !.review_status = status] ELSE row[m]
      BY <1>2 DEF SetStatusOf
    <3>2. SoundRow(row[m])
      BY DEF SoundRows
    <3>3. status \in Statuses \ {"pending", "auto_approved"}
      BY DEF Statuses, Approvable
    <3> QED
      BY <3>1, <3>2, <3>3, StatusIsSound DEF SoundRow, Rows
  <2>2. row' \in [Ids -> Rows]
    <3>1. row' = [m \in Ids |-> row'[m]]
      BY <1>2 DEF SetStatusOf
    <3> QED
      BY <2>1, <3>1, RowColumns
  <2>3. ap_todo' \in [Ids -> Actionable \cup {NULL}]
    BY <1>2 DEF Settled
  <2>4. SoundTodo'
    <3>1. ASSUME NEW m \in Unsettled' PROVE row'[m].review_status # "applied"
      <4>1. m \in Ids /\ m \notin S /\ m \in Unsettled
        BY <1>2, <3>1 DEF Unsettled, Settled
      <4> QED
        BY <2>1, <4>1 DEF SoundTodo
    <3> QED
      BY <3>1 DEF SoundTodo
  <2>5. KeepsApplied
    BY <1>2, <2>1 DEF KeepsApplied, SoundTodo
  <2> QED
    BY <1>2, <2>1, <2>2, <2>3, <2>4, <2>5 DEF SoundRows
<1>3. ASSUME NEW S \in SUBSET Ids, ApplySucceed(S) PROVE Goal
  BY <1>2, <1>3 DEF ApplySucceed
<1>4. ASSUME NEW m \in Ids, ApplySkip(m) PROVE Goal
  BY <1>2, <1>4 DEF ApplySkip
<1>5. ASSUME NEW S \in SUBSET Ids, ApplyError(S) PROVE Goal
  BY <1>5 DEF ApplyError, Settled, SoundRows, SoundTodo, Unsettled, KeepsApplied
<1>6. ASSUME ApplyDie PROVE Goal
  BY <1>6 DEF ApplyDie, NothingToApply, SoundRows, SoundTodo, Unsettled, KeepsApplied
<1> QED
  BY <1>1, <1>3, <1>4, <1>5, <1>6 DEF ApplyStep, ApplyProgress

-----------------------------------------------------------------------------
(* The inductive invariant.                                                *)

(* The database ingest leaves, with no stage running, is sound.            *)
LEMMA InitIsSound == Init => IInv
<1> SUFFICES ASSUME Init PROVE IInv
  OBVIOUS
<1> USE DEF Init, DatabaseInit, RulesInit, ClassifyInit, ApplyInit
<1>1. FreshRow \in Rows /\ SoundRow(FreshRow)
  <2>1. "pending" \in Statuses
    BY DEF Statuses
  <2>2. FreshRow \in Rows
    BY <2>1 DEF FreshRow, Rows
  <2> QED
    BY <2>2 DEF FreshRow, SoundRow, NULL
<1>2. DatabaseTypeOK /\ SoundRows
  BY <1>1 DEF DatabaseTypeOK, SoundRows
<1>3. RulesTypeOK /\ SoundPlans
  BY UndecidedIsSound DEF RulesTypeOK, SoundPlans, NoPlan, StageDecision
<1>4. ClassifyTypeOK
  BY DEF ClassifyTypeOK, Results
<1>5. ApplyTypeOK /\ SoundTodo
  BY DEF ApplyTypeOK, NothingToApply, SoundTodo, Unsettled
<1> QED
  BY <1>2, <1>3, <1>4, <1>5 DEF IInv, TypeOK

(* A step that keeps the rows and leaves the apply run alone.              *)
LEMMA RowsKeptIsSound ==
  ASSUME IInv, RowsKept, UNCHANGED applyVars
  PROVE  SoundRows' /\ SoundTodo' /\ ApplyTypeOK' /\ KeepsApplied
  BY DEF IInv, TypeOK, ApplyTypeOK, RowsKept, Alike, SoundRows, SoundTodo, Unsettled,
     KeepsApplied, applyVars

(* Every step keeps the invariant, and settles rows for good.              *)
LEMMA NextIsSound == IInv /\ [Next]_vars => IInv' /\ KeepsApplied
<1> SUFFICES ASSUME IInv, [Next]_vars PROVE IInv' /\ KeepsApplied
  OBVIOUS
<1> USE DEF IInv, TypeOK
<1>r. UNCHANGED rulesVars => RulesTypeOK' /\ SoundPlans'
  BY DEF rulesVars, RulesTypeOK, SoundPlans
<1>c. UNCHANGED classifyVars => ClassifyTypeOK'
  BY DEF classifyVars, ClassifyTypeOK
<1>1. CASE StartRules \/ RunsRules
  BY <1>1, <1>c, RulesKeep, RowsKeptIsSound DEF StartRules, RunsRules
<1>2. CASE StartClassify \/ RunsClassify
  BY <1>2, <1>r, ClassifyKeeps, RowsKeptIsSound DEF StartClassify, RunsClassify
<1>3. CASE RunsPolicy
  BY <1>3, <1>r, <1>c, PolicyKeeps, RowsKeptIsSound DEF RunsPolicy
<1>4. CASE HumanReviews
  BY <1>4, <1>r, <1>c, ReviewKeeps, RowsKeptIsSound DEF HumanReviews
<1>5. CASE StartApply \/ RunsApply
  BY <1>5, <1>r, <1>c, ApplyKeeps DEF StartApply, RunsApply
<1>6. CASE UNCHANGED vars
  <2>1. RowsKept /\ DatabaseTypeOK' /\ UNCHANGED applyVars
    BY <1>6, SameRows DEF vars, dbVars, DatabaseTypeOK
  <2> QED
    BY <1>6, <1>r, <1>c, <2>1, RowsKeptIsSound DEF vars
<1> QED
  BY <1>1, <1>2, <1>3, <1>4, <1>5, <1>6 DEF Next

-----------------------------------------------------------------------------
(* What follows for the specification.                                     *)

(* Every reachable state is sound.                                         *)
THEOREM AlwaysSound == Spec => []IInv
<1>1. Init => IInv
  BY InitIsSound
<1>2. IInv /\ [Next]_vars => IInv'
  BY NextIsSound
<1> QED
  BY <1>1, <1>2, PTL DEF Spec

(* Every variable keeps its type.                                          *)
THEOREM TypeCorrect == Spec => []TypeOK
<1>1. IInv => TypeOK
  BY DEF IInv
<1> QED
  BY <1>1, AlwaysSound, PTL

(* The two columns of a decision are never half written, whatever runs     *)
(* beside whatever, and whatever is killed when.                           *)
THEOREM DecisionsAreWhole == Spec => []DecidedTogether
<1>1. IInv => DecidedTogether
  BY DEF IInv, SoundRows, SoundRow, DecidedTogether
<1> QED
  BY <1>1, AlwaysSound, PTL

(* A human decision never stands before a gate.                            *)
THEOREM HumansAreNotGated == Spec => []HumanNeverGated
<1>1. IInv => HumanNeverGated
  BY DEF IInv, SoundRows, SoundRow, HumanNeverGated
<1> QED
  BY <1>1, AlwaysSound, PTL

(* An applied row stays applied, under any interleaving of the stages.     *)
THEOREM AppliedRowsStay == Spec => AppliedIsFinal
<1>1. IInv /\ [Next]_vars => KeepsApplied
  BY NextIsSound
<1>2. KeepsApplied => [KeepsApplied]_vars
  OBVIOUS
<1>3. Spec => [][KeepsApplied]_vars
  BY <1>1, AlwaysSound, PTL DEF Spec
<1> QED
  BY <1>3 DEF AppliedIsFinal, KeepsApplied
=============================================================================
