--------------------------- MODULE VerdictProofs ----------------------------
(***************************************************************************)
(* Proofs about the verdicts of the rules and of the LLM, for pipelines in *)
(* which anything may run beside anything: that the policy's preview is    *)
(* exact, that an LLM verdict is paid for once, that the recorded votes    *)
(* explain the rule verdict, and that the rule verdict is what the rules   *)
(* file says.                                                              *)
(*                                                                         *)
(* The second rests on the classifier's bookkeeping: whatever it still     *)
(* works on has no verdict yet, and is in one of its three places only.    *)
(* The third needs that a chunk is still unruled when it is written, which *)
(* two rules runs at once would break; it assumes there is but one. The    *)
(* last is about the order of the rules: the enabled rules of a file take  *)
(* the places from 1 to their number, each one its own.                    *)
(***************************************************************************)
EXTENDS RuleFile, PipelineProofs

-----------------------------------------------------------------------------
(* The preview.                                                            *)

(* The gates' conditions do not look at review_status.                     *)
LEMMA DemotedIsAsWorthy ==
  ASSUME NEW r \in Rows, NEW h, NEW f, NEW q
  PROVE  /\ TrashWorthy(Demoted(r), h, f, q) <=> TrashWorthy(r, h, f, q)
         /\ ArchiveWorthy(Demoted(r), h, f, q) <=> ArchiveWorthy(r, h, f, q)
  BY DEF Demoted, TrashWorthy, ArchiveWorthy, LLMOnly, Confident, OldEnough,
         NotProtected, Rows

(* PreviewIsExact: the Policy page shows what running the gates would do.  *)
THEOREM PreviewsAreExact == Spec => []PreviewIsExact
<1>1. ASSUME IInv, NEW q \in Params, NEW m \in Ids
      PROVE  m \in Preview(q) <=>
               Gated(Demoted(row[m]), hits[m], Facts[m], q).review_status = "auto_approved"
  <2> DEFINE r == row[m]
             d == Demoted(r)
             worthy == \/ TrashWorthy(r, hits[m], Facts[m], q)
                       \/ ArchiveWorthy(r, hits[m], Facts[m], q)
  <2>1. r \in Rows
    BY <1>1 DEF IInv, TypeOK, DatabaseTypeOK
  <2>2. /\ d \in Rows
        /\ d.review_status = "pending" <=> r.review_status \in {"pending", "auto_approved"}
        /\ d.review_status # "auto_approved"
    BY <2>1 DEF Demoted, Rows, Statuses, Approvable
  <2>3. Gated(d, hits[m], Facts[m], q) =
          IF d.review_status = "pending" /\ worthy
          THEN [d EXCEPT !.review_status = "auto_approved"] ELSE d
    BY <2>1, DemotedIsAsWorthy DEF Gated, TrashGate, ArchiveGate
  <2>4. Gated(d, hits[m], Facts[m], q).review_status = "auto_approved" <=>
          d.review_status = "pending" /\ worthy
    <3> HIDE DEF worthy, d
    <3> QED
      BY <2>2, <2>3 DEF Rows
  <2> QED
    BY <2>2, <2>4 DEF Preview
<1>2. IInv => PreviewIsExact
  BY <1>1 DEF PreviewIsExact, Preview
<1> QED
  BY <1>2, AlwaysSound, PTL

(* A second run of the gates sees what the first would have seen.          *)
LEMMA GatedIsDemoted ==
  ASSUME NEW r \in Rows, NEW h, NEW f, NEW q
  PROVE  /\ Demoted(r) \in Rows
         /\ Demoted(Gated(Demoted(r), h, f, q)) = Demoted(r)
<1>1. Demoted(r) \in Rows /\ Demoted(r).review_status # "auto_approved"
  BY DEF Demoted, Rows, Statuses, Approvable
<1>2. ASSUME NEW d \in Rows, d.review_status # "auto_approved"
      PROVE  Demoted(Gated(d, h, f, q)) = d
  <2>1. CASE TrashGate(d, h, f, q) \/ ArchiveGate(d, h, f, q)
    <3>1. d.review_status = "pending"
      BY <2>1 DEF TrashGate, ArchiveGate
    <3>2. Demoted([d EXCEPT !.review_status = "auto_approved"]) = d
      BY <1>2, <3>1 DEF Demoted, Rows
    <3> QED
      BY <2>1, <3>2 DEF Gated
  <2>2. CASE ~(TrashGate(d, h, f, q) \/ ArchiveGate(d, h, f, q))
    BY <1>2, <2>2 DEF Gated, Demoted
  <2> QED
    BY <2>1, <2>2
<1> QED
  BY <1>1, <1>2

(* Running the gates again with other parameters has the outcome of having *)
(* run them with these alone (policy.py, apply_policy: "threshold changes  *)
(* take effect in both directions").                                       *)
THEOREM LastPolicyWins ==
  ASSUME NEW r \in Rows, NEW h, NEW f, NEW q, NEW s
  PROVE  Gated(Demoted(Gated(Demoted(r), h, f, q)), h, f, s) = Gated(Demoted(r), h, f, s)
  BY GatedIsDemoted

(* No parameter of s is laxer than that of q.                              *)
Stricter(s, q) ==
  /\ s.trash_confidence >= q.trash_confidence
  /\ s.archive_confidence >= q.archive_confidence
  /\ s.llm_only_confidence >= q.llm_only_confidence
  /\ s.rule_only_trash => q.rule_only_trash
  /\ s.min_age >= q.min_age /\ s.ephemeral_min_age >= q.ephemeral_min_age

(* Tightening the parameters on the Policy page never approves a message   *)
(* that the laxer ones would have left for a human.                        *)
THEOREM StricterGatesApproveLess ==
  ASSUME TypeOK, NEW q \in PolicyParams, NEW s \in PolicyParams, Stricter(s, q)
  PROVE  Preview(s) \subseteq Preview(q)
<1> SUFFICES ASSUME NEW m \in Preview(s) PROVE m \in Preview(q)
  OBVIOUS
<1> DEFINE r == row[m]
<1>1. r \in Rows /\ m \in Ids /\ r.review_status \in {"pending", "auto_approved"}
  BY DEF Preview, TypeOK, DatabaseTypeOK
<1>2. r.llm_confidence \in Int /\ FullConf \in Int
  BY <1>1, FullConfAssumption DEF Rows, Confidences, NoConf
<1>3. \A a, b \in Bounds : a >= b /\ Confident(r, a) => Confident(r, b)
  BY <1>2 DEF Confident, Bounds
<1>4. /\ \A x \in {s, q} : /\ x.trash_confidence \in Bounds /\ x.archive_confidence \in Bounds
                            /\ x.llm_only_confidence \in Bounds
                            /\ x.min_age \in AgeRange /\ x.ephemeral_min_age \in AgeRange
      /\ Stricter(s, q)
  BY DEF PolicyParams
<1>5. LLMOnly(r, s) => LLMOnly(r, q)
  BY <1>3, <1>4 DEF LLMOnly, Stricter
<1>6. OldEnough(r, Facts[m], s) => OldEnough(r, Facts[m], q)
  <2>1. Facts[m].age \in Int
    BY <1>1, FactsAssumption DEF AgeRange
  <2>2. /\ s.min_age \in Int /\ s.ephemeral_min_age \in Int
        /\ q.min_age \in Int /\ q.ephemeral_min_age \in Int
    BY <1>4 DEF AgeRange
  <2>3. /\ Facts[m].age > s.min_age => Facts[m].age > q.min_age
        /\ Facts[m].age > s.ephemeral_min_age => Facts[m].age > q.ephemeral_min_age
    BY <1>4, <2>1, <2>2 DEF Stricter
  <2> HIDE DEF r
  <2> QED
    BY <2>3 DEF OldEnough
<1> HIDE DEF r
<1>7. TrashWorthy(r, hits[m], Facts[m], s) => TrashWorthy(r, hits[m], Facts[m], q)
  BY <1>3, <1>4, <1>5, <1>6 DEF TrashWorthy, Stricter
<1>8. ArchiveWorthy(r, hits[m], Facts[m], s) => ArchiveWorthy(r, hits[m], Facts[m], q)
  <2>1. FullConf >= s.archive_confidence => FullConf >= q.archive_confidence
    BY <1>2, <1>4 DEF Stricter, Bounds
  <2> QED
    BY <1>3, <1>4, <1>5, <2>1 DEF ArchiveWorthy, Stricter
<1> QED
  BY <1>1, <1>7, <1>8 DEF Preview, r

(* Bounds above 1 close the gates, for rows whose rule decided alone and   *)
(* that have no confidence at all as well, unless trash rules may act      *)
(* alone (policy.py: "a threshold > 1 disables this gate").                *)
THEOREM ClosedGatesApproveNothing ==
  ASSUME TypeOK, NEW q \in PolicyParams, ~q.rule_only_trash,
         q.trash_confidence > FullConf, q.archive_confidence > FullConf,
         q.llm_only_confidence > FullConf
  PROVE  Preview(q) = {}
<1> SUFFICES ASSUME NEW m \in Preview(q) PROVE FALSE
  OBVIOUS
<1>1. m \in Ids /\ row[m] \in Rows
  BY DEF Preview, TypeOK, DatabaseTypeOK
<1>2. row[m].llm_confidence \in Int /\ row[m].llm_confidence <= FullConf /\ FullConf \in Int
  BY <1>1, FullConfAssumption DEF Rows, Confidences, NoConf
<1>3. \A b \in Bounds : b > FullConf => ~Confident(row[m], b) /\ ~(FullConf >= b)
  BY <1>2 DEF Confident, Bounds
<1>4. /\ q.trash_confidence \in Bounds /\ q.archive_confidence \in Bounds
      /\ q.llm_only_confidence \in Bounds
  BY DEF PolicyParams
<1> QED
  BY <1>3, <1>4 DEF Preview, TrashWorthy, ArchiveWorthy, LLMOnly

-----------------------------------------------------------------------------
(* What the row operators do to the columns of a row.                      *)

(* A reset: everything a stage made of a pending row, but perhaps the LLM. *)
LEMMA ResetColumns ==
  ASSUME NEW r \in Rows, NEW full \in BOOLEAN
  PROVE  LET s == Reset(r, full) IN
           /\ ~s.ruled /\ s.rule_action = NULL
           /\ s.staged_action = NULL /\ s.decision_source = NULL
           /\ s.review_status = r.review_status
           /\ s.llm_action = IF full THEN NULL ELSE r.llm_action
           /\ ~full => LLMVerdict(s) = LLMVerdict(r)
  BY DEF Reset, WithDecision, Undecided, Decided, Rows, LLMVerdict

(* Ruling: a rule that decides alone stages its action, others do not.     *)
LEMMA EvaluatedColumns ==
  ASSUME NEW r \in Rows, NEW rs \in Seq(Rules), NEW m \in Ids
  PROVE  LET s == Evaluated(r, rs, m) IN
           /\ s.ruled /\ s.review_status = r.review_status
           /\ s.llm_action = r.llm_action /\ LLMVerdict(s) = LLMVerdict(r)
           /\ s.rule_action = IF Matching(rs, m) = {} THEN NULL ELSE Winner(rs, m).action
           /\ \/ s.staged_action = NULL /\ s.decision_source = NULL
              \/ /\ s.staged_action = s.rule_action /\ s.decision_source = "rule"
                 /\ s.staged_action # NULL
<1>1. CASE Matching(rs, m) = {}
  BY <1>1 DEF Evaluated, WithDecision, Undecided, Decided, Rows, LLMVerdict
<1>2. CASE Matching(rs, m) # {}
  <2>1. Winner(rs, m).action # NULL
    BY <1>2, WinnerIsRule DEF Rules, Actions, NULL
  <2> QED
    BY <1>2, <2>1 DEF Evaluated, WithDecision, Undecided, Decided, Rows, LLMVerdict
<1> QED
  BY <1>1, <1>2

(* Deciding touches the two columns of the decision only.                  *)
LEMMA WithDecisionColumns ==
  ASSUME NEW r \in Rows, NEW d
  PROVE  LET s == WithDecision(r, d) IN
           /\ s.staged_action = d.action /\ s.decision_source = d.source
           /\ s.ruled = r.ruled /\ s.rule_action = r.rule_action
           /\ s.review_status = r.review_status
           /\ s.llm_action = r.llm_action /\ LLMVerdict(s) = LLMVerdict(r)
  BY DEF WithDecision, Rows, LLMVerdict

(* Classifying: nothing, a failure, or a verdict with what it leads to.    *)
LEMMA ClassifiedColumns ==
  ASSUME NEW r \in Rows, NEW ra, NEW result \in Results
  PROVE  LET s == Classified(r, ra, result) IN
           /\ s.ruled = r.ruled /\ s.rule_action = r.rule_action
           /\ s.review_status = r.review_status
           /\ result.action = NULL => s = r
           /\ result.action = Failed =>
                /\ s.llm_action = Review
                /\ s.staged_action = r.staged_action
                /\ s.decision_source = r.decision_source
           /\ result.action \notin {NULL, Failed} =>
                /\ s.llm_action = result.action
                /\ s.llm_action # NULL
                /\ s.staged_action = Finalize(ra, result.action).action
                /\ s.decision_source = Finalize(ra, result.action).source
<1>1. Failed # NULL /\ Review # NULL
  BY DEF Failed, NULL, Review
<1>2. CASE result.action = NULL
  BY <1>1, <1>2 DEF Classified
<1>3. CASE result.action = Failed
  BY <1>1, <1>3 DEF Classified, Rows
<1>4. CASE result.action \notin {NULL, Failed}
  BY <1>4 DEF Classified, WithDecision, Rows
<1> QED
  BY <1>2, <1>3, <1>4

(* A new status is just that.                                              *)
LEMMA StatusColumns ==
  ASSUME NEW r \in Rows, NEW status
  PROVE  LET s == [r EXCEPT !.review_status = status] IN
           /\ s.review_status = status
           /\ s.staged_action = r.staged_action /\ s.decision_source = r.decision_source
           /\ s.ruled = r.ruled /\ s.rule_action = r.rule_action
           /\ s.llm_action = r.llm_action /\ LLMVerdict(s) = LLMVerdict(r)
  BY DEF Rows, LLMVerdict

-----------------------------------------------------------------------------
(* LLM verdicts.                                                           *)

(* Row m is in the hands of the classifier.                                *)
InWork(m) == m \in cl_todo \/ m \in cl_batch \/ cl_result[m].action # NULL

SoundWork ==
  /\ cl_pc = "idle" => cl_todo = {}
  /\ cl_pc \notin {"batch", "failing"} =>
       cl_batch = {} /\ \A m \in Ids : cl_result[m] = NoResult
  /\ cl_todo \cap cl_batch = {}
  /\ \A m \in cl_todo \cup cl_batch : cl_result[m] = NoResult
  /\ \A m \in Ids : InWork(m) => row[m].llm_action = NULL

(* What becomes of a stored verdict, and of the lack of one, ...           *)
Kept(r, s) == LLMVerdict(s) = LLMVerdict(r)
Forgotten(r, s) == r.review_status = "pending" /\ s.llm_action = NULL /\ ~s.ruled

(* ... when the step is not the classifier's, and when it is.              *)
Frugal(r, s) ==
  /\ Kept(r, s) \/ Forgotten(r, s)
  /\ r.llm_action = NULL => s.llm_action = NULL
PaidOnce(r, s) == r.llm_action # NULL => Kept(r, s) \/ Forgotten(r, s)

(* Rules runs leave the LLM's columns alone, but for a full reset.         *)
LEMMA RulesAreFrugal ==
  ASSUME IInv, NEW p \in RulesRuns, RulesStart(p) \/ RulesStep(p), NEW m \in Ids
  PROVE  Frugal(row[m], row'[m])
<1> DEFINE r == row[m]
           s == row'[m]
<1>1. r \in Rows
  BY DEF IInv, TypeOK, DatabaseTypeOK
<1>2. CASE row' = row
  BY <1>2 DEF Frugal, Kept
<1>3. ASSUME NEW rs \in RuleSets, NEW full \in BOOLEAN, ResetRules(p, rs, full)
      PROVE  Frugal(r, s)
  <2>1. s = IF Resettable(r) THEN Reset(r, full) ELSE r
    BY <1>3 DEF ResetRules
  <2> HIDE DEF s, r
  <2> QED
    BY <1>1, <2>1, ResetColumns DEF Frugal, Kept, Forgotten, Resettable
<1>4. ASSUME WriteChunk(p) PROVE Frugal(r, s)
  <2>1. s = IF m \in rr_chunk[p] THEN Evaluated(r, rr_set[p], m) ELSE r
    BY <1>4 DEF WriteChunk
  <2>2. rr_set[p] \in Seq(Rules)
    BY RuleSetOfRun
  <2> HIDE DEF s, r
  <2> QED
    BY <1>1, <2>1, <2>2, EvaluatedColumns DEF Frugal, Kept
<1>5. ASSUME WriteStored(p) PROVE Frugal(r, s)
  <2>1. s = IF rr_plan[p][m].action # NULL THEN WithDecision(r, rr_plan[p][m]) ELSE r
    BY <1>5 DEF WriteStored
  <2> HIDE DEF s, r
  <2> QED
    BY <1>1, <2>1, WithDecisionColumns DEF Frugal, Kept
<1> QED
  BY <1>2, <1>3, <1>4, <1>5
     DEF RulesStart, RulesStep, RulesProgress, RunRules, SelectChunk, SelectStored,
         RulesDie, dbVars

(* The gates, the buttons and the apply run leave all verdicts alone.      *)
SameVerdicts(r, s) ==
  /\ s.ruled = r.ruled /\ s.rule_action = r.rule_action
  /\ s.llm_action = r.llm_action /\ LLMVerdict(s) = LLMVerdict(r)

(* None of these steps writes a verdict.                                   *)
LEMMA SettlingKeepsVerdicts ==
  ASSUME IInv, NEW m \in Ids,
         \/ \E q \in Params : ApplyPolicy(q)
         \/ \E ids \in SUBSET Ids : UIStep(ids)
         \/ (\E n \in Limits : ApplyStart(n)) \/ ApplyStep
  PROVE  SameVerdicts(row[m], row'[m]) /\ hits' = hits
<1> DEFINE r == row[m]
           s == row'[m]
<1>1. r \in Rows
  BY DEF IInv, TypeOK, DatabaseTypeOK
<1>2. ASSUME NEW q, ApplyPolicy(q) PROVE SameVerdicts(r, s) /\ hits' = hits
  <2>1. s = Gated(Demoted(r), hits[m], Facts[m], q) /\ hits' = hits
    BY <1>2 DEF ApplyPolicy
  <2> HIDE DEF s, r
  <2>2. Demoted(r) \in Rows /\ SameVerdicts(r, Demoted(r))
    BY <1>1 DEF Demoted, SameVerdicts, Rows, Statuses, LLMVerdict
  <2>3. SameVerdicts(Demoted(r), s)
    BY <2>1, <2>2, StatusColumns DEF Gated, SameVerdicts
  <2> QED
    BY <2>1, <2>2, <2>3 DEF SameVerdicts
<1>3. ASSUME NEW ids, NEW status, SetStatus(ids, status)
      PROVE  SameVerdicts(r, s) /\ hits' = hits
  <2>1. s \in {r, [r EXCEPT !.review_status = status]} /\ hits' = hits
    BY <1>3 DEF SetStatus
  <2> HIDE DEF s, r
  <2> QED
    BY <1>1, <2>1 DEF SameVerdicts, Rows, LLMVerdict
<1>4. ASSUME NEW ids, NEW action \in Actions, SetDecision(ids, action)
      PROVE  SameVerdicts(r, s) /\ hits' = hits
  <2>1. /\ \/ s = r
           \/ s = WithDecision([r EXCEPT !.review_status = "approved"],
                               Decided(action, "human"))
        /\ hits' = hits
    BY <1>4 DEF SetDecision
  <2> HIDE DEF s, r
  <2> QED
    BY <1>1, <2>1 DEF SameVerdicts, WithDecision, Rows, LLMVerdict
<1>5. ASSUME NEW S, NEW status, SetStatusOf(S, status), hits' = hits
      PROVE  SameVerdicts(r, s) /\ hits' = hits
  <2>1. s \in {r, [r EXCEPT !.review_status = status]}
    BY <1>5 DEF SetStatusOf
  <2> HIDE DEF s, r
  <2> QED
    BY <1>1, <1>5, <2>1 DEF SameVerdicts, Rows, LLMVerdict
<1>6. CASE row' = row /\ hits' = hits
  BY <1>6 DEF SameVerdicts
<1> QED
  BY <1>2, <1>3, <1>4, <1>5, <1>6
     DEF UIStep, ApplyStart, ApplyStep, ApplyProgress, ApplySucceed, ApplySkip,
         ApplyError, ApplyDie, dbVars

(* Keeping verdicts is frugal.                                             *)
LEMMA SameVerdictsAreFrugal ==
  ASSUME NEW r, NEW s, SameVerdicts(r, s)
  PROVE  Frugal(r, s)
  BY DEF SameVerdicts, Frugal, Kept

(* The classifier only writes verdicts of rows it has in hand.             *)
LEMMA CommitPays ==
  ASSUME IInv, SoundWork, CommitResults, NEW m \in Ids
  PROVE  /\ PaidOnce(row[m], row'[m])
         /\ cl_result[m].action = NULL => row'[m] = row[m]
<1>1. row'[m] = Classified(row[m], cl_rule[m], cl_result[m])
  BY DEF CommitResults
<1>2. cl_result[m] \in Results /\ row[m] \in Rows
  BY DEF IInv, TypeOK, ClassifyTypeOK, DatabaseTypeOK
<1>3. cl_result[m].action = NULL => row'[m] = row[m]
  BY <1>1, <1>2, ClassifiedColumns
<1>4. cl_result[m].action # NULL => row[m].llm_action = NULL
  BY DEF SoundWork, InWork
<1> QED
  BY <1>3, <1>4 DEF PaidOnce, Kept

(* The steps of the classifier.                                            *)
LEMMA ClassifyPays ==
  ASSUME IInv, SoundWork, (\E n \in Limits : ClassifyStart(n)) \/ ClassifyStep
  PROVE  SoundWork' /\ \A m \in Ids : PaidOnce(row[m], row'[m])
<1> DEFINE Goal == SoundWork' /\ \A m \in Ids : PaidOnce(row[m], row'[m])
<1> USE DEF dbVars, PaidOnce, Kept
<1>0. /\ cl_todo \subseteq Ids /\ cl_batch \subseteq Ids /\ cl_result \in [Ids -> Results]
      /\ \A S, n : FirstById(S, n) \subseteq S
      /\ NoResult.action = NULL
  BY DEF IInv, TypeOK, ClassifyTypeOK, FirstById, NoResult
<1>1. ASSUME NEW n, ClassifyStart(n) PROVE Goal
  <2>1. \A m \in cl_todo' : row[m].llm_action = NULL
    BY <1>0, <1>1 DEF ClassifyStart, Awaiting, AwaitingLLM
  <2>2. cl_pc = "idle" /\ cl_pc' = "next" /\ UNCHANGED <<cl_batch, cl_result, row, hits>>
    BY <1>1 DEF ClassifyStart, ClassifyIdle
  <2>3. cl_batch = {} /\ \A m \in Ids : cl_result[m] = NoResult
    BY <2>2 DEF SoundWork
  <2>4. cl_todo' \subseteq Ids
    BY <1>0, <1>1 DEF ClassifyStart, Awaiting
  <2>5. SoundWork'
    BY <1>0, <2>1, <2>2, <2>3, <2>4 DEF SoundWork, InWork
  <2> QED
    BY <2>2, <2>5
<1>2. ASSUME NextBatch PROVE Goal
  BY <1>0, <1>2 DEF NextBatch, SoundWork, InWork
<1>3. ASSUME NEW m \in Ids, NEW result, Record(m, result), m \in cl_batch,
             cl_pc \in {"batch", "failing"}, cl_pc' \in {"batch", "failing"}
      PROVE  Goal
  BY <1>0, <1>3 DEF Record, SoundWork, InWork
<1>4. ASSUME BatchDone PROVE Goal
  <2>1. CommitResults /\ cl_batch = {} /\ cl_pc' = "next"
        /\ UNCHANGED <<cl_todo, cl_batch>>
    BY <1>4 DEF BatchDone
  <2>2. cl_result' = [m \in Ids |-> NoResult]
    BY <2>1 DEF CommitResults
  <2>3. \A m \in cl_todo : row'[m].llm_action = NULL
    BY <1>0, <2>1, CommitPays DEF SoundWork, InWork
  <2> QED
    BY <1>0, <2>1, <2>2, <2>3, CommitPays DEF SoundWork, InWork
<1>5. ASSUME ClassifyDone PROVE Goal
  BY <1>0, <1>5 DEF ClassifyDone, ClassifyForget, SoundWork, InWork
<1>6. ASSUME ClassifyInterrupt PROVE Goal
  <2>1. CommitResults /\ ClassifyForget
    BY <1>6 DEF ClassifyInterrupt
  <2> QED
    BY <1>0, <2>1, CommitPays DEF CommitResults, ClassifyForget, SoundWork, InWork
<1>7. ASSUME ClassifyKill PROVE Goal
  BY <1>0, <1>7 DEF ClassifyKill, ClassifyForget, SoundWork, InWork
<1> QED
  BY <1>1, <1>2, <1>3, <1>4, <1>5, <1>6, <1>7
     DEF ClassifyStep, ClassifyProgress, LLMGaveUp, LLMAnswered

(* Steps of the others leave the classifier's work unpaid.                 *)
LEMMA OthersPay ==
  ASSUME IInv, SoundWork, UNCHANGED classifyVars, \A m \in Ids : Frugal(row[m], row'[m])
  PROVE  SoundWork' /\ \A m \in Ids : PaidOnce(row[m], row'[m])
  BY DEF SoundWork, InWork, classifyVars, Frugal, PaidOnce

(* So every step keeps the classifier's books and pays for a message once. *)
LEMMA NextPays ==
  ASSUME IInv, SoundWork, [Next]_vars
  PROVE  SoundWork' /\ \A m \in Ids : PaidOnce(row[m], row'[m])
<1>1. CASE StartRules \/ RunsRules
  BY <1>1, RulesAreFrugal, OthersPay DEF StartRules, RunsRules
<1>2. CASE StartClassify \/ RunsClassify
  BY <1>2, ClassifyPays DEF StartClassify, RunsClassify
<1>3. CASE RunsPolicy \/ HumanReviews \/ StartApply \/ RunsApply
  BY <1>3, SettlingKeepsVerdicts, SameVerdictsAreFrugal, OthersPay
     DEF RunsPolicy, HumanReviews, StartApply, RunsApply
<1>4. CASE UNCHANGED vars
  BY <1>4, OthersPay DEF vars, dbVars, Frugal, Kept
<1> QED
  BY <1>1, <1>2, <1>3, <1>4 DEF Next

(* The classifier's bookkeeping is sound.                                  *)
THEOREM WorkIsSound == Spec => []SoundWork
<1>1. Init => SoundWork
  BY DEF Init, ClassifyInit, SoundWork, InWork, NoResult
<1>2. IInv /\ SoundWork /\ [Next]_vars => SoundWork'
  BY NextPays
<1> QED
  BY <1>1, <1>2, AlwaysSound, PTL DEF Spec

(* VerdictPaidOnce: whatever runs beside the classifier, and however often *)
(* it is interrupted, no stored verdict is replaced by another.            *)
THEOREM VerdictsArePaidOnce == Spec => VerdictPaidOnce
<1> DEFINE Paid == \A m \in Ids :
                     row[m].llm_action # NULL /\ LLMVerdict(row'[m]) # LLMVerdict(row[m]) =>
                       /\ row[m].review_status = "pending"
                       /\ row'[m].llm_action = NULL
                       /\ ~row'[m].ruled
<1>1. IInv /\ SoundWork /\ [Next]_vars => [Paid]_vars
  BY NextPays DEF PaidOnce, Kept, Forgotten
<1>2. Spec => [][Paid]_vars
  BY <1>1, AlwaysSound, WorkIsSound, PTL DEF Spec
<1> QED
  BY <1>2 DEF VerdictPaidOnce

-----------------------------------------------------------------------------
(* The recorded votes.                                                     *)

Won(h) == {hit.action : hit \in {x \in h : x.won}}
Explains(h, r) == Won(h) = IF r.ruled /\ r.rule_action # NULL THEN {r.rule_action} ELSE {}

(* What a run has selected and not yet written is not ruled meanwhile.     *)
SoundChunks ==
  \A p \in RulesRuns :
    /\ rr_pc[p] # "chunk" => rr_chunk[p] = {}
    /\ \A m \in rr_chunk[p] : ~row[m].ruled

(* Of a set of rules that match, the one before all others is the winner.  *)
LEMMA WinnerIsFirst ==
  ASSUME NEW rs \in Seq(Rules), NEW m \in Ids, Matching(rs, m) # {}
  PROVE  \E i \in Matching(rs, m) : /\ \A j \in Matching(rs, m) : i <= j
                                    /\ Winner(rs, m) = rs[i]
<1> DEFINE M == Matching(rs, m)
           k == CHOOSE i \in M : \A j \in M : i <= j
<1>1. M \subseteq 1 .. Len(rs) /\ Len(rs) \in Nat
  BY DEF Matching
<1>2. \E i \in M : \A j \in M : i <= j
  BY <1>1, FirstOfMatching
<1>3. k \in M /\ \A j \in M : k <= j
  BY <1>2
<1> QED
  BY <1>3 DEF Winner

(* The votes written for a row say who won.                                *)
LEMMA VotesExplain ==
  ASSUME NEW rs \in Seq(Rules), NEW m \in Ids
  PROVE  Won(HitsOf(rs, m)) =
           IF Matching(rs, m) = {} THEN {} ELSE {Winner(rs, m).action}
<1> DEFINE M == Matching(rs, m)
           vote(i) == [action |-> rs[i].action, won |-> \A j \in M : i <= j]
<1>1. HitsOf(rs, m) = {vote(i) : i \in M}
  BY DEF HitsOf
<1>2. \A i \in M : vote(i).action = rs[i].action /\ (vote(i).won <=> \A j \in M : i <= j)
  OBVIOUS
<1>3. Won(HitsOf(rs, m)) = {rs[i].action : i \in {k \in M : \A j \in M : k <= j}}
  <2> HIDE DEF vote, M
  <2> QED
    BY <1>1, <1>2 DEF Won
<1>4. CASE M = {}
  BY <1>3, <1>4
<1>5. CASE M # {}
  <2>1. PICK k \in M : (\A j \in M : k <= j) /\ Winner(rs, m) = rs[k]
    BY <1>5, WinnerIsFirst
  <2>2. M \subseteq Nat
    BY DEF Matching
  <2>3. {i \in M : \A j \in M : i <= j} = {k}
    BY <2>1, <2>2
  <2> QED
    BY <1>3, <1>5, <2>1, <2>3
<1> QED
  BY <1>4, <1>5

(* The classifier leaves the columns and the votes of the rules alone.     *)
LEMMA ClassifyKeepsRulings ==
  ASSUME IInv, (\E n \in Limits : ClassifyStart(n)) \/ ClassifyStep, NEW m \in Ids
  PROVE  /\ row'[m].ruled = row[m].ruled /\ row'[m].rule_action = row[m].rule_action
         /\ hits' = hits
<1>1. ASSUME CommitResults
      PROVE  /\ row'[m].ruled = row[m].ruled /\ row'[m].rule_action = row[m].rule_action
             /\ hits' = hits
  <2>1. row'[m] = Classified(row[m], cl_rule[m], cl_result[m]) /\ hits' = hits
    BY <1>1 DEF CommitResults
  <2>2. cl_result[m] \in Results /\ row[m] \in Rows
    BY DEF IInv, TypeOK, ClassifyTypeOK, DatabaseTypeOK
  <2> QED
    BY <2>1, <2>2, ClassifiedColumns
<1>2. CommitResults \/ UNCHANGED <<row, hits>>
  BY DEF ClassifyStart, ClassifyStep, ClassifyProgress, NextBatch, LLMGaveUp, LLMAnswered,
     Record, BatchDone, ClassifyDone, ClassifyInterrupt, ClassifyKill, dbVars
<1> QED
  BY <1>1, <1>2

(* A run that is alone keeps its chunk unruled until it writes it.         *)
LEMMA ChunksKeep ==
  ASSUME IInv, SoundChunks, NEW p \in RulesRuns, RulesStart(p) \/ RulesStep(p),
         \A q \in RulesRuns \ {p} : RulesIdle(q)
  PROVE  SoundChunks'
<1>1. /\ rr_pc \in [RulesRuns -> {"idle", "select", "chunk", "finalize", "merge", "dead"}]
      /\ rr_chunk \in [RulesRuns -> SUBSET Ids]
  BY DEF IInv, TypeOK, RulesTypeOK
<1>2. /\ \A q \in RulesRuns \ {p} : rr_chunk'[q] = {}
      /\ rr_chunk' = rr_chunk \/ rr_chunk'[p] = {} \/ SelectChunk(p)
  <2>1. \A q \in RulesRuns \ {p} : rr_chunk[q] = {}
    BY DEF SoundChunks, RulesIdle
  <2>2. \E S : rr_chunk' = [rr_chunk EXCEPT ![p] = S] /\ (S = {} \/ SelectChunk(p) \/ S = rr_chunk[p])
    <3>1. rr_chunk = [rr_chunk EXCEPT ![p] = rr_chunk[p]]
      BY <1>1
    <3> QED
      BY <3>1 DEF RulesStart, RulesStep, RulesProgress, RunRules, ResetRules, SelectChunk,
         WriteChunk, SelectStored, WriteStored, RulesDie
  <2> QED
    BY <1>1, <2>1, <2>2
<1>3. CASE SelectChunk(p)
  <2> DEFINE unruled == {m \in Ids : ~row[m].ruled}
  <2>1. /\ rr_chunk'[p] = FirstById(unruled, RuleBatch) /\ row' = row
        /\ rr_pc'[p] = IF unruled = {} THEN "finalize" ELSE "chunk"
    BY <1>1, <1>3 DEF SelectChunk, dbVars
  <2>2. FirstById(unruled, RuleBatch) \subseteq unruled
    BY DEF FirstById
  <2> QED
    BY <1>2, <2>1, <2>2 DEF SoundChunks
<1>4. CASE rr_chunk' = rr_chunk /\ ~SelectChunk(p)
  <2>1. rr_pc[p] # "chunk" \/ WriteChunk(p) \/ RulesDie(p)
    BY DEF RulesStart, RulesStep, RulesProgress, RunRules, ResetRules, RulesIdle,
       SelectChunk, SelectStored, WriteStored
  <2>2. rr_chunk[p] = {}
    BY <1>1, <1>4, <2>1 DEF SoundChunks, WriteChunk, RulesDie
  <2> QED
    BY <1>2, <1>4, <2>2 DEF SoundChunks
<1>5. CASE rr_chunk'[p] = {}
  BY <1>2, <1>5 DEF SoundChunks
<1> QED
  BY <1>2, <1>3, <1>4, <1>5

(* Ruling a row records why; everything else leaves verdict and votes, or  *)
(* removes both.                                                           *)
LEMMA RulesExplain ==
  ASSUME IInv, SoundChunks, NEW p \in RulesRuns, RulesStart(p) \/ RulesStep(p),
         NEW m \in Ids, Explains(hits[m], row[m])
  PROVE  Explains(hits'[m], row'[m])
<1>1. row[m] \in Rows
  BY DEF IInv, TypeOK, DatabaseTypeOK
<1>2. CASE UNCHANGED dbVars
  BY <1>2 DEF dbVars
<1>3. ASSUME NEW rs \in RuleSets, NEW full \in BOOLEAN, ResetRules(p, rs, full)
      PROVE  Explains(hits'[m], row'[m])
  <2>1. CASE Resettable(row[m])
    <3>1. row'[m] = Reset(row[m], full) /\ hits'[m] = {}
      BY <1>3, <2>1 DEF ResetRules
    <3>2. ~Reset(row[m], full).ruled
      BY <1>1, ResetColumns
    <3> QED
      BY <3>1, <3>2 DEF Explains, Won
  <2>2. CASE ~Resettable(row[m])
    BY <1>3, <2>2 DEF ResetRules
  <2> QED
    BY <2>1, <2>2
<1>4. ASSUME WriteChunk(p) PROVE Explains(hits'[m], row'[m])
  <2> DEFINE rs == rr_set[p]
  <2>1. CASE m \in rr_chunk[p]
    <3>1. row'[m] = Evaluated(row[m], rs, m) /\ hits'[m] = hits[m] \cup HitsOf(rs, m)
      BY <1>4, <2>1 DEF WriteChunk
    <3>2. Won(hits[m]) = {}
      BY <2>1 DEF SoundChunks, Explains
    <3>3. Won(hits'[m]) = Won(HitsOf(rs, m))
      BY <3>1, <3>2 DEF Won
    <3>4. rs \in Seq(Rules)
      BY RuleSetOfRun
    <3> HIDE DEF rs
    <3>5. Matching(rs, m) # {} => Winner(rs, m).action # NULL
      BY <3>4, WinnerIsRule DEF Rules, Actions, NULL
    <3>6. row'[m].ruled /\ row'[m].rule_action =
            IF Matching(rs, m) = {} THEN NULL ELSE Winner(rs, m).action
      BY <1>1, <3>1, <3>4, EvaluatedColumns
    <3>7. Won(hits'[m]) = IF Matching(rs, m) = {} THEN {} ELSE {Winner(rs, m).action}
      BY <3>3, <3>4, VotesExplain
    <3> QED
      BY <3>5, <3>6, <3>7 DEF Explains
  <2>2. CASE m \notin rr_chunk[p]
    BY <1>4, <2>2 DEF WriteChunk
  <2> QED
    BY <2>1, <2>2
<1>5. ASSUME WriteStored(p) PROVE Explains(hits'[m], row'[m])
  <2>1. row'[m] \in {row[m], WithDecision(row[m], rr_plan[p][m])} /\ hits' = hits
    BY <1>5 DEF WriteStored
  <2> QED
    BY <1>1, <2>1 DEF Explains, WithDecision, Rows
<1> QED
  BY <1>2, <1>3, <1>4, <1>5
     DEF RulesStart, RulesStep, RulesProgress, RunRules, SelectChunk, SelectStored, RulesDie

Explained == SoundChunks /\ \A m \in Ids : Explains(hits[m], row[m])

(* A step that leaves rulings and votes alone keeps them explained.        *)
LEMMA KeptRulings ==
  ASSUME IInv, Explained, UNCHANGED rulesVars,
         \A m \in Ids : /\ row'[m].ruled = row[m].ruled
                        /\ row'[m].rule_action = row[m].rule_action /\ hits' = hits
  PROVE  Explained'
<1>1. rr_chunk \in [RulesRuns -> SUBSET Ids]
  BY DEF IInv, TypeOK, RulesTypeOK
<1> QED
  BY <1>1 DEF Explained, SoundChunks, Explains, rulesVars

(* HitsExplainVerdict: with a single rules run at a time, whatever else    *)
(* runs, a rule verdict is always explained by the winner recorded for it. *)
THEOREM HitsExplain ==
  ASSUME NEW run, RulesRuns = {run}
  PROVE  Spec => []HitsExplainVerdict
<1>1. Init => Explained
  BY DEF Init, RulesInit, DatabaseInit, FreshRow, Explained, SoundChunks, Explains, Won
<1>2. IInv /\ Explained /\ [Next]_vars => Explained'
  <2> SUFFICES ASSUME IInv, Explained, [Next]_vars PROVE Explained'
    OBVIOUS
  <2>1. CASE StartRules \/ RunsRules
    BY <2>1, ChunksKeep, RulesExplain DEF StartRules, RunsRules, Explained
  <2>2. CASE StartClassify \/ RunsClassify
    <3>1. UNCHANGED rulesVars
      BY <2>2 DEF StartClassify, RunsClassify
    <3>2. \A m \in Ids : /\ row'[m].ruled = row[m].ruled
                         /\ row'[m].rule_action = row[m].rule_action /\ hits' = hits
      BY <2>2, ClassifyKeepsRulings DEF StartClassify, RunsClassify
    <3> QED
      BY <3>1, <3>2, KeptRulings
  <2>3. CASE RunsPolicy \/ HumanReviews \/ StartApply \/ RunsApply
    <3>1. UNCHANGED rulesVars
      BY <2>3 DEF RunsPolicy, HumanReviews, StartApply, RunsApply
    <3>2. \A m \in Ids : SameVerdicts(row[m], row'[m]) /\ hits' = hits
      BY <2>3, SettlingKeepsVerdicts DEF RunsPolicy, HumanReviews, StartApply, RunsApply
    <3> QED
      BY <3>1, <3>2, KeptRulings DEF SameVerdicts
  <2>4. CASE UNCHANGED vars
    BY <2>4, KeptRulings DEF vars, dbVars
  <2> QED
    BY <2>1, <2>2, <2>3, <2>4 DEF Next
<1>3. Explained => HitsExplainVerdict
  BY DEF Explained, Explains, Won, HitsExplainVerdict
<1> QED
  BY <1>1, <1>2, <1>3, AlwaysSound, PTL DEF Spec

-----------------------------------------------------------------------------
(* The order of the rules of a file.                                       *)

(* The positions, priorities and criteria of the rules of a file.          *)
LEMMA RulesOfFile ==
  ASSUME NEW f \in Seq(FileRules), NEW k \in DOMAIN f
  PROVE  /\ k \in Nat /\ f[k] \in FileRules
         /\ f[k].priority \in Int
         /\ f[k].match \in SUBSET (SUBSET Criteria)
<1>1. k \in Nat /\ f[k] \in FileRules
  OBVIOUS
<1>2. \A r \in FileRules : r.priority \in Int /\ r.match \in SUBSET (SUBSET Criteria)
  <2> HIDE DEF Criteria
  <2> QED
    BY DEF FileRules
<1> QED
  BY <1>1, <1>2

(* Before is a strict order of the rules, in which any two are comparable. *)
LEMMA BeforeIsAnOrder ==
  ASSUME NEW f \in Seq(FileRules), NEW i \in DOMAIN f, NEW j \in DOMAIN f
  PROVE  /\ ~Before(f, i, i)
         /\ i # j => Before(f, i, j) \/ Before(f, j, i)
         /\ \A k \in DOMAIN f : Before(f, i, j) /\ Before(f, j, k) => Before(f, i, k)
<1>1. \A k \in DOMAIN f : k \in Int /\ f[k].priority \in Int
  BY RulesOfFile
<1> QED
  BY <1>1 DEF Before

(* The places of the enabled rules are 1 to their number, and follow that  *)
(* order: fewer rules are before the rule that is before.                  *)
LEMMA Places ==
  ASSUME NEW f \in Seq(FileRules)
  PROVE  LET n == Cardinality(Enabled(f)) IN
           /\ n \in Nat
           /\ \A i \in Enabled(f) : Place(f, i) \in 1 .. n
           /\ \A i, j \in Enabled(f) : Before(f, i, j) => Place(f, i) < Place(f, j)
<1> DEFINE E == Enabled(f)
           Ahead(i) == {j \in E : Before(f, j, i)}
<1>1. E \subseteq DOMAIN f /\ DOMAIN f = 1 .. Len(f) /\ Len(f) \in Nat
  BY DEF Enabled
<1>2. IsFiniteSet(E) /\ Cardinality(E) \in Nat
  <2>1. IsFiniteSet(1 .. Len(f))
    BY <1>1, FS_Interval
  <2> QED
    BY <1>1, <2>1, FS_Subset, FS_CardinalityType
<1>3. ASSUME NEW i PROVE IsFiniteSet(Ahead(i)) /\ Cardinality(Ahead(i)) \in Nat
  BY <1>2, FS_Subset, FS_CardinalityType
<1>4. ASSUME NEW i \in E PROVE Cardinality(Ahead(i)) + 1 \in 1 .. Cardinality(E)
  <2>1. Ahead(i) \subseteq E /\ i \notin Ahead(i)
    BY <1>1, BeforeIsAnOrder
  <2>2. Cardinality(Ahead(i)) <= Cardinality(E) /\ Cardinality(Ahead(i)) # Cardinality(E)
    <3> HIDE DEF Ahead, E
    <3> QED
      BY <1>2, <2>1, FS_Subset
  <2> HIDE DEF Ahead, E
  <2> QED
    BY <1>2, <1>3, <2>2
<1>5. ASSUME NEW i \in E, NEW j \in E, Before(f, i, j)
      PROVE  Cardinality(Ahead(i)) + 1 < Cardinality(Ahead(j)) + 1
  <2>1. Ahead(i) \subseteq Ahead(j) /\ i \in Ahead(j) /\ i \notin Ahead(i)
    BY <1>1, <1>5, BeforeIsAnOrder
  <2> HIDE DEF Ahead, E
  <2>2. /\ Cardinality(Ahead(i)) <= Cardinality(Ahead(j))
        /\ Cardinality(Ahead(i)) # Cardinality(Ahead(j))
    BY <1>3, <2>1, FS_Subset
  <2> QED
    BY <1>3, <2>2
<1>6. \A i : Place(f, i) = Cardinality(Ahead(i)) + 1
  BY DEF Place
<1> HIDE DEF Ahead
<1> QED
  BY <1>2, <1>4, <1>5, <1>6

(* No two rules share a place, and none is empty: the sorted sequence is   *)
(* the enabled rules, each once.                                           *)
LEMMA RulesFillPlaces ==
  ASSUME NEW f \in Seq(FileRules)
  PROVE  /\ \A k \in 1 .. Cardinality(Enabled(f)) :
              RuleAt(f, k) \in Enabled(f) /\ Place(f, RuleAt(f, k)) = k
         /\ \A i \in Enabled(f) : RuleAt(f, Place(f, i)) = i
<1> DEFINE E == Enabled(f)
           n == Cardinality(E)
           place == [i \in E |-> Place(f, i)]
<1>1. E \subseteq DOMAIN f
  BY DEF Enabled
<1>2. n \in Nat /\ \A i \in E : place[i] \in 1 .. n /\ place[i] = Place(f, i)
  BY Places
<1>3. ASSUME NEW i \in E, NEW j \in E, place[i] = place[j] PROVE i = j
  <2>1. Place(f, i) = Place(f, j) /\ Place(f, i) \in Nat
    BY <1>2, <1>3
  <2>2. ~Before(f, i, j) /\ ~Before(f, j, i)
    BY <2>1, Places
  <2> QED
    BY <1>1, <2>2, BeforeIsAnOrder
<1>4. place \in Injection(E, 1 .. n)
  <2>1. place \in [E -> 1 .. n]
    BY <1>2
  <2> HIDE DEF place
  <2> QED
    BY <1>3, <2>1 DEF Injection, IsInjective
<1>5. IsFiniteSet(1 .. n) /\ Cardinality(1 .. n) = n
  BY <1>2, FS_Interval
<1>6. place \in Surjection(E, 1 .. n)
  <2> HIDE DEF place, E
  <2> QED
    BY <1>4, <1>5, FS_Injection
<1>7. ASSUME NEW k \in 1 .. n PROVE \E i \in E : Place(f, i) = k
  <2>1. \E i \in E : place[i] = k
    <3> HIDE DEF place, E
    <3> QED
      BY <1>6 DEF Surjection
  <2> QED
    BY <1>2, <2>1
<1>8. ASSUME NEW k \in 1 .. n PROVE RuleAt(f, k) \in E /\ Place(f, RuleAt(f, k)) = k
  BY <1>7 DEF RuleAt
<1>9. ASSUME NEW i \in E PROVE RuleAt(f, Place(f, i)) = i
  <2>1. Place(f, i) \in 1 .. n
    BY <1>2
  <2>2. RuleAt(f, Place(f, i)) \in E /\ Place(f, RuleAt(f, Place(f, i))) = Place(f, i)
    BY <1>8, <2>1
  <2> QED
    BY <1>2, <1>3, <2>2
<1> QED
  BY <1>8, <1>9

-----------------------------------------------------------------------------
(* What a file compiles to.                                                *)

(* A valid file compiles to rules that the engine can run on: the loader's *)
(* checks are the engine's assumptions.                                    *)
THEOREM ValidFilesCompile ==
  ASSUME NEW f \in Seq(FileRules), Valid(f)
  PROVE  OrderedRules(f) \in Seq(Rules)
<1> DEFINE n == Cardinality(Enabled(f))
<1>1. n \in Nat
  BY Places
<1>2. ASSUME NEW k \in 1 .. n PROVE CompiledRule(f[RuleAt(f, k)]) \in Rules
  <2> DEFINE r == f[RuleAt(f, k)]
  <2>1. RuleAt(f, k) \in DOMAIN f
    BY RulesFillPlaces DEF Enabled
  <2>2. r \in FileRules /\ ValidRule(r)
    BY <2>1 DEF Valid
  <2> HIDE DEF r
  <2>3. /\ ActionOf(r) \in Actions
        /\ r.protect \in BOOLEAN /\ r.confirm_with_llm \in BOOLEAN
        /\ r.ephemeral \in BOOLEAN
        /\ r.protect => ActionOf(r) = "keep" /\ ~r.confirm_with_llm
    BY <2>2 DEF ValidRule, FileRules, Actions
  <2>4. CompiledRule(r) \in Rules
    BY <2>3 DEF CompiledRule, Rules
  <2> QED
    BY <2>4 DEF r
<1>3. OrderedRules(f) = [k \in 1 .. n |-> CompiledRule(f[RuleAt(f, k)])]
  BY DEF OrderedRules
<1> HIDE DEF n
<1>4. OrderedRules(f) \in [1 .. n -> Rules]
  BY <1>2, <1>3
<1> QED
  BY <1>1, <1>4

(* A rule accepts a message as its author reads it.                        *)
LEMMA AcceptsAsWritten ==
  ASSUME NEW f \in Seq(FileRules), NEW m \in Ids
  PROVE  Voting(f, m) = {i \in Enabled(f) : Accepts(f[i], m)}
<1>1. ASSUME NEW c \in Criteria
      PROVE  Holds(c, m) <=> \/ c.field = "text" /\ m \in c.on
                             \/ c.field \in DOMAIN Facts[m] /\ c.is = Facts[m][c.field]
  <2>1. Facts[m] \in [has_attachments : BOOLEAN, age : AgeRange, known_contact : BOOLEAN]
    BY FactsAssumption
  <2>2. DOMAIN Facts[m] = {"has_attachments", "age", "known_contact"}
    BY <2>1
  <2>3. \/ c.field = "text"
        \/ c.field = "has_attachments"
        \/ c.field = "known_contact"
    BY DEF Criteria
  <2>4. CASE c.field = "text"
    BY <2>2, <2>4 DEF Holds
  <2>5. CASE c.field = "has_attachments"
    BY <2>2, <2>5 DEF Holds
  <2>6. CASE c.field = "known_contact"
    BY <2>2, <2>6 DEF Holds
  <2> QED
    BY <2>3, <2>4, <2>5, <2>6
<1>2. ASSUME NEW i \in DOMAIN f
      PROVE  Accepts(f[i], m) <=>
               \E block \in f[i].match : \A c \in block :
                 \/ c.field = "text" /\ m \in c.on
                 \/ c.field \in DOMAIN Facts[m] /\ c.is = Facts[m][c.field]
  <2>1. f[i].match \in SUBSET (SUBSET Criteria)
    BY RulesOfFile
  <2> QED
    BY <1>1, <2>1 DEF Accepts
<1> QED
  BY <1>2 DEF Voting, Enabled

(* The rules that match are those with a vote, each in its place.          *)
LEMMA MatchingIsVoting ==
  ASSUME NEW f \in Seq(FileRules), Valid(f), NEW m \in Ids
  PROVE  LET rs == OrderedRules(f) IN
           /\ \A k \in Matching(rs, m) :
                /\ RuleAt(f, k) \in Voting(f, m)
                /\ Place(f, RuleAt(f, k)) = k
                /\ rs[k].action = ActionOf(f[RuleAt(f, k)])
           /\ \A i \in Voting(f, m) :
                /\ Place(f, i) \in Matching(rs, m)
                /\ rs[Place(f, i)].action = ActionOf(f[i])
<1> DEFINE rs == OrderedRules(f)
           n == Cardinality(Enabled(f))
<1>1. DOMAIN rs = 1 .. n /\ \A k \in 1 .. n : rs[k] = CompiledRule(f[RuleAt(f, k)])
  BY DEF OrderedRules
<1>2. \A r : /\ CompiledRule(r).action = ActionOf(r)
             /\ Matches(CompiledRule(r), m) <=> Accepts(r, m)
  BY DEF CompiledRule, Matches
<1>3. Voting(f, m) = {i \in Enabled(f) : Accepts(f[i], m)}
  BY AcceptsAsWritten
<1>4. Matching(rs, m) = {k \in 1 .. n : Accepts(f[RuleAt(f, k)], m)}
  <2> HIDE DEF rs, n
  <2> QED
    BY <1>1, <1>2 DEF Matching
<1>5. ASSUME NEW k \in Matching(rs, m)
      PROVE  /\ RuleAt(f, k) \in Voting(f, m)
             /\ Place(f, RuleAt(f, k)) = k
             /\ rs[k].action = ActionOf(f[RuleAt(f, k)])
  <2> HIDE DEF rs
  <2> QED
    BY <1>1, <1>2, <1>3, <1>4, <1>5, RulesFillPlaces
<1>6. ASSUME NEW i \in Voting(f, m)
      PROVE  /\ Place(f, i) \in Matching(rs, m)
             /\ rs[Place(f, i)].action = ActionOf(f[i])
  <2>1. i \in Enabled(f) /\ Accepts(f[i], m)
    BY <1>3
  <2>2. Place(f, i) \in 1 .. n /\ RuleAt(f, Place(f, i)) = i
    BY <2>1, Places, RulesFillPlaces
  <2> HIDE DEF rs, n
  <2> QED
    BY <1>1, <1>2, <1>4, <2>1, <2>2
<1> QED
  BY <1>5, <1>6

(* The rule that wins is the one the file says decides.                    *)
LEMMA WinnerDecides ==
  ASSUME NEW f \in Seq(FileRules), Valid(f), NEW m \in Ids,
         Matching(OrderedRules(f), m) # {}
  PROVE  \E i \in Deciding(f, m) :
           Winner(OrderedRules(f), m).action = ActionOf(f[i])
<1> DEFINE rs == OrderedRules(f)
<1>1. PICK k \in Matching(rs, m) :
        (\A l \in Matching(rs, m) : k <= l) /\ Winner(rs, m) = rs[k]
  BY ValidFilesCompile, WinnerIsFirst
<1> DEFINE i == RuleAt(f, k)
<1>2. i \in Voting(f, m) /\ Place(f, i) = k /\ rs[k].action = ActionOf(f[i])
  BY MatchingIsVoting
<1>3. Voting(f, m) \subseteq Enabled(f) /\ Voting(f, m) \subseteq DOMAIN f
  BY DEF Voting, Enabled
<1>4. \A l \in Voting(f, m) : f[l].priority \in Int /\ l \in Int
  BY <1>3, RulesOfFile
<1>5. ASSUME NEW j \in Voting(f, m) PROVE i = j \/ Before(f, i, j)
  <2> HIDE DEF i, rs
  <2>1. Place(f, i) <= Place(f, j) /\ Place(f, i) \in Int /\ Place(f, j) \in Int
    <3>1. k <= Place(f, j)
      BY <1>1, MatchingIsVoting DEF rs
    <3>2. Place(f, i) \in Int /\ Place(f, j) \in Int
      BY <1>2, <1>3, Places
    <3> QED
      BY <1>2, <3>1, <3>2
  <2>2. ~Before(f, j, i)
    BY <1>2, <1>3, <2>1, Places
  <2> QED
    BY <1>2, <1>3, <2>2, BeforeIsAnOrder
<1>6. i \in Deciding(f, m)
  <2> HIDE DEF i, rs
  <2>1. \A j \in Voting(f, m) :
          f[j].priority <= f[i].priority /\ (f[j].priority = f[i].priority => i <= j)
    BY <1>2, <1>4, <1>5 DEF Before
  <2> QED
    BY <1>2, <1>4, <2>1 DEF Deciding
<1> QED
  BY <1>1, <1>2, <1>6

-----------------------------------------------------------------------------
(* What a run does with it.                                                *)

(* A run that still evaluates rows holds rules that a file gave it.        *)
HoldsRules ==
  \A p \in RulesRuns : rr_pc[p] \in {"select", "chunk", "finalize"} => rr_set[p] \in RuleSets

(* At the start no run evaluates anything.                                 *)
LEMMA StartsHoldRules == Init => HoldsRules
  BY DEF Init, RulesInit, HoldsRules

(* A run loads its rules when it starts and forgets them when it has no    *)
(* more rows.                                                              *)
LEMMA StepsHoldRules == TypeOK /\ HoldsRules /\ [Next]_vars => HoldsRules'
<1> SUFFICES ASSUME TypeOK, HoldsRules, [Next]_vars, ~UNCHANGED rulesVars
             PROVE  HoldsRules'
  BY DEF HoldsRules, rulesVars
<1>1. PICK p \in RulesRuns : RulesStart(p) \/ RulesStep(p)
  BY DEF Next, StartRules, RunsRules, StartClassify, RunsClassify, RunsPolicy, HumanReviews,
     StartApply, RunsApply, vars, rulesVars
<1> USE DEF TypeOK, RulesTypeOK, HoldsRules
<1>2. ASSUME NEW rs \in RuleSets, \/ RunRules(p, rs)
                                  \/ \E full \in BOOLEAN : ResetRules(p, rs, full)
      PROVE  HoldsRules'
  BY <1>2 DEF RunRules, ResetRules
<1>3. CASE SelectChunk(p)
  BY <1>3 DEF SelectChunk
<1>4. CASE WriteChunk(p)
  BY <1>4 DEF WriteChunk
<1>5. CASE SelectStored(p)
  <2>1. PICK pc \in {"idle", "merge"} : rr_pc' = [rr_pc EXCEPT ![p] = pc]
    BY <1>5 DEF SelectStored
  <2> QED
    BY <1>5, <2>1 DEF SelectStored
<1>6. CASE WriteStored(p)
  BY <1>6 DEF WriteStored
<1>7. CASE RulesDie(p)
  BY <1>7 DEF RulesDie
<1> QED
  BY <1>1, <1>2, <1>3, <1>4, <1>5, <1>6, <1>7 DEF RulesStart, RulesStep, RulesProgress

(* The write of a chunk is the only step between these two points.         *)
LEMMA ChunksAreWritten ==
  ASSUME TypeOK, [Next]_vars, NEW p \in RulesRuns, rr_pc[p] = "chunk", rr_pc'[p] = "select"
  PROVE  WriteChunk(p)
<1>1. PICK q \in RulesRuns : RulesStart(q) \/ RulesStep(q)
  BY DEF Next, StartRules, RunsRules, StartClassify, RunsClassify, RunsPolicy, HumanReviews,
     StartApply, RunsApply, vars, rulesVars
<1>2. \E pc : rr_pc' = [rr_pc EXCEPT ![q] = pc]
  BY <1>1 DEF RulesStart, RulesStep, RulesProgress, RunRules, ResetRules, SelectChunk,
     WriteChunk, SelectStored, WriteStored, RulesDie
<1>3. q = p
  BY <1>2 DEF TypeOK, RulesTypeOK
<1>4. rr_pc'[p] # "dead"
  OBVIOUS
<1> QED
  BY <1>1, <1>3, <1>4 DEF TypeOK, RulesTypeOK, RulesStart, RulesStep, RulesProgress, RulesIdle,
     RunRules, ResetRules, SelectChunk, SelectStored, WriteStored, RulesDie

Ruling ==
  \A p \in RulesRuns :
    rr_pc[p] = "chunk" /\ rr_pc'[p] = "select" =>
      \E f \in DOMAIN Compiled :
        /\ Compiled[f] = rr_set[p]
        /\ \A m \in rr_chunk[p] :
             /\ {ActionOf(f[i]) : i \in Voting(f, m)} \subseteq
                  {hit.action : hit \in hits'[m]}
             /\ row'[m].rule_action \in
                  IF Voting(f, m) = {} THEN {NULL}
                  ELSE {ActionOf(f[i]) : i \in Deciding(f, m)}

(* Every row of a chunk gets the verdict, and the votes, of the file.      *)
LEMMA RunsRuleByTheFile == IInv /\ HoldsRules /\ [Next]_vars => Ruling
<1> SUFFICES ASSUME IInv, HoldsRules, [Next]_vars, NEW p \in RulesRuns,
                    rr_pc[p] = "chunk", rr_pc'[p] = "select"
             PROVE  \E f \in DOMAIN Compiled :
                      /\ Compiled[f] = rr_set[p]
                      /\ \A m \in rr_chunk[p] :
                           /\ {ActionOf(f[i]) : i \in Voting(f, m)} \subseteq
                                {hit.action : hit \in hits'[m]}
                           /\ row'[m].rule_action \in
                                IF Voting(f, m) = {} THEN {NULL}
                                ELSE {ActionOf(f[i]) : i \in Deciding(f, m)}
  BY DEF Ruling
<1>1. WriteChunk(p)
  BY ChunksAreWritten DEF IInv
<1>2. PICK f \in DOMAIN Compiled : rr_set[p] = Compiled[f]
  BY CompiledAssumption DEF HoldsRules
<1> DEFINE rs == OrderedRules(f)
<1>3. f \in Seq(FileRules) /\ Valid(f) /\ rr_set[p] = rs
  BY <1>2, RuleFilesAssumption DEF Compiled
<1>4. ASSUME NEW m \in rr_chunk[p]
      PROVE  /\ {ActionOf(f[i]) : i \in Voting(f, m)} \subseteq
                  {hit.action : hit \in hits'[m]}
             /\ row'[m].rule_action \in
                  IF Voting(f, m) = {} THEN {NULL}
                  ELSE {ActionOf(f[i]) : i \in Deciding(f, m)}
  <2>1. m \in Ids /\ row[m] \in Rows
    BY DEF IInv, TypeOK, DatabaseTypeOK, RulesTypeOK
  <2>2. row'[m] = Evaluated(row[m], rs, m) /\ hits'[m] = hits[m] \cup HitsOf(rs, m)
    BY <1>1, <1>3, <2>1 DEF WriteChunk
  <2>3. rs \in Seq(Rules)
    BY <1>3, ValidFilesCompile
  <2>4. ASSUME NEW i \in Voting(f, m)
        PROVE  \E hit \in HitsOf(rs, m) : hit.action = ActionOf(f[i])
    <3>1. Place(f, i) \in Matching(rs, m) /\ rs[Place(f, i)].action = ActionOf(f[i])
      BY <1>3, <2>1, MatchingIsVoting
    <3> DEFINE vote(k) == [action |-> rs[k].action,
                           won |-> \A j \in Matching(rs, m) : k <= j]
    <3>2. HitsOf(rs, m) = {vote(k) : k \in Matching(rs, m)}
      BY DEF HitsOf
    <3>3. vote(Place(f, i)).action = rs[Place(f, i)].action
      OBVIOUS
    <3> HIDE DEF vote
    <3> HIDE DEF rs
    <3> QED
      BY <3>1, <3>2, <3>3
  <2>5. {ActionOf(f[i]) : i \in Voting(f, m)} \subseteq {hit.action : hit \in hits'[m]}
    <3> HIDE DEF rs
    <3> QED
      BY <2>2, <2>4
  <2>6. row'[m].rule_action = IF Matching(rs, m) = {} THEN NULL ELSE Winner(rs, m).action
    BY <2>1, <2>2, <2>3, EvaluatedColumns
  <2>7. Voting(f, m) = {} <=> Matching(rs, m) = {}
    BY <1>3, <2>1, MatchingIsVoting
  <2>8. CASE Matching(rs, m) = {}
    BY <2>5, <2>6, <2>7, <2>8
  <2>9. CASE Matching(rs, m) # {}
    <3>1. PICK i \in Deciding(f, m) : Winner(rs, m).action = ActionOf(f[i])
      BY <1>3, <2>1, <2>9, WinnerDecides
    <3> QED
      BY <2>5, <2>6, <2>7, <2>9, <3>1
  <2> QED
    BY <2>8, <2>9
<1> QED
  BY <1>2, <1>4

(* Whatever files the user writes and loads, and whatever runs beside the  *)
(* rules run, its verdicts are those that the file's author would read off *)
(* it: highest priority first, ties by the order of the file.              *)
THEOREM VerdictsFollowTheFile == Spec => RuledByTheFile
<1>1. Init => HoldsRules
  BY StartsHoldRules
<1>2. IInv /\ HoldsRules /\ [Next]_vars => HoldsRules'
  BY StepsHoldRules DEF IInv
<1>3. Spec => []HoldsRules
  BY <1>1, <1>2, AlwaysSound, PTL DEF Spec
<1>4. Spec => [][Ruling]_vars
  BY <1>3, RunsRuleByTheFile, AlwaysSound, PTL DEF Spec
<1> QED
  BY <1>4 DEF RuledByTheFile, Ruling
=============================================================================
