----------------------------- MODULE RulesEngine -----------------------------
(***************************************************************************)
(* rules/engine.py: run_rules and finalize_with_stored_llm, at the         *)
(* granularity of their transactions.                                      *)
(*                                                                         *)
(* A run may first reset the pending rows.  It then loops: select a chunk  *)
(* of rows that have not been ruled, evaluate every rule on them, write    *)
(* and commit.  When none is left it finalizes the rows that already carry *)
(* an LLM verdict.  A run is started from the command line or by a button  *)
(* of the review UI's Rules page, so several runs may exist at once;       *)
(* RulesRuns names them.                                                   *)
(***************************************************************************)
EXTENDS Database, Sequences

CONSTANTS RulesRuns,   \* the processes that may run the engine
          RuleSets,    \* the contents rules.toml may have
          RuleBatch    \* BATCH_SIZE

(* An enabled rule.  "on" is the set of messages its match accepts: the    *)
(* rules read only columns that no stage writes.                           *)
Rules == {r \in [action : Actions, protect : BOOLEAN, confirm_with_llm : BOOLEAN,
                 ephemeral : BOOLEAN, on : SUBSET Ids] :
            r.protect => r.action = "keep" /\ ~r.confirm_with_llm}

(* A rule set is the sequence ordered_rules returns.                       *)
ASSUME RuleSetsAssumption == RuleSets \subseteq Seq(Rules) /\ RuleSets # {}
ASSUME RuleBatchAssumption == RuleBatch \in Nat \ {0}

VARIABLES rr_pc,       \* where each run is
          rr_set,      \* the rule set it loaded, while it still evaluates rows
          rr_chunk,    \* the rows it selected and has not written back
          rr_plan      \* the decisions it is about to write when finalizing

rulesVars == <<rr_pc, rr_set, rr_chunk, rr_plan>>

NoPlan == [m \in Ids |-> Undecided]
NoRules == <<>>                      \* what rr_set holds between runs

RulesTypeOK ==
  /\ rr_pc \in [RulesRuns -> {"idle", "select", "chunk", "finalize", "merge", "dead"}]
  /\ rr_set \in [RulesRuns -> RuleSets \cup {NoRules}]
  /\ rr_chunk \in [RulesRuns -> SUBSET Ids]
  /\ rr_plan \in [RulesRuns -> [Ids -> Decisions]]

RulesInit ==
  /\ rr_pc = [p \in RulesRuns |-> "idle"]
  /\ rr_set = [p \in RulesRuns |-> NoRules]
  /\ rr_chunk = [p \in RulesRuns |-> {}]
  /\ rr_plan = [p \in RulesRuns |-> NoPlan]

RulesIdle(p) == rr_pc[p] \in {"idle", "dead"}

-----------------------------------------------------------------------------
(* Evaluation of one message: which rules match it, and which one wins.    *)

Matches(rule, m) == m \in rule.on
Matching(rs, m) == {i \in DOMAIN rs : Matches(rs[i], m)}
Winner(rs, m) == rs[CHOOSE i \in Matching(rs, m) : \A j \in Matching(rs, m) : i <= j]

DecidesAlone(rule) == rule.protect \/ ~rule.confirm_with_llm

Evaluated(r, rs, m) ==
  IF Matching(rs, m) = {}
  THEN WithDecision([r EXCEPT !.ruled = TRUE, !.rule_action = NULL,
                              !.rule_protected = FALSE, !.rule_ephemeral = FALSE],
                    Undecided)
  ELSE LET w == Winner(rs, m) IN
       WithDecision([r EXCEPT !.ruled = TRUE, !.rule_action = w.action,
                              !.rule_protected = w.protect,
                              !.rule_ephemeral = w.ephemeral],
                    IF DecidesAlone(w) THEN Decided(w.action, "rule") ELSE Undecided)

(* Mutant: every matching rule is recorded as the winner.                  *)
HitsAllWon(rs, m) == {[action |-> rs[i].action, won |-> TRUE] : i \in Matching(rs, m)}

HitsOf(rs, m) ==
  {[action |-> rs[i].action,
    won |-> \A j \in Matching(rs, m) : i <= j] : i \in Matching(rs, m)}

(* Mutant: the verdict goes, the decision that came of it stays.           *)
ResetVerdict(r, full) ==
  LET s == [r EXCEPT !.ruled = FALSE, !.rule_action = NULL,
                     !.rule_protected = FALSE, !.rule_ephemeral = FALSE]
  IN  IF full THEN [s EXCEPT !.llm_action = NULL, !.llm_confidence = NoConf] ELSE s

Reset(r, full) ==
  LET s == WithDecision([r EXCEPT !.ruled = FALSE, !.rule_action = NULL,
                                  !.rule_protected = FALSE, !.rule_ephemeral = FALSE],
                        Undecided)
  IN  IF full
      THEN [s EXCEPT !.llm_action = NULL, !.llm_confidence = NoConf,
                     !.llm_ephemeral = FALSE]
      ELSE s

(* Mutants: a reset spares only approved, or only applied, rows.           *)
ResettableUnlessApproved(r) == r.review_status \notin {"approved", "applied"}
ResettableUnlessApplied(r) == r.review_status # "applied"

Resettable(r) == r.review_status = "pending"

(* Mutant: only rows that a rule has matched are looked at again.          *)
MergeableWithRule(r) == NeedsDecision(r) /\ r.ruled /\ r.rule_action # NULL

(* The rows finalize_with_stored_llm selects.                              *)
Mergeable(r) == NeedsDecision(r) /\ r.ruled

-----------------------------------------------------------------------------
(* The steps of run p.                                                     *)

RunRules(p, rs) ==
  /\ RulesIdle(p)
  /\ rr_pc' = [rr_pc EXCEPT ![p] = "select"]
  /\ rr_set' = [rr_set EXCEPT ![p] = rs]
  /\ UNCHANGED <<rr_chunk, rr_plan>>
  /\ UNCHANGED dbVars

ResetRules(p, rs, full) ==
  /\ RulesIdle(p)
  /\ WriteLockFree
  /\ row' = [m \in Ids |-> IF Resettable(row[m]) THEN Reset(row[m], full) ELSE row[m]]
  /\ hits' = [m \in Ids |-> IF Resettable(row[m]) THEN {} ELSE hits[m]]
  /\ rr_pc' = [rr_pc EXCEPT ![p] = "select"]
  /\ rr_set' = [rr_set EXCEPT ![p] = rs]
  /\ UNCHANGED <<rr_chunk, rr_plan, writer>>

SelectChunk(p) ==
  /\ rr_pc[p] = "select"
  /\ LET unruled == {m \in Ids : ~row[m].ruled} IN
       /\ rr_chunk' = [rr_chunk EXCEPT ![p] = FirstById(unruled, RuleBatch)]
       /\ rr_pc' = [rr_pc EXCEPT ![p] = IF unruled = {} THEN "finalize" ELSE "chunk"]
  /\ UNCHANGED <<rr_set, rr_plan>>
  /\ UNCHANGED dbVars

WriteChunk(p) ==
  /\ rr_pc[p] = "chunk"
  /\ WriteLockFree
  /\ row' = [m \in Ids |-> IF m \in rr_chunk[p]
                           THEN Evaluated(row[m], rr_set[p], m) ELSE row[m]]
  /\ hits' = [m \in Ids |-> IF m \in rr_chunk[p]
                            THEN hits[m] \cup HitsOf(rr_set[p], m) ELSE hits[m]]
  /\ rr_pc' = [rr_pc EXCEPT ![p] = "select"]
  /\ rr_chunk' = [rr_chunk EXCEPT ![p] = {}]
  /\ UNCHANGED <<rr_set, rr_plan, writer>>

(* finalize_with_stored_llm reads first and writes in a later transaction. *)
SelectStored(p) ==
  /\ rr_pc[p] = "finalize"
  /\ LET plan == [m \in Ids |->
                    IF Mergeable(row[m])
                    THEN Finalize(row[m].rule_action, row[m].llm_action)
                    ELSE Undecided]
     IN  /\ rr_plan' = [rr_plan EXCEPT ![p] = plan]
         /\ rr_pc' = [rr_pc EXCEPT ![p] = IF plan = NoPlan THEN "idle" ELSE "merge"]
  /\ rr_set' = [rr_set EXCEPT ![p] = NoRules]
  /\ UNCHANGED rr_chunk
  /\ UNCHANGED dbVars

WriteStored(p) ==
  /\ rr_pc[p] = "merge"
  /\ WriteLockFree
  /\ row' = [m \in Ids |-> IF rr_plan[p][m].action # NULL
                           THEN WithDecision(row[m], rr_plan[p][m]) ELSE row[m]]
  /\ rr_pc' = [rr_pc EXCEPT ![p] = "idle"]
  /\ rr_plan' = [rr_plan EXCEPT ![p] = NoPlan]
  /\ UNCHANGED <<hits, writer, rr_set, rr_chunk>>

(* Ctrl-C, a crash, or "database is locked": what was not committed is     *)
(* rolled back.                                                            *)
RulesDie(p) ==
  /\ ~RulesIdle(p)
  /\ rr_pc' = [rr_pc EXCEPT ![p] = "dead"]
  /\ rr_chunk' = [rr_chunk EXCEPT ![p] = {}]
  /\ rr_plan' = [rr_plan EXCEPT ![p] = NoPlan]
  /\ rr_set' = [rr_set EXCEPT ![p] = NoRules]
  /\ UNCHANGED dbVars

RulesStart(p) ==
  \E rs \in RuleSets : \/ RunRules(p, rs)
                       \/ \E full \in BOOLEAN : ResetRules(p, rs, full)

RulesProgress(p) == SelectChunk(p) \/ WriteChunk(p) \/ SelectStored(p) \/ WriteStored(p)

RulesStep(p) == RulesProgress(p) \/ RulesDie(p)
=============================================================================
