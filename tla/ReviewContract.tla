--------------------------- MODULE ReviewContract ---------------------------
(***************************************************************************)
(* What the pipeline promises about each message, whoever runs: the life   *)
(* of its decision (staged_action and decision_source) and of its review   *)
(* status.  Stages may decide and re-decide only what no one has approved; *)
(* past that, only a human changes a decision; only the gates auto-approve,*)
(* and only concrete decisions of the stages; and only what is approved    *)
(* and actionable is ever settled.                                         *)
(*                                                                         *)
(* The stages work on many messages in one transaction, so a step of the   *)
(* contract lets every message take a step of its own, or none.            *)
(***************************************************************************)
EXTENDS Models

CONSTANT Ids

VARIABLES decision, status

contract == <<decision, status>>

ContractInit ==
  /\ decision = [m \in Ids |-> Undecided]
  /\ status = [m \in Ids |-> "pending"]

Is(m, s) == status[m] = s
Becomes(m, s) == status'[m] = s
SameDecision(m) == decision'[m] = decision[m]
HumanDecision(m) == decision'[m].source = "human"

(* The rules or the LLM speak.  A row rejected before anything was decided *)
(* keeps its status, but may still learn what they would have done.        *)
StageDecides(m) ==
  /\ \/ Is(m, "pending")
     \/ Is(m, "rejected") /\ decision[m] = Undecided
  /\ status'[m] = status[m]
  /\ ~HumanDecision(m)

GateApproves(m) ==
  /\ Is(m, "pending")
  /\ Becomes(m, "auto_approved")
  /\ SameDecision(m)
  /\ decision[m].action \in Actionable
  /\ decision[m].source \notin {"human", NULL}

GateWithdraws(m) == Is(m, "auto_approved") /\ Becomes(m, "pending") /\ SameDecision(m)

HumanApproves(m) ==
  /\ ~Is(m, "applied")
  /\ decision[m] # Undecided
  /\ Becomes(m, "approved")
  /\ SameDecision(m)

HumanRejects(m) == ~Is(m, "applied") /\ Becomes(m, "rejected") /\ SameDecision(m)

HumanDecides(m) ==
  /\ ~Is(m, "applied")
  /\ Becomes(m, "approved")
  /\ HumanDecision(m)
  /\ decision'[m].action \in Actions

RunnerSettles(m) ==
  /\ status[m] \in Approvable
  /\ decision[m].action \in Actionable
  /\ Becomes(m, "applied") \/ Becomes(m, "skipped")
  /\ SameDecision(m)

ContractStep(m) ==
  \/ StageDecides(m)
  \/ GateApproves(m) \/ GateWithdraws(m)
  \/ HumanApproves(m) \/ HumanRejects(m) \/ HumanDecides(m)
  \/ RunnerSettles(m)
  \/ status'[m] = status[m] /\ SameDecision(m)

ContractNext == \A m \in Ids : ContractStep(m)

ContractSpec == ContractInit /\ [][ContractNext]_contract
=============================================================================
