------------------------------- MODULE Policy -------------------------------
(***************************************************************************)
(* policy.py: the gates, the only place where auto-approval happens.       *)
(*                                                                         *)
(* apply_policy is one transaction of three UPDATEs: every row that was    *)
(* auto-approved goes back to pending, then the trash gate and the archive *)
(* gate approve the pending rows they accept.                              *)
(***************************************************************************)
EXTENDS Database

(* The PolicyParams, with ages in the unit of Facts.  A confidence bound   *)
(* above FullConf closes the path it guards.                               *)
Bounds == 0 .. FullConf + 1
PolicyParams ==
  [trash_confidence : Bounds, archive_confidence : Bounds,
   llm_only_confidence : Bounds, rule_only_trash : BOOLEAN,
   min_age : AgeRange, ephemeral_min_age : AgeRange]

KeepHit(h) == \E hit \in h : hit.action = "keep"

Confident(r, bound) == r.llm_confidence # NoConf /\ r.llm_confidence >= bound

(* _NOT_KNOWN_CONTACT and _NO_KEEP_HIT, which both gates share.            *)
NotProtected(r, h, f) == ~f.known_contact /\ ~r.rule_protected /\ ~KeepHit(h)

OldEnough(r, f, q) ==
  /\ f.age # NoAge
  /\ \/ f.age > q.min_age
     \/ r.rule_ephemeral /\ r.llm_ephemeral /\ f.age > q.ephemeral_min_age

LLMOnly(r, q) == r.decision_source = "llm" /\ Confident(r, q.llm_only_confidence)

(* The gates but for their condition on review_status.                     *)
TrashWorthy(r, h, f, q) ==
  /\ r.staged_action = "trash"
  /\ \/ /\ r.rule_action = "trash"
        /\ r.decision_source = "rule+llm"
        /\ Confident(r, q.trash_confidence)
     \/ r.rule_action = "trash" /\ q.rule_only_trash /\ r.decision_source = "rule"
     \/ LLMOnly(r, q)
  /\ ~f.has_attachments
  /\ OldEnough(r, f, q)
  /\ NotProtected(r, h, f)

ArchiveWorthy(r, h, f, q) ==
  /\ r.staged_action = "archive"
  /\ \/ /\ r.rule_action = "archive"
        /\ \/ Confident(r, q.archive_confidence)
           \/ r.llm_confidence = NoConf /\ FullConf >= q.archive_confidence
     \/ LLMOnly(r, q)
  /\ NotProtected(r, h, f)

TrashGate(r, h, f, q) == r.review_status = "pending" /\ TrashWorthy(r, h, f, q)
ArchiveGate(r, h, f, q) == r.review_status = "pending" /\ ArchiveWorthy(r, h, f, q)

(* Mutant: approvals of both kinds are withdrawn.                          *)
DemotedAny(r) ==
  IF r.review_status \in Approvable
  THEN [r EXCEPT !.review_status = "pending"] ELSE r

Demoted(r) ==
  IF r.review_status = "auto_approved"
  THEN [r EXCEPT !.review_status = "pending"] ELSE r

Gated(r, h, f, q) ==
  IF TrashGate(r, h, f, q) \/ ArchiveGate(r, h, f, q)
  THEN [r EXCEPT !.review_status = "auto_approved"] ELSE r

(* Mutant: the preview counts the rows that are pending now.               *)
PreviewPending(q) ==
  {m \in Ids : \/ TrashGate(row[m], hits[m], Facts[m], q)
               \/ ArchiveGate(row[m], hits[m], Facts[m], q)}

(* preview_policy: the gates' WHERE, but for pending or auto-approved rows.*)
Preview(q) ==
  {m \in Ids : /\ row[m].review_status \in {"pending", "auto_approved"}
               /\ \/ TrashWorthy(row[m], hits[m], Facts[m], q)
                  \/ ArchiveWorthy(row[m], hits[m], Facts[m], q)}

ApplyPolicy(q) ==
  /\ WriteLockFree
  /\ row' = [m \in Ids |-> Gated(Demoted(row[m]), hits[m], Facts[m], q)]
  /\ UNCHANGED <<hits, writer>>
=============================================================================
