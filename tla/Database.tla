------------------------------ MODULE Database ------------------------------
(***************************************************************************)
(* The SQLite file that all stages share, as far as decisions go: the      *)
(* messages table, the rule_hits table, and SQLite's single write lock.    *)
(*                                                                         *)
(* Every stage commits whole transactions.  All but one of them are        *)
(* opened, written and committed without waiting for anything, and so are  *)
(* single steps guarded by WriteLockFree.  The classifier is the           *)
(* exception: its first write opens a transaction that it commits only     *)
(* when its batch is done, and "writer" names it as the lock's holder in   *)
(* between.  A SELECT never waits (WAL) and reads what is committed.       *)
(***************************************************************************)
EXTENDS Models, FiniteSets

CONSTANTS Ids,       \* the primary keys of the messages, in id order
          Facts      \* per message, what ingest stored: attachments, age, sender

AgeRange == -1 .. 100     \* an age; NoAge stands for a NULL date_epoch
NoAge == -1

ASSUME IdsAssumption == Ids \subseteq Nat /\ IsFiniteSet(Ids)
ASSUME FactsAssumption ==
  Facts \in [Ids -> [has_attachments : BOOLEAN, age : AgeRange,
                     known_contact : BOOLEAN]]

VARIABLES row,      \* the messages table
          hits,     \* the rule_hits table: per message, the votes recorded
          writer    \* who holds the write lock between two steps, or NULL

dbVars == <<row, hits, writer>>

Hits == [action : Actions, won : BOOLEAN]
Classifier == "classify"

DatabaseTypeOK ==
  /\ row \in [Ids -> Rows]
  /\ hits \in [Ids -> SUBSET Hits]
  /\ writer \in {NULL, Classifier}

DatabaseInit ==
  /\ row = [m \in Ids |-> FreshRow]
  /\ hits = [m \in Ids |-> {}]
  /\ writer = NULL

WriteLockFree == writer = NULL

(* SELECT ... ORDER BY id LIMIT n                                          *)
FirstById(S, n) == {m \in S : Cardinality({x \in S : x < m}) < n}
=============================================================================
