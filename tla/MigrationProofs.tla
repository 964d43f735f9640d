-------------------------- MODULE MigrationProofs --------------------------
(***************************************************************************)
(* Proofs about Migration for every set of messages and whatever rows a v5 *)
(* database holds: what opens as version 6 is sound, the work in it        *)
(* survives, and the backup is the original, wherever the script is killed *)
(* and however often it is run.                                            *)
(***************************************************************************)
EXTENDS Migration, TLAPS

(* What opens as version 6 holds of one row, ...                           *)
SoundNew(r) ==
  /\ r.staged_action \in Actions \cup {NULL}
  /\ r.staged_action = NULL <=> r.decision_source = NULL
  /\ r.review_status \in Approvable => r.staged_action # NULL

(* ... and what is left in it of the row it was.                           *)
Keeps(was, is) ==
  /\ is.llm_action = was.llm_action
  /\ ~Empty(was) => is = was
  /\ was.review_status \notin Approvable => is.review_status = was.review_status

(* The version tells which of two tables this is.                          *)
TableIsKnown ==
  /\ old \in [Ids -> OldRows]
  /\ db.version = 5 => db.row = old
  /\ db.version = 6 => db.row = [m \in Ids |-> Migrated(old[m])]

(* Only a v5 database is worked on, and the new column comes first.        *)
Staged ==
  /\ db.column = "action" => db.version = 5
  /\ mg_pc # "idle" => db.version = 5
  /\ mg_pc = "renamed" => db.column # "action"

TableInv == TypeOK /\ TableIsKnown /\ Staged

(* The backup is good when the script turns to the database, and no longer *)
(* touched once that has been changed: from then on, an unharmed run is    *)
(* either about to commit or over.                                         *)
BackupInv ==
  /\ mg_pc = "copied" /\ db.column = "action" /\ ~lagging => backup = Copy("whole", db)
  /\ db.column # "action" /\ ~halfway => db.version = 6 \/ mg_pc = "renamed"
  /\ BackupIsTheOriginal

IInv == TableInv /\ BackupInv

-----------------------------------------------------------------------------
(* The two updates, on one row.                                            *)

(* Rows keep their shape.                                                  *)
LEMMA MigratedType ==
  ASSUME NEW r \in V5Rows
  PROVE  Migrated(r) \in V5Rows
  BY DEF Migrated, MadeUndecided, WithoutEmptyApproval, WithDecision, Undecided, Decided,
         V5Rows, Statuses, Approvable

(* A migrated row is as version 6 wants it.                                *)
LEMMA MigratedIsSound ==
  ASSUME NEW r \in V5Rows, r.staged_action = NULL <=> r.decision_source = NULL
  PROVE  SoundNew(Migrated(r))
<1>1. CASE r.staged_action = Review
  BY <1>1 DEF Migrated, MadeUndecided, WithoutEmptyApproval, WithDecision, Undecided, Decided,
              V5Rows, Approvable, SoundNew, NULL, Review
<1>2. CASE r.staged_action # Review
  <2>1. MadeUndecided(r) = r
    BY <1>2 DEF MadeUndecided
  <2> QED
    BY <1>2, <2>1 DEF Migrated, WithoutEmptyApproval, V5Rows, Approvable, SoundNew
<1> QED
  BY <1>1, <1>2

(* A migrated row keeps the work done on it.                               *)
LEMMA MigratedKeeps ==
  ASSUME NEW r \in V5Rows
  PROVE  Keeps(r, Migrated(r))
<1>1. CASE r.staged_action = Review
  BY <1>1 DEF Migrated, MadeUndecided, WithoutEmptyApproval, WithDecision, Undecided, Decided,
              V5Rows, Approvable, Keeps, Empty, NULL, Review
<1>2. CASE r.staged_action # Review
  <2>1. MadeUndecided(r) = r
    BY <1>2 DEF MadeUndecided
  <2> QED
    BY <1>2, <2>1 DEF Migrated, WithoutEmptyApproval, V5Rows, Approvable, Keeps, Empty
<1> QED
  BY <1>1, <1>2

-----------------------------------------------------------------------------
(* The invariant of the table.                                             *)

(* A database of the old program has all its work in the table.            *)
LEMMA InitTable == Init => TableInv
<1> SUFFICES ASSUME Init PROVE TableInv
  OBVIOUS
<1>1. db \in Files
  BY OldRowsAssumption DEF Init, Files
<1>2. TypeOK
  BY <1>1, OldRowsAssumption DEF Init, TypeOK, Copy, Files
<1>3. TableIsKnown /\ Staged
  BY DEF Init, TableIsKnown, Staged
<1> QED
  BY <1>2, <1>3 DEF TableInv

(* What a commit leaves in the file is a database.                         *)
LEMMA FileIsTyped ==
  ASSUME main \in Files, db' \in Files, FileMayLag
  PROVE  main' \in Files
  BY BacklogAssumption DEF FileMayLag

(* No step of the script, a crash or the log loses any of it.              *)
LEMMA NextTable == TableInv /\ [Next]_vars => TableInv'
<1> SUFFICES ASSUME TableInv, [Next]_vars PROVE TableInv'
  OBVIOUS
<1> USE DEF TableInv, TypeOK, TableIsKnown, Staged
<1>1. CASE Guard
  BY <1>1 DEF Guard
<1>2. CASE OpenBackup
  BY <1>2 DEF OpenBackup
<1>3. CASE CopyMain
  BY <1>3 DEF CopyMain, Copy
<1>4. CASE Rename
  <2>1. db' \in Files /\ db'.row = db.row /\ db'.version = db.version
    BY <1>4 DEF Rename, Files
  <2>2. db'.column = "staged_action"
    BY <1>4 DEF Rename, Files
  <2>3. main' \in Files
    BY <1>4, <2>1, FileIsTyped DEF Rename
  <2> QED
    BY <1>4, <2>1, <2>2, <2>3 DEF Rename
<1>5. CASE RenameFails
  BY <1>5 DEF RenameFails
<1>6. CASE Transform
  <2>1. db.row = old
    BY <1>6 DEF Transform
  <2>2. db'.row = [m \in Ids |-> Migrated(old[m])] /\ db'.version = 6
        /\ db'.column = "staged_action"
    BY <1>6, <2>1 DEF Transform
  <2>3. [m \in Ids |-> Migrated(old[m])] \in [Ids -> V5Rows]
    BY MigratedType
  <2>4. db' \in Files
    BY <1>6, <2>1, <2>3 DEF Transform, Files
  <2>5. main' \in Files
    BY <1>6, <2>4, FileIsTyped DEF Transform
  <2> QED
    BY <1>6, <2>2, <2>4, <2>5 DEF Transform
<1>7. CASE Die
  BY <1>7 DEF Die
<1>8. CASE Checkpoint
  BY <1>8 DEF Checkpoint
<1>9. CASE \E m \in Ids : OldProgramWrites(m)
  <2>1. PICK m \in Ids, r \in OldRows :
          /\ mg_pc = "idle" /\ db.column = "action"
          /\ db' = [db EXCEPT !.row[m] = r] /\ FileMayLag
          /\ old' = db'.row /\ UNCHANGED <<backup, mg_pc, lagging, halfway>>
    BY <1>9 DEF OldProgramWrites
  <2>2. db.version = 5 /\ db.row = old
    BY <2>1
  <2>3. db' \in Files /\ db'.version = 5 /\ db'.column = "action"
        /\ db'.row \in [Ids -> OldRows]
    BY <2>1, <2>2, OldRowsAssumption DEF Files
  <2>4. old' \in [Ids -> V5Rows]
    BY <2>1, <2>3, OldRowsAssumption
  <2>5. main' \in Files
    BY <2>1, <2>3, FileIsTyped
  <2> QED
    BY <2>1, <2>3, <2>4, <2>5
<1>10. CASE UNCHANGED vars
  BY <1>10 DEF vars
<1> QED
  BY <1>1, <1>2, <1>3, <1>4, <1>5, <1>6, <1>7, <1>8, <1>9, <1>10 DEF Next, Migrate

-----------------------------------------------------------------------------
(* The invariant of the backup.                                            *)

(* Before the first run there is no backup to be wrong.                    *)
LEMMA InitBackup == Init => BackupInv
<1> SUFFICES ASSUME Init PROVE BackupInv
  OBVIOUS
<1>1. db.column = "action" /\ mg_pc = "idle"
  BY DEF Init
<1> QED
  BY <1>1 DEF BackupInv, BackupIsTheOriginal

(* A backup that is made, copied or overwritten is what it seems.          *)
LEMMA NextBackup == TableInv /\ BackupInv /\ [Next]_vars => BackupInv'
<1> SUFFICES ASSUME TableInv, BackupInv, [Next]_vars PROVE BackupInv'
  OBVIOUS
<1> USE DEF TableInv, TypeOK, TableIsKnown, Staged, BackupInv, BackupIsTheOriginal
<1>1. CASE Guard
  BY <1>1 DEF Guard
<1>2. CASE OpenBackup
  BY <1>2 DEF OpenBackup
<1>3. CASE CopyMain
  <2>1. ~lagging' => main = db
    BY <1>3 DEF CopyMain
  <2>2. db.column # "action" => halfway
    BY <1>3 DEF CopyMain
  <2> QED
    BY <1>3, <2>1, <2>2 DEF CopyMain
<1>4. CASE Rename
  <2>1. db = [column |-> "action", version |-> 5, row |-> old]
    BY <1>4 DEF Rename, Files
  <2>2. db'.column = "staged_action"
    BY <1>4 DEF Rename, Files
  <2>3. ~lagging => backup = Copy("whole", db)
    BY <1>4 DEF Rename
  <2> QED
    BY <1>4, <2>1, <2>2, <2>3 DEF Rename
<1>5. CASE RenameFails
  BY <1>5 DEF RenameFails, Files
<1>6. CASE Transform
  <2>1. db'.version = 6 /\ db'.column = "staged_action"
    BY <1>6 DEF Transform
  <2>2. ~halfway /\ ~lagging /\ db.column # "action" =>
          backup = Copy("whole", [column |-> "action", version |-> 5, row |-> old])
    OBVIOUS
  <2>3. db.column # "action"
    BY <1>6 DEF Transform
  <2> QED
    BY <1>6, <2>1, <2>2, <2>3 DEF Transform
<1>7. CASE Die
  BY <1>7 DEF Die
<1>8. CASE Checkpoint
  BY <1>8 DEF Checkpoint
<1>9. CASE \E m \in Ids : OldProgramWrites(m)
  <2>1. db'.column = "action" /\ mg_pc' = "idle"
    BY <1>9 DEF OldProgramWrites, Files
  <2> QED
    BY <2>1
<1>10. CASE UNCHANGED vars
  BY <1>10 DEF vars
<1> QED
  BY <1>1, <1>2, <1>3, <1>4, <1>5, <1>6, <1>7, <1>8, <1>9, <1>10 DEF Next, Migrate

-----------------------------------------------------------------------------
(* What follows for the specification.                                     *)

(* The invariant holds wherever the script is killed.                      *)
THEOREM MigrationInvariant == Spec => []IInv
<1>1. Init => IInv
  BY InitTable, InitBackup DEF IInv
<1>2. IInv /\ [Next]_vars => IInv'
  BY NextTable, NextBackup DEF IInv
<1> QED
  BY <1>1, <1>2, PTL DEF Spec

(* Whatever opens as version 6 keeps that version's invariants.            *)
THEOREM OpenedIsSound == Spec => []OpensOnlySound
<1>1. IInv => OpensOnlySound
  <2> SUFFICES ASSUME IInv, Opens, NEW m \in Ids PROVE SoundNew(db.row[m])
    BY DEF OpensOnlySound, SoundNew
  <2>1. db.row[m] = Migrated(old[m]) /\ old[m] \in OldRows
    BY DEF IInv, TableInv, TableIsKnown, Opens
  <2> QED
    BY <2>1, OldRowsAssumption, MigratedIsSound
<1> QED
  BY <1>1, MigrationInvariant, PTL

(* No verdict, and no real decision, is lost.                              *)
THEOREM NoWorkIsLost == Spec => []WorkSurvives
<1>1. IInv => WorkSurvives
  <2> SUFFICES ASSUME IInv, NEW m \in Ids PROVE Keeps(old[m], db.row[m])
    BY DEF WorkSurvives, Keeps
  <2>1. old[m] \in V5Rows
    BY OldRowsAssumption DEF IInv, TableInv, TableIsKnown
  <2>2. db.row[m] = old[m] \/ db.row[m] = Migrated(old[m])
    BY DEF IInv, TableInv, TableIsKnown, TypeOK, Files
  <2>3. Keeps(old[m], old[m])
    BY DEF Keeps
  <2> QED
    BY <2>1, <2>2, <2>3, MigratedKeeps
<1> QED
  BY <1>1, MigrationInvariant, PTL

(* The backup can be trusted, unless the file lagged behind its log or the *)
(* script has been run again on a database it had left halfway.            *)
THEOREM BackupCanBeTrusted == Spec => []BackupIsTheOriginal
<1>1. IInv => BackupIsTheOriginal
  BY DEF IInv, BackupInv
<1> QED
  BY <1>1, MigrationInvariant, PTL
=============================================================================
