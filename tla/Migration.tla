----------------------------- MODULE Migration -----------------------------
(***************************************************************************)
(* scripts/migrate_v5_to_v6.py: the one migration of the project, run by   *)
(* hand on a v5 database, which may be killed at any point and run again.  *)
(*                                                                         *)
(* The database is a file and, in WAL mode, a log beside it: "db" is what  *)
(* a connection reads, "main" what the file alone holds.  Copying the file *)
(* copies "main".  Python's sqlite3 commits the ALTER TABLE by itself; the *)
(* updates and the version are one transaction.                            *)
(*                                                                         *)
(* The program of version 5 is not in the repository: it is external, and  *)
(* changes rows as long as the column has its old name.                    *)
(***************************************************************************)
EXTENDS Models

CONSTANTS Ids,        \* the messages
          OldRows,    \* the rows a v5 database may hold
          Backlog     \* may the log hold what the file does not?

(* In v5 "review" was staged like an action; staged_action stands for the  *)
(* column under either name.                                               *)
V5Rows ==
  [llm_action : Actions \cup {Review, NULL},
   staged_action : Actions \cup {Review, NULL},
   decision_source : Sources \cup {NULL},
   review_status : Statuses]

ASSUME OldRowsAssumption ==
  /\ OldRows \subseteq V5Rows
  /\ \A r \in OldRows : r.staged_action = NULL <=> r.decision_source = NULL
ASSUME BacklogAssumption == Backlog \in BOOLEAN

VARIABLES db,        \* the database: its column's name, version and rows
          main,      \* the database file without its log
          backup,    \* the .v5.bak file: is there one, and of what
          mg_pc,     \* where the script is
          old,       \* the rows as the v5 program left them (history)
          lagging,   \* was the log behind when the backup was made? (history)
          halfway    \* has a run ended between ALTER TABLE and commit? (history)

vars == <<db, main, backup, mg_pc, old, lagging, halfway>>

Files == [column : {"action", "staged_action"}, version : {5, 6}, row : [Ids -> V5Rows]]
Copy(state, file) == [is |-> state, of |-> file]

TypeOK ==
  /\ db \in Files /\ main \in Files /\ backup \in [is : {"none", "torn", "whole"}, of : Files]
  /\ mg_pc \in {"idle", "guarded", "copying", "copied", "renamed"}
  /\ old \in [Ids -> V5Rows] /\ lagging \in BOOLEAN /\ halfway \in BOOLEAN

Init ==
  /\ db \in [column : {"action"}, version : {5}, row : [Ids -> OldRows]]
  /\ main = db /\ backup = Copy("none", db)
  /\ mg_pc = "idle" /\ old = db.row /\ lagging = FALSE /\ halfway = FALSE

-----------------------------------------------------------------------------
(* Mutant: a backup is never overwritten.                                  *)
GuardOnce ==
  /\ mg_pc = "idle" /\ db.version = 5 /\ backup.is = "none"
  /\ mg_pc' = "guarded"
  /\ UNCHANGED <<db, main, backup, old, lagging, halfway>>

(* The version is the only thing that is looked at.                        *)
Guard ==
  /\ mg_pc = "idle" /\ db.version = 5
  /\ mg_pc' = "guarded"
  /\ UNCHANGED <<db, main, backup, old, lagging, halfway>>

(* shutil.copy2 overwrites what is there, byte by byte.                    *)
OpenBackup ==
  /\ mg_pc = "guarded"
  /\ backup' = [backup EXCEPT !.is = "torn"] /\ mg_pc' = "copying"
  /\ UNCHANGED <<db, main, old, lagging, halfway>>

CopyMain ==
  /\ mg_pc = "copying"
  /\ backup' = Copy("whole", main) /\ mg_pc' = "copied"
  /\ lagging' = (main # db)
  /\ UNCHANGED <<db, main, old, halfway>>

(* What a commit leaves of the file alone.                                 *)
FileMayLag == main' \in IF Backlog THEN {main, db'} ELSE {db'}

(* Mutant: the backup is not waited for.                                   *)
RenameEarly ==
  /\ mg_pc \in {"copying", "copied"} /\ db.column = "action"
  /\ db' = [db EXCEPT !.column = "staged_action"] /\ FileMayLag
  /\ mg_pc' = "renamed"
  /\ UNCHANGED <<backup, old, lagging, halfway>>

(* ALTER TABLE, which Python does not open a transaction for.              *)
Rename ==
  /\ mg_pc = "copied" /\ db.column = "action"
  /\ db' = [db EXCEPT !.column = "staged_action"] /\ FileMayLag
  /\ mg_pc' = "renamed"
  /\ UNCHANGED <<backup, old, lagging, halfway>>

(* "no such column": an earlier run has renamed it.                        *)
RenameFails ==
  /\ mg_pc = "copied" /\ db.column # "action"
  /\ mg_pc' = "idle"
  /\ UNCHANGED <<db, main, backup, old, lagging, halfway>>

(* Mutant: the review rows lose their action, and not its source.          *)
UndecidedAction(r) ==
  IF r.staged_action = Review THEN [r EXCEPT !.staged_action = NULL] ELSE r

MadeUndecided(r) ==
  IF r.staged_action = Review THEN WithDecision(r, Undecided) ELSE r

(* Mutant: every approval is withdrawn.                                    *)
WithoutApproval(r) ==
  IF r.review_status \in Approvable THEN [r EXCEPT !.review_status = "pending"] ELSE r

WithoutEmptyApproval(r) ==
  IF r.staged_action = NULL /\ r.review_status \in Approvable
  THEN [r EXCEPT !.review_status = "pending"] ELSE r

Migrated(r) == WithoutEmptyApproval(MadeUndecided(r))

(* The two updates and the new version, committed together.                *)
Transform ==
  /\ mg_pc = "renamed"
  /\ db' = [column |-> "staged_action", version |-> 6,
            row |-> [m \in Ids |-> Migrated(db.row[m])]]
  /\ FileMayLag
  /\ mg_pc' = "idle"
  /\ UNCHANGED <<backup, old, lagging, halfway>>

(* The process is killed, the disk is full, or the database stays locked:  *)
(* whatever was committed stays.                                           *)
Die ==
  /\ mg_pc # "idle"
  /\ mg_pc' = "idle"
  /\ halfway' = (halfway \/ mg_pc = "renamed")
  /\ UNCHANGED <<db, main, backup, old, lagging>>

(* A checkpoint, by any connection or by the last one to close.            *)
Checkpoint ==
  /\ main' = db
  /\ UNCHANGED <<db, backup, mg_pc, old, lagging, halfway>>

(* The v5 program commits a change.  It is not used while the script runs. *)
OldProgramWrites(m) ==
  /\ mg_pc = "idle" /\ db.column = "action"
  /\ \E r \in OldRows : db' = [db EXCEPT !.row[m] = r]
  /\ FileMayLag
  /\ old' = db'.row
  /\ UNCHANGED <<backup, mg_pc, lagging, halfway>>

Migrate == OpenBackup \/ CopyMain \/ Rename \/ RenameFails \/ Transform

Next ==
  \/ Guard \/ Migrate \/ Die
  \/ Checkpoint
  \/ \E m \in Ids : OldProgramWrites(m)

Spec == Init /\ [][Next]_vars

(* The script, once started, runs on, and its user starts it again.        *)
FairSpec == Spec /\ WF_vars(Migrate) /\ WF_vars(Guard)

-----------------------------------------------------------------------------
(* What open_db of this version requires: the index on staged_action can   *)
(* be made, and the version is right.                                      *)
Opens == db.column = "staged_action" /\ db.version = 6

Empty(r) == r.staged_action \in {Review, NULL}

(* Whatever opens as version 6 keeps that version's invariants: action and *)
(* source are NULL together, "review" is never staged, and no approval     *)
(* approves nothing (migrate_v5_to_v6.py, steps 2 and 3).                  *)
OpensOnlySound ==
  Opens => \A m \in Ids : LET r == db.row[m] IN
    /\ r.staged_action \in Actions \cup {NULL}
    /\ r.staged_action = NULL <=> r.decision_source = NULL
    /\ r.review_status \in Approvable => r.staged_action # NULL

(* However often the script is killed and run again, no verdict of the LLM *)
(* is lost, a real decision keeps its action, its source and its status,   *)
(* and an empty row at most the approval (migrate_v5_to_v6.py: it          *)
(* "preserves an existing v5 database").                                   *)
WorkSurvives ==
  \A m \in Ids : LET r == db.row[m] IN
    /\ r.llm_action = old[m].llm_action
    /\ ~Empty(old[m]) => r = old[m]
    /\ old[m].review_status \notin Approvable => r.review_status = old[m].review_status

(* From the moment the script first changes the database, the backup holds *)
(* what was there before, in the old shape, unless the file was behind its *)
(* log, or the script has been run again after it died halfway             *)
(* (migrate_v5_to_v6.py: "a `<db>.v5.bak` copy is written first").         *)
BackupIsTheOriginal ==
  db.column # "action" /\ ~lagging /\ ~halfway =>
    backup = Copy("whole", [column |-> "action", version |-> 5, row |-> old])

(* Once runs are no longer killed, the database is migrated, whatever was  *)
(* killed before, unless that was between ALTER TABLE and commit: such a   *)
(* database is refused by every later run (migrate_v5_to_v6.py, migrate).  *)
MigrationEnds == <>[][~Die]_vars => <>[](Opens \/ halfway)
=============================================================================
