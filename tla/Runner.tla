------------------------------- MODULE Runner -------------------------------
(***************************************************************************)
(* gmail/runner.py and gmail/reconcile.py: apply_actions against a live    *)
(* mailbox that others change too, and that may answer late, wrongly or    *)
(* not at all.                                                             *)
(*                                                                         *)
(* The mailbox (mail, label, performed) is external: it is modelled from   *)
(* how the runner uses the Gmail API.  A request that the executor has     *)
(* retried to the end has either succeeded, and was performed, or failed,  *)
(* and may have been performed all the same.                               *)
(*                                                                         *)
(* A run is started from the command line or by the Apply page, so several *)
(* may exist at once; Runs names them.  Of the actions table, the model    *)
(* keeps per message the latest terminal record (audit), per run the       *)
(* attempt it has under way (intent), and the actions of attempts that     *)
(* dead runs left without completed_at (dangling).                         *)
(***************************************************************************)
EXTENDS ReviewUI

CONSTANTS Runs,             \* the processes that may apply actions
          Mails,            \* the messages in Gmail
          LiveOf,           \* the Gmail message a record's search finds, if unique
          Unconfirmable,    \* records whose search is ambiguous or metadata differs
          ReconcileBatch,   \* RECONCILE_BATCH_SIZE
          ArchiveBatch,     \* ARCHIVE_BATCH_SIZE
          ArchiveLabel,     \* is cfg.archive_label set?
          QueuedRows,       \* the rows the messages table may hold initially
          Edits,            \* when the review UI is used: "never", "between" runs, "any" time
          OwnerActs         \* does the owner move or delete mail in Gmail?

ASSUME MailsAssumption == LiveOf \in [Ids -> Mails] /\ Unconfirmable \subseteq Ids
ASSUME BatchAssumption == ReconcileBatch \in Nat \ {0} /\ ArchiveBatch \in Nat \ {0}
ASSUME QueuedRowsAssumption ==      \* no run has been made, so nothing is applied
  QueuedRows \subseteq Rows /\ \A r \in QueuedRows : r.review_status # "applied"
ASSUME SwitchesAssumption ==
  Edits \in {"never", "between", "any"} /\ OwnerActs \in BOOLEAN /\ ArchiveLabel \in BOOLEAN

VARIABLES mail,        \* where each Gmail message is
          label,       \* does the archive label exist?
          performed,   \* every <<mail, action>> Gmail performed for the runner
          audit,       \* the latest terminal row of the actions table, per message
          dangling,    \* actions of abandoned attempt rows, per message
          run,         \* the locals of each run
          together     \* have two runs ever been under way at once? (history)

gmailVars == <<mail, label, performed>>
auditVars == <<audit, dangling>>
vars == <<dbVars, gmailVars, auditVars, run, together>>

Places == {"inbox", "archived", "trash", "gone"}
Records == [action : Actionable, dry_run : BOOLEAN,
            status : {"success", "error", "skipped", NULL}]
NoRecord == [action |-> "trash", dry_run |-> TRUE, status |-> NULL]
Nothing == [m \in Ids |-> NULL]

(* pc      "act", or "call" while a mutation is in flight                  *)
(* execute is it a real run?                                               *)
(* action  the staged action read for each row not yet settled             *)
(* rec     what reconciling found for rows of the current chunk            *)
(* label   has the run resolved the archive label?                         *)
(* intent  the action of the run's attempt row, per message                *)
(* call    the rows of the mutation in flight                              *)
(* done    those of them that Gmail has dealt with                         *)
RunStates ==
  [pc : {"idle", "act", "call"}, execute : BOOLEAN,
   action : [Ids -> Actionable \cup {NULL}],
   rec : [Ids -> {"confirmed", "unconfirmed", "error", NULL}],
   label : BOOLEAN, intent : [Ids -> Actionable \cup {NULL}],
   call : SUBSET Ids, done : SUBSET Ids]

IdleRun ==
  [pc |-> "idle", execute |-> FALSE, action |-> Nothing, rec |-> Nothing,
   label |-> FALSE, intent |-> Nothing, call |-> {}, done |-> {}]

TypeOK ==
  /\ DatabaseTypeOK
  /\ mail \in [Mails -> Places] /\ label \in BOOLEAN
  /\ performed \subseteq Mails \X Actionable
  /\ audit \in [Ids -> Records]
  /\ dangling \in [Ids -> SUBSET Actionable]
  /\ run \in [Runs -> RunStates] /\ together \in BOOLEAN

Init ==
  /\ row \in [Ids -> QueuedRows] /\ hits = [m \in Ids |-> {}] /\ writer = NULL
  /\ mail = [x \in Mails |-> "inbox"] /\ label = FALSE /\ performed = {}
  /\ audit = [m \in Ids |-> NoRecord] /\ dangling = [m \in Ids |-> {}]
  /\ run = [p \in Runs |-> IdleRun] /\ together = FALSE

-----------------------------------------------------------------------------
(* Mutant: the SELECT asks for the action, and not for the approval.       *)
QueueUnapproved ==
  {m \in Ids : /\ row[m].staged_action \in Actionable
              /\ row[m].review_status \notin {"applied", "skipped"}}

Queue == {m \in Ids : ApprovedActionable(row[m])}

Active(p) == run[p].pc # "idle"
Unsettled(p) == {m \in Ids : run[p].action[m] # NULL}
Buffered(p) == {m \in Ids : run[p].intent[m] = "archive"}     \* pending_archive
Ready(p) == {m \in Unsettled(p) : run[p].rec[m] # NULL /\ run[p].intent[m] = NULL}
Unreconciled(p) == {m \in Unsettled(p) : run[p].rec[m] = NULL}
Next1(p, m) == run[p].pc = "act" /\ m \in FirstById(Ready(p), 1)

Without(f, S) == [m \in Ids |-> IF m \in S THEN NULL ELSE f[m]]

(* The run goes on to the row after those of S.                            *)
Settle(p, S) ==
  run' = [run EXCEPT ![p].action = Without(@, S), ![p].rec = Without(@, S)]

Record(p, m, status, action) ==
  [action |-> action[m], dry_run |-> ~run[p].execute, status |-> status]

Log(p, S, status) ==
  audit' = [m \in Ids |->
    IF m \in S THEN Record(p, m, status, run[p].action) ELSE audit[m]]

(* Mutant: settling a row also clears its decision.                        *)
StatusOfCleared(S, status) ==
  row' = [m \in Ids |-> IF m \in S THEN [row[m] EXCEPT !.review_status = status,
                                                     !.staged_action = NULL]
                        ELSE row[m]]

StatusOf(S, status) ==
  row' = [m \in Ids |-> IF m \in S THEN [row[m] EXCEPT !.review_status = status]
                        ELSE row[m]]

-----------------------------------------------------------------------------
(* Run p: select the queue once, reconcile it a chunk at a time, act on    *)
(* each row of the chunk in order.                                         *)

StartApply(p, execute, n) ==
  /\ ~Active(p)
  /\ Queue # {}
  /\ run' = [run EXCEPT ![p] =
       [IdleRun EXCEPT !.pc = "act", !.execute = execute,
                       !.action = [m \in Ids |-> IF m \in FirstById(Queue, n)
                                                 THEN row[m].staged_action ELSE NULL]]]
  /\ together' = (together \/ \E q \in Runs \ {p} : Active(q))
  /\ UNCHANGED <<dbVars, gmailVars, auditVars>>

(* The search lists neither Trash nor deleted mail.  It, or fetching the   *)
(* metadata of its single match, may fail.                                 *)
Findings(m) ==
  {"error", IF mail[LiveOf[m]] \in {"inbox", "archived"} /\ m \notin Unconfirmable
            THEN "confirmed" ELSE "unconfirmed"}

ReconcileChunk(p) ==
  /\ run[p].pc = "act" /\ Ready(p) = {} /\ Unreconciled(p) # {}
  /\ LET chunk == FirstById(Unreconciled(p), ReconcileBatch) IN
     \E found \in [chunk -> {"confirmed", "unconfirmed", "error"}] :
       /\ \A m \in chunk : found[m] \in Findings(m)
       /\ run' = [run EXCEPT ![p].rec =
                    [m \in Ids |-> IF m \in chunk THEN found[m] ELSE @[m]]]
  /\ UNCHANGED <<dbVars, gmailVars, auditVars, together>>

RecordError(p, m) ==
  /\ Next1(p, m) /\ run[p].rec[m] = "error"
  /\ Log(p, {m}, "error") /\ Settle(p, {m})
  /\ UNCHANGED <<dbVars, gmailVars, dangling, together>>

(* Mutant: a dry run sets rows aside as well.                              *)
SetAsideAlways(p, m) == StatusOf({m}, "skipped")

SetAside(p, m) == IF run[p].execute THEN StatusOf({m}, "skipped") ELSE UNCHANGED row

Skip(p, m) ==
  /\ Next1(p, m) /\ run[p].rec[m] = "unconfirmed"
  /\ Log(p, {m}, "skipped") /\ Settle(p, {m})
  /\ SetAside(p, m)
  /\ UNCHANGED <<hits, writer, gmailVars, dangling, together>>

Confirmed(p, m) == Next1(p, m) /\ run[p].rec[m] = "confirmed"

DryRun(p, m) ==
  /\ Confirmed(p, m) /\ ~run[p].execute
  /\ Log(p, {m}, "success") /\ Settle(p, {m})
  /\ UNCHANGED <<dbVars, gmailVars, dangling, together>>

ToDo(p, m, action) ==
  Confirmed(p, m) /\ run[p].execute /\ run[p].action[m] = action

(* Mutant: no attempt row.                                                 *)
AttemptUnlogged(m, action, intent) == intent

(* The attempt row is committed before the mutation is sent.               *)
Attempt(m, action, intent) == [intent EXCEPT ![m] = action]

IntendTrash(p, m) ==
  /\ ToDo(p, m, "trash")
  /\ run' = [run EXCEPT ![p].intent = Attempt(m, "trash", @),
                        ![p].pc = "call", ![p].call = {m}]
  /\ UNCHANGED <<dbVars, gmailVars, auditVars, together>>

WantsLabel(p, m) == ToDo(p, m, "archive") /\ ArchiveLabel /\ ~run[p].label

(* _ensure_label: find the label, or create it.                            *)
EnsureLabel(p, m) ==
  /\ WantsLabel(p, m)
  /\ label' = TRUE /\ run' = [run EXCEPT ![p].label = TRUE]
  /\ UNCHANGED <<mail, performed, dbVars, auditVars, together>>

(* Gmail is unreachable, another run has just created the label, or the    *)
(* reply to creating it is lost and the retry conflicts.                   *)
LabelFails(p, m) ==
  /\ WantsLabel(p, m)
  /\ label' \in {label, TRUE}
  /\ Log(p, {m}, "error") /\ Settle(p, {m})
  /\ UNCHANGED <<mail, performed, dbVars, dangling, together>>

IntendArchive(p, m) ==
  /\ ToDo(p, m, "archive") /\ ~WantsLabel(p, m)
  /\ LET buffer == Buffered(p) \cup {m}
         full == Cardinality(buffer) >= ArchiveBatch IN
       run' = [run EXCEPT ![p].intent = Attempt(m, "archive", @),
                          ![p].pc = IF full THEN "call" ELSE @,
                          ![p].call = IF full THEN buffer ELSE @]
  /\ UNCHANGED <<dbVars, gmailVars, auditVars, together>>

SendArchive(p) ==
  /\ run' = [run EXCEPT ![p].pc = "call", ![p].call = Buffered(p)]
  /\ UNCHANGED <<dbVars, gmailVars, auditVars, together>>

Exhausted(p) == run[p].pc = "act" /\ Ready(p) = {} /\ Unreconciled(p) = {}

(* Mutant: the buffer is only ever flushed when it is full.                *)
FlushFullArchive(p) ==
  Exhausted(p) /\ Cardinality(Buffered(p)) >= ArchiveBatch /\ SendArchive(p)

(* After the last row the buffer is flushed, whatever its size.            *)
FlushArchive(p) == Exhausted(p) /\ Buffered(p) # {} /\ SendArchive(p)

Finish(p) ==
  /\ run[p].pc = "act" /\ Unsettled(p) = {}
  /\ run' = [run EXCEPT ![p] = IdleRun]
  /\ UNCHANGED <<dbVars, gmailVars, auditVars, together>>

-----------------------------------------------------------------------------
(* The call in flight.  Gmail performs it for each of its messages, unless *)
(* the message is gone; batchModify passes over those, trash cannot        *)
(* succeed on them.  The executor repeats a request whose reply is lost,   *)
(* so Gmail may perform it again.                                          *)

Moved(x, action) == CASE action = "trash" -> "trash"
                      [] mail[x] = "inbox" -> "archived"
                      [] OTHER -> mail[x]

GmailPerforms(p, m) ==
  /\ run[p].pc = "call" /\ m \in run[p].call /\ mail[LiveOf[m]] # "gone"
  /\ mail' = [mail EXCEPT ![LiveOf[m]] = Moved(LiveOf[m], run[p].action[m])]
  /\ performed' = performed \cup {<<LiveOf[m], run[p].action[m]>>}
  /\ run' = [run EXCEPT ![p].done = @ \cup {m}]
  /\ UNCHANGED <<label, dbVars, auditVars, together>>

Ended(p, intent) ==
  /\ run' = [run EXCEPT ![p].action = Without(@, run[p].call),
                        ![p].rec = Without(@, run[p].call),
                        ![p].intent = intent, ![p].pc = "act",
                        ![p].call = {}, ![p].done = {}]
  /\ UNCHANGED <<hits, writer, gmailVars, dangling, together>>

(* Mutant: a call that ends empties the archive buffer along with it.      *)
EndCallAndBuffer(p) == Ended(p, Nothing)

EndCall(p) == Ended(p, Without(run[p].intent, run[p].call))

(* _finalize_succeeded                                                     *)
CallSucceeds(p) ==
  /\ run[p].pc = "call"
  /\ \A m \in run[p].call \ run[p].done :
       run[p].action[m] = "archive" /\ mail[LiveOf[m]] = "gone"
  /\ Log(p, run[p].call, "success")
  /\ StatusOf(run[p].call, "applied")
  /\ EndCall(p)

(* Mutant: the rows of a failed call are marked applied all the same.      *)
CallFailsApplied(p) ==
  /\ run[p].pc = "call"
  /\ Log(p, run[p].call, "error")
  /\ StatusOf(run[p].call, "applied")
  /\ EndCall(p)

(* _finalize_errored: the whole call fails together, whatever Gmail did.   *)
CallFails(p) ==
  /\ run[p].pc = "call"
  /\ Log(p, run[p].call, "error")
  /\ UNCHANGED row
  /\ EndCall(p)

(* A crash, Ctrl-C or an exception that the runner does not catch: attempt *)
(* rows stay as they are, the archive buffer is lost.  (Once every row is  *)
(* settled there is nothing left to lose.)                                 *)
Die(p) ==
  /\ Active(p) /\ Unsettled(p) # {}
  /\ dangling' = [m \in Ids |-> dangling[m] \cup ({run[p].intent[m]} \ {NULL})]
  /\ run' = [run EXCEPT ![p] = IdleRun]
  /\ UNCHANGED <<dbVars, gmailVars, audit, together>>

-----------------------------------------------------------------------------
(* The others: the owner of the mailbox, and the reviewer.                 *)

OwnerMoves(x) ==
  /\ OwnerActs
  /\ \/ mail[x] # "gone" /\ mail' = [mail EXCEPT ![x] = "gone"]
     \/ mail[x] \in {"trash", "archived"} /\ mail' = [mail EXCEPT ![x] = "inbox"]
  /\ UNCHANGED <<label, performed, dbVars, auditVars, run, together>>

Reviews ==
  /\ Edits = "any" \/ (Edits = "between" /\ \A p \in Runs : ~Active(p))
  /\ \E m \in Ids : UIStep({m})
  /\ UNCHANGED <<gmailVars, auditVars, run, together>>

-----------------------------------------------------------------------------
Limits == {1, Cardinality(Ids)}

Act(p, m) ==
  \/ RecordError(p, m) \/ Skip(p, m) \/ DryRun(p, m)
  \/ IntendTrash(p, m) \/ EnsureLabel(p, m) \/ LabelFails(p, m) \/ IntendArchive(p, m)
  \/ GmailPerforms(p, m)

RunStep(p) ==
  \/ ReconcileChunk(p)
  \/ \E m \in Ids : Act(p, m)
  \/ FlushArchive(p) \/ Finish(p) \/ CallSucceeds(p) \/ CallFails(p)

(* Whatever one run does.                                                  *)
Does(p) ==
  \/ \E execute \in BOOLEAN, n \in Limits : StartApply(p, execute, n)
  \/ RunStep(p)
  \/ Die(p)

Next ==
  \/ \E p \in Runs : Does(p)
  \/ \E x \in Mails : OwnerMoves(x)
  \/ Reviews

Spec == Init /\ [][Next]_vars

-----------------------------------------------------------------------------
(* The runs among themselves, with fairness: a run goes on (each request   *)
(* ends, after at most MAX_ATTEMPTS tries), and the operator repeats       *)
(* "apply --execute".                                                      *)
FairSpec ==
  /\ Init /\ [][\E p \in Runs : Does(p)]_vars
  /\ \A p \in Runs : WF_vars(RunStep(p)) /\ SF_vars(StartApply(p, TRUE, Cardinality(Ids)))

NewlyPerformed == performed' \ performed

(* Nothing is done to the mailbox behind the audit table's back: whatever  *)
(* Gmail performs has a committed attempt row of that action at that       *)
(* moment (runner.py: "an 'attempt' row is committed BEFORE each live      *)
(* mutation").                                                             *)
MutationHasIntent ==
  [][\A did \in NewlyPerformed :
       \E p \in Runs, m \in Ids : did = <<LiveOf[m], run[p].intent[m]>>]_vars

(* An attempt row is never forgotten by the run that wrote it: it is       *)
(* finalized, or the process died and the row stays visible (runner.py:    *)
(* NULL completed_at "means the process died mid-mutation").               *)
IntentIsClosed ==
  [][\A p \in Runs, m \in Ids :
       LET intent == run[p].intent[m] IN
       intent # NULL /\ run'[p].intent[m] # intent =>
         \/ intent \in dangling'[m]
         \/ /\ run'[p].intent[m] = NULL
            /\ audit'[m].action = intent /\ ~audit'[m].dry_run
            /\ audit'[m].status \in {"success", "error"}]_vars

(* "applied" is true: Gmail did perform the action that is staged, unless  *)
(* the message was gone altogether; and, if runs never overlapped, the     *)
(* last word of the audit table on the message is a live success.          *)
AppliedWasDone ==
  \A m \in Ids : row[m].review_status = "applied" =>
    /\ \/ <<LiveOf[m], row[m].staged_action>> \in performed
       \/ mail[LiveOf[m]] = "gone"
    /\ together \/ (audit[m].status = "success" /\ ~audit[m].dry_run)

(* A dry run changes nothing: neither the mailbox nor any decision state   *)
(* (runner.py: "a dry run never changes review_status").                   *)
DryRunIsHarmless ==
  [][\A p \in Runs : Active(p) /\ ~run[p].execute /\ run'[p] # run[p] =>
       /\ <<performed, label>>' = <<performed, label>>
       /\ \A m \in Ids : row'[m].review_status = row[m].review_status]_vars

(* A run commits itself only to the action that is approved at that        *)
(* moment, or that another run, working off the same approval, has just    *)
(* carried out or set aside (runner.py: "consumes only rows with           *)
(* review_status in (approved, auto_approved)").                           *)
ActsOnApproved ==
  [][\A p \in Runs, m \in Ids :
       run'[p].intent[m] # NULL /\ run'[p].intent[m] # run[p].intent[m] =>
         /\ row[m].staged_action = run'[p].intent[m]
         /\ \/ row[m].review_status \in Approvable
            \/ together /\ row[m].review_status \in {"applied", "skipped"}]_vars

(* What a dead run left half done is retried by the next (runner.py: "the  *)
(* next run re-reconciles and retries"), so it is not set aside as a       *)
(* record without a live match.                                            *)
SkippedWasNotDone ==
  \A m \in Ids : row[m].review_status = "skipped" =>
                   <<LiveOf[m], row[m].staged_action>> \notin performed

Trouble ==
  \E p \in Runs : \/ Die(p) \/ CallFails(p)
                  \/ \E m \in Ids : RecordError(p, m) \/ LabelFails(p, m)

(* Once errors and crashes stop, every approved row leaves the queue, by   *)
(* being applied or skipped, however often it failed before.               *)
QueueDrains ==
  <>[][~Trouble]_vars => \A m \in Ids : []<>(m \notin Queue)

-----------------------------------------------------------------------------
(* To the messages table, a lone run is the coarse run of module ApplyRun, *)
(* the one that the whole pipeline is composed with.                       *)
TodoOf(runs) ==
  [m \in Ids |-> LET acting == {p \in Runs : runs[p].execute /\ runs[p].action[m] # NULL}
                 IN IF acting = {} THEN NULL
                    ELSE runs[CHOOSE p \in acting : TRUE].action[m]]

ToApply == TodoOf(run)

Table == INSTANCE ApplyRun WITH ap_todo <- ToApply

TableNext ==
  \/ \E n \in Limits : Table!ApplyStart(n)
  \/ Table!ApplyStep
  \/ Reviews

ImplementsApplyRun ==
  Table!ApplyInit /\ [][TableNext]_<<dbVars, ToApply>>
=============================================================================
