# Verification of local-llm-email-cleaner

`email-cleaner` decides what should happen to each message of a Gmail account
(keep, archive, trash), lets its owner review the decisions, and then carries
out the approved ones. What can go wrong is seldom one function: it is a
decision written by one stage over another's, an approval that outlives what it
approved, a crash between Gmail and the audit table, a button that acts on an
older page. This directory holds TLA+ models of those parts, the TLC runs that
check them on small instances, and machine-checked proofs of the facts that hold
for any instance. `PROJECT.json` maps every definition to the lines it models.

Everything below was read from the code (`src/src/local_llm_email_cleaner/`),
with its docstrings, tests and `README.md` as the source
of what it promises.

## The system

One SQLite file is the only thing the stages share. Each stage is a command; the
long-lived Streamlit UI runs most of them too.

| part | state it keeps | operations | talks to |
|---|---|---|---|
| ingest (`ingest/store.py`, `contacts.py`, `mbox_reader.py`) | `messages`, `contacts`, `meta` | ingest (`--limit`), derive contacts | MBOX file |
| rules engine (`rules/engine.py`) | `rule_*`, `ruled_at`, `rule_hits`, decision columns | run, `--reset`, `--reset --full` | CLI and Rules page |
| classifier (`llm/classifier.py`) | `llm_*`, decision columns | classify (`--limit`), Ctrl-C | LLM, by a thread pool |
| policy (`policy.py`) | `review_status` | apply gates, preview | CLI and Policy page |
| review UI (`review/*.py`) | `review_status`, decision columns; session state | approve, reject, decide, in bulk or by group | reads everything |
| rules files (`rules/ruleset.py`, `matcher.py`) | none: read at the start of a run | validate, compile, match | `rules.toml` |
| apply runner (`gmail/runner.py`, `reconcile.py`) | `review_status`, `actions` | dry run, execute | Gmail API |
| Apply page (`review/page_apply.py`) | session state: was a dry run made, is `APPLY` typed | dry run, execute | the runner, in its own script |
| Voice export (`voice_export.py`, `ingest/voice.py`) | files in a directory | voice-export, with or without attachments | the table, the source MBOX |
| migration (`scripts/migrate_v5_to_v6.py`) | the database file and its backup | back up, rename, update | run by hand |
| MIME parsing, OAuth, config, logging, action export | — | — | files, OAuth |

Interaction is by the rows only: a stage selects rows by a predicate
(`AWAITING_LLM_WHERE`, `ruled_at IS NULL`, `_SELECT_APPROVED`, ...), works for
seconds to hours, and writes by id. There is no lock above SQLite's write lock.

What is hard, and what makes each part right:

* **rules engine**: chunks committed one by one, resets, a final merge with
  stored LLM verdicts, all killable, possibly two runs at once. Right when votes
  and verdicts agree, no verdict is stranded, human decisions stand.
* **classifier**: a work list read at the start, answers out of order, one open
  transaction per batch. Right when every message is spoken for and paid once.
* **policy**: approvals are only what a gate accepted, also later; demoting never
  touches a human's approval; the preview is exact.
* **review UI**: a page is a picture of the past. Right when a button changes
  what it showed, under the label it showed.
* **rules files**: priorities, ties, disabled and protect rules. Right when each
  message gets the verdict that the file's author reads off it.
* **apply**: calls that fail, die, are repeated, or lose their reply; the command
  and the Apply page at once. Right when the audit table leads the mailbox,
  `applied` is true, dry runs are harmless, the queue drains.
* **Apply page**: the dry run that unlocks execution and the execution are two
  clicks, with anything between. Right when what is executed was previewed.
* **reconcile**: right when only the one live copy of a record is confirmed and
  failures are not taken for absence.
* **ingest**: right when stopping and resuming changes nothing.
* **Voice export**: contacts that look alike as file names, two source files, a
  re-run over an earlier backup. Right when everything is in the backup, paths
  lead to the right attachment, and what is flagged is so.
* **migration**: killed between a rename that commits by itself and the rest.
  Right when what opens is sound, no work is lost, and the backup is the original.

## Modules

| module | models | notes |
|---|---|---|
| `Models` | `models.py`, `schema.sql` | a row's decision columns, `Finalize`, the predicates |
| `Database` | `db.py`, `schema.sql` | `row`, `hits`, and `writer`, the write lock |
| `RulesEngine` | `rules/engine.py` | per run: reset, select chunk, write chunk, select stored, write stored, die |
| `Classifier` | `llm/classifier.py` | work list, batch, one write per answer in an open transaction, commit, Ctrl-C, kill |
| `Policy` | `policy.py` | gates as predicates over a row; one action for `apply_policy`, which is one transaction |
| `ReviewUI` | `review/components.py` | `set_status`, `set_decision` |
| `ApplyRun` | `gmail/runner.py` | a real apply run as the messages table sees it |
| `Pipeline` | all of the above together | composition, `Overlap` and `DecideUnruled` switches, properties |
| `ReviewContract` | what is promised of a message's decision and status | abstract; `Pipeline` implements it |
| `RuleFile` | `rules/ruleset.py`, `rules/matcher.py` | extends `Pipeline`: its rule sets are what the rules files compile to |
| `Runner` | `gmail/runner.py` in detail | any number of runs: audit table, label, buffer, calls and replies, dry runs, mailbox; one run implements `ApplyRun` |
| `ApplyPage` | `review/page_apply.py` | extends `Runner`: the page's session is one of the runs |
| `Reconcile` | `gmail/reconcile.py` | search phase, batched get, confirmation, a moving mailbox |
| `ReviewPages` | `review/page_review.py`, `page_senders.py`, `components.py`, `queries.py` | extends `Pipeline` with a browser session |
| `Ingest` | `ingest/*.py`, `cli.py` | independent of the rest: it fills the tables the others start from |
| `VoiceExport` | `voice_export.py`, `ingest/voice.py` | extends `Ingest`, which may run beside it |
| `Migration` | `scripts/migrate_v5_to_v6.py`, `db.py` | extends `Models`: the file, its write-ahead log, the backup |
| `PipelineProofs`, `VerdictProofs`, `WorkflowProofs` | — | theorems about `Pipeline`, `Policy` and `RuleFile`, each extending the one before |
| `PagesProofs` | — | theorems about `ReviewPages`; extends `PipelineProofs` |
| `RunnerProofs` | — | theorems about `Runner`, its refinement, `ApplyPage` |
| `MailboxProofs` | — | theorems about `Ingest` and `VoiceExport` |
| `ReconcileProofs`, `MigrationProofs` | — | theorems about those modules |
| `MC*` | — | values for TLC |

How state and actions correspond:

* A row keeps the columns that some stage branches on. Confidence is an integer
  `0..FullConf`; ages are numbers; a rule is its verdict, its flags and the set of
  messages `on` which it matches. Text, categories, reasons and notes are left
  out. `ruled_at` is a Boolean. A criterion on text is the set of messages whose
  text it accepts; a file name is the sequence of the pieces it is made of, so
  that one contact's name may be what another's is made unique with.
* **Transactions.** A stage's transaction that waits for nothing is one step,
  guarded by `WriteLockFree`. The exception is the classifier, whose first write
  of a batch takes the lock until the batch is committed, so `writer` is state.
  Reads are not blocked (WAL).
* **Reading, then writing.** Whatever a stage reads and uses later is a variable
  (`rr_chunk`, `rr_plan`, `cl_todo`, `cl_rule`, `ap_todo`, `ui_ids`, ...): stale
  values are the point of most properties.
* **Kills.** `RulesDie`, `ClassifyKill`, `ApplyDie`, `Die`, `Stop`, `ExportDies` may
  fire at any point of a run and lose what is uncommitted; a crash of the export
  may tear the file it is writing. In `Runner`, a call is performed by Gmail any
  number of times, or not at all, independently of whether its reply arrives.
* **History.** A few variables record what the code does not keep and a property
  must tell apart: what Gmail has performed, whether two runs were ever under way
  at once, what a preview showed, the rows before a migration, what a contact's
  count was made of. No guard of an operation reads one.
* **Streamlit** is external. A run of a page's script is one step with the write
  it makes and the `st.rerun()` after it; what the page then shows is what the
  next click was made on. Buttons are known by their keys. After a click that
  changes the rows, the selection may survive or be dropped.
* **Gmail** is external: search, get, trash and batchModify as `runner.py` and
  `reconcile.py` use them. The owner of the mailbox may move or delete mail.

## Runs

Passing runs:

| run | instance | shows |
|---|---|---|
| `workflow` | 2 messages, 4 compiled files, 2 answers, both parameter settings, one stage at a time, requests in batches of 2, fairness | provenance is true, auto-approvals remain gated, no stranded verdict, human decisions stand; refinement of `ReviewContract`; of a half-answered batch nothing is paid twice, and each message is spoken for in the end |
| `overlap` | 1 message, everything beside everything, fairness | humans never gated, hits explain the verdict, exact preview, applied is final, verdicts paid once; each chunk ruled by the file, and each message spoken for in the end |
| `apply` | 1 message, 1 mailbox, the command and the Apply page at once, dry and real, an owner who moves mail, a reviewer between runs | applied was done, mutation has an intent, dry run harmless, acts on approved, the page acts on what it previewed |
| `apply_batch` | 3 messages, chunks and buffer of 2, one unconfirmable, one run at a time, fairness | intents are closed; `Runner` implements `ApplyRun`; the queue drains |
| `reconcile` | 2 records, 2 live messages, 9 envelopes | what is confirmed is the record, and unique in a mailbox at rest; failures surface; each answer is of one moment |
| `pages` | 2 messages of 2 senders, grid of 1, 2 presets, all stages beside the page | buttons act on what is shown, as labelled, while the page is current; a group button, however stale, never overturns what is settled nor leaves the ticked groups |
| `ingest` | 2 exports of 5 and 3 messages, batches of 2, fairness | nothing missed, doubled or miscounted, each count exact; everything arrives |
| `voice` | 2 files, contacts with colliding names, two exports, ingest beside them | attachment paths resolve to the right attachment; the backup is complete; its flags are honest |
| `migration` | 2 rows of 6 shapes, a log that may lag, fairness | what opens is sound; work survives; the backup is the original; the migration ends |

Runs that are expected to fail, each with its finding in `PROJECT.json`:

| run | disagreement |
|---|---|
| `stale_gate` | a stage changes a row after the gate approved it |
| `apply_crash` | a trash performed just before a crash is later recorded as skipped |
| `pages_groups` | a group button approves or rejects a row staged anew |

**Further observations.** Exceptions that the properties make, and what the
switches of the modules show for anyone who sets them. They have no runs of their
own.

* `workflow.cfg` with `DecideUnruled = TRUE` and `HumanDecisionStands`: a human
  decision on a message the rules have not reached is replaced by the next rules
  run (`engine.py:113`), which its docstring (`engine.py:17`) excludes.
* `overlap.cfg` with `ApprovalHasAction`: `classifier.py:155` writes by id alone,
  so a row that a rules run decided, and the user approved, while its request was
  in flight can be made undecided again and stay approved.
* `overlap.cfg` with `DecideUnruled = FALSE` and `HumanDecisionStands`: the same
  write, and the merge of stored verdicts (`engine.py:196`), which reads first and
  writes by id too, replace a human decision made in between. It remains approved,
  with another action and source.
* `overlap.cfg` with `RulesRuns = {"cli", "ui"}` and `HitsExplainVerdict`: two
  rules runs (the command and the Rules page) that select the same chunk both
  insert its hits (`engine.py:159`).
* `apply.cfg` with `Edits = "any"` and `ActsOnApproved`: the approved rows are
  read once (`runner.py:273`), so a row rejected during the run is acted on.
* Two apply runs at once (`apply_crash.cfg` with `Runs = {"cli", "ui"}`): the
  second finds the message the first has trashed gone, and writes `skipped` over
  `applied` (`runner.py:342`), without any crash. `ActsOnApproved`
  says "or settled by another run" for that reason, and `ImplementsApplyRun` is
  about one run.
* `pages.cfg` with `GridActsAsShown` freed of `ui_fresh`: "Approve ALL shown"
  acts on what the click's own query returns (`components.py:202`), rows included
  that a stage has brought in since the page was displayed.
* Migration: the backup copies the file alone (`migrate_v5_to_v6.py:78`), not what
  SQLite still holds in the write-ahead log; `BackupIsTheOriginal` excepts a file
  that lagged (`lagging`). After a crash between the rename and the commit, a
  re-run overwrites the backup with the renamed file before it fails at the rename
  (`:41`), and so does every later one; `MigrationEnds` and `BackupIsTheOriginal`
  except that (`halfway`).
* Voice export: once a later file is ingested, `mbox_source` names that one, and a
  re-run flags attachments it exported before as not exported, though the
  docstring (`voice_export.py:25`) calls a re-run idempotent. A crash in a re-run
  cuts off a file of the earlier backup; a contact whose file name changes leaves
  the old transcript behind. With `--no-attachments`, `attachments_skipped`
  stays 0 while records are flagged.
* An empty pattern counts as a criterion for the validation, but compiles to none
  (`matcher.py:38`), so a block of it alone accepts every message. `RuleFile`'s
  criteria on text are the ones that are not empty.

**Bounds.** Rows do not constrain each other, except through what a batch, a chunk,
a bulk button or a limit takes together; two messages with batches of one, or three
with batches of two, give a full batch, a partial one, and a row left for later.
`workflow` has chunks of one, and a classifier batch of two in which one request may
answer and the other fail before an interrupt. One message suffices under `Overlap`:
races are between stages over the same row. It also suffices for two apply runs:
they share the row, the message and the audit table. Two confidences separate the
sides of a threshold.

The rules files are a tie in priority under a disabled rule and beside a rule
that matches nobody, one rule that asks, a protect rule below a trash rule that
asks, no rule, and a file that is refused; they compile to four rule sets.
`Overlap = FALSE` and `DecideUnruled = FALSE` are the workflow the repository's
README prescribes; the properties that need them say so, and the failing runs and
the observations show what happens without. `Edits = "between"` is the same for
the apply runs. `Limits` are 1 and all. A grid of one over two rows is enough for
a click to bring another row into the grid, at the position of the one that left;
two senders are enough for a tick to change under a group button.

The Voice messages are chosen so that file names collide in each way the code
distinguishes (`Ann`, `Ann!`, and a contact called `Ann-2`), a contact is known by
name in one message and by number in another, and a copy in the second file lacks
its attachment. `Ordinals`, the suffixes `-2` to `-7` a name is made unique with,
are as many as there can be keys, which is all the loop over them can use.
`MaxExports` is 2: what a re-run finds is what one earlier run left, whole or cut
off; this instance is the largest of the project, with about 950 000 states;
`workflow`, with its liveness property, takes longest. The old rows of `migration`
are those of the script's own test and those v5 has on the way to them.

`CHECK_DEADLOCK FALSE` is given where nothing is left to do once the
queue is empty (`apply_batch`, `apply_crash`) or a chunk has been
answered (`reconcile`); everywhere else some step is always
possible.

**Fairness.** Weak fairness of a stage's own steps: a process that is not killed
runs on, every LLM request ends after its retries, every Gmail request after
`MAX_ATTEMPTS`; the migration script runs on, and its user runs it again. Strong
fairness of starting a stage: the operator repeats the documented commands, though
other runs keep disabling the start. `Runner`'s fair specification is of the runs
among themselves: an owner who takes mail out of the Trash during a call, over and
over, is in the others. The liveness properties (`EveryMessageIsSpokenFor`,
`QueueDrains`, `AllArrives`, `MigrationEnds`) assume that kills, resets and errors
stop at some time (`<>[][~Setback]_vars`, `~Trouble`, `~CutShort`, `~Die`), never that they
do not occur. Each of these is a formula over a pair of states, and so must not hold
of an ordinary step too, or assuming its end would assume too much. Deaths and
interrupts are defined to exclude what a normal run ends with. `Setback` counts a
reset only if it changes a row: one that takes nothing away is the start of a run
like any other, and fairness goes on demanding such starts after every message is
approved, rejected or applied.

**Mutants.** For every property of a passing run `PROJECT.json` names a change
of a mapped definition that a plausible bug would make (a dropped guard, a lost
reset, a stale label); the mutated forms stand next to the definitions, marked
*Mutant*.

## Proofs

TLC's runs are small instances. The theorems hold for any finite set of messages,
any rule sets, answers, parameters, batch sizes, mailboxes and envelopes, from the
named `ASSUME`s of the modules and what the tables below add. Where a property is
checked by a run and proved, both name the same definition; `DecidedTogether` and
`ApprovalHasAction` are proved, and checked by no run.

**The pipeline, whatever overlaps** (`Overlap` and `DecideUnruled` either way).

| theorem | of | rests on |
|---|---|---|
| `TypeCorrect`, `DecisionsAreWhole`, `HumansAreNotGated`, `AppliedRowsStay` | `TypeOK`, `DecidedTogether`, `HumanNeverGated`, `AppliedIsFinal` | `AlwaysSound`: the invariant `IInv` |
| `PreviewsAreExact` | `PreviewIsExact` | `IInv` |
| `VerdictsArePaidOnce` | `VerdictPaidOnce` | `WorkIsSound`: the invariant `SoundWork` |
| `HitsExplain` | `HitsExplainVerdict` | `RulesRuns = {run}`, and a chunk that stays unruled until it is written |

`IInv` strengthens the properties by what stages carry between steps:

* `SoundRows`: each row has both decision columns or neither, and a human's
  decision is neither pending nor auto-approved;
* `SoundPlans`: what a rules run read from stored verdicts and will write later
  is a whole decision not attributed to a human: its write lands on a row that
  may have changed since;
* `SoundTodo`: a row on an apply run's list is not applied yet; without it the
  run's `skipped` could land on an applied row and `AppliedIsFinal` fails.

`SoundRow` also says that only a rule sets the flags the gates read: an LLM-only
row needs the full age, as the comment in `policy.py` says (`ProvenanceAgrees`).

Why the gates preserve `SoundRows` although the archive gate never looks at
`decision_source`: they take up only pending rows, and a human's decision is
never pending. The argument has two layers: one lemma per row operator
(`ResetIsSound`, `EvaluatedIsSound`, `ClassifiedIsSound`, `GatedIsSound`, ...)
and one per stage (`RulesKeep`, `ClassifyKeeps`, ...). `WinnerIsRule` needs
the first of a finite set of matching rules: the initial segments of the set,
ordered by strict inclusion, have a minimal element
(`FS_StrictSubsetOrderingWellFounded` and `WFMin` of the library).

`SoundWork` is the classifier's bookkeeping: a message still to be asked about, in
flight, or answered and not yet written is in exactly one of the three, and has no
stored verdict. No other stage writes one, so none is paid for twice.

`VerdictsFollowTheFile` proves `RuledByTheFile` for any rules files: what a chunk
is given is what the author reads off the file, the first enabled matching rule by
priority and then by place, and every such rule's vote. The code sorts once and
takes the first match. `OrderedRules` states the sorted list by the `Place` of each
enabled rule: one more than the enabled rules before it. `RulesFillPlaces` shows
that no two share one of the places `1..n`, and so, being `n`, fill them all: the
list is well defined. `ValidFilesCompile` shows that the loader's checks are what
the engine assumes of a rule, and the invariant `HoldsRules` that a run has the
rules of a valid file as long as it evaluates messages.

Of the gates alone: `LastPolicyWins` (re-running them with other parameters has the
outcome of these alone, in both directions), `StricterGatesApproveLess` (tightening
a parameter never approves more), and `ClosedGatesApproveNothing` (bounds above 1
close them, for rows without a confidence too).

**The review pages** (beside everything else, any filters, groups and grid size).

| theorem | of |
|---|---|
| `GridButtonsActAsShown`, `GroupButtonsActAsLabelled` | `GridActsAsShown`, `GroupActsAsLabelled` |
| `GroupButtonsNeverOverturn` | `GroupNeverOverturns` |
| `PagesTypeCorrect`, `PagesKeepDecisions`, `PagesKeepApplied` | `PagesTypeOK`; `DecidedTogether` and `HumanNeverGated`; `AppliedIsFinal`; of the pages' steps too |

They rest on `PagesAreSound`. `PagesInv` adds to `IInv` that what is displayed and
what ids the buttons hold is what the queries find in the table now, unless another
writer has changed it since (`Displayed`, while `ui_fresh`); and that the ids, however
old, are of ticked groups (`IdsOfGroups`). `StartRows` are any rows the pipeline
may leave.

**The workflow** (`ASSUME Workflow`: `Overlap = FALSE` and `DecideUnruled = FALSE`).

| theorem | of |
|---|---|
| `ProvenanceIsTrue`, `ApprovalsStayGated`, `NoVerdictIsStranded` | `ProvenanceAgrees`, `AutoApprovalIsGated`, `NoStrandedVerdict` |
| `ApprovalsApprove` | `ApprovalHasAction` (proved only) |
| `HumansHaveTheLastWord` | `HumanDecisionStands` |
| `WorkflowKeepsContract` | `KeepsContract`: `Pipeline` implements `ReviewContract` |

They rest on `WorkflowIsLawful`, whose invariant `WInv` says that one stage is at
work, that each row is `Lawful` (its decision comes from the verdicts it carries),
that what a stage has read is still so (`LawfulPlans`, `LawfulWork`, `LawfulTodo`),
and that a row whose verdicts decide it is either decided or in the plan of the
rules run that will decide it (`NothingStranded`). The second half is what
overlapping stages lose: it is there that `stale_gate` departs from it.

**The apply run** (any number of runs, any mailbox, except where noted).

| theorem | of | needs |
|---|---|---|
| `NothingWithoutIntent`, `DryRunsAreHarmless`, `IntentsAreClosed` | `MutationHasIntent`, `DryRunIsHarmless`, `IntentIsClosed` | `RunsAreSound` |
| `RunsActOnApproved`, `AppliedIsTrue` | `ActsOnApproved`, `AppliedWasDone` | nobody edits rows during a run: `Edits # "any"` |
| `LoneRunImplements` | `ImplementsApplyRun` | one run: `Runs = {c}` |
| `PageActsOnItsPreview` | `PageActsOnPreviewed` | `PageIsARunner`, by which all of the above holds of the page too |

`RunInv` is what each run knows of itself: an attempt row names the action the run
read and is the run's own; a call in flight is of such rows. No other run can
disturb it, so one lemma per step suffices for any number of runs. `Agrees` then
relates each run's list to the messages table: equal, or settled by another run
meanwhile. The refinement maps a call's outcome to the one step of `ApplyRun`
that settles its rows and everything else to a stutter; it needs that a call is of
one row, or of archives only. The page's invariant follows the previewed list from
the dry run to the latch to the execution; rows that others write are marked on it.

**Reconciliation** (any headers, any inexact search, any requests failing).
`OnlyTheRecord`, `NoSilentSkip` and `BatchingIsHarmless` prove
`ConfirmedIsTheRecord`, `FailuresSurface` and `AnswersAreOfOneMoment` from
`ChunkIsSound`: what a search found is only a name when it is compared, and the
invariant ties it to the moment it was found at.

**Migration** (any table, any backlog, killed anywhere). `OpenedIsSound`,
`NoWorkIsLost` and `BackupCanBeTrusted` prove `OpensOnlySound`, `WorkSurvives` and
`BackupIsTheOriginal` from `MigrationInvariant`: the version tells which of two
tables the file holds, the old one or its image row by row.

**Ingest** (any files, limits, own addresses and batch sizes, stopped anywhere).

| theorem | of |
|---|---|
| `NothingIsLost` | `NothingIsMissed` |
| `RerunsAddNothing`, `CountsAreHonest` | `RerunAddsNothing`, `SentCountIsHonest` |

They rest on `RunIsSound`: what a run has read is in the table, or in its batch
(`NothingIsDropped`), and the batch holds nothing else (`BatchIsRead`). A flush
inserts the batch row by row, and what becomes of it is an induction over its rows.
The provers take no induction rule over formulas; `Induction` states one over a
*set* of numbers, proved from the library's well-foundedness of strict inclusion
(`LeastNumber`), and `BatchIsStored` uses it: every row of the batch ends up stored
or shares an identifier with one that is, what was stored stays at its id
(`Extends`), and no message is stored twice (`Distinct`). A contact's count is
exactly the number of messages it was made of (`CountsAreExact`): the history
`counted` tells which rows and own addresses these were, they are still there and
unchanged, as the table only grows, and are different messages, as it is `Distinct`.

**Voice export** (any contacts and texts, beside `Ingest`, crashed anywhere).
`PathsLeadToTheirOwn`, `BackupsAreComplete` and `FlagsAreTrue` prove `PathsResolve`,
`BackupIsComplete` and `FlagsAreHonest` from `ExportIsSound`. `VoiceInv` says what
each file of the backup has to do with the rows, whichever run left it: a saved file
is of the message in its path (`SavedIsOwn`), a record leads to a file that exists
(`RecordsLead`), the listings and transcripts written so far are whole
(`ListingsWritten`, `TranscriptsWritten`), and no two contacts share a file
(`ContactsApart`). The last is again an induction over the rows, and a count: of
more candidate names than there are contacts, one is free (`UniqueIsNew`), so
`_assign_stems` always finds one. `VoiceAssumption` bounds the finite stand-in for
the endless suffixes (`Ordinals`: distinct, and as many as there are keys) and says
no more of `Texts` than the types of what slugging yields.

**Only model-checked.** The four liveness properties (`EveryMessageIsSpokenFor`,
`QueueDrains`, `AllArrives`, `MigrationEnds`): fairness and `ENABLED` are out of
the prover's reach. Every other property of a passing run is proved. Of the failing
runs, TLC's counterexamples are the evidence; `AutoApprovalIsGated` is refuted for
overlapping stages and proved for the workflow.

## Not modelled

* Parsing of mail (MIME, charsets, HTML, dates) and of headers, the full-text
  index, prompts, configuration, logging, the CSV export, page layout, charts and
  tables: functions of their input, or pure output. No stage reads back what they
  produce, except the columns, and those are inputs of the models. Of Voice
  parsing, what the export branches on is modelled.
* OAuth: a browser and a token file.
* The regular expressions of rules and searches: which messages they accept is a
  parameter.
* Real time: how long a writer waits for the lock (`busy_timeout`) is a
  nondeterministic failure, and a back-off is no step. The executor's retries are
  the number of times Gmail performs a call before its reply.
* `known_contact` is a constant fact per message, although a later ingest may add
  contacts between two policy runs; the gates read it at each run. The rows of
  `Pipeline` are fixed: ingest runs before.
* What the archive gate's confidence refers to (`policy.py:166`): the gate is
  modelled as it is, and nothing in the repository says what it should be.
* Creating the schema, which one process does once.
* File systems that ignore case. The export compares the names it makes exactly
  (`voice_export.py:334`), and so does the model: where the file system takes `Ann`
  and `ANN` for one name, two contacts whose names differ in nothing else could
  still share a transcript.

## Plan

1. Done: `Models` to `Pipeline` with the contract, `Runner` with its refinement,
   `Reconcile`, `ReviewPages`, `Ingest`.
2. Done: several apply runs and the Apply page's latch, repeated calls and label
   creation; rules files; Voice export; the migration; liveness of the pipeline
   under overlap.
3. Done: invariants and theorems of every safety property the runs check, with
   and without overlap; both refinements.
4. Open: messages and contacts that arrive while stages run; a bulk action as an
   atomic operation on what is shown, that `ReviewPages` implements while the
   page is current; an outbox (intent, at-most-once settlement) as the abstract
   specification of several runs at once.
5. To prove: that `Runner` with several runs implements an outbox, once there is
   one; that a bulk action on a fresh page is the atomic one.
