---------------------------- MODULE RunnerProofs ----------------------------
(***************************************************************************)
(* Proofs about Runner for every set of messages, any mailbox, any batch   *)
(* sizes and any number of runs at once; about the coarse run of ApplyRun, *)
(* which a lone run implements; and about the sessions of ApplyPage.       *)
(*                                                                         *)
(* The invariant of the runs has two layers: what each run knows of        *)
(* itself, which no other run can disturb, and how the runs agree with the *)
(* messages table and the audit table. For the coarse run it is joined by  *)
(* the facts that a call is about one row, or only about archives, and     *)
(* that no run ever waits for the write lock. The invariant of the page    *)
(* follows the list of previewed rows through a session: from the dry run  *)
(* that makes it, to the latch that it unlocks, to the execution that      *)
(* works it off.                                                           *)
(***************************************************************************)
EXTENDS ApplyPage, FiniteSetTheorems, TLAPS

(* An attempt row names the action that the run read for the message, and  *)
(* only real runs write one; a call in flight is about such messages.      *)
SoundRun(r) ==
  /\ \A m \in Ids : r.intent[m] # NULL => r.intent[m] = r.action[m] /\ r.execute
  /\ \A m \in r.call : r.intent[m] # NULL
  /\ r.done \subseteq r.call
  /\ r.pc = "call" <=> r.call # {}
  /\ r.pc = "idle" => r.action = Nothing /\ r.intent = Nothing

RunInv == run \in [Runs -> RunStates] /\ \A p \in Runs : SoundRun(run[p])

(* A step of run p leaves the other runs alone.                            *)
Alone(p) ==
  /\ run' \in [Runs -> RunStates]
  /\ \A q \in Runs \ {p} : run'[q] = run[q]
  /\ SoundRun(run'[p])

-----------------------------------------------------------------------------
(* Each step of a run.                                                     *)

(* If the run that moves keeps itself sound, all runs remain so.           *)
LEMMA AloneIsSound ==
  ASSUME RunInv, NEW p \in Runs, Alone(p)
  PROVE  RunInv'
  BY DEF RunInv, Alone

(* A run that has ended, or was never started, is sound.                   *)
LEMMA IdleIsSound == IdleRun \in RunStates /\ SoundRun(IdleRun)
  BY DEF IdleRun, RunStates, SoundRun, Nothing, NULL

(* Leaving rows behind that no attempt is under way for.                   *)
LEMMA SettleIsAlone ==
  ASSUME RunInv, NEW p \in Runs, NEW m \in Ids, Next1(p, m), Settle(p, {m})
  PROVE  Alone(p)
<1> USE DEF RunInv
<1>1. run[p] \in RunStates /\ run[p].intent[m] = NULL /\ run[p].pc = "act"
  BY DEF Next1, Ready, FirstById
<1>2. run'[p] = [run[p] EXCEPT !.action = Without(run[p].action, {m}),
                               !.rec = Without(run[p].rec, {m})]
  BY DEF Settle
<1>3. Without(run[p].action, {m}) \in [Ids -> Actionable \cup {NULL}]
  BY <1>1 DEF Without, RunStates
<1>4. Without(run[p].rec, {m}) \in [Ids -> {"confirmed", "unconfirmed", "error", NULL}]
  BY <1>1 DEF Without, RunStates
<1>5. run'[p] \in RunStates
  BY <1>1, <1>2, <1>3, <1>4 DEF RunStates
<1>6. SoundRun(run'[p])
  BY <1>1, <1>2 DEF SoundRun, RunStates, Without
<1> QED
  BY <1>5, <1>6 DEF Alone, Settle

(* Starting a run: the list is read, nothing is intended yet.              *)
LEMMA StartIsAlone ==
  ASSUME RunInv, NEW p \in Runs, NEW execute \in BOOLEAN, NEW n, StartApply(p, execute, n)
  PROVE  Alone(p)
<1> DEFINE action == [m \in Ids |-> IF m \in FirstById(Queue, n)
                                    THEN row[m].staged_action ELSE NULL]
<1>1. run' = [run EXCEPT ![p] = [IdleRun EXCEPT !.pc = "act", !.execute = execute,
                                                !.action = action]]
  BY DEF StartApply
<1>2. action \in [Ids -> Actionable \cup {NULL}]
  BY DEF FirstById, Queue, ApprovedActionable
<1> HIDE DEF action
<1>3. run'[p] \in RunStates /\ run'[p].intent = Nothing /\ run'[p].call = {}
      /\ run'[p].done = {} /\ run'[p].pc = "act"
  BY <1>1, <1>2, IdleIsSound DEF RunInv, IdleRun, RunStates
<1>4. SoundRun(run'[p])
  BY <1>3 DEF SoundRun, Nothing
<1> QED
  BY <1>1, <1>3, <1>4 DEF Alone, RunInv

(* A chunk is reconciled before any of it is attempted.                    *)
LEMMA ReconcileIsAlone ==
  ASSUME RunInv, NEW p \in Runs, ReconcileChunk(p)
  PROVE  Alone(p)
<1>1. PICK chunk \in SUBSET Ids :
        \E f \in [chunk -> {"confirmed", "unconfirmed", "error"}] :
          run' = [run EXCEPT ![p].rec =
                    [m \in Ids |-> IF m \in chunk THEN f[m] ELSE run[p].rec[m]]]
  BY DEF ReconcileChunk, FirstById, Unreconciled, Unsettled
<1>2. PICK found \in [chunk -> {"confirmed", "unconfirmed", "error"}] :
        run' = [run EXCEPT ![p].rec =
                  [m \in Ids |-> IF m \in chunk THEN found[m] ELSE run[p].rec[m]]]
  BY <1>1
<1> DEFINE rec == [m \in Ids |-> IF m \in chunk THEN found[m] ELSE run[p].rec[m]]
<1>3. rec \in [Ids -> {"confirmed", "unconfirmed", "error", NULL}]
  BY DEF RunInv, RunStates
<1>4. run'[p] = [run[p] EXCEPT !.rec = rec]
  BY <1>2 DEF RunInv
<1> HIDE DEF rec
<1>5. run'[p] \in RunStates
  BY <1>3, <1>4 DEF RunInv, RunStates
<1>6. SoundRun(run'[p])
  BY <1>4 DEF RunInv, RunStates, SoundRun
<1> QED
  BY <1>2, <1>5, <1>6 DEF Alone, RunInv

(* An attempt row is committed for the message and action of the list.     *)
LEMMA AttemptIsAlone ==
  ASSUME RunInv, NEW p \in Runs, NEW m \in Ids, IntendTrash(p, m) \/ IntendArchive(p, m)
  PROVE  Alone(p)
<1> USE DEF RunInv
<1>1. PICK action \in Actionable, pc \in {"act", "call"}, call \in SUBSET Ids :
        /\ ToDo(p, m, action)
        /\ run' = [run EXCEPT ![p].intent = Attempt(m, action, run[p].intent),
                              ![p].pc = pc, ![p].call = call]
        /\ pc = "act" => call = {}
        /\ \A x \in call : x = m \/ run[p].intent[x] # NULL
  <2>1. CASE IntendTrash(p, m)
    <3>1. run' = [run EXCEPT ![p].intent = Attempt(m, "trash", run[p].intent),
                             ![p].pc = "call", ![p].call = {m}]
      BY <2>1 DEF IntendTrash
    <3>2. ToDo(p, m, "trash") /\ {m} \in SUBSET Ids
      BY <2>1 DEF IntendTrash
    <3> QED
      BY <3>1, <3>2 DEF Actionable
  <2>2. CASE IntendArchive(p, m)
    <3>1. run[p] \in RunStates /\ run[p].pc = "act" /\ run[p].call = {}
      BY <2>2 DEF IntendArchive, ToDo, Confirmed, Next1, SoundRun
    <3>2. \A x \in Buffered(p) : run[p].intent[x] # NULL
      BY DEF Buffered, NULL
    <3>3. Buffered(p) \cup {m} \in SUBSET Ids
      BY DEF Buffered
    <3>4. CASE Cardinality(Buffered(p) \cup {m}) >= ArchiveBatch
      BY <2>2, <3>1, <3>2, <3>3, <3>4 DEF IntendArchive, Actionable
    <3>5. CASE ~(Cardinality(Buffered(p) \cup {m}) >= ArchiveBatch)
      <4>1. run' = [run EXCEPT ![p].intent = Attempt(m, "archive", run[p].intent),
                               ![p].pc = run[p].pc, ![p].call = run[p].call]
        BY <2>2, <3>5 DEF IntendArchive
      <4> QED
        BY <2>2, <3>1, <4>1 DEF IntendArchive, Actionable
    <3> QED
      BY <3>4, <3>5
  <2> QED
    BY <2>1, <2>2
<1>2. run[p] \in RunStates /\ run[p].pc = "act" /\ run[p].execute /\ run[p].action[m] = action
      /\ run[p].call = {} /\ run[p].done = {}
  BY <1>1 DEF ToDo, Confirmed, Next1, SoundRun
<1>3. run'[p] = [run[p] EXCEPT !.intent = Attempt(m, action, run[p].intent),
                               !.pc = pc, !.call = call]
  BY <1>1
<1>4. Attempt(m, action, run[p].intent) \in [Ids -> Actionable \cup {NULL}]
  BY <1>2 DEF Attempt, RunStates
<1>5. run'[p] \in RunStates
  <2> DEFINE intent == Attempt(m, action, run[p].intent)
  <2> HIDE DEF intent
  <2>1. intent \in [Ids -> Actionable \cup {NULL}]
    BY <1>4 DEF intent
  <2>2. run'[p] = [run[p] EXCEPT !.intent = intent, !.pc = pc, !.call = call]
    BY <1>3 DEF intent
  <2> QED
    BY <1>2, <2>1, <2>2 DEF RunStates
<1>6. SoundRun(run'[p])
  BY <1>1, <1>2, <1>3 DEF SoundRun, RunStates, Attempt, Actionable, NULL
<1> QED
  BY <1>1, <1>5, <1>6 DEF Alone

(* The archive label is made, found, or fails.                             *)
LEMMA LabelIsAlone ==
  ASSUME RunInv, NEW p \in Runs, NEW m \in Ids, EnsureLabel(p, m)
  PROVE  Alone(p)
<1>1. run'[p] = [run[p] EXCEPT !.label = TRUE]
  BY DEF EnsureLabel, RunInv
<1>2. run'[p] \in RunStates
  BY <1>1 DEF RunInv, RunStates
<1>3. SoundRun(run'[p])
  BY <1>1 DEF RunInv, RunStates, SoundRun
<1> QED
  BY <1>2, <1>3 DEF Alone, EnsureLabel, RunInv

(* What the buffer holds has its attempt rows already.                     *)
LEMMA FlushIsAlone ==
  ASSUME RunInv, NEW p \in Runs, FlushArchive(p)
  PROVE  Alone(p)
<1>1. run[p] \in RunStates /\ run[p].pc = "act" /\ run[p].done = {} /\ Buffered(p) # {}
  BY DEF FlushArchive, Exhausted, RunInv, SoundRun
<1>2. run'[p] = [run[p] EXCEPT !.pc = "call", !.call = Buffered(p)]
  BY DEF FlushArchive, SendArchive, RunInv
<1>3. run'[p] \in RunStates
  BY <1>1, <1>2 DEF RunStates, Buffered
<1>4. SoundRun(run'[p])
  BY <1>1, <1>2 DEF RunInv, RunStates, SoundRun, Buffered, NULL
<1> QED
  BY <1>3, <1>4 DEF Alone, FlushArchive, SendArchive, RunInv

(* Gmail performs the call that is in flight, or a part of it.             *)
LEMMA PerformIsAlone ==
  ASSUME RunInv, NEW p \in Runs, NEW m \in Ids, GmailPerforms(p, m)
  PROVE  Alone(p)
<1>1. run[p] \in RunStates /\ m \in run[p].call
  BY DEF GmailPerforms, RunInv
<1>2. run'[p] = [run[p] EXCEPT !.done = run[p].done \cup {m}]
  BY DEF GmailPerforms, RunInv
<1>3. run'[p] \in RunStates
  BY <1>1, <1>2 DEF RunStates
<1>4. SoundRun(run'[p])
  BY <1>1, <1>2 DEF RunInv, RunStates, SoundRun
<1> QED
  BY <1>3, <1>4 DEF Alone, GmailPerforms, RunInv

(* The rows of a call that ends are settled, and no other row.             *)
LEMMA EndIsAlone ==
  ASSUME RunInv, NEW p \in Runs, EndCall(p)
  PROVE  Alone(p)
<1> DEFINE call == run[p].call
           action == Without(run[p].action, call)
           rec == Without(run[p].rec, call)
           intent == Without(run[p].intent, call)
<1>1. run[p] \in RunStates /\ SoundRun(run[p])
  BY DEF RunInv
<1>2. action \in [Ids -> Actionable \cup {NULL}] /\ intent \in [Ids -> Actionable \cup {NULL}]
  BY <1>1 DEF Without, RunStates
<1>3. rec \in [Ids -> {"confirmed", "unconfirmed", "error", NULL}]
  BY <1>1 DEF Without, RunStates
<1>4. run' = [run EXCEPT ![p] = [run[p] EXCEPT
                !.action = action, !.rec = rec, !.intent = intent,
                !.pc = "act", !.call = {}, !.done = {}]]
  BY DEF EndCall, Ended
<1>5. \A m \in Ids : intent[m] # NULL => intent[m] = action[m] /\ run[p].execute
  BY <1>1 DEF Without, SoundRun
<1> HIDE DEF call, action, rec, intent
<1>6. run'[p] \in RunStates
  BY <1>1, <1>2, <1>3, <1>4 DEF RunInv, RunStates
<1>7. SoundRun(run'[p])
  BY <1>1, <1>4, <1>5 DEF RunInv, RunStates, SoundRun
<1> QED
  BY <1>4, <1>6, <1>7 DEF Alone, RunInv

(* So every step of a run concerns that run alone.                         *)
LEMMA StepIsAlone ==
  ASSUME RunInv, NEW p \in Runs, Does(p)
  PROVE  Alone(p)
<1>1. CASE \E execute \in BOOLEAN, n \in Limits : StartApply(p, execute, n)
  BY <1>1, StartIsAlone
<1>2. CASE ReconcileChunk(p)
  BY <1>2, ReconcileIsAlone
<1>3. CASE FlushArchive(p)
  BY <1>3, FlushIsAlone
<1>4. CASE Finish(p) \/ Die(p)
  BY <1>4, IdleIsSound DEF Finish, Die, RunInv, Alone
<1>5. CASE CallSucceeds(p) \/ CallFails(p)
  BY <1>5, EndIsAlone DEF CallSucceeds, CallFails
<1>6. ASSUME NEW m \in Ids, Act(p, m) PROVE Alone(p)
  <2>1. CASE RecordError(p, m) \/ Skip(p, m) \/ DryRun(p, m) \/ LabelFails(p, m)
    BY <2>1, SettleIsAlone DEF RecordError, Skip, DryRun, LabelFails, Confirmed, WantsLabel, ToDo
  <2>2. CASE IntendTrash(p, m) \/ IntendArchive(p, m)
    BY <2>2, AttemptIsAlone
  <2>3. CASE EnsureLabel(p, m)
    BY <2>3, LabelIsAlone
  <2>4. CASE GmailPerforms(p, m)
    BY <2>4, PerformIsAlone
  <2> QED
    BY <1>6, <2>1, <2>2, <2>3, <2>4 DEF Act
<1> QED
  BY <1>1, <1>2, <1>3, <1>4, <1>5, <1>6 DEF Does, RunStep

(* A step is a run's, or changes no run.                                   *)
LEMMA NextByCase ==
  ASSUME [Next]_vars
  PROVE  (\E p \in Runs : Does(p)) \/ UNCHANGED <<run, performed, label, auditVars, together>>
  BY DEF Next, Does, OwnerMoves, Reviews, vars, gmailVars, auditVars

(* And every step of anything keeps all runs sound.                        *)
LEMMA NextRun == RunInv /\ [Next]_vars => RunInv'
<1> SUFFICES ASSUME RunInv, [Next]_vars PROVE RunInv'
  OBVIOUS
<1>1. CASE \E p \in Runs : Does(p)
  BY <1>1, StepIsAlone, AloneIsSound
<1>2. CASE UNCHANGED run
  BY <1>2 DEF RunInv
<1> QED
  BY <1>1, <1>2, NextByCase

(* Each run's own bookkeeping is right, however many there are.            *)
THEOREM RunsAreSound == Spec => []RunInv
<1>1. Init => RunInv
  BY IdleIsSound DEF Init, RunInv
<1> QED
  BY <1>1, NextRun, PTL DEF Spec

-----------------------------------------------------------------------------
(* What a run may do to the mailbox and to the audit table.                *)

(* Gmail performs nothing without an attempt row.                          *)
THEOREM NothingWithoutIntent == Spec => MutationHasIntent
<1> DEFINE Logged == \A did \in NewlyPerformed :
                       \E p \in Runs, m \in Ids : did = <<LiveOf[m], run[p].intent[m]>>
<1>1. ASSUME RunInv, [Next]_vars PROVE Logged
  <2>1. CASE performed' = performed
    BY <2>1 DEF NewlyPerformed
  <2>2. ASSUME NEW p \in Runs, NEW m \in Ids, GmailPerforms(p, m) PROVE Logged
    <3>1. run[p].intent[m] = run[p].action[m]
      BY <2>2, <1>1 DEF GmailPerforms, RunInv, SoundRun
    <3>2. performed' = performed \cup {<<LiveOf[m], run[p].action[m]>>}
      BY <2>2 DEF GmailPerforms
    <3> QED
      BY <3>1, <3>2 DEF NewlyPerformed
  <2>3. ASSUME NEW p \in Runs, Does(p), performed' # performed
        PROVE  \E m \in Ids : GmailPerforms(p, m)
    BY <2>3 DEF Does, RunStep, Act, StartApply, ReconcileChunk, FlushArchive, SendArchive, Finish,
       CallSucceeds, CallFails, EndCall, Ended, Die, RecordError, Skip, DryRun, LabelFails,
       IntendTrash, IntendArchive, EnsureLabel, gmailVars
  <2> QED
    BY <1>1, <2>1, <2>2, <2>3, NextByCase
<1>2. Logged => [Logged]_vars
  OBVIOUS
<1>3. Spec => [][Logged]_vars
  BY <1>1, RunsAreSound, PTL DEF Spec
<1> QED
  BY <1>3 DEF MutationHasIntent

(* What a run under way does to its own list and to the messages table: it *)
(* settles rows, and an executing run may write the status of those.       *)
Settles(p) ==
  /\ Active(p) /\ UNCHANGED together
  /\ \A m \in Ids : run'[p].action[m] \in {run[p].action[m], NULL}
  /\ \/ UNCHANGED row
     \/ \E S \in SUBSET Unsettled(p), status \in {"applied", "skipped"} :
          /\ run[p].execute
          /\ StatusOf(S, status)
          /\ \A m \in S : run'[p].action[m] = NULL

(* What a run does to the table is settling rows that it has listed.       *)
LEMMA RunSettles ==
  ASSUME RunInv, NEW p \in Runs, RunStep(p) \/ Die(p)
  PROVE  Settles(p)
<1>1. run[p] \in RunStates /\ SoundRun(run[p])
  BY DEF RunInv
<1>2. ASSUME UNCHANGED <<row, together>>, Active(p),
             \A m \in Ids : run'[p].action[m] \in {run[p].action[m], NULL}
      PROVE  Settles(p)
  BY <1>2 DEF Settles
<1>3. CASE Finish(p) \/ Die(p)
  BY <1>1, <1>2, <1>3 DEF Finish, Die, Active, dbVars, RunInv, IdleRun, Nothing
<1>4. CASE ReconcileChunk(p) \/ FlushArchive(p)
  <2>1. Active(p) /\ UNCHANGED <<row, together>>
    BY <1>4 DEF ReconcileChunk, FlushArchive, SendArchive, Exhausted, Active, dbVars
  <2>2. CASE ReconcileChunk(p)
    <3>1. run'[p].action = run[p].action
      BY <1>1, <2>2 DEF ReconcileChunk, RunInv, RunStates
    <3> QED
      BY <1>2, <2>1, <3>1
  <2>3. CASE FlushArchive(p)
    <3>1. run'[p].action = run[p].action
      BY <1>1, <2>3 DEF FlushArchive, SendArchive, RunInv, RunStates
    <3> QED
      BY <1>2, <2>1, <3>1
  <2> QED
    BY <1>4, <2>2, <2>3
<1>5. CASE CallSucceeds(p) \/ CallFails(p)
  <2>1. run' = [run EXCEPT ![p].action = Without(@, run[p].call),
                           ![p].rec = Without(@, run[p].call),
                           ![p].intent = Without(run[p].intent, run[p].call),
                           ![p].pc = "act", ![p].call = {}, ![p].done = {}]
    BY <1>5 DEF CallSucceeds, CallFails, EndCall, Ended
  <2>2. \A m \in Ids : run'[p].action[m] = IF m \in run[p].call THEN NULL
                                            ELSE run[p].action[m]
    BY <1>1, <2>1 DEF RunInv, RunStates, Without
  <2>3. run[p].call \in SUBSET Unsettled(p) /\ run[p].execute
    <3>1. run[p].call # {} /\ run[p].call \subseteq Ids
      BY <1>1, <1>5 DEF CallSucceeds, CallFails, RunStates, SoundRun
    <3>2. \A m \in run[p].call : run[p].action[m] # NULL /\ run[p].execute
      BY <1>1, <3>1 DEF SoundRun
    <3> QED
      BY <3>1, <3>2 DEF Unsettled
  <2>4. Active(p) /\ UNCHANGED together
    BY <1>5 DEF CallSucceeds, CallFails, EndCall, Ended, Active
  <2>5. UNCHANGED row \/ StatusOf(run[p].call, "applied")
    BY <1>5 DEF CallSucceeds, CallFails
  <2>6. \A m \in run[p].call : run'[p].action[m] = NULL
    BY <2>2, <2>3 DEF Unsettled
  <2> QED
    BY <2>2, <2>3, <2>4, <2>5, <2>6 DEF Settles
<1>6. ASSUME NEW m \in Ids, Act(p, m) PROVE Settles(p)
  <2> DEFINE Drops == \A x \in Ids :
                        run'[p].action[x] = IF x = m THEN NULL ELSE run[p].action[x]
  <2>4. ASSUME Settle(p, {m}) PROVE Drops
    BY <1>1, <2>4 DEF Settle, Without, RunInv, RunStates
  <2>1. CASE RecordError(p, m) \/ DryRun(p, m) \/ LabelFails(p, m)
    BY <1>2, <2>1, <2>4 DEF RecordError, DryRun, LabelFails, Confirmed, WantsLabel, ToDo, Next1, Active,
       dbVars
  <2>2. CASE Skip(p, m)
    <3>1. Settle(p, {m}) /\ Active(p) /\ UNCHANGED together /\ run[p].action[m] # NULL
      BY <2>2 DEF Skip, Next1, Active, FirstById, Ready, Unsettled
    <3>2. CASE ~run[p].execute
      BY <1>2, <2>2, <2>4, <3>1, <3>2 DEF Skip, SetAside
    <3>3. CASE run[p].execute
      <4>1. StatusOf({m}, "skipped") /\ {m} \in SUBSET Unsettled(p)
        BY <2>2, <3>1, <3>3 DEF Skip, SetAside, Unsettled
      <4> QED
        BY <2>4, <3>1, <3>3, <4>1 DEF Settles
    <3> QED
      BY <3>2, <3>3
  <2>3. CASE IntendTrash(p, m) \/ EnsureLabel(p, m) \/ GmailPerforms(p, m)
    <3>1. Active(p) /\ UNCHANGED <<row, together>>
      BY <2>3 DEF IntendTrash, EnsureLabel, GmailPerforms, WantsLabel, ToDo, Confirmed, Next1,
         Active, dbVars
    <3>2. run'[p].action = run[p].action
      BY <1>1, <2>3 DEF IntendTrash, EnsureLabel, GmailPerforms, RunInv, RunStates
    <3> QED
      BY <1>2, <3>1, <3>2
  <2>5. CASE IntendArchive(p, m)
    <3>1. Active(p) /\ UNCHANGED <<row, together>>
      BY <2>5 DEF IntendArchive, ToDo, Confirmed, Next1, Active, dbVars
    <3>2. run'[p].action = run[p].action
      BY <1>1, <2>5 DEF IntendArchive, RunInv, RunStates
    <3> QED
      BY <1>2, <3>1, <3>2
  <2> QED
    BY <1>6, <2>1, <2>2, <2>3, <2>5 DEF Act
<1> QED
  BY <1>3, <1>4, <1>5, <1>6 DEF RunStep

(* A run is a dry or a real one to its end.                                *)
LEMMA ExecuteIsKept ==
  ASSUME RunInv, NEW p \in Runs, RunStep(p) \/ Die(p)
  PROVE  run'[p] = IdleRun \/ run'[p].execute = run[p].execute
<1> USE DEF RunInv, RunStates
<1>1. CASE Finish(p) \/ Die(p)
  BY <1>1 DEF Finish, Die
<1>2. CASE ReconcileChunk(p)
  BY <1>2 DEF ReconcileChunk
<1>3. CASE FlushArchive(p)
  BY <1>3 DEF FlushArchive, SendArchive
<1>4. CASE CallSucceeds(p) \/ CallFails(p)
  BY <1>4 DEF CallSucceeds, CallFails, EndCall, Ended
<1>5. ASSUME NEW m \in Ids, Act(p, m) PROVE run'[p].execute = run[p].execute
  <2>1. CASE RecordError(p, m) \/ Skip(p, m) \/ DryRun(p, m) \/ LabelFails(p, m)
    BY <2>1 DEF RecordError, Skip, DryRun, LabelFails, Settle
  <2>2. CASE IntendTrash(p, m) \/ EnsureLabel(p, m) \/ GmailPerforms(p, m)
    BY <2>2 DEF IntendTrash, EnsureLabel, GmailPerforms
  <2>3. CASE IntendArchive(p, m)
    BY <2>3 DEF IntendArchive
  <2> QED
    BY <1>5, <2>1, <2>2, <2>3 DEF Act
<1> QED
  BY <1>1, <1>2, <1>3, <1>4, <1>5 DEF RunStep

(* No dry run has an attempt under way, so none comes to the end of a call.*)
THEOREM DryRunsAreHarmless == Spec => DryRunIsHarmless
<1> DEFINE Harmless == \A p \in Runs : Active(p) /\ ~run[p].execute /\ run'[p] # run[p] =>
                         /\ <<performed, label>>' = <<performed, label>>
                         /\ \A m \in Ids : row'[m].review_status = row[m].review_status
<1>1. ASSUME RunInv, [Next]_vars PROVE Harmless
  <2> SUFFICES ASSUME NEW p \in Runs, Active(p), ~run[p].execute, run'[p] # run[p]
               PROVE  <<performed, label>>' = <<performed, label>> /\ UNCHANGED row
    OBVIOUS
  <2>1. Does(p)
    BY <1>1, NextByCase, StepIsAlone DEF Alone
  <2>2. RunStep(p) \/ Die(p)
    BY <2>1 DEF Does, StartApply
  <2>3. UNCHANGED row
    BY <1>1, <2>2, RunSettles DEF Settles
  <2>4. run[p].call = {}
    BY <1>1 DEF RunInv, RunStates, SoundRun
  <2>5. UNCHANGED gmailVars
    <3>1. CASE ReconcileChunk(p) \/ FlushArchive(p) \/ Finish(p) \/ Die(p)
      BY <3>1 DEF ReconcileChunk, FlushArchive, SendArchive, Finish, Die
    <3>2. CASE CallSucceeds(p) \/ CallFails(p)
      BY <3>2 DEF CallSucceeds, CallFails, EndCall, Ended
    <3>3. ASSUME NEW m \in Ids, Act(p, m) PROVE UNCHANGED gmailVars
      BY <2>4, <3>3 DEF Act, RecordError, Skip, DryRun, LabelFails, IntendTrash, IntendArchive,
         EnsureLabel, GmailPerforms, WantsLabel, ToDo
    <3> QED
      BY <2>2, <3>1, <3>2, <3>3 DEF RunStep
  <2> QED
    BY <2>3, <2>5 DEF gmailVars
<1>2. Harmless => [Harmless]_vars
  OBVIOUS
<1>3. Spec => [][Harmless]_vars
  BY <1>1, RunsAreSound, PTL DEF Spec
<1> QED
  BY <1>3 DEF DryRunIsHarmless

(* An attempt row is closed by the end of its call, or left by a dead run. *)
THEOREM IntentsAreClosed == Spec => IntentIsClosed
<1> DEFINE Closed == \A p \in Runs, m \in Ids :
                       LET intent == run[p].intent[m] IN
                       intent # NULL /\ run'[p].intent[m] # intent =>
                         \/ intent \in dangling'[m]
                         \/ /\ run'[p].intent[m] = NULL
                            /\ audit'[m].action = intent /\ ~audit'[m].dry_run
                            /\ audit'[m].status \in {"success", "error"}
<1>1. ASSUME RunInv, [Next]_vars PROVE Closed
  <2> SUFFICES ASSUME NEW p \in Runs, NEW m \in Ids, run[p].intent[m] # NULL,
                      run'[p].intent[m] # run[p].intent[m]
               PROVE  \/ run[p].intent[m] \in dangling'[m]
                      \/ /\ run'[p].intent[m] = NULL
                         /\ audit'[m].action = run[p].intent[m] /\ ~audit'[m].dry_run
                         /\ audit'[m].status \in {"success", "error"}
    OBVIOUS
  <2>1. Does(p) /\ run[p] \in RunStates /\ SoundRun(run[p])
    BY <1>1, NextByCase, StepIsAlone DEF Alone, RunInv
  <2>2. run[p].execute /\ run[p].action[m] = run[p].intent[m] /\ run[p].pc # "idle"
    BY <2>1 DEF SoundRun, Nothing
  <2>3. CASE Die(p)
    BY <2>2, <2>3 DEF Die
  <2>4. CASE CallSucceeds(p) \/ CallFails(p)
    <3>1. run'[p].intent = Without(run[p].intent, run[p].call)
      BY <1>1, <2>4 DEF CallSucceeds, CallFails, EndCall, Ended, RunInv, RunStates
    <3>2. m \in run[p].call /\ run'[p].intent[m] = NULL
      BY <3>1 DEF Without
    <3>3. PICK status \in {"success", "error"} : Log(p, run[p].call, status)
      BY <2>4 DEF CallSucceeds, CallFails
    <3>4. run[p].execute = TRUE
      BY <2>1, <2>2 DEF RunStates
    <3>5. audit'[m] = [action |-> run[p].action[m], dry_run |-> FALSE, status |-> status]
      BY <3>2, <3>3, <3>4 DEF Log, Record
    <3> QED
      BY <2>2, <3>2, <3>5
  <2>5. CASE Finish(p)
    BY <2>2, <2>5 DEF Finish, Unsettled
  <2>6. ASSUME NEW x \in Ids, IntendTrash(p, x) \/ IntendArchive(p, x) PROVE FALSE
    <3>1. x # m
      BY <2>6 DEF IntendTrash, IntendArchive, ToDo, Confirmed, Next1, FirstById, Ready
    <3>2. CASE IntendTrash(p, x)
      <4>1. run'[p].intent = Attempt(x, "trash", run[p].intent)
        BY <1>1, <3>2 DEF IntendTrash, RunInv, RunStates
      <4> QED
        BY <2>1, <3>1, <4>1 DEF Attempt, RunStates
    <3>3. CASE IntendArchive(p, x)
      <4>1. run'[p].intent = Attempt(x, "archive", run[p].intent)
        BY <1>1, <3>3 DEF IntendArchive, RunInv, RunStates
      <4> QED
        BY <2>1, <3>1, <4>1 DEF Attempt, RunStates
    <3> QED
      BY <2>6, <3>2, <3>3
  <2>7. ASSUME run'[p].intent = run[p].intent PROVE FALSE
    BY <2>7
  <2>8. CASE ReconcileChunk(p) \/ FlushArchive(p)
    BY <1>1, <2>7, <2>8 DEF ReconcileChunk, FlushArchive, SendArchive, RunInv, RunStates
  <2>9. ASSUME NEW x \in Ids, Settle(p, {x}) PROVE FALSE
    BY <1>1, <2>7, <2>9 DEF Settle, RunInv, RunStates
  <2>10. ASSUME NEW x \in Ids, EnsureLabel(p, x) \/ GmailPerforms(p, x) PROVE FALSE
    BY <1>1, <2>7, <2>10 DEF EnsureLabel, GmailPerforms, RunInv, RunStates
  <2>11. ~ \E x \in Ids : Act(p, x)
    BY <2>6, <2>9, <2>10 DEF Act, RecordError, Skip, DryRun, LabelFails
  <2>12. RunStep(p) \/ Die(p)
    BY <2>1, <2>2 DEF Does, StartApply, Active
  <2> QED
    BY <2>3, <2>4, <2>5, <2>8, <2>11, <2>12 DEF RunStep
<1>2. Closed => [Closed]_vars
  OBVIOUS
<1>3. Spec => [][Closed]_vars
  BY <1>1, RunsAreSound, PTL DEF Spec
<1> QED
  BY <1>3 DEF IntentIsClosed

-----------------------------------------------------------------------------
(* How the runs agree with the messages table, as long as the review UI is *)
(* not used during a run.                                                  *)

(* What a run has still to settle is what is staged; it is approved, or    *)
(* another run working off the same list has settled it already.           *)
Approves(p) ==
  \A m \in Ids : run[p].action[m] # NULL =>
    /\ row[m].staged_action = run[p].action[m]
    /\ \/ row[m].review_status \in Approvable
       \/ together /\ row[m].review_status \in {"applied", "skipped"}

Agrees ==
  /\ row \in [Ids -> Rows]
  /\ \A p \in Runs : Approves(p)
  /\ together \/ \A p, q \in Runs : Active(p) /\ Active(q) => p = q

(* Settling rows changes their status and no other column.                 *)
LEMMA StatusOfKeepsRows ==
  ASSUME row \in [Ids -> Rows], NEW S \in SUBSET Ids, NEW status \in Statuses, StatusOf(S, status)
  PROVE  /\ row' \in [Ids -> Rows]
         /\ \A m \in Ids : /\ row'[m].staged_action = row[m].staged_action
                           /\ row'[m].review_status = IF m \in S THEN status
                                                      ELSE row[m].review_status
<1>1. \A m \in Ids : row[m] \in Rows /\ [row[m] EXCEPT !.review_status = status] \in Rows
  BY DEF Rows
<1> QED
  BY <1>1 DEF StatusOf, Rows

(* The buttons neither apply a row nor touch an applied one.               *)
KeptByUI(m) ==
  \/ row'[m] = row[m]
  \/ row[m].review_status # "applied" /\ row'[m].review_status # "applied"

(* The review's writes leave every row of that kind.                       *)
LEMMA UIKeepsRows ==
  ASSUME row \in [Ids -> Rows], NEW S \in SUBSET Ids, UIStep(S)
  PROVE  row' \in [Ids -> Rows] /\ \A m \in Ids : KeptByUI(m)
<1>1. ASSUME NEW status \in {"approved", "rejected"}, NEW r \in Rows
      PROVE  /\ [r EXCEPT !.review_status = status] \in Rows
             /\ [r EXCEPT !.review_status = status].review_status # "applied"
  BY DEF Rows, Statuses, Approvable
<1>2. ASSUME NEW action \in Actions, NEW r \in Rows
      PROVE  /\ WithDecision([r EXCEPT !.review_status = "approved"], Decided(action, "human")) \in Rows
             /\ WithDecision([r EXCEPT !.review_status = "approved"],
                             Decided(action, "human")).review_status # "applied"
  BY DEF Rows, WithDecision, Decided, Statuses, Approvable, Sources
<1> DEFINE Kept == row' \in [Ids -> Rows] /\ \A m \in Ids : KeptByUI(m)
<1>3. ASSUME NEW status \in {"approved", "rejected"}, SetStatus(S, status) PROVE Kept
  <2>1. row' = [m \in Ids |-> IF m \in S /\ MayBecome(row[m], status)
                              THEN [row[m] EXCEPT !.review_status = status] ELSE row[m]]
    BY <1>3 DEF SetStatus
  <2>2. \A m \in Ids : MayBecome(row[m], status) => row[m].review_status # "applied"
    BY DEF MayBecome
  <2> QED
    BY <1>1, <2>1, <2>2 DEF KeptByUI
<1>4. ASSUME NEW action \in Actions, SetDecision(S, action) PROVE Kept
  <2> DEFINE new(r) == WithDecision([r EXCEPT !.review_status = "approved"],
                                    Decided(action, "human"))
  <2>1. row' = [m \in Ids |-> IF m \in S /\ row[m].review_status # "applied"
                              THEN new(row[m]) ELSE row[m]]
    BY <1>4 DEF SetDecision
  <2>2. \A r \in Rows : new(r) \in Rows /\ new(r).review_status # "applied"
    BY <1>2
  <2> HIDE DEF new
  <2> QED
    BY <2>1, <2>2 DEF KeptByUI
<1> QED
  BY <1>3, <1>4 DEF UIStep

(* A list that is read now agrees with the table.                          *)
LEMMA StartAgrees ==
  ASSUME RunInv, Agrees, NEW p \in Runs, NEW execute \in BOOLEAN, NEW n, StartApply(p, execute, n)
  PROVE  Agrees'
<1>1. UNCHANGED row /\ Alone(p) /\ (together => together')
  BY StartIsAlone DEF StartApply, dbVars
<1>2. \A m \in Ids : run'[p].action[m] # NULL =>
        m \in Queue /\ run'[p].action[m] = row[m].staged_action
  BY DEF StartApply, RunInv, RunStates, IdleRun, FirstById
<1>3. Approves(p)'
  BY <1>1, <1>2 DEF Approves, Queue, ApprovedActionable
<1>4. \A q \in Runs \ {p} : Approves(q)'
  BY <1>1 DEF Agrees, Approves, Alone
<1>5. together' \/ \A q \in Runs \ {p} : ~Active(q) /\ ~Active(q)'
  BY <1>1 DEF StartApply, Alone, Active
<1> QED
  BY <1>1, <1>3, <1>4, <1>5 DEF Agrees

(* A run that settles rows of its list leaves the other lists in           *)
(* agreement.                                                              *)
LEMMA SettleAgrees ==
  ASSUME RunInv, Agrees, NEW p \in Runs, Settles(p), Alone(p)
  PROVE  Agrees'
<1>1. CASE UNCHANGED row
  BY <1>1 DEF Agrees, Approves, Settles, Alone, Active
<1>2. ASSUME NEW S \in SUBSET Unsettled(p), NEW status \in {"applied", "skipped"},
             StatusOf(S, status), \A m \in S : run'[p].action[m] = NULL
      PROVE  Agrees'
  <2>1. /\ row' \in [Ids -> Rows]
        /\ \A m \in Ids : /\ row'[m].staged_action = row[m].staged_action
                          /\ row'[m].review_status = IF m \in S THEN status
                                                     ELSE row[m].review_status
    BY <1>2, StatusOfKeepsRows DEF Agrees, Unsettled, Statuses
  <2>2. Approves(p)'
    BY <1>2, <2>1 DEF Agrees, Approves, Settles
  <2>3. ASSUME NEW q \in Runs \ {p} PROVE Approves(q)'
    <3>1. run'[q] = run[q] /\ Active(p) /\ UNCHANGED together
      BY DEF Alone, Settles
    <3>2. CASE together
      BY <1>2, <2>1, <3>1, <3>2 DEF Agrees, Approves
    <3>3. CASE ~together
      <4>1. run[q].action = Nothing
        BY <3>1, <3>3 DEF Agrees, Active, RunInv, SoundRun
      <4> QED
        BY <3>1, <4>1 DEF Approves, Nothing
    <3> QED
      BY <3>2, <3>3
  <2>4. together' \/ \A q, r \in Runs : Active(q)' /\ Active(r)' => q = r
    BY DEF Agrees, Settles, Alone, Active
  <2> QED
    BY <2>1, <2>2, <2>3, <2>4 DEF Agrees
<1> QED
  BY <1>1, <1>2 DEF Settles

(* While no row is edited during a run, the lists and the table agree.     *)
LEMMA NextAgrees ==
  ASSUME Edits # "any", RunInv, Agrees, [Next]_vars
  PROVE  Agrees'
<1>1. ASSUME NEW p \in Runs, Does(p) PROVE Agrees'
  BY <1>1, StartAgrees, StepIsAlone, RunSettles, SettleAgrees DEF Does
<1>2. CASE UNCHANGED <<row, run, together>>
  BY <1>2 DEF Agrees, Approves, Active
<1>3. CASE Reviews
  <2>1. row' \in [Ids -> Rows] /\ UNCHANGED <<run, together>>
    BY <1>3, UIKeepsRows DEF Reviews, Agrees
  <2>2. \A p \in Runs : ~Active(p)
    BY <1>3 DEF Reviews
  <2>3. \A p \in Runs : run[p].action = Nothing
    BY <2>2 DEF Active, RunInv, SoundRun
  <2> QED
    BY <2>1, <2>3 DEF Agrees, Approves, Nothing, Active
<1> QED
  BY <1>1, <1>2, <1>3 DEF Next, Does, OwnerMoves, dbVars, vars

(* Runs and table agree in every state.                                    *)
THEOREM RunsAgreeWithTable ==
  ASSUME Edits # "any"
  PROVE  Spec => []Agrees
<1>1. Init => Agrees
  BY QueuedRowsAssumption DEF Init, Agrees, Approves, Active, IdleRun, Nothing, NULL
<1>2. RunInv /\ Agrees /\ [Next]_vars => Agrees'
  BY NextAgrees
<1> QED
  BY <1>1, <1>2, RunsAreSound, PTL DEF Spec

(* A run that turns to a row finds the decision it read still in force, or *)
(* settled by another run that read it too.                                *)
THEOREM RunsActOnApproved ==
  ASSUME Edits # "any"
  PROVE  Spec => ActsOnApproved
<1> DEFINE Approved == \A p \in Runs, m \in Ids :
              run'[p].intent[m] # NULL /\ run'[p].intent[m] # run[p].intent[m] =>
                /\ row[m].staged_action = run'[p].intent[m]
                /\ \/ row[m].review_status \in Approvable
                   \/ together /\ row[m].review_status \in {"applied", "skipped"}
<1>1. ASSUME RunInv, Agrees, [Next]_vars PROVE Approved
  <2> SUFFICES ASSUME NEW p \in Runs, NEW m \in Ids, run'[p].intent[m] # NULL,
                      run'[p].intent[m] # run[p].intent[m]
               PROVE  run[p].action[m] = run'[p].intent[m]
    BY <1>1 DEF Agrees, Approves
  <2>1. Does(p) /\ Alone(p) /\ run[p] \in RunStates
    BY <1>1, NextByCase, StepIsAlone DEF Alone, RunInv
  <2>2. SoundRun(run'[p]) /\ run'[p].intent[m] = run'[p].action[m]
    BY <2>1 DEF Alone, SoundRun
  <2>3. CASE RunStep(p) \/ Die(p)
    BY <1>1, <2>2, <2>3, RunSettles DEF Settles
  <2>4. ASSUME NEW execute \in BOOLEAN, NEW n, StartApply(p, execute, n) PROVE FALSE
    BY <1>1, <2>4 DEF StartApply, RunInv, IdleRun, Nothing
  <2> QED
    BY <2>1, <2>3, <2>4 DEF Does
<1>2. Approved => [Approved]_vars
  OBVIOUS
<1>3. Spec => [][Approved]_vars
  BY <1>1, RunsAreSound, RunsAgreeWithTable, PTL DEF Spec
<1> QED
  BY <1>3 DEF ActsOnApproved

-----------------------------------------------------------------------------
(* How the messages table and the audit table agree with the mailbox.      *)

(* A call's finished part was performed.                                   *)
DoneWasPerformed ==
  \A p \in Runs : \A m \in run[p].done : <<LiveOf[m], run[p].action[m]>> \in performed

Truthful ==
  /\ mail \in [Mails -> Places]
  /\ DoneWasPerformed
  /\ AppliedWasDone

(* What was performed stays performed, and what is gone stays gone.        *)
LEMMA MailboxRemembers ==
  ASSUME mail \in [Mails -> Places], [Next]_vars
  PROVE  /\ mail' \in [Mails -> Places]
         /\ \A x \in Mails : mail[x] = "gone" => mail'[x] = "gone"
         /\ performed \subseteq performed'
<1>1. ASSUME NEW p \in Runs, NEW m \in Ids, GmailPerforms(p, m)
      PROVE  /\ mail' \in [Mails -> Places]
             /\ \A x \in Mails : mail[x] = "gone" => mail'[x] = "gone"
             /\ performed \subseteq performed'
  <2>1. LiveOf[m] \in Mails /\ mail[LiveOf[m]] # "gone"
    BY <1>1, MailsAssumption DEF GmailPerforms
  <2>2. Moved(LiveOf[m], run[p].action[m]) \in Places
    BY <2>1 DEF Moved, Places
  <2> QED
    BY <1>1, <2>1, <2>2 DEF GmailPerforms
<1>2. ASSUME NEW x \in Mails, OwnerMoves(x)
      PROVE  /\ mail' \in [Mails -> Places]
             /\ \A y \in Mails : mail[y] = "gone" => mail'[y] = "gone"
             /\ performed \subseteq performed'
  BY <1>2 DEF OwnerMoves, Places
<1>3. CASE UNCHANGED <<mail, performed>>
  BY <1>3
<1>4. ASSUME NEW p \in Runs, Does(p)
      PROVE  UNCHANGED <<mail, performed>> \/ \E m \in Ids : GmailPerforms(p, m)
  <2>1. ASSUME NEW m \in Ids, Act(p, m), ~GmailPerforms(p, m) PROVE UNCHANGED <<mail, performed>>
    BY <2>1 DEF Act, RecordError, Skip, DryRun, LabelFails, IntendTrash, IntendArchive,
       EnsureLabel, gmailVars
  <2>2. CASE CallSucceeds(p) \/ CallFails(p)
    BY <2>2 DEF CallSucceeds, CallFails, EndCall, Ended, gmailVars
  <2> QED
    BY <1>4, <2>1, <2>2 DEF Does, RunStep, StartApply, ReconcileChunk, FlushArchive, SendArchive,
       Finish, Die, gmailVars
<1>5. CASE Reviews
  BY <1>3, <1>5 DEF Reviews, gmailVars
<1> QED
  BY <1>1, <1>2, <1>3, <1>4, <1>5 DEF Next, Does, vars, gmailVars

(* An action that is recorded as successful was performed by Gmail.        *)
LEMMA DoneStaysPerformed ==
  ASSUME RunInv, Truthful, [Next]_vars
  PROVE  DoneWasPerformed'
<1>1. performed \subseteq performed'
  BY MailboxRemembers DEF Truthful
<1>2. CASE UNCHANGED run
  BY <1>1, <1>2 DEF Truthful, DoneWasPerformed
<1>3. ASSUME NEW p \in Runs, Does(p) PROVE DoneWasPerformed'
  <2> DEFINE Mine == \A m \in run'[p].done : <<LiveOf[m], run'[p].action[m]>> \in performed'
  <2>1. Alone(p) /\ run[p] \in RunStates /\ SoundRun(run[p]) /\ SoundRun(run'[p])
    BY <1>3, StepIsAlone DEF Alone, RunInv
  <2>3. ASSUME run'[p].done = {} PROVE Mine
    BY <2>3
  <2>4. ASSUME NEW m \in Ids, GmailPerforms(p, m) PROVE Mine
    <3>1. run'[p].done = run[p].done \cup {m} /\ run'[p].action = run[p].action
      BY <2>1, <2>4 DEF GmailPerforms, RunInv, RunStates
    <3>2. <<LiveOf[m], run[p].action[m]>> \in performed'
      BY <2>4, <3>1 DEF GmailPerforms
    <3> QED
      BY <1>1, <3>1, <3>2 DEF Truthful, DoneWasPerformed
  <2>5. ASSUME NEW m \in Ids, Act(p, m), ~GmailPerforms(p, m) PROVE Mine
    <3>1. run[p].pc = "act" /\ run[p].done = {}
      BY <2>1, <2>5 DEF Act, RecordError, Skip, DryRun, LabelFails, IntendTrash, IntendArchive,
         EnsureLabel, WantsLabel, ToDo, Confirmed, Next1, SoundRun
    <3>2. ASSUME Settle(p, {m}) \/ IntendTrash(p, m) \/ EnsureLabel(p, m)
          PROVE  run'[p].done = run[p].done
      BY <2>1, <3>2 DEF IntendTrash, EnsureLabel, Settle, RunInv, RunStates
    <3>3. ASSUME IntendArchive(p, m) PROVE run'[p].done = run[p].done
      BY <2>1, <3>3 DEF IntendArchive, RunInv, RunStates
    <3>4. run'[p].done = run[p].done
      BY <2>5, <3>2, <3>3 DEF Act, RecordError, Skip, DryRun, LabelFails
    <3> QED
      BY <2>3, <3>1, <3>4
  <2>6. ASSUME ReconcileChunk(p) \/ FlushArchive(p) PROVE Mine
    <3>1. run[p].done = {}
      BY <2>1, <2>6 DEF ReconcileChunk, FlushArchive, Exhausted, SoundRun
    <3>2. run'[p].done = run[p].done
      BY <2>1, <2>6 DEF ReconcileChunk, FlushArchive, SendArchive, RunInv, RunStates
    <3> QED
      BY <2>3, <3>1, <3>2
  <2>7. ASSUME CallSucceeds(p) \/ CallFails(p) PROVE Mine
    <3>1. run'[p].done = {}
      BY <2>1, <2>7 DEF CallSucceeds, CallFails, EndCall, Ended, RunInv, RunStates
    <3> QED
      BY <2>3, <3>1
  <2>8. ASSUME Finish(p) \/ Die(p) PROVE Mine
    <3>1. run'[p].done = {}
      BY <2>8 DEF Finish, Die, IdleRun, RunInv
    <3> QED
      BY <2>3, <3>1
  <2>2. ASSUME NEW execute \in BOOLEAN, NEW n, StartApply(p, execute, n) PROVE Mine
    <3>1. run'[p].done = {}
      BY <2>2 DEF StartApply, IdleRun, RunInv
    <3> QED
      BY <2>3, <3>1
  <2>9. Mine
    BY <1>3, <2>2, <2>4, <2>5, <2>6, <2>7, <2>8 DEF Does, RunStep
  <2>10. \A q \in Runs \ {p} : \A m \in run'[q].done : <<LiveOf[m], run'[q].action[m]>> \in performed'
    BY <1>1, <2>1 DEF Truthful, DoneWasPerformed, Alone
  <2> QED
    BY <2>9, <2>10 DEF DoneWasPerformed
<1> QED
  BY <1>2, <1>3, NextByCase

(* A run records something only about the rows on its list, ...            *)
LEMMA RecordsItsOwn ==
  ASSUME RunInv, NEW p \in Runs, Does(p), NEW m \in Ids, audit'[m] # audit[m]
  PROVE  run[p].action[m] # NULL
<1>1. run[p] \in RunStates /\ SoundRun(run[p])
  BY DEF RunInv
<1>2. ASSUME NEW S, NEW status, Log(p, S, status), m \notin S PROVE FALSE
  BY <1>2 DEF Log
<1>3. CASE CallSucceeds(p) \/ CallFails(p)
  BY <1>1, <1>2, <1>3 DEF CallSucceeds, CallFails, SoundRun
<1>4. ASSUME NEW x \in Ids, Act(p, x) PROVE run[p].action[m] # NULL
  <2>1. CASE RecordError(p, x) \/ Skip(p, x) \/ DryRun(p, x) \/ LabelFails(p, x)
    <3>1. m = x
      BY <1>2, <2>1 DEF RecordError, Skip, DryRun, LabelFails
    <3> QED
      BY <2>1, <3>1 DEF RecordError, Skip, DryRun, LabelFails, WantsLabel, ToDo, Confirmed, Next1,
         FirstById, Ready, Unsettled
  <2>2. CASE ~(RecordError(p, x) \/ Skip(p, x) \/ DryRun(p, x) \/ LabelFails(p, x))
    BY <1>4, <2>2 DEF Act, IntendTrash, IntendArchive, EnsureLabel, GmailPerforms, auditVars
  <2> QED
    BY <2>1, <2>2
<1> QED
  BY <1>3, <1>4 DEF Does, RunStep, StartApply, ReconcileChunk, FlushArchive, SendArchive, Finish,
     Die, auditVars

(* ... and only the end of a successful call makes a row an applied one.   *)
LEMMA OnlySuccessApplies ==
  ASSUME RunInv, Agrees, NEW p \in Runs, Does(p), ~CallSucceeds(p),
         NEW m \in Ids, row'[m].review_status = "applied"
  PROVE  row'[m] = row[m]
<1>1. UNCHANGED row \/ \E x \in Ids : Skip(p, x)
  BY DEF Does, RunStep, Act, StartApply, ReconcileChunk, FlushArchive, SendArchive, Finish,
     CallFails, EndCall, Ended, Die, RecordError, DryRun, LabelFails, IntendTrash, IntendArchive,
     EnsureLabel, GmailPerforms, dbVars
<1>2. ASSUME NEW x \in Ids, StatusOf({x}, "skipped") PROVE row'[m] = row[m]
  <2>1. row[x] \in Rows
    BY DEF Agrees
  <2> QED
    BY <1>2, <2>1 DEF StatusOf, Rows
<1> QED
  BY <1>1, <1>2 DEF Skip, SetAside

(* At the end of a successful call, every row of it was acted on as it is  *)
(* staged, or its message is gone.                                         *)
LEMMA SuccessIsTrue ==
  ASSUME RunInv, Agrees, Truthful, NEW p \in Runs, CallSucceeds(p), NEW m \in run[p].call
  PROVE  /\ \/ <<LiveOf[m], row'[m].staged_action>> \in performed'
            \/ mail'[LiveOf[m]] = "gone"
         /\ audit'[m].status = "success" /\ ~audit'[m].dry_run
<1>1. run[p] \in RunStates /\ SoundRun(run[p]) /\ m \in Ids
  BY DEF RunInv, RunStates
<1>2. run[p].action[m] # NULL /\ run[p].execute = TRUE
  BY <1>1 DEF SoundRun, RunStates
<1>3. row'[m].staged_action = run[p].action[m]
  <2>1. row'[m].staged_action = row[m].staged_action
    BY <1>1, StatusOfKeepsRows DEF CallSucceeds, Agrees, RunStates, Statuses
  <2> QED
    BY <1>1, <1>2, <2>1 DEF Agrees, Approves
<1>4. UNCHANGED <<mail, performed>>
  BY DEF CallSucceeds, EndCall, Ended, gmailVars
<1>5. <<LiveOf[m], run[p].action[m]>> \in performed \/ mail[LiveOf[m]] = "gone"
  BY DEF CallSucceeds, Truthful, DoneWasPerformed
<1>6. audit'[m] = [action |-> run[p].action[m], dry_run |-> FALSE, status |-> "success"]
  BY <1>1, <1>2 DEF CallSucceeds, Log, Record
<1> QED
  BY <1>3, <1>4, <1>5, <1>6

(* A row is marked applied with the record that it was performed.          *)
LEMMA AppliedStaysDone ==
  ASSUME Edits # "any", RunInv, Agrees, Truthful, [Next]_vars
  PROVE  AppliedWasDone'
<1> SUFFICES ASSUME NEW m \in Ids, row'[m].review_status = "applied"
             PROVE  /\ \/ <<LiveOf[m], row'[m].staged_action>> \in performed'
                       \/ mail'[LiveOf[m]] = "gone"
                    /\ together' \/ (audit'[m].status = "success" /\ ~audit'[m].dry_run)
  BY DEF AppliedWasDone
<1>1. CASE \E p \in Runs : CallSucceeds(p) /\ m \in run[p].call
  BY <1>1, SuccessIsTrue
<1>2. ASSUME row'[m] = row[m], together => together', together \/ audit'[m] = audit[m]
      PROVE  /\ \/ <<LiveOf[m], row'[m].staged_action>> \in performed'
                \/ mail'[LiveOf[m]] = "gone"
             /\ together' \/ (audit'[m].status = "success" /\ ~audit'[m].dry_run)
  <2>1. performed \subseteq performed' /\ (mail[LiveOf[m]] = "gone" => mail'[LiveOf[m]] = "gone")
    BY MailboxRemembers, MailsAssumption DEF Truthful
  <2> QED
    BY <1>2, <2>1 DEF Truthful, AppliedWasDone
<1>3. ASSUME NEW p \in Runs, Does(p), ~(CallSucceeds(p) /\ m \in run[p].call)
      PROVE  row'[m] = row[m] /\ (together => together') /\ (together \/ audit'[m] = audit[m])
  <2>1. together => together'
    BY <1>3, RunSettles DEF Does, StartApply, Settles
  <2>2. row'[m] = row[m]
    BY <1>3, OnlySuccessApplies DEF CallSucceeds, StatusOf
  <2>3. audit'[m] # audit[m] => together
    BY <1>3, <2>2, RecordsItsOwn DEF Agrees, Approves, Approvable
  <2> QED
    BY <2>1, <2>2, <2>3
<1>4. CASE Reviews
  BY <1>2, <1>4, UIKeepsRows DEF Reviews, Agrees, KeptByUI, auditVars
<1>5. CASE UNCHANGED <<row, together, audit>>
  BY <1>2, <1>5
<1> QED
  BY <1>1, <1>2, <1>3, <1>4, <1>5 DEF Next, Does, OwnerMoves, dbVars, auditVars, vars

(* "applied" is always true.                                               *)
THEOREM AppliedIsTrue ==
  ASSUME Edits # "any"
  PROVE  Spec => []AppliedWasDone
<1>1. Init => Truthful
  BY QueuedRowsAssumption DEF Init, Truthful, DoneWasPerformed, AppliedWasDone, IdleRun, Places
<1>2. RunInv /\ Agrees /\ Truthful /\ [Next]_vars => Truthful'
  BY DoneStaysPerformed, MailboxRemembers, AppliedStaysDone DEF Truthful
<1>3. Truthful => AppliedWasDone
  BY DEF Truthful
<1> QED
  BY <1>1, <1>2, <1>3, RunsAreSound, RunsAgreeWithTable, PTL DEF Spec

-----------------------------------------------------------------------------
OneKind(r) == (\E m \in Ids : r.call = {m}) \/ \A m \in r.call : r.action[m] = "archive"
CallInv == writer = NULL /\ \A p \in Runs : OneKind(run[p])

(* Only turning to a message or flushing the buffer sets up a call.        *)
LEMMA CallsAreOfOneKind ==
  ASSUME RunInv, CallInv, NEW p \in Runs, Does(p)
  PROVE  OneKind(run'[p])
<1>1. Alone(p) /\ run[p] \in RunStates /\ SoundRun(run[p]) /\ SoundRun(run'[p])
  BY StepIsAlone DEF Alone, RunInv
<1>2. ASSUME run'[p].pc # "call" PROVE OneKind(run'[p])
  BY <1>1, <1>2 DEF SoundRun, OneKind
<1>3. ASSUME run'[p].call = run[p].call, run'[p].action = run[p].action
      PROVE  OneKind(run'[p])
  BY <1>3 DEF CallInv, OneKind
<1>4. CASE FlushArchive(p)
  <2>1. run'[p].call = Buffered(p) /\ run'[p].intent = run[p].intent
    BY <1>1, <1>4 DEF FlushArchive, SendArchive, RunInv, RunStates
  <2> QED
    BY <1>1, <2>1 DEF OneKind, SoundRun, Buffered, NULL
<1>5. CASE ReconcileChunk(p)
  <2>1. run'[p].call = run[p].call /\ run'[p].action = run[p].action
    BY <1>1, <1>5 DEF ReconcileChunk, RunInv, RunStates
  <2> QED
    BY <1>3, <2>1
<1>6. CASE CallSucceeds(p) \/ CallFails(p)
  <2>1. run'[p].pc = "act"
    BY <1>1, <1>6 DEF CallSucceeds, CallFails, EndCall, Ended, RunInv, RunStates
  <2> QED
    BY <1>2, <2>1
<1>7. CASE Finish(p) \/ Die(p)
  BY <1>2, <1>7 DEF Finish, Die, IdleRun, RunInv
<1>8. ASSUME NEW execute \in BOOLEAN, NEW n, StartApply(p, execute, n) PROVE OneKind(run'[p])
  BY <1>2, <1>8 DEF StartApply, IdleRun, RunInv
<1>9. ASSUME NEW m \in Ids, Act(p, m) PROVE OneKind(run'[p])
  <2>1. CASE IntendTrash(p, m)
    <3>1. run'[p].call = {m}
      BY <1>1, <2>1 DEF IntendTrash, RunInv, RunStates
    <3> QED
      BY <3>1 DEF OneKind
  <2>2. CASE IntendArchive(p, m)
    <3>1. run'[p].intent = Attempt(m, "archive", run[p].intent)
      BY <1>1, <2>2 DEF IntendArchive, RunInv, RunStates
    <3>2. \A x \in Buffered(p) \cup {m} : run'[p].intent[x] = "archive"
      BY <1>1, <3>1 DEF Attempt, Buffered, RunStates
    <3>3. run'[p].call = Buffered(p) \cup {m} \/ run'[p].call = run[p].call
      BY <1>1, <2>2 DEF IntendArchive, RunInv, RunStates
    <3>4. run[p].call = {}
      BY <1>1, <2>2 DEF IntendArchive, ToDo, Confirmed, Next1, SoundRun
    <3>5. \A x \in run'[p].call : run'[p].intent[x] = "archive"
      BY <3>2, <3>3, <3>4
    <3> QED
      BY <1>1, <3>5 DEF OneKind, SoundRun, Alone, RunStates, NULL
  <2>3. CASE EnsureLabel(p, m) \/ GmailPerforms(p, m)
    <3>1. run'[p].call = run[p].call /\ run'[p].action = run[p].action
      BY <1>1, <2>3 DEF EnsureLabel, GmailPerforms, RunInv, RunStates
    <3> QED
      BY <1>3, <3>1
  <2>4. CASE RecordError(p, m) \/ Skip(p, m) \/ DryRun(p, m) \/ LabelFails(p, m)
    <3>1. run'[p].pc = run[p].pc /\ run[p].pc = "act"
      BY <1>1, <2>4 DEF RecordError, Skip, DryRun, LabelFails, WantsLabel, ToDo, Confirmed, Next1,
         Settle, RunInv, RunStates
    <3> QED
      BY <1>2, <3>1
  <2> QED
    BY <1>9, <2>1, <2>2, <2>3, <2>4 DEF Act
<1> QED
  BY <1>4, <1>5, <1>6, <1>7, <1>8, <1>9 DEF Does, RunStep

(* Every step keeps calls of one kind, and the lock free.                  *)
LEMMA NextCall == RunInv /\ CallInv /\ [Next]_vars => CallInv'
<1> SUFFICES ASSUME RunInv, CallInv, [Next]_vars PROVE CallInv'
  OBVIOUS
<1>1. UNCHANGED writer
  <2>1. ASSUME NEW p \in Runs, RunStep(p) PROVE UNCHANGED writer
    BY <2>1 DEF RunStep, Act, ReconcileChunk, FlushArchive, SendArchive, Finish, CallSucceeds,
       CallFails, EndCall, Ended, RecordError, Skip, DryRun, LabelFails, IntendTrash,
       IntendArchive, EnsureLabel, GmailPerforms, dbVars
  <2> QED
    BY <2>1 DEF Next, Does, StartApply, Die, OwnerMoves, Reviews, UIStep, SetStatus, SetDecision,
       dbVars, vars
<1>2. ASSUME NEW p \in Runs, Does(p) PROVE \A q \in Runs : OneKind(run'[q])
  BY <1>2, CallsAreOfOneKind, StepIsAlone DEF Alone, CallInv
<1>3. CASE UNCHANGED run
  BY <1>1, <1>3 DEF CallInv
<1> QED
  BY <1>1, <1>2, <1>3, NextByCase DEF CallInv, OneKind

-----------------------------------------------------------------------------
(* The coarse run's list, when c is the only run there is.                 *)
List(r) == IF r.execute THEN r.action ELSE Nothing

(* It is the list of that run.                                             *)
LEMMA ListOfLoneRun ==
  ASSUME NEW c, Runs = {c}, NEW f \in [Runs -> RunStates]
  PROVE  TodoOf(f) = List(f[c])
<1>1. f[c].action \in [Ids -> Actionable \cup {NULL}] /\ f[c].execute \in BOOLEAN
  BY DEF RunStates
<1> DEFINE acting(m) == {p \in Runs : f[p].execute /\ f[p].action[m] # NULL}
           todo(m) == IF acting(m) = {} THEN NULL
                      ELSE f[CHOOSE p \in acting(m) : TRUE].action[m]
<1>2. ASSUME NEW m \in Ids PROVE todo(m) = List(f[c])[m]
  <2>1. CASE f[c].execute /\ f[c].action[m] # NULL
    <3>1. acting(m) = {c} /\ (CHOOSE p \in {c} : TRUE) = c
      BY <2>1
    <3> QED
      BY <2>1, <3>1 DEF List
  <2>2. CASE ~(f[c].execute /\ f[c].action[m] # NULL)
    <3>1. acting(m) = {}
      BY <2>2
    <3> QED
      BY <2>2, <3>1 DEF List, Nothing
  <2> QED
    BY <2>1, <2>2
<1>3. TodoOf(f) = [m \in Ids |-> todo(m)]
  BY Zenon DEF TodoOf
<1> HIDE DEF acting, todo
<1>4. List(f[c]) = [m \in Ids |-> todo(m)]
  BY <1>1, <1>2 DEF List, Nothing
<1> QED
  BY <1>3, <1>4

(* In a state, ...                                                         *)
LEMMA ListIsToApply ==
  ASSUME NEW c, Runs = {c}, RunInv
  PROVE  ToApply = List(run[c])
  BY ListOfLoneRun DEF ToApply, RunInv

(* ... and in the state after a step.                                      *)
LEMMA ListIsToApplyNext ==
  ASSUME NEW c, Runs = {c}, RunInv'
  PROVE  ToApply' = List(run'[c])
  BY ListOfLoneRun DEF ToApply, RunInv

(* The coarse module's own copies of what both modules use.                *)
LEMMA SameCardinality == ASSUME NEW S PROVE Table!Cardinality(S) = Cardinality(S)
  BY Zenon DEF Table!Cardinality, Cardinality

(* They mean the same.                                                     *)
LEMMA SameVocabulary ==
  /\ Table!NULL = NULL /\ Table!dbVars = dbVars /\ (Table!WriteLockFree <=> WriteLockFree)
  BY DEF Table!NULL, NULL, Table!dbVars, dbVars, Table!WriteLockFree, WriteLockFree

(* What a step that settles the rows of S does to the list.                *)
LEMMA SettlesList ==
  ASSUME NEW c, Runs = {c}, RunInv, RunInv', run[c].execute, NEW S \in SUBSET Ids,
         run'[c].execute = run[c].execute, run'[c].action = Without(run[c].action, S)
  PROVE  Table!Settled(S)
<1>1. ToApply = run[c].action
  BY ListIsToApply DEF List
<1>2. ToApply' = Without(run[c].action, S)
  BY ListIsToApplyNext DEF List
<1> QED
  BY <1>1, <1>2 DEF Table!Settled, Without, Table!NULL, NULL

(* The steps that neither settle a row nor end the run leave its list.     *)
LEMMA ListIsKept ==
  ASSUME RunInv, NEW p \in Runs, NEW m \in Ids,
         \/ ReconcileChunk(p) \/ FlushArchive(p)
         \/ IntendTrash(p, m) \/ IntendArchive(p, m) \/ EnsureLabel(p, m) \/ GmailPerforms(p, m)
  PROVE  /\ run'[p].execute = run[p].execute /\ run'[p].action = run[p].action
         /\ UNCHANGED dbVars
<1>1. UNCHANGED dbVars
  BY DEF ReconcileChunk, FlushArchive, SendArchive, IntendTrash, IntendArchive, EnsureLabel,
     GmailPerforms
<1>2. CASE ReconcileChunk(p)
  <2>1. run'[p].execute = run[p].execute
    BY <1>2 DEF ReconcileChunk, RunInv, RunStates
  <2>2. run'[p].action = run[p].action
    BY <1>2 DEF ReconcileChunk, RunInv, RunStates
  <2> QED
    BY <1>1, <2>1, <2>2
<1>3. CASE IntendArchive(p, m)
  <2>1. run'[p].execute = run[p].execute
    BY <1>3 DEF IntendArchive, RunInv, RunStates
  <2>2. run'[p].action = run[p].action
    BY <1>3 DEF IntendArchive, RunInv, RunStates
  <2> QED
    BY <1>1, <2>1, <2>2
<1>4. CASE FlushArchive(p)
  BY <1>1, <1>4 DEF FlushArchive, SendArchive, RunInv, RunStates
<1>5. CASE IntendTrash(p, m)
  BY <1>1, <1>5 DEF IntendTrash, RunInv, RunStates
<1>6. CASE EnsureLabel(p, m) \/ GmailPerforms(p, m)
  BY <1>1, <1>6 DEF EnsureLabel, GmailPerforms, RunInv, RunStates
<1> QED
  BY <1>2, <1>3, <1>4, <1>5, <1>6

(* A step of a real run under way.                                         *)
LEMMA RealStep ==
  ASSUME NEW c, Runs = {c}, RunInv, CallInv, RunInv', run[c].execute, RunStep(c) \/ Die(c)
  PROVE  Table!ApplyStep \/ UNCHANGED <<dbVars, ToApply>>
<1>1. /\ run[c] \in RunStates /\ SoundRun(run[c]) /\ run'[c] \in RunStates /\ SoundRun(run'[c])
      /\ Alone(c) /\ c \in Runs
  BY StepIsAlone DEF RunInv, Does
<1>2. ToApply = run[c].action
  BY ListIsToApply DEF List
<1>3. ASSUME UNCHANGED dbVars, run'[c].execute = run[c].execute, run'[c].action = run[c].action
      PROVE  UNCHANGED <<dbVars, ToApply>>
  BY <1>2, <1>3, ListIsToApplyNext DEF List
<1>4. CASE ReconcileChunk(c) \/ FlushArchive(c)
  <2>1. PICK m \in Ids : TRUE
    BY <1>1, <1>4 DEF ReconcileChunk, FlushArchive, Buffered, Unreconciled, Unsettled
  <2> QED
    BY <1>1, <1>3, <1>4, <2>1, ListIsKept
<1>6. CASE Finish(c)
  <2>1. run[c].action = Nothing /\ UNCHANGED dbVars /\ run'[c] = IdleRun
    BY <1>1, <1>6 DEF Finish, Unsettled, RunInv, RunStates, Nothing
  <2>2. ToApply' = Nothing
    BY <2>1, ListIsToApplyNext DEF List, IdleRun
  <2> QED
    BY <1>2, <2>1, <2>2
<1>7. CASE Die(c)
  <2>1. UNCHANGED dbVars /\ run'[c] = IdleRun /\ Unsettled(c) # {}
    BY <1>1, <1>7 DEF Die, RunInv
  <2>2. ToApply' = Nothing
    BY <2>1, ListIsToApplyNext DEF List, IdleRun
  <2>3. ~Table!ApplyIdle
    BY <1>2, <2>1 DEF Table!ApplyIdle, Table!Unsettled, Unsettled, Table!NULL, NULL
  <2> QED
    BY <2>1, <2>2, <2>3 DEF Table!ApplyStep, Table!ApplyDie, Table!NothingToApply, Nothing,
       Table!NULL, NULL, Table!dbVars, dbVars
<1>8. CASE CallSucceeds(c) \/ CallFails(c)
  <2> DEFINE S == run[c].call
  <2>1. run'[c].execute = run[c].execute /\ run'[c].action = Without(run[c].action, S)
    BY <1>1, <1>8 DEF CallSucceeds, CallFails, EndCall, Ended, RunInv, RunStates
  <2>2. S \in SUBSET Ids /\ S # {}
    BY <1>1, <1>8 DEF CallSucceeds, CallFails, SoundRun, RunStates
  <2>3. Table!Settled(S)
    BY <2>1, <2>2, SettlesList
  <2>4. S \subseteq Table!Unsettled
    BY <1>1, <1>2, <2>2 DEF SoundRun, Table!Unsettled, Table!NULL, NULL
  <2>5. Cardinality(S) = 1 \/ \A m \in S : ToApply[m] = "archive"
    BY <1>1, <1>2, FS_Singleton DEF CallInv, OneKind
  <2>6. Table!OneCall(S)
    BY <2>2, <2>4, <2>5, SameCardinality DEF Table!OneCall
  <2>7. CASE CallSucceeds(c)
    <3>1. Table!ApplySucceed(S)
      BY <2>3, <2>6, <2>7 DEF Table!ApplySucceed, Table!SetStatusOf, Table!WriteLockFree, Table!NULL, NULL,
         CallInv, CallSucceeds, StatusOf, EndCall, Ended
    <3> QED
      BY <2>2, <3>1 DEF Table!ApplyStep, Table!ApplyProgress
  <2>8. CASE CallFails(c)
    <3>1. Table!ApplyError(S)
      BY <2>3, <2>6, <2>8 DEF Table!ApplyError, CallFails, EndCall, Ended, Table!dbVars, dbVars
    <3> QED
      BY <2>2, <3>1 DEF Table!ApplyStep, Table!ApplyProgress
  <2> QED
    BY <1>8, <2>7, <2>8
<1>9. ASSUME NEW m \in Ids, Act(c, m)
      PROVE  Table!ApplyStep \/ UNCHANGED <<dbVars, ToApply>>
  <2>1. ASSUME Settle(c, {m}), run[c].action[m] # NULL
        PROVE  Table!Settled({m}) /\ Table!OneCall({m}) /\ m \in Table!Unsettled
    <3>1. run'[c].execute = run[c].execute /\ run'[c].action = Without(run[c].action, {m})
      BY <1>1, <2>1 DEF Settle, RunInv, RunStates
    <3>2. Table!Settled({m})
      BY <3>1, SettlesList
    <3>3. m \in Table!Unsettled
      BY <1>2, <2>1 DEF Table!Unsettled, Table!NULL, NULL
    <3>4. Cardinality({m}) = 1
      BY FS_Singleton
    <3> QED
      BY <3>2, <3>3, <3>4, SameCardinality DEF Table!OneCall
  <2>2. ASSUME Next1(c, m) PROVE run[c].action[m] # NULL
    BY <2>2 DEF Next1, FirstById, Ready, Unsettled
  <2>3. CASE RecordError(c, m) \/ LabelFails(c, m)
    <3>1. Settle(c, {m}) /\ Next1(c, m) /\ UNCHANGED dbVars
      BY <2>3 DEF RecordError, LabelFails, WantsLabel, ToDo, Confirmed
    <3>2. Table!ApplyError({m})
      BY <2>1, <2>2, <3>1 DEF Table!ApplyError, Table!dbVars, dbVars
    <3> QED
      BY <3>2 DEF Table!ApplyStep, Table!ApplyProgress
  <2>4. CASE Skip(c, m)
    <3>1. Settle(c, {m}) /\ Next1(c, m) /\ StatusOf({m}, "skipped") /\ UNCHANGED <<hits, writer>>
      BY <2>4 DEF Skip, SetAside
    <3>2. Table!ApplySkip(m)
      BY <2>1, <2>2, <3>1 DEF Table!ApplySkip, Table!SetStatusOf, StatusOf,
         Table!WriteLockFree, CallInv, Table!NULL, NULL
    <3> QED
      BY <3>2 DEF Table!ApplyStep, Table!ApplyProgress
  <2>5. CASE IntendTrash(c, m) \/ IntendArchive(c, m) \/ EnsureLabel(c, m) \/ GmailPerforms(c, m)
    BY <1>1, <1>3, <2>5, ListIsKept
  <2> QED
    BY <1>9, <2>3, <2>4, <2>5 DEF Act, DryRun
<1> QED
  BY <1>4, <1>6, <1>7, <1>8, <1>9 DEF RunStep

(* A dry run, to the table, does nothing at all.                           *)
LEMMA DryStep ==
  ASSUME NEW c, Runs = {c}, RunInv, RunInv', ~run[c].execute, RunStep(c) \/ Die(c)
  PROVE  UNCHANGED <<dbVars, ToApply>>
<1>1. run[c] \in RunStates /\ SoundRun(run[c]) /\ c \in Runs
  BY DEF RunInv
<1>2. UNCHANGED row
  BY <1>1, RunSettles DEF Settles
<1>3. UNCHANGED <<hits, writer>>
  BY DEF RunStep, Act, ReconcileChunk, FlushArchive, SendArchive, Finish, CallSucceeds, CallFails,
     EndCall, Ended, Die, RecordError, Skip, DryRun, LabelFails, IntendTrash, IntendArchive,
     EnsureLabel, GmailPerforms, dbVars
<1>4. ~run'[c].execute
  BY <1>1, ExecuteIsKept DEF IdleRun
<1>5. ToApply = Nothing /\ ToApply' = Nothing
  BY <1>4, ListIsToApply, ListIsToApplyNext DEF List
<1> QED
  BY <1>2, <1>3, <1>5 DEF dbVars

(* A run that starts, starts the coarse run; a dry run, or one with        *)
(* nothing to do, is a stutter.                                            *)
LEMMA StartStep ==
  ASSUME NEW c, Runs = {c}, RunInv, RunInv', NEW execute \in BOOLEAN, NEW n,
         StartApply(c, execute, n)
  PROVE  Table!ApplyStart(n) \/ UNCHANGED <<dbVars, ToApply>>
<1> DEFINE action == [m \in Ids |-> IF m \in FirstById(Queue, n)
                                    THEN row[m].staged_action ELSE NULL]
<1>1. UNCHANGED dbVars /\ Queue # {} /\ run[c].action = Nothing
  BY DEF StartApply, Active, RunInv, SoundRun
<1>2. run'[c].execute = execute /\ run'[c].action = action
  BY DEF StartApply, IdleRun, RunInv
<1>3. ToApply = Nothing
  BY <1>1, ListIsToApply DEF List
<1>4. ToApply' = IF execute THEN action ELSE Nothing
  BY <1>2, ListIsToApplyNext DEF List
<1>5. CASE ~execute
  BY <1>1, <1>3, <1>4, <1>5
<1>6. CASE execute
  <2>1. Table!ApplyIdle
    BY <1>3 DEF Table!ApplyIdle, Table!Unsettled, Nothing, Table!NULL, NULL
  <2>2. Table!Approved = Queue
    BY DEF Table!Approved, Queue, Table!ApprovedActionable, ApprovedActionable, Table!Approvable,
       Approvable, Table!Actionable, Actionable
  <2>3. Table!FirstById(Queue, n) = FirstById(Queue, n)
    BY SameCardinality DEF Table!FirstById, FirstById
  <2>4. ToApply' = [m \in Ids |-> IF m \in Table!FirstById(Table!Approved, n)
                                  THEN row[m].staged_action ELSE Table!NULL]
    BY <1>4, <1>6, <2>2, <2>3 DEF Table!NULL, NULL
  <2> QED
    BY <1>1, <2>1, <2>2, <2>4 DEF Table!ApplyStart, Table!dbVars, dbVars
<1> QED
  BY <1>5, <1>6

(* A lone run implements the coarse run.                                   *)
THEOREM LoneRunImplements ==
  ASSUME NEW c, Runs = {c}
  PROVE  Spec => ImplementsApplyRun
<1>1. Init => RunInv /\ CallInv /\ Table!ApplyInit
  <2> SUFFICES ASSUME Init PROVE RunInv /\ CallInv /\ Table!ApplyInit
    OBVIOUS
  <2>1. RunInv
    BY IdleIsSound DEF Init, RunInv
  <2>2. CallInv
    BY DEF Init, CallInv, OneKind, IdleRun
  <2>3. ToApply = Nothing
    BY <2>1, ListIsToApply DEF Init, List, IdleRun
  <2> QED
    BY <2>1, <2>2, <2>3 DEF Table!ApplyInit, Table!NothingToApply, Nothing, Table!NULL, NULL
<1>2. ASSUME RunInv, CallInv, RunInv', [Next]_vars
      PROVE  [TableNext]_<<dbVars, ToApply>>
  <2>1. ASSUME Does(c) PROVE [TableNext]_<<dbVars, ToApply>>
    BY <1>2, <2>1, StartStep, RealStep, DryStep DEF Does, TableNext
  <2>2. CASE UNCHANGED <<dbVars, run>>
    BY <1>2, <2>2, ListIsToApply, ListIsToApplyNext
  <2>3. CASE Reviews
    BY <2>3 DEF TableNext
  <2> QED
    BY <1>2, <2>1, <2>2, <2>3 DEF Next, Does, OwnerMoves, vars
<1> QED
  BY <1>1, <1>2, NextRun, NextCall, PTL DEF Spec, ImplementsApplyRun

-----------------------------------------------------------------------------
(* The page is one more run, so all that holds of the runs holds of it.    *)
THEOREM PageIsARunner == PageSpec => Spec
<1>1. PageInit => Init
  BY DEF PageInit
<1>2. [PageNext]_allVars => [Next]_vars
  <2>1. ASSUME NEW execute \in BOOLEAN, StartApply(Page, execute, Cardinality(Ids)) PROVE Next
    BY <2>1, PageAssumption DEF Next, Does, Limits
  <2>2. ASSUME Finish(Page) \/ RunStep(Page) \/ Die(Page) PROVE Next
    BY <2>2, PageAssumption DEF Next, Does, RunStep
  <2>3. ASSUME OthersAct PROVE Next
    BY <2>3 DEF OthersAct, Next, Does
  <2> QED
    BY <2>1, <2>2, <2>3 DEF PageNext, DryRunButton, ExecuteButton, RunReturns, PageRuns,
       TypeConfirmation, allVars
<1> QED
  BY <1>1, <1>2, PTL DEF PageSpec, Spec

Covers(list) == \A m \in Queue : list[m] \in {row[m].staged_action, Rewritten}

Previews ==
  /\ row \in [Ids -> Rows] /\ session \in [dry : BOOLEAN, typed : BOOLEAN]
  /\ Active(Page) /\ ~run[Page].execute => Covers(asked)
  /\ session.dry => Covers(previewed)
  /\ Active(Page) /\ run[Page].execute =>
       \A m \in Ids : run[Page].action[m] # NULL =>
                        previewed[m] \in {run[Page].action[m], Rewritten}

(* Both buttons take the whole queue.                                      *)
LEMMA WholeQueue == FirstById(Queue, Cardinality(Ids)) = Queue
<1>1. ASSUME NEW m \in Queue PROVE Cardinality({x \in Queue : x < m}) < Cardinality(Ids)
  <2>1. {x \in Queue : x < m} \subseteq Ids /\ m \in Ids /\ ~(m < m)
    BY IdsAssumption DEF Queue
  <2>2. {x \in Queue : x < m} # Ids
    BY <2>1
  <2>3. /\ IsFiniteSet(Ids) /\ IsFiniteSet({x \in Queue : x < m})
        /\ Cardinality({x \in Queue : x < m}) <= Cardinality(Ids)
        /\ Cardinality({x \in Queue : x < m}) # Cardinality(Ids)
    BY <2>1, <2>2, IdsAssumption, FS_Subset
  <2>4. Cardinality(Ids) \in Nat /\ Cardinality({x \in Queue : x < m}) \in Nat
    BY <2>3, FS_CardinalityType
  <2> QED
    BY <2>3, <2>4
<1> QED
  BY <1>1 DEF FirstById

(* Others' writes to a row are marked on the list, the page's own take the *)
(* row off the queue.                                                      *)
LEMMA MarksCover ==
  ASSUME NEW list, Covers(list)
  PROVE  \A m \in Ids : m \in Queue' => MarkRewritten(list)[m] \in {row'[m].staged_action, Rewritten}
  BY DEF Covers, MarkRewritten, Queue

(* The page's own run changes no decision that is queued, and queues none. *)
LEMMA OwnStepsCover ==
  ASSUME RunInv, row \in [Ids -> Rows], RunStep(Page) \/ Die(Page)
  PROVE  /\ row' \in [Ids -> Rows]
         /\ \A m \in Ids : m \in Queue' =>
              m \in Queue /\ row'[m].staged_action = row[m].staged_action
<1>1. Settles(Page)
  BY RunSettles, PageAssumption
<1>2. CASE UNCHANGED row
  BY <1>2 DEF Queue
<1>3. ASSUME NEW S \in SUBSET Unsettled(Page), NEW status \in {"applied", "skipped"},
             StatusOf(S, status)
      PROVE  /\ row' \in [Ids -> Rows]
             /\ \A m \in Ids : m \in Queue' =>
                  m \in Queue /\ row'[m].staged_action = row[m].staged_action
  <2>1. /\ row' \in [Ids -> Rows]
        /\ \A m \in Ids : /\ row'[m].staged_action = row[m].staged_action
                          /\ row'[m].review_status = IF m \in S THEN status
                                                     ELSE row[m].review_status
    BY <1>3, StatusOfKeepsRows DEF Unsettled, Statuses
  <2> QED
    BY <2>1 DEF Queue, ApprovedActionable, Approvable
<1> QED
  BY <1>1, <1>2, <1>3 DEF Settles

-----------------------------------------------------------------------------
(* Each step of the page, and those of the others.                         *)

(* The dry run asks for the whole queue.                                   *)
LEMMA DryRunPreviews ==
  ASSUME RunInv, Previews, DryRunButton
  PROVE  Previews'
<1>1. UNCHANGED <<row, session, previewed>>
  BY DEF DryRunButton, StartApply, dbVars
<1>2. run'[Page].execute = FALSE /\ asked' = run'[Page].action
  BY PageAssumption DEF DryRunButton, StartApply, IdleRun, RunInv
<1>3. \A m \in Queue : run'[Page].action[m] = row[m].staged_action
  BY WholeQueue, PageAssumption DEF DryRunButton, StartApply, IdleRun, RunInv, Queue
<1> QED
  BY <1>1, <1>2, <1>3 DEF Previews, Covers, Queue

(* The execution lists what the dry run has shown, or what was rewritten   *)
(* since.                                                                  *)
LEMMA ExecutePreviews ==
  ASSUME RunInv, Previews, ExecuteButton
  PROVE  Previews'
<1>1. UNCHANGED <<row, pageVars>>
  BY DEF ExecuteButton, StartApply, dbVars
<1>2. session.dry /\ Covers(previewed)
  BY DEF ExecuteButton, Unlocked, Previews
<1>3. run'[Page].execute = TRUE
  BY PageAssumption DEF ExecuteButton, StartApply, IdleRun, RunInv
<1>4. \A m \in Ids : run'[Page].action[m] # NULL =>
        m \in Queue /\ run'[Page].action[m] = row[m].staged_action
  BY WholeQueue, PageAssumption DEF ExecuteButton, StartApply, IdleRun, RunInv
<1> QED
  BY <1>1, <1>2, <1>3, <1>4 DEF Previews, Covers, Queue, pageVars

(* The dry run that returns has previewed what it asked for.               *)
LEMMA ReturnPreviews ==
  ASSUME RunInv, Previews, RunReturns
  PROVE  Previews'
<1>1. UNCHANGED row /\ run'[Page] = IdleRun /\ run[Page].execute \in BOOLEAN /\ Active(Page)
  BY PageAssumption DEF RunReturns, Finish, RunInv, RunStates, dbVars, Active
<1>2. /\ session' \in [dry : BOOLEAN, typed : BOOLEAN]
      /\ session'.dry = ~run[Page].execute
  BY <1>1 DEF RunReturns, Previews
<1>3. session'.dry => Covers(previewed)'
  BY <1>1, <1>2 DEF RunReturns, Previews, Covers, Queue
<1>4. ~Active(Page)'
  BY <1>1 DEF Active, IdleRun
<1> QED
  BY <1>1, <1>2, <1>3, <1>4 DEF Previews

(* The run's steps in between only shorten the queue and the list.         *)
LEMMA RunsPreview ==
  ASSUME RunInv, Previews, PageRuns
  PROVE  Previews'
<1>1. (RunStep(Page) \/ Die(Page)) /\ UNCHANGED pageVars /\ Active(Page)
  BY PageAssumption, RunSettles DEF PageRuns, Settles
<1>2. row' \in [Ids -> Rows]
  BY <1>1, OwnStepsCover DEF Previews
<1>3. session.dry => Covers(previewed)'
  BY <1>1, OwnStepsCover DEF Previews, Covers, Queue, pageVars
<1>4. ~run[Page].execute => Covers(asked)'
  BY <1>1, OwnStepsCover DEF Previews, Covers, Queue, pageVars
<1>5. Active(Page)' => run'[Page].execute = run[Page].execute
  BY <1>1, ExecuteIsKept, PageAssumption DEF Active, IdleRun
<1>6. \A m \in Ids : run'[Page].action[m] \in {run[Page].action[m], NULL}
  BY <1>1, RunSettles, PageAssumption DEF Settles
<1> QED
  BY <1>1, <1>2, <1>3, <1>4, <1>5, <1>6 DEF Previews, pageVars

(* Typing the confirmation changes nothing of that.                        *)
LEMMA TypingPreviews ==
  ASSUME Previews, TypeConfirmation
  PROVE  Previews'
<1>1. ~Active(Page) /\ UNCHANGED <<row, run>>
  BY DEF TypeConfirmation, vars, dbVars
<1>2. session' \in [dry : BOOLEAN, typed : BOOLEAN] /\ (session'.dry => session.dry)
  <2>1. CASE session' = Locked
    BY <2>1 DEF Locked
  <2>2. CASE session' = [session EXCEPT !.typed = FALSE]
    BY <2>2 DEF Previews
  <2>3. CASE session' = [session EXCEPT !.typed = TRUE]
    BY <2>3 DEF Previews
  <2> QED
    BY <2>1, <2>2, <2>3 DEF TypeConfirmation
<1>3. session'.dry => Covers(previewed)'
  BY <1>1, <1>2 DEF TypeConfirmation, Previews, Covers, Queue
<1> QED
  BY <1>1, <1>2, <1>3 DEF Previews, Active

(* Others write rows, but have no hand in the page's own run.              *)
LEMMA OthersLeaveThePage ==
  ASSUME RunInv, Previews, OthersAct
  PROVE  row' \in [Ids -> Rows] /\ run'[Page] = run[Page]
<1>1. ASSUME NEW p \in Runs \ {Page}, RunStep(p) \/ Die(p)
      PROVE  row' \in [Ids -> Rows] /\ run'[Page] = run[Page]
  <2>1. run'[Page] = run[Page]
    BY <1>1, StepIsAlone, PageAssumption DEF Alone, Does
  <2>2. UNCHANGED row \/ \E S \in SUBSET Unsettled(p), status \in {"applied", "skipped"} :
                           StatusOf(S, status)
    BY <1>1, RunSettles DEF Settles
  <2> QED
    BY <2>1, <2>2, StatusOfKeepsRows DEF Previews, Unsettled, Statuses
<1>2. ASSUME NEW p \in Runs \ {Page}, NEW execute \in BOOLEAN, NEW n, StartApply(p, execute, n)
      PROVE  row' \in [Ids -> Rows] /\ run'[Page] = run[Page]
  BY <1>2, StartIsAlone, PageAssumption DEF Alone, StartApply, Previews, dbVars
<1>3. ASSUME NEW x \in Mails, OwnerMoves(x)
      PROVE  row' \in [Ids -> Rows] /\ run'[Page] = run[Page]
  BY <1>3 DEF OwnerMoves, Previews, dbVars
<1>4. CASE Reviews
  BY <1>4, UIKeepsRows DEF Reviews, Previews
<1> QED
  BY <1>1, <1>2, <1>3, <1>4 DEF OthersAct, Does

(* What others write counts as rewritten.                                  *)
LEMMA OthersPreview ==
  ASSUME RunInv, Previews, OthersAct
  PROVE  Previews'
<1>1. row' \in [Ids -> Rows] /\ run'[Page] = run[Page]
  BY OthersLeaveThePage
<1>2. asked' = MarkRewritten(asked) /\ previewed' = MarkRewritten(previewed) /\ UNCHANGED session
  BY DEF OthersAct
<1>3. Covers(asked) => Covers(asked)'
  BY <1>2, MarksCover DEF Covers, Queue
<1>4. Covers(previewed) => Covers(previewed)'
  BY <1>2, MarksCover DEF Covers, Queue
<1>5. \A m \in Ids : previewed'[m] \in {previewed[m], Rewritten}
  BY <1>2 DEF MarkRewritten
<1> QED
  BY <1>1, <1>2, <1>3, <1>4, <1>5 DEF Previews, Active

(* So every step of the session keeps the list previewed.                  *)
LEMMA NextPreviews ==
  ASSUME RunInv, Previews, [PageNext]_allVars
  PROVE  Previews'
<1>1. CASE UNCHANGED allVars
  BY <1>1 DEF allVars, vars, dbVars, pageVars, Previews, Covers, Queue, Active
<1> QED
  BY <1>1, DryRunPreviews, ExecutePreviews, ReturnPreviews, RunsPreview, TypingPreviews,
     OthersPreview DEF PageNext

(* The page acts only on what it has shown.                                *)
THEOREM PageActsOnItsPreview == PageSpec => PageActsOnPreviewed
<1> DEFINE Shown == \A m \in Ids :
              LET intent == run'[Page].intent[m] IN
              intent # NULL /\ intent # run[Page].intent[m] =>
                previewed[m] \in {intent, Rewritten}
<1>1. PageInit => Previews
  BY QueuedRowsAssumption, PageAssumption
     DEF PageInit, Init, Previews, Locked, Active, IdleRun
<1>2. ASSUME RunInv, Previews, [PageNext]_allVars PROVE [Shown]_allVars
  <2> SUFFICES ASSUME NEW m \in Ids, run'[Page].intent[m] # NULL,
                      run'[Page].intent[m] # run[Page].intent[m]
               PROVE  previewed[m] \in {run'[Page].intent[m], Rewritten}
    OBVIOUS
  <2>1. CASE PageRuns
    <3>1. Alone(Page) /\ Settles(Page)
      BY <1>2, <2>1, StepIsAlone, RunSettles, PageAssumption DEF PageRuns, Does
    <3>2. run'[Page].intent[m] = run[Page].action[m] /\ run'[Page].execute
      BY <3>1 DEF Alone, SoundRun, Settles
    <3>3. run[Page].execute /\ Active(Page)
      BY <1>2, <2>1, <3>1, <3>2, ExecuteIsKept, PageAssumption
         DEF PageRuns, Settles, IdleRun
    <3> QED
      BY <1>2, <3>2, <3>3 DEF Previews
  <2>2. ~(DryRunButton \/ ExecuteButton \/ RunReturns)
    <3>1. ASSUME NEW execute, NEW n, StartApply(Page, execute, n) PROVE FALSE
      BY <1>2, <3>1, PageAssumption DEF StartApply, IdleRun, Nothing, RunInv
    <3>2. ASSUME Finish(Page) PROVE FALSE
      BY <1>2, <3>2, PageAssumption DEF Finish, IdleRun, Nothing, RunInv
    <3> QED
      BY <3>1, <3>2 DEF DryRunButton, ExecuteButton, RunReturns
  <2>3. CASE TypeConfirmation \/ UNCHANGED allVars
    BY <2>3 DEF TypeConfirmation, allVars, vars
  <2>4. ~OthersAct
    BY <1>2, OthersLeaveThePage
  <2> QED
    BY <1>2, <2>1, <2>2, <2>3, <2>4 DEF PageNext
<1>3. PageSpec => [][Shown]_allVars
  BY <1>1, <1>2, NextPreviews, PageIsARunner, RunsAreSound, PTL DEF PageSpec
<1> QED
  BY <1>3 DEF PageActsOnPreviewed
=============================================================================
