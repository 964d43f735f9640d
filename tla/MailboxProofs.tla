--------------------------- MODULE MailboxProofs ----------------------------
(***************************************************************************)
(* Proofs about what is read from the mailbox file: about Ingest, for any  *)
(* files, limits, own addresses and batch sizes, stopped anywhere and run  *)
(* again; and about VoiceExport, for any contacts and file names, while    *)
(* ingest is running beside it.                                            *)
(*                                                                         *)
(* A batch is inserted row by row, so what becomes of it is a matter of    *)
(* induction over its rows. The induction is over a set of row numbers,    *)
(* rather than over a formula, as that can be stated for any set.          *)
(*                                                                         *)
(* That no two contacts share a file rests on counting: of more names than *)
(* there are contacts, one is free.                                        *)
(***************************************************************************)
EXTENDS VoiceExport, FiniteSetTheorems, FunctionTheorems, SequenceTheorems, TLAPS

-----------------------------------------------------------------------------
(* Induction.                                                              *)

(* A nonempty set of natural numbers has a least one: of the intervals up  *)
(* to each, some is not included in another.                               *)
LEMMA LeastNumber ==
  ASSUME NEW M, M \subseteq Nat, M # {}
  PROVE  \E i \in M : \A j \in M : i <= j
<1> DEFINE UpTo == {0 .. i : i \in M}
           Wider == StrictSubsetOrdering(Nat)
<1>1. UpTo \subseteq FiniteSubsetsOf(Nat) /\ UpTo # {}
  <2>1. ASSUME NEW i \in M PROVE 0 .. i \in FiniteSubsetsOf(Nat)
    <3>1. IsFiniteSet(0 .. i) /\ 0 .. i \subseteq Nat
      BY FS_Interval
    <3> QED
      BY <3>1 DEF FiniteSubsetsOf
  <2> QED
    BY <2>1
<1>2. PICK s \in UpTo : \A t \in UpTo : ~(<<t, s>> \in Wider)
  <2>1. IsWellFoundedOn(Wider, FiniteSubsetsOf(Nat))
    BY FS_StrictSubsetOrderingWellFounded
  <2> HIDE DEF UpTo, Wider
  <2> QED
    BY <1>1, <2>1, WFMin
<1>3. PICK i \in M : s = 0 .. i
  OBVIOUS
<1>4. ASSUME NEW j \in M, j < i PROVE FALSE
  <2>1. i \in 0 .. i /\ i \notin 0 .. j /\ 0 .. j \subseteq 0 .. i
    BY <1>4
  <2>2. 0 .. j \in UpTo /\ 0 .. j \in SUBSET Nat /\ s \in SUBSET Nat
    BY <1>3
  <2>3. <<0 .. j, s>> \in Wider
    BY <1>3, <2>1, <2>2 DEF StrictSubsetOrdering
  <2> QED
    BY <1>2, <2>2, <2>3
<1> QED
  BY <1>4

(* Induction up to n: the least number that is not in G has a predecessor  *)
(* that is.                                                                *)
LEMMA Induction ==
  ASSUME NEW n \in Nat, NEW G, 0 \in G,
         \A k \in 1 .. n : k - 1 \in G => k \in G
  PROVE  \A k \in 0 .. n : k \in G
<1> SUFFICES ASSUME NEW k \in 0 .. n, k \notin G PROVE FALSE
  OBVIOUS
<1>1. PICK i \in (0 .. n) \ G : \A j \in (0 .. n) \ G : i <= j
  <2>1. (0 .. n) \ G \subseteq Nat /\ (0 .. n) \ G # {}
    OBVIOUS
  <2> QED
    BY <2>1, LeastNumber
<1>2. i # 0 /\ i - 1 \in 0 .. n
  OBVIOUS
<1>3. i - 1 \in G
  BY <1>1, <1>2
<1> QED
  BY <1>1, <1>2, <1>3

-----------------------------------------------------------------------------
(* Inserting a batch.                                                      *)

(* The recursive definition of the inserts has the value it spells out.    *)
LEMMA InsertsDefined ==
  ASSUME NEW table, NEW batch, Len(batch) \in Nat
  PROVE  Inserts(table, batch) =
           [n \in 0 .. Len(batch) |->
              IF n = 0 THEN table
              ELSE InsertOrIgnore(Inserts(table, batch)[n - 1], batch[n])]
<1> DEFINE UpTo(k, f) ==
             f = [n \in 0 .. k |->
                    IF n = 0 THEN table ELSE InsertOrIgnore(f[n - 1], batch[n])]
           Defined == {k \in 0 .. Len(batch) : \E f : UpTo(k, f)}
<1>1. 0 \in Defined
  <2> DEFINE f == [n \in 0 .. 0 |-> table]
  <2>1. UpTo(0, f)
    OBVIOUS
  <2> HIDE DEF UpTo
  <2> QED
    BY <2>1
<1>2. ASSUME NEW k \in 1 .. Len(batch), k - 1 \in Defined PROVE k \in Defined
  <2>1. PICK f : UpTo(k - 1, f)
    BY <1>2
  <2> DEFINE g == [n \in 0 .. k |-> IF n = k THEN InsertOrIgnore(f[k - 1], batch[k]) ELSE f[n]]
  <2>2. ASSUME NEW n \in 0 .. k
        PROVE  g[n] = IF n = 0 THEN table ELSE InsertOrIgnore(g[n - 1], batch[n])
    <3>1. CASE n = k
      <4>1. k # 0 /\ k - 1 \in 0 .. k /\ k - 1 # k
        OBVIOUS
      <4> QED
        BY <3>1, <4>1
    <3>2. CASE n # k
      <4>1. n \in 0 .. (k - 1) /\ (n # 0 => n - 1 \in 0 .. k /\ n - 1 # k)
        BY <3>2
      <4>2. f[n] = IF n = 0 THEN table ELSE InsertOrIgnore(f[n - 1], batch[n])
        BY <2>1, <4>1
      <4> QED
        BY <3>2, <4>1, <4>2
    <3> QED
      BY <3>1, <3>2
  <2>3. UpTo(k, g)
    BY <2>2
  <2> HIDE DEF UpTo, g
  <2> QED
    BY <2>3
<1>3. \E f : UpTo(Len(batch), f)
  <2> HIDE DEF Defined
  <2>1. \A k \in 0 .. Len(batch) : k \in Defined
    BY <1>1, <1>2, Induction
  <2> QED
    BY <2>1 DEF Defined
<1> QED
  BY <1>3 DEF Inserts

-----------------------------------------------------------------------------
(* What is the same message to the keys of the table is so to the reader.  *)
LEMMA DuplicatesAreSame ==
  ASSUME NEW x \in Messages, NEW y \in Messages
  PROVE  /\ Duplicates(x, y) <=> Same(x, y)
         /\ Same(x, x)
<1>1. x.content # NULL /\ y.content # NULL
  BY DEF Messages
<1> QED
  BY <1>1 DEF Duplicates, Same, Clash, DedupKey

LEMMA SameIsSymmetric ==
  ASSUME NEW x, NEW y
  PROVE  Same(x, y) <=> Same(y, x)
  BY DEF Same

(* What a transaction of ingest may do to a table: it only adds rows.      *)
Extends(table, more) ==
  /\ more \in Seq(Messages) /\ Len(table) <= Len(more)
  /\ \A i \in 1 .. Len(table) : more[i] = table[i]

StoredIn(table, m) == \E i \in DOMAIN table : Same(table[i], m)

(* No message is in the table twice.                                       *)
Distinct(table) == \A i, j \in DOMAIN table : Same(table[i], table[j]) => i = j

(* What is stored stays stored when the table is extended.                 *)
LEMMA ExtendsKeeps ==
  ASSUME NEW table \in Seq(Messages), NEW more, Extends(table, more)
  PROVE  /\ DOMAIN table = 1 .. Len(table) /\ DOMAIN more = 1 .. Len(more)
         /\ DOMAIN table \subseteq DOMAIN more
         /\ \A m : StoredIn(table, m) => StoredIn(more, m)
<1>1. DOMAIN table = 1 .. Len(table) /\ DOMAIN more = 1 .. Len(more)
  BY DEF Extends
<1>2. DOMAIN table \subseteq DOMAIN more
  BY <1>1 DEF Extends
<1> QED
  BY <1>1, <1>2 DEF Extends, StoredIn

(* Extensions of extensions are extensions.                                *)
LEMMA ExtendsIsTransitive ==
  ASSUME NEW t \in Seq(Messages), NEW u, NEW v, Extends(t, u), Extends(u, v)
  PROVE  Extends(t, v)
  BY DEF Extends

(* INSERT OR IGNORE appends the message, unless one like it is stored.     *)
LEMMA InsertExtends ==
  ASSUME NEW table \in Seq(Messages), NEW m \in Messages
  PROVE  LET more == InsertOrIgnore(table, m) IN
           /\ Extends(table, more) /\ StoredIn(more, m)
           /\ StoredIn(table, m) => more = table
           /\ Distinct(table) => Distinct(more)
           /\ \A i \in DOMAIN more : i \in DOMAIN table \/ more[i] = m
<1> DEFINE more == InsertOrIgnore(table, m)
<1>1. StoredIn(table, m) <=> \E i \in DOMAIN table : Duplicates(table[i], m)
  BY DuplicatesAreSame DEF StoredIn
<1>2. CASE StoredIn(table, m)
  <2>1. more = table
    BY <1>1, <1>2 DEF InsertOrIgnore
  <2> QED
    BY <1>2, <2>1 DEF Extends
<1>3. CASE ~StoredIn(table, m)
  <2>1. more = Append(table, m)
    BY <1>1, <1>3 DEF InsertOrIgnore
  <2>2. /\ more \in Seq(Messages) /\ Len(more) = Len(table) + 1
        /\ DOMAIN more = 1 .. (Len(table) + 1) /\ DOMAIN table = 1 .. Len(table)
        /\ more[Len(table) + 1] = m
        /\ \A i \in 1 .. Len(table) : more[i] = table[i]
    BY <2>1
  <2>3. Same(more[Len(table) + 1], m)
    BY <2>2, DuplicatesAreSame
  <2>4. Extends(table, more) /\ StoredIn(more, m)
    BY <2>2, <2>3 DEF Extends, StoredIn
  <2>5. ASSUME Distinct(table) PROVE Distinct(more)
    <3>1. \A i \in DOMAIN table : ~Same(table[i], m) /\ ~Same(m, table[i])
      BY <1>3, SameIsSymmetric DEF StoredIn
    <3> QED
      BY <2>2, <2>5, <3>1 DEF Distinct
  <2> QED
    BY <1>3, <2>2, <2>4, <2>5
<1> QED
  BY <1>2, <1>3

(* A batch stores each of its rows, changes none, and adds none that are   *)
(* there, so that no message gets into the table twice.                    *)
LEMMA BatchIsStored ==
  ASSUME NEW table \in Seq(Messages), NEW batch \in Seq(Messages)
  PROVE  LET more == Inserts(table, batch)[Len(batch)] IN
           /\ Extends(table, more)
           /\ \A k \in DOMAIN batch : StoredIn(more, batch[k])
           /\ (\A k \in DOMAIN batch : StoredIn(table, batch[k])) => more = table
           /\ Distinct(table) => Distinct(more)
           /\ \A i \in DOMAIN more :
                i \in DOMAIN table \/ \E k \in DOMAIN batch : more[i] = batch[k]
<1> DEFINE after(n) == Inserts(table, batch)[n]
           Good(n) ==
             /\ Extends(table, after(n))
             /\ \A k \in 1 .. n : StoredIn(after(n), batch[k])
             /\ (\A k \in DOMAIN batch : StoredIn(table, batch[k])) => after(n) = table
             /\ Distinct(table) => Distinct(after(n))
             /\ \A i \in DOMAIN after(n) :
                  i \in DOMAIN table \/ \E k \in DOMAIN batch : after(n)[i] = batch[k]
           Rows == {n \in 0 .. Len(batch) : Good(n)}
<1>1. /\ Len(batch) \in Nat /\ DOMAIN batch = 1 .. Len(batch)
      /\ \A k \in 1 .. Len(batch) : batch[k] \in Messages
  OBVIOUS
<1>2. after(0) = table /\ \A n \in 1 .. Len(batch) :
                            after(n) = InsertOrIgnore(after(n - 1), batch[n])
  BY <1>1, InsertsDefined
<1> HIDE DEF after
<1>3. 0 \in Rows
  BY <1>1, <1>2 DEF Extends
<1>4. ASSUME NEW n \in 1 .. Len(batch), n - 1 \in Rows PROVE n \in Rows
  <2>1. Good(n - 1) /\ after(n - 1) \in Seq(Messages)
    BY <1>4 DEF Extends
  <2>2. /\ Extends(after(n - 1), after(n)) /\ StoredIn(after(n), batch[n])
        /\ StoredIn(after(n - 1), batch[n]) => after(n) = after(n - 1)
        /\ Distinct(after(n - 1)) => Distinct(after(n))
        /\ \A i \in DOMAIN after(n) : i \in DOMAIN after(n - 1) \/ after(n)[i] = batch[n]
    BY <1>1, <1>2, <2>1, InsertExtends
  <2>3. Extends(table, after(n))
    BY <2>1, <2>2, ExtendsIsTransitive
  <2>4. ASSUME NEW k \in 1 .. n PROVE StoredIn(after(n), batch[k])
    <3>1. CASE k = n
      BY <2>2, <3>1
    <3>2. CASE k # n
      <4>1. StoredIn(after(n - 1), batch[k])
        BY <2>1, <3>2
      <4> QED
        BY <2>1, <2>2, <4>1, ExtendsKeeps
    <3> QED
      BY <3>1, <3>2
  <2>5. ASSUME \A k \in DOMAIN batch : StoredIn(table, batch[k]) PROVE after(n) = table
    BY <1>1, <2>1, <2>2, <2>5
  <2>6. ASSUME NEW i \in DOMAIN after(n)
        PROVE  i \in DOMAIN table \/ \E k \in DOMAIN batch : after(n)[i] = batch[k]
    <3>1. CASE i \in DOMAIN after(n - 1)
      <4>1. after(n)[i] = after(n - 1)[i]
        BY <2>1, <2>2, <3>1, ExtendsKeeps DEF Extends
      <4> QED
        BY <2>1, <3>1, <4>1
    <3>2. CASE after(n)[i] = batch[n]
      BY <1>1, <3>2
    <3> QED
      BY <2>2, <3>1, <3>2
  <2>7. Distinct(table) => Distinct(after(n))
    BY <2>1, <2>2
  <2> QED
    BY <2>3, <2>4, <2>5, <2>6, <2>7
<1>5. \A n \in 0 .. Len(batch) : n \in Rows
  <2> HIDE DEF Rows
  <2> QED
    BY <1>1, <1>3, <1>4, Induction
<1>6. Good(Len(batch))
  BY <1>1, <1>5
<1> QED
  BY <1>1, <1>6 DEF after

-----------------------------------------------------------------------------
(* The invariant of a run: what it has read and not yet committed is in    *)
(* its batch, in which there is nothing else.                              *)

(* What the rows of the batch are.                                         *)
BatchIsRead ==
  /\ in_pc # "reading" => in_batch = <<>>
  /\ \A k \in DOMAIN in_batch :
       in_batch[k].readable /\ \E i \in 1 .. in_next - 1 : in_mbox[i] = in_batch[k]

(* Where the messages that the run has read are.                           *)
InBatch(m) == \E k \in DOMAIN in_batch : in_batch[k] = m
NothingIsDropped ==
  in_pc # "idle" =>
    \A i \in 1 .. in_next - 1 :
      in_mbox[i].readable => StoredIn(messages, in_mbox[i]) \/ InBatch(in_mbox[i])

RunInv == TypeOK /\ in_seen < in_next /\ BatchIsRead /\ NothingIsDropped

(* The table only grows, and every message that is stored remains so.      *)
Grows ==
  /\ Extends(messages, messages')
  /\ \A m : StoredIn(messages, m) => StoredIn(messages', m)

(* A step that leaves the table alone is of that kind.                     *)
LEMMA UnchangedGrows ==
  ASSUME TypeOK, UNCHANGED messages
  PROVE  Grows
  BY DEF TypeOK, Grows, Extends

(* Committing a batch stores all of it, and nothing else.                  *)
LEMMA CommitGrows ==
  ASSUME TypeOK, NEW batch \in Seq(Messages), Commit(batch)
  PROVE  /\ Grows
         /\ \A k \in DOMAIN batch : StoredIn(messages', batch[k])
         /\ (\A k \in DOMAIN batch : StoredIn(messages, batch[k])) => messages' = messages
         /\ Distinct(messages) => Distinct(messages')
         /\ (\A k \in DOMAIN batch : batch[k].readable) =>
              \A i \in DOMAIN messages' : messages'[i].readable
         /\ \A i \in DOMAIN messages' :
              i \in DOMAIN messages \/ \E k \in DOMAIN batch : messages'[i] = batch[k]
<1>1. messages \in Seq(Messages) /\ \A i \in DOMAIN messages : messages[i].readable
  BY DEF TypeOK
<1>2. /\ Extends(messages, messages')
      /\ \A k \in DOMAIN batch : StoredIn(messages', batch[k])
      /\ (\A k \in DOMAIN batch : StoredIn(messages, batch[k])) => messages' = messages
      /\ Distinct(messages) => Distinct(messages')
      /\ \A i \in DOMAIN messages' :
           i \in DOMAIN messages \/ \E k \in DOMAIN batch : messages'[i] = batch[k]
  BY <1>1, BatchIsStored DEF Commit
<1>3. /\ \A m : StoredIn(messages, m) => StoredIn(messages', m)
      /\ \A i \in DOMAIN messages : messages'[i] = messages[i]
  BY <1>1, <1>2, ExtendsKeeps DEF Extends
<1> QED
  BY <1>1, <1>2, <1>3 DEF Grows

(* A mailbox of the run is a sequence of messages.                         *)
LEMMA MboxIsSequence ==
  ASSUME TypeOK
  PROVE  /\ in_mbox \in Seq(Messages) /\ Len(in_mbox) \in Nat
         /\ \A i \in 1 .. Len(in_mbox) : in_mbox[i] \in Messages
<1>1. in_mbox \in Seq(Messages)
  <2>1. Mboxes \subseteq Seq(Messages) /\ <<>> \in Seq(Messages)
    BY IngestAssumption
  <2> QED
    BY <2>1 DEF TypeOK
<1> QED
  BY <1>1

(* The batch that the message read makes is of messages of the file.       *)
NextBatch == Append(in_batch, in_mbox[in_next])

(* It is the batch with one message of the file appended.                  *)
LEMMA BatchOfTheFile ==
  ASSUME RunInv, Read
  PROVE  /\ in_next \in 1 .. Len(in_mbox) /\ in_mbox[in_next].readable
         /\ NextBatch \in Seq(Messages) /\ Len(NextBatch) = Len(in_batch) + 1
         /\ DOMAIN NextBatch = 1 .. Len(in_batch) + 1 /\ DOMAIN in_batch = 1 .. Len(in_batch)
         /\ NextBatch[Len(in_batch) + 1] = in_mbox[in_next]
         /\ \A k \in DOMAIN in_batch : NextBatch[k] = in_batch[k]
         /\ \A k \in DOMAIN NextBatch :
              /\ NextBatch[k].readable
              /\ \E i \in 1 .. in_next : in_mbox[i] = NextBatch[k]
<1> DEFINE m == in_mbox[in_next]
<1> USE DEF RunInv
<1>1. in_next \in 1 .. Len(in_mbox) /\ m \in Messages /\ m.readable
  BY MboxIsSequence DEF Read, More, TypeOK
<1>2. /\ NextBatch \in Seq(Messages) /\ Len(NextBatch) = Len(in_batch) + 1
      /\ DOMAIN NextBatch = 1 .. Len(in_batch) + 1 /\ DOMAIN in_batch = 1 .. Len(in_batch)
      /\ NextBatch[Len(in_batch) + 1] = m /\ Len(in_batch) \in Nat
      /\ \A k \in DOMAIN in_batch : NextBatch[k] = in_batch[k]
  BY <1>1 DEF TypeOK, NextBatch
<1>3. ASSUME NEW k \in DOMAIN NextBatch
      PROVE  NextBatch[k].readable /\ \E i \in 1 .. in_next : in_mbox[i] = NextBatch[k]
  <2>1. CASE k = Len(in_batch) + 1
    BY <1>1, <1>2, <2>1
  <2>2. CASE k # Len(in_batch) + 1
    <3>1. k \in DOMAIN in_batch /\ NextBatch[k] = in_batch[k]
      BY <1>2, <2>2
    <3>2. 1 .. in_next - 1 \subseteq 1 .. in_next
      BY <1>1
    <3> QED
      BY <3>1, <3>2 DEF BatchIsRead
  <2> QED
    BY <2>1, <2>2
<1> QED
  BY <1>1, <1>2, <1>3

(* A message that is read goes into the batch or, with it, the table.      *)
LEMMA ReadKeeps ==
  ASSUME RunInv, Read
  PROVE  RunInv' /\ Grows
<1> USE DEF RunInv
<1>1. /\ in_pc = "reading" /\ UNCHANGED <<in_mbox, in_pc>> /\ in_next' = in_next + 1
      /\ in_next \in 1 .. Len(in_mbox) /\ Len(in_mbox) \in Nat
  BY BatchOfTheFile, MboxIsSequence DEF Read
<1>2. \A i \in 1 .. in_next' - 1 :
        in_mbox[i].readable => \/ StoredIn(messages, in_mbox[i])
                               \/ \E k \in DOMAIN NextBatch : NextBatch[k] = in_mbox[i]
  <2> SUFFICES ASSUME NEW i \in 1 .. in_next' - 1, in_mbox[i].readable,
                      ~StoredIn(messages, in_mbox[i])
               PROVE  \E k \in DOMAIN NextBatch : NextBatch[k] = in_mbox[i]
    OBVIOUS
  <2>1. CASE i = in_next
    <3>1. Len(in_batch) \in Nat
      BY DEF TypeOK
    <3>2. /\ Len(in_batch) + 1 \in DOMAIN NextBatch
          /\ NextBatch[Len(in_batch) + 1] = in_mbox[in_next]
      BY <3>1, BatchOfTheFile
    <3> QED
      BY <2>1, <3>2
  <2>2. CASE i # in_next
    <3>1. PICK k \in DOMAIN in_batch : in_batch[k] = in_mbox[i]
      BY <1>1, <2>2 DEF NothingIsDropped, InBatch
    <3>2. Len(in_batch) \in Nat
      BY DEF TypeOK
    <3>3. k \in DOMAIN NextBatch /\ NextBatch[k] = in_batch[k]
      BY <3>1, <3>2, BatchOfTheFile
    <3> QED
      BY <3>1, <3>3
  <2> QED
    BY <2>1, <2>2
<1>3. /\ in_seen' \in 0 .. Len(in_mbox)' /\ in_next' \in 1 .. Len(in_mbox)' + 1
      /\ in_seen' < in_next'
  BY <1>1 DEF Read, TypeOK
<1>4. CASE Len(NextBatch) >= BatchSize
  <2>1. Commit(NextBatch) /\ in_batch' = <<>>
    BY <1>4 DEF Read, NextBatch
  <2>2. /\ Grows /\ \A k \in DOMAIN NextBatch : StoredIn(messages', NextBatch[k])
        /\ \A i \in DOMAIN messages' : messages'[i].readable
    BY <2>1, BatchOfTheFile, CommitGrows
  <2>3. TypeOK'
    BY <1>1, <1>3, <2>1, <2>2, IngestAssumption DEF Read, TypeOK, Grows, Extends
  <2>4. BatchIsRead' /\ NothingIsDropped'
    BY <1>1, <1>2, <2>1, <2>2 DEF BatchIsRead, NothingIsDropped, Grows
  <2> QED
    BY <1>3, <2>2, <2>3, <2>4
<1>5. CASE ~(Len(NextBatch) >= BatchSize)
  <2>1. in_batch' = NextBatch /\ UNCHANGED messages
    BY <1>5 DEF Read, NextBatch
  <2>2. Grows
    BY <2>1, UnchangedGrows
  <2>3. TypeOK'
    <3>1. in_batch' \in Seq(Messages) /\ Len(in_batch') < BatchSize
      BY <1>5, <2>1, BatchOfTheFile, IngestAssumption
    <3> QED
      BY <1>1, <1>3, <2>1, <3>1 DEF Read, TypeOK
  <2>4. BatchIsRead' /\ NothingIsDropped'
    BY <1>1, <1>2, <2>1, BatchOfTheFile DEF BatchIsRead, NothingIsDropped, InBatch
  <2> QED
    BY <1>3, <2>2, <2>3, <2>4
<1> QED
  BY <1>4, <1>5

(* What is left in the batch at the end is committed.                      *)
LEMMA FinishKeeps ==
  ASSUME RunInv, Finish
  PROVE  RunInv' /\ Grows
<1> USE DEF RunInv
<1>1. in_batch \in Seq(Messages) /\ \A k \in DOMAIN in_batch : in_batch[k].readable
  BY DEF TypeOK, BatchIsRead
<1>2. /\ Grows /\ \A k \in DOMAIN in_batch : StoredIn(messages', in_batch[k])
      /\ \A i \in DOMAIN messages' : messages'[i].readable
  BY <1>1, CommitGrows DEF Finish
<1>3. TypeOK'
  BY <1>2, IngestAssumption DEF Finish, TypeOK, Grows, Extends
<1>4. NothingIsDropped'
  BY <1>2 DEF Finish, NothingIsDropped, InBatch, Grows
<1> QED
  BY <1>2, <1>3, <1>4 DEF Finish, BatchIsRead

(* The messages that count for an address are rows of the table.           *)
LEMMA SentToIsFinite ==
  ASSUME messages \in Seq(Messages), NEW a, NEW own
  PROVE  IsFiniteSet(SentTo(a, own))
<1>1. SentTo(a, own) \subseteq 1 .. Len(messages) /\ Len(messages) \in Nat
  BY DEF SentTo
<1>2. IsFiniteSet(1 .. Len(messages))
  BY <1>1, FS_Interval
<1> QED
  BY <1>1, <1>2, FS_Subset

(* Every new row of the table is a message of the file.                    *)
LEMMA NewRowsAreRead ==
  ASSUME RunInv, [Next]_vars
  PROVE  \A i \in DOMAIN messages' :
           i \in DOMAIN messages \/ \E k \in DOMAIN in_mbox : messages'[i] = in_mbox[k]
<1>1. DOMAIN in_mbox = 1 .. Len(in_mbox) /\ in_next \in 1 .. Len(in_mbox) + 1
  BY MboxIsSequence DEF RunInv, TypeOK
<1>2. CASE Read
  <2>1. CASE Commit(NextBatch)
    <3>1. ASSUME NEW k \in DOMAIN NextBatch
          PROVE  \E j \in DOMAIN in_mbox : in_mbox[j] = NextBatch[k]
      <4>1. PICK j \in 1 .. in_next : in_mbox[j] = NextBatch[k]
        BY <1>2, BatchOfTheFile
      <4>2. in_next \in 1 .. Len(in_mbox)
        BY <1>2, BatchOfTheFile
      <4> QED
        BY <1>1, <4>1, <4>2
    <3> QED
      BY <1>2, <2>1, <3>1, BatchOfTheFile, CommitGrows DEF RunInv
  <2> QED
    BY <1>2, <2>1 DEF Read, NextBatch
<1>3. CASE Finish
  <2>1. ASSUME NEW k \in DOMAIN in_batch
        PROVE  \E j \in DOMAIN in_mbox : in_mbox[j] = in_batch[k]
    BY <1>1, <2>1 DEF RunInv, BatchIsRead
  <2>2. in_batch \in Seq(Messages) /\ Commit(in_batch)
    BY <1>3 DEF RunInv, TypeOK, Finish
  <2> QED
    BY <2>1, <2>2, CommitGrows DEF RunInv
<1> QED
  BY <1>2, <1>3 DEF Next, Running, Start, ReadUnreadable, RecordSource, DeriveContacts, Stop,
     vars

(* The other steps of a run.                                               *)
LEMMA StepKeeps ==
  ASSUME RunInv, [Next]_vars
  PROVE  RunInv' /\ Grows
<1> USE DEF RunInv
<1>1. ASSUME NEW mbox \in Mboxes, NEW limit \in Limits, NEW own \in OwnAddresses,
             Start(mbox, limit, own)
      PROVE  RunInv' /\ Grows
  <2>1. mbox \in Seq(Messages) /\ Len(mbox) \in Nat
    BY IngestAssumption
  <2>2. TypeOK' /\ in_seen' < in_next'
    BY <1>1, <2>1, IngestAssumption DEF Start, TypeOK
  <2>3. BatchIsRead' /\ NothingIsDropped'
    BY <1>1 DEF Start, BatchIsRead, NothingIsDropped
  <2> QED
    BY <1>1, <2>2, <2>3, UnchangedGrows DEF Start
<1>2. CASE ReadUnreadable
  <2>1. TypeOK' /\ in_seen' < in_next'
    BY <1>2, MboxIsSequence DEF ReadUnreadable, More, TypeOK
  <2>2. BatchIsRead'
    BY <1>2, <2>1 DEF ReadUnreadable, BatchIsRead, TypeOK
  <2>3. NothingIsDropped'
    BY <1>2, <2>1 DEF ReadUnreadable, NothingIsDropped, InBatch, TypeOK
  <2> QED
    BY <1>2, <2>1, <2>2, <2>3, UnchangedGrows DEF ReadUnreadable
<1>3. CASE RecordSource
  <2>1. TypeOK'
    BY <1>3 DEF RecordSource, TypeOK
  <2> QED
    BY <1>3, <2>1, UnchangedGrows DEF RecordSource, BatchIsRead, NothingIsDropped, InBatch
<1>4. CASE DeriveContacts
  <2>1. ASSUME NEW a \in Correspondents(in_own)
        PROVE  Cardinality(SentTo(a, in_own)) \in Nat \ {0}
    <3>1. IsFiniteSet(SentTo(a, in_own))
      BY SentToIsFinite DEF TypeOK
    <3>2. SentTo(a, in_own) # {}
      BY DEF Correspondents
    <3> QED
      BY <3>1, <3>2, FS_CardinalityType, FS_EmptySet
  <2>2. /\ Correspondents(in_own) \subseteq Addresses \ Synthetic
        /\ contacts \in [DOMAIN contacts -> Nat \ {0}]
        /\ DOMAIN contacts \subseteq Addresses \ Synthetic
    BY DEF Correspondents, TypeOK
  <2>3. /\ contacts' \in [DOMAIN contacts' -> Nat \ {0}]
        /\ DOMAIN contacts' \subseteq Addresses \ Synthetic
    BY <1>4, <2>1, <2>2 DEF DeriveContacts, Upserted
  <2>4. counted' \in [DOMAIN contacts' -> [own : SUBSET Addresses, rows : Nat]]
    <3>1. in_own \in SUBSET Addresses /\ Len(messages) \in Nat
      BY IngestAssumption DEF TypeOK
    <3>2. DOMAIN contacts' = DOMAIN contacts \cup Correspondents(in_own)
      BY <1>4 DEF DeriveContacts, Upserted
    <3> QED
      BY <1>4, <3>1, <3>2 DEF DeriveContacts, TypeOK
  <2>5. TypeOK'
    BY <1>4, <2>3, <2>4 DEF DeriveContacts, TypeOK
  <2> QED
    BY <1>4, <2>5, UnchangedGrows DEF DeriveContacts, BatchIsRead, NothingIsDropped, InBatch
<1>5. CASE Stop
  <2>1. TypeOK'
    BY <1>5, IngestAssumption DEF Stop, TypeOK
  <2> QED
    BY <1>5, <2>1, UnchangedGrows DEF Stop, BatchIsRead, NothingIsDropped
<1>6. CASE UNCHANGED vars
  <2>1. TypeOK'
    BY <1>6 DEF vars, TypeOK
  <2> QED
    BY <1>6, <2>1, UnchangedGrows DEF vars, BatchIsRead, NothingIsDropped, InBatch
<1> QED
  BY <1>1, <1>2, <1>3, <1>4, <1>5, <1>6, ReadKeeps, FinishKeeps DEF Next, Running

(* Before the first run nothing is stored and nothing claimed.             *)
LEMMA InitIsSound == Init => RunInv
<1> SUFFICES ASSUME Init PROVE RunInv
  OBVIOUS
<1>1. TypeOK /\ in_seen < in_next
  BY IngestAssumption DEF Init, TypeOK
<1> QED
  BY <1>1 DEF Init, RunInv, BatchIsRead, NothingIsDropped

(* The inductive invariant.                                                *)
THEOREM RunIsSound == Spec => []RunInv
<1>1. RunInv /\ [Next]_vars => RunInv'
  BY StepKeeps
<1> QED
  BY <1>1, InitIsSound, PTL DEF Spec

(* NothingIsMissed: what a run has read is stored when it reaches the end. *)
THEOREM NothingIsLost == Spec => []NothingIsMissed
<1>1. RunInv => NothingIsMissed
  BY DEF RunInv, NothingIsMissed, NothingIsDropped, BatchIsRead, InBatch, StoredUpTo, Stored,
         StoredIn
<1> QED
  BY <1>1, RunIsSound, PTL

(* RerunAddsNothing: a file that is stored adds no row when it is read     *)
(* again, however often and by whatever limit.                             *)
THEOREM RerunsAddNothing == Spec => RerunAddsNothing
<1>1. ASSUME RunInv, [Next]_vars, StoredUpTo(in_mbox, Len(in_mbox))
      PROVE  messages' = messages
  <2>1. ASSUME NEW m, NEW i \in 1 .. Len(in_mbox), in_mbox[i] = m, m.readable
        PROVE  StoredIn(messages, m)
    BY <1>1, <2>1 DEF StoredUpTo, Stored, StoredIn
  <2>2. CASE Read
    <3>1. \A k \in DOMAIN NextBatch : StoredIn(messages, NextBatch[k])
      BY <1>1, <2>1, <2>2, BatchOfTheFile, MboxIsSequence DEF RunInv
    <3>2. Commit(NextBatch) => messages' = messages
      BY <1>1, <2>2, <3>1, BatchOfTheFile, CommitGrows DEF RunInv
    <3> QED
      BY <2>2, <3>2 DEF Read, NextBatch
  <2>3. CASE Finish
    <3>1. ASSUME NEW k \in DOMAIN in_batch
          PROVE  StoredIn(messages, in_batch[k])
      <4>1. PICK i \in 1 .. in_next - 1 : in_batch[k] = in_mbox[i] /\ in_mbox[i].readable
        BY <1>1 DEF RunInv, BatchIsRead
      <4>2. i \in 1 .. Len(in_mbox)
        BY <1>1, MboxIsSequence DEF RunInv, TypeOK
      <4> QED
        BY <2>1, <4>1, <4>2
    <3>2. in_batch \in Seq(Messages)
      BY <1>1 DEF RunInv, TypeOK
    <3> QED
      BY <1>1, <2>3, <3>1, <3>2, CommitGrows DEF Finish, RunInv
  <2> QED
    BY <1>1, <2>2, <2>3 DEF Next, Running, Start, ReadUnreadable, RecordSource, DeriveContacts,
       Stop, vars
<1>2. RunInv /\ [Next]_vars => [StoredUpTo(in_mbox, Len(in_mbox)) => messages' = messages]_vars
  BY <1>1
<1> QED
  BY <1>2, RunIsSound, PTL DEF Spec, RerunAddsNothing

(* No step stores a message that is stored.                                *)
LEMMA StepKeepsDistinct ==
  ASSUME RunInv, [Next]_vars, Distinct(messages)
  PROVE  Distinct(messages')
<1>1. CASE Read
  BY <1>1, BatchOfTheFile, CommitGrows DEF Read, NextBatch, RunInv
<1>2. CASE Finish
  BY <1>2, CommitGrows DEF Finish, RunInv, TypeOK
<1> QED
  BY <1>1, <1>2 DEF Next, Running, Start, ReadUnreadable, RecordSource, DeriveContacts, Stop,
     vars

(* The rows that a count was made of are still there, and it is their      *)
(* number.                                                                 *)
CountsAreExact ==
  \A a \in DOMAIN contacts :
    counted[a].rows <= Len(messages) /\ contacts[a] = Cardinality(CountedFor(a))

(* A count is not touched, unless it is made anew, of all there is.        *)
LEMMA StepKeepsCounts ==
  ASSUME RunInv, CountsAreExact, [Next]_vars
  PROVE  CountsAreExact'
<1>1. /\ messages \in Seq(Messages) /\ Len(messages) \in Nat /\ Len(messages') \in Nat
      /\ Len(messages) <= Len(messages')
      /\ \A i \in 1 .. Len(messages) : messages'[i] = messages[i]
      /\ \A a \in DOMAIN contacts : counted[a].rows \in Nat
  BY StepKeeps DEF RunInv, TypeOK, Grows, Extends
<1> SUFFICES ASSUME NEW a \in DOMAIN contacts'
             PROVE  /\ counted'[a].rows <= Len(messages')
                    /\ contacts'[a] = Cardinality(CountedFor(a)')
  BY DEF CountsAreExact
<1>2. CASE a \in DOMAIN contacts /\ contacts'[a] = contacts[a] /\ counted'[a] = counted[a]
  <2>1. counted[a].rows <= Len(messages) /\ contacts[a] = Cardinality(CountedFor(a))
    BY <1>2 DEF CountsAreExact
  <2>2. CountedFor(a)' = CountedFor(a)
    BY <1>1, <1>2, <2>1 DEF CountedFor
  <2> QED
    BY <1>1, <1>2, <2>1, <2>2
<1>3. CASE DeriveContacts /\ a \in Correspondents(in_own)
  <2>1. /\ contacts'[a] = Cardinality(SentTo(a, in_own)) /\ UNCHANGED messages
        /\ counted'[a] = [own |-> in_own, rows |-> Len(messages)]
    BY <1>3 DEF DeriveContacts, Upserted
  <2>2. CountedFor(a)' = SentTo(a, in_own)
    BY <1>1, <2>1 DEF CountedFor, SentTo
  <2> QED
    BY <1>1, <2>1, <2>2
<1>4. UNCHANGED <<contacts, counted>> \/ DeriveContacts
  BY DEF Next, Running, Start, Read, ReadUnreadable, Finish, RecordSource, Stop, vars
<1>5. CASE DeriveContacts /\ a \notin Correspondents(in_own)
  <2>1. a \in DOMAIN contacts /\ contacts'[a] = contacts[a] /\ counted'[a] = counted[a]
    BY <1>5 DEF DeriveContacts, Upserted
  <2> QED
    BY <1>2, <2>1
<1> QED
  BY <1>2, <1>3, <1>4, <1>5

(* SentCountIsHonest: each count is the number of the messages it was made *)
(* of, and these are different ones.                                       *)
THEOREM CountsAreHonest == Spec => []SentCountIsHonest
<1>1. Init => Distinct(messages) /\ CountsAreExact
  BY DEF Init, Distinct, CountsAreExact
<1>2. RunInv /\ Distinct(messages) /\ CountsAreExact /\ [Next]_vars =>
        (Distinct(messages) /\ CountsAreExact)'
  BY StepKeepsDistinct, StepKeepsCounts
<1>3. ASSUME RunInv, Distinct(messages), CountsAreExact PROVE SentCountIsHonest
  <2>1. \A a \in DOMAIN contacts : CountedFor(a) \subseteq DOMAIN messages
    <3>1. messages \in Seq(Messages) /\ \A a \in DOMAIN contacts : counted[a].rows \in Nat
      BY <1>3 DEF RunInv, TypeOK
    <3>2. /\ DOMAIN messages = 1 .. Len(messages) /\ Len(messages) \in Nat
          /\ \A a \in DOMAIN contacts : counted[a].rows <= Len(messages)
      BY <1>3, <3>1 DEF CountsAreExact
    <3> QED
      BY <3>1, <3>2 DEF CountedFor
  <2> QED
    BY <1>3, <2>1 DEF CountsAreExact, Distinct, SentCountIsHonest
<1>4. Spec => [](Distinct(messages) /\ CountsAreExact)
  BY <1>1, <1>2, RunIsSound, PTL DEF Spec
<1> QED
  BY <1>3, <1>4, RunIsSound, PTL

-----------------------------------------------------------------------------
(* Names of contacts.                                                      *)

Contents == \A i \in DOMAIN messages : messages[i].content \in DOMAIN VoiceOf

(* The label of a contact is one of the texts.                             *)
LEMMA LabelIsText ==
  ASSUME NEW c \in DOMAIN VoiceOf
  PROVE  ContactLabel(VoiceOf[c]) \in DOMAIN Texts
  BY VoiceAssumption DEF ContactLabel, Or

(* Every Voice message has a contact key, and fields fit for a file name.  *)
LEMMA ParseIsNamed ==
  ASSUME NEW c \in DOMAIN VoiceOf
  PROVE  /\ Parse[c].key \in Keys /\ Parse[c].key \in STRING /\ Parse[c].date \in Nat
         /\ Parse[c].name \in Names /\ Parse[c].number \in Names
<1> DEFINE v == VoiceOf[c]
<1>1. /\ \A text \in DOMAIN Texts : /\ Texts[text].key \in STRING
                                    /\ Texts[text].slug \in Names
                                    /\ Texts[text].digits \in Names
      /\ v.date \in Nat /\ v.from_name \in DOMAIN Texts \cup {NULL}
      /\ v.local \in DOMAIN Texts \cup {NULL} /\ <<>> \in Names
  BY VoiceAssumption DEF TextInfo, Names
<1>2. ContactLabel(v) \in DOMAIN Texts
  BY LabelIsText
<1> HIDE DEF v
<1>3. ContactName(v) \in Names
  BY <1>1, <1>2 DEF ContactName, Or
<1>4. ContactNumber(v) \in Names
  BY <1>1, <1>2 DEF ContactNumber
<1>5. Texts[ContactLabel(v)].key \in Keys
  BY <1>2 DEF Keys
<1>6. /\ Parse[c].key = Texts[ContactLabel(v)].key /\ Parse[c].date = v.date
      /\ Parse[c].name = ContactName(v) /\ Parse[c].number = ContactNumber(v)
  BY DEF Parse, v
<1> QED
  BY <1>1, <1>2, <1>3, <1>4, <1>5, <1>6

(* The messages of a conversation have a first one.                        *)
LEMMA FirstIsName ==
  ASSUME Contents, DOMAIN messages \subseteq Nat,
         NEW S, S \subseteq DOMAIN messages, NEW field \in {"name", "number"}
  PROVE  FirstWith(S, field) \in Names
<1> DEFINE given == {i \in S : Parsed(i)[field] # <<>>}
           Dates == {Parsed(i).date : i \in given}
<1>1. \A i \in given : Parsed(i)[field] \in Names /\ Parsed(i).date \in Nat /\ i \in Nat
  BY ParseIsNamed DEF Parsed, Contents
<1>2. CASE given = {}
  BY <1>2 DEF FirstWith, Names
<1>3. CASE given # {}
  <2>1. PICK d \in Dates : \A e \in Dates : d <= e
    <3>1. Dates \subseteq Nat /\ Dates # {}
      BY <1>1, <1>3
    <3> HIDE DEF Dates
    <3> QED
      BY <3>1, LeastNumber
  <2> DEFINE Firsts == {i \in given : Parsed(i).date = d}
  <2>2. PICK i \in Firsts : \A j \in Firsts : i <= j
    <3>1. Firsts \subseteq Nat /\ Firsts # {}
      BY <1>1
    <3> HIDE DEF Firsts
    <3> QED
      BY <3>1, LeastNumber
  <2>3. \A j \in given : Earlier(i, j)
    <3> SUFFICES ASSUME NEW j \in given PROVE Earlier(i, j)
      OBVIOUS
    <3>1. Parsed(i).date <= Parsed(j).date
      BY <2>1, <2>2
    <3>2. Parsed(j).date = Parsed(i).date => i <= j
      BY <2>2
    <3> QED
      BY <1>1, <2>2, <3>1, <3>2 DEF Earlier
  <2> DEFINE first == CHOOSE k \in given : \A j \in given : Earlier(k, j)
  <2>4. first \in given
    <3>1. i \in given
      BY <2>2
    <3> HIDE DEF given
    <3> QED
      BY <2>3, <3>1
  <2>5. FirstWith(S, field) = Parsed(first)[field]
    BY <1>3 DEF FirstWith
  <2> QED
    BY <1>1, <2>4, <2>5
<1> QED
  BY <1>2, <1>3

(* A sequence of one element.                                              *)
LEMMA OneElement ==
  ASSUME NEW S, NEW x \in S
  PROVE  <<x>> \in Seq(S)
<1>1. <<x>> \in [1 .. 1 -> S]
  OBVIOUS
<1> QED
  BY <1>1, SeqDef

(* The display of a contact, made of whatever is known of him, is a name.  *)
LEMMA DisplayIsName ==
  ASSUME Contents, DOMAIN messages \subseteq Nat, NEW key \in STRING
  PROVE  Display(key) \in Names
<1> DEFINE name == FirstWith(Group(key), "name")
           number == FirstWith(Group(key), "number")
<1>1. name \in Names /\ number \in Names
  BY FirstIsName DEF Group
<1> HIDE DEF name, number
<1>2. name \o number \in Names /\ name \o Underscore \o number \in Names
  <2>1. Underscore \in Seq(STRING)
    BY VoiceAssumption DEF Names
  <2>2. name \o Underscore \in Seq(STRING)
    BY <1>1, <2>1, ConcatProperties DEF Names
  <2> QED
    BY <1>1, <2>2, ConcatProperties DEF Names
<1>3. <<key>> \in Names
  BY OneElement DEF Names
<1> QED
  BY <1>1, <1>2, <1>3 DEF Display, name, number

(* With fewer names taken than there are ordinals, one is free.            *)
LEMMA UniqueIsNew ==
  ASSUME NEW stem \in Names, NEW used, IsFiniteSet(used), Cardinality(used) < Len(Ordinals)
  PROVE  Unique(stem, used) \in Names /\ Unique(stem, used) \notin used
<1> DEFINE with(n) == Append(stem, Ordinals[n])
           free == {n \in DOMAIN Ordinals : with(n) \notin used}
<1>1. /\ Ordinals \in Seq(STRING) /\ Len(Ordinals) \in Nat
      /\ DOMAIN Ordinals = 1 .. Len(Ordinals)
      /\ \A n, k \in DOMAIN Ordinals : Ordinals[n] = Ordinals[k] => n = k
  BY VoiceAssumption
<1>2. \A n \in DOMAIN Ordinals :
        with(n) \in Names /\ with(n)[Len(stem) + 1] = Ordinals[n]
  BY <1>1 DEF Names
<1>3. ASSUME free = {} PROVE FALSE
  <2> DEFINE f == [n \in 1 .. Len(Ordinals) |-> with(n)]
  <2>1. f \in Injection(1 .. Len(Ordinals), used)
    <3>1. f \in [1 .. Len(Ordinals) -> used]
      BY <1>1, <1>3
    <3>2. ASSUME NEW n \in 1 .. Len(Ordinals), NEW k \in 1 .. Len(Ordinals), f[n] = f[k]
          PROVE  n = k
      <4>1. Ordinals[n] = Ordinals[k]
        BY <1>1, <1>2, <3>2
      <4> QED
        BY <1>1, <4>1
    <3> HIDE DEF f
    <3> QED
      BY <3>1, <3>2 DEF Injection, IsInjective
  <2>2. IsFiniteSet(1 .. Len(Ordinals)) /\ Cardinality(1 .. Len(Ordinals)) = Len(Ordinals)
    BY <1>1, FS_Interval
  <2>3. Cardinality(1 .. Len(Ordinals)) <= Cardinality(used)
    BY <2>1, <2>2, FS_Injection
  <2>4. Cardinality(used) \in Nat
    BY FS_CardinalityType
  <2> QED
    BY <1>1, <2>2, <2>3, <2>4
<1>4. CASE stem \in used
  <2>1. PICK n \in free : \A k \in free : n <= k
    <3>1. free \subseteq Nat
      BY <1>1
    <3> HIDE DEF free
    <3> QED
      BY <1>3, <3>1, LeastNumber
  <2> DEFINE least == CHOOSE m \in free : \A k \in free : m <= k
  <2>2. least \in free
    <3> HIDE DEF free
    <3> QED
      BY <2>1
  <2>3. Unique(stem, used) = with(least)
    BY <1>4 DEF Unique
  <2> QED
    BY <1>2, <2>2, <2>3
<1> QED
  BY <1>4 DEF Unique

(* Contacts are named one by one, and no two get the same name.            *)
Apart(stems) ==
  /\ DOMAIN stems \subseteq Keys /\ stems \in [DOMAIN stems -> Names]
  /\ \A key, other \in DOMAIN stems : stems[key] = stems[other] => key = other

(* Naming one more contact keeps the names apart, and gives him one.       *)
LEMMA NamedKeepsApart ==
  ASSUME Contents, DOMAIN messages \subseteq Nat,
         NEW stems, Apart(stems), NEW i \in DOMAIN messages, NEW kind
  PROVE  /\ Apart(Named(stems, i, kind))
         /\ DOMAIN stems \subseteq DOMAIN Named(stems, i, kind)
         /\ Parsed(i).kind = kind => KeyOf(i) \in DOMAIN Named(stems, i, kind)
<1> DEFINE used == {stems[key] : key \in DOMAIN stems}
           new == Unique(Display(KeyOf(i)), used)
<1>1. CASE Parsed(i).kind # kind \/ KeyOf(i) \in DOMAIN stems
  BY <1>1 DEF Named
<1>2. CASE Parsed(i).kind = kind /\ KeyOf(i) \notin DOMAIN stems
  <2>1. KeyOf(i) \in Keys /\ KeyOf(i) \in STRING
    BY ParseIsNamed DEF KeyOf, Parsed, Contents
  <2>2. IsFiniteSet(Keys) /\ Cardinality(Keys) <= Len(Ordinals) /\ Len(Ordinals) \in Nat
    <3>1. [text \in DOMAIN Texts |-> Texts[text].key] \in Surjection(DOMAIN Texts, Keys)
      BY Fun_IsSurj DEF Keys
    <3> QED
      BY <3>1, FS_Surjection, VoiceAssumption
  <2>3. /\ IsFiniteSet(DOMAIN stems) /\ Cardinality(DOMAIN stems) < Cardinality(Keys)
        /\ Cardinality(DOMAIN stems) \in Nat /\ Cardinality(Keys) \in Nat
    <3>1. DOMAIN stems \subseteq Keys /\ DOMAIN stems # Keys
      BY <1>2, <2>1 DEF Apart
    <3>2. IsFiniteSet(DOMAIN stems)
      BY <2>2, <3>1, FS_Subset
    <3> QED
      BY <2>2, <3>1, <3>2, FS_Subset, FS_CardinalityType
  <2>4. IsFiniteSet(used) /\ Cardinality(used) <= Cardinality(DOMAIN stems)
    <3>1. stems \in Surjection(DOMAIN stems, used)
      BY Fun_IsSurj DEF Apart
    <3> HIDE DEF used
    <3> QED
      BY <2>3, <3>1, FS_Surjection
  <2>5. new \in Names /\ new \notin used
    <3>1. Cardinality(used) < Len(Ordinals)
      BY <2>2, <2>3, <2>4, FS_CardinalityType
    <3>2. Display(KeyOf(i)) \in Names
      BY <2>1, DisplayIsName
    <3> HIDE DEF used
    <3> QED
      BY <2>4, <3>1, <3>2, UniqueIsNew
  <2>6. Named(stems, i, kind) = Write(stems, KeyOf(i), new)
    BY <1>2 DEF Named
  <2> HIDE DEF new
  <2> QED
    BY <2>1, <2>5, <2>6 DEF Write, WriteAll, Apart
<1> QED
  BY <1>1, <1>2

(* The names after each of the turns.                                      *)
Turn(stems, n) ==
  IF n <= Len(messages) THEN Named(stems, n, "sms")
  ELSE Named(stems, n - Len(messages), "voicemail")

(* The recursive definition of the names has the value it spells out.      *)
LEMMA StemsDefined ==
  ASSUME Len(messages) \in Nat
  PROVE  StemsAfter =
           [n \in 0 .. 2 * Len(messages) |->
              IF n = 0 THEN [key \in {} |-> <<>>] ELSE Turn(StemsAfter[n - 1], n)]
<1> DEFINE last == 2 * Len(messages)
           UpTo(k, f) ==
             f = [n \in 0 .. k |->
                    IF n = 0 THEN [key \in {} |-> <<>>] ELSE Turn(f[n - 1], n)]
           Defined == {k \in 0 .. last : \E f : UpTo(k, f)}
<1>1. 0 \in Defined
  <2> DEFINE f == [n \in 0 .. 0 |-> [key \in {} |-> <<>>]]
  <2>1. UpTo(0, f)
    OBVIOUS
  <2> HIDE DEF UpTo
  <2> QED
    BY <2>1
<1>2. ASSUME NEW k \in 1 .. last, k - 1 \in Defined PROVE k \in Defined
  <2>1. PICK f : UpTo(k - 1, f)
    BY <1>2
  <2> DEFINE g == [n \in 0 .. k |-> IF n = k THEN Turn(f[k - 1], k) ELSE f[n]]
  <2>2. ASSUME NEW n \in 0 .. k
        PROVE  g[n] = IF n = 0 THEN [key \in {} |-> <<>>] ELSE Turn(g[n - 1], n)
    <3>1. CASE n = k
      <4>1. k # 0 /\ k - 1 \in 0 .. k /\ k - 1 # k
        OBVIOUS
      <4> QED
        BY <3>1, <4>1
    <3>2. CASE n # k
      <4>1. n \in 0 .. (k - 1) /\ (n # 0 => n - 1 \in 0 .. k /\ n - 1 # k)
        BY <3>2
      <4>2. f[n] = IF n = 0 THEN [key \in {} |-> <<>>] ELSE Turn(f[n - 1], n)
        BY <2>1, <4>1
      <4> QED
        BY <3>2, <4>1, <4>2
    <3> QED
      BY <3>1, <3>2
  <2>3. UpTo(k, g)
    BY <2>2
  <2> HIDE DEF UpTo, g
  <2> QED
    BY <2>3
<1>3. \E f : UpTo(last, f)
  <2>1. last \in Nat
    OBVIOUS
  <2> HIDE DEF Defined, last
  <2>2. \A k \in 0 .. last : k \in Defined
    BY <1>1, <1>2, <2>1, Induction
  <2> QED
    BY <2>1, <2>2 DEF Defined
<1> DEFINE Is(f) ==
      f = [n \in 0 .. 2 * Len(messages) |->
             IF n = 0 THEN [key \in {} |-> <<>>]
             ELSE IF n <= Len(messages) THEN Named(f[n - 1], n, "sms")
             ELSE Named(f[n - 1], n - Len(messages), "voicemail")]
<1>4. StemsAfter = CHOOSE f : Is(f)
  BY DEF StemsAfter
<1>5. \E f : Is(f)
  BY <1>3 DEF Turn
<1>6. Is(StemsAfter)
  <2> HIDE DEF Is
  <2> QED
    BY <1>4, <1>5
<1> QED
  BY <1>6 DEF Turn

(* Every conversation with an SMS has a name of its own.                   *)
LEMMA StemsApart ==
  ASSUME Contents, messages \in Seq(Messages)
  PROVE  /\ Apart(Stems)
         /\ \A i \in DOMAIN messages : Parsed(i).kind = "sms" => KeyOf(i) \in DOMAIN Stems
<1> DEFINE rows == Len(messages)
           after(n) == StemsAfter[n]
           Good(n) ==
             /\ Apart(after(n))
             /\ \A i \in 1 .. rows :
                  i <= n /\ Parsed(i).kind = "sms" => KeyOf(i) \in DOMAIN after(n)
           Turns == {n \in 0 .. 2 * rows : Good(n)}
<1>1. rows \in Nat /\ DOMAIN messages = 1 .. rows
  OBVIOUS
<1>2. /\ after(0) = [key \in {} |-> <<>>]
      /\ \A n \in 1 .. 2 * rows : after(n) = Turn(after(n - 1), n)
  BY <1>1, StemsDefined
<1> HIDE DEF after
<1>3. 0 \in Turns
  <2>1. DOMAIN after(0) = {}
    BY <1>2
  <2>2. Apart(after(0))
    BY <1>2, <2>1 DEF Apart
  <2> QED
    BY <1>1, <2>2
<1>4. ASSUME NEW n \in 1 .. 2 * rows, n - 1 \in Turns PROVE n \in Turns
  <2>1. Good(n - 1)
    BY <1>4
  <2>2. CASE n <= rows
    <3>1. after(n) = Named(after(n - 1), n, "sms")
      BY <1>2, <2>2 DEF Turn
    <3>2. n \in DOMAIN messages
      BY <1>1, <2>2
    <3>3. /\ Apart(after(n)) /\ DOMAIN after(n - 1) \subseteq DOMAIN after(n)
          /\ Parsed(n).kind = "sms" => KeyOf(n) \in DOMAIN after(n)
      BY <1>1, <2>1, <3>1, <3>2, NamedKeepsApart
    <3>4. \A i \in 1 .. rows : i <= n => i <= n - 1 \/ i = n
      OBVIOUS
    <3> QED
      BY <2>1, <3>3, <3>4
  <2>3. CASE n > rows
    <3>1. after(n) = Named(after(n - 1), n - rows, "voicemail")
      BY <1>1, <1>2, <2>3 DEF Turn
    <3>2. n - rows \in DOMAIN messages
      BY <1>1, <2>3
    <3>3. Apart(after(n)) /\ DOMAIN after(n - 1) \subseteq DOMAIN after(n)
      BY <1>1, <2>1, <3>1, <3>2, NamedKeepsApart
    <3>4. \A i \in 1 .. rows : i <= n - 1
      BY <2>3
    <3> QED
      BY <2>1, <3>3, <3>4
  <2> QED
    BY <1>1, <2>2, <2>3
<1>5. \A n \in 0 .. 2 * rows : n \in Turns
  <2>1. 2 * rows \in Nat
    BY <1>1
  <2> HIDE DEF Turns, rows
  <2> QED
    BY <1>3, <1>4, <2>1, Induction
<1>6. Good(2 * rows)
  BY <1>1, <1>5
<1> QED
  BY <1>1, <1>6 DEF after, Stems

-----------------------------------------------------------------------------
(* The invariant of an export.                                             *)

(* What it has read is a mailbox, up to some mail, and a part of a table   *)
(* of messages that parse_message can be asked about.                      *)
VoiceTypes ==
  /\ Contents
  /\ vx_pc \in {"idle", "resolve", "scan", "transcripts"} \cup DOMAIN KindIn
  /\ vx_rows \in 0 .. Len(messages)
  /\ vx_override \in Mboxes \cup {<<>>} /\ vx_mbox \in Mboxes \cup {<<>>}
  /\ vx_next \in 1 .. Len(vx_mbox) + 1

(* Every saved file has attachments of the message in its path.            *)
SavedIsOwn ==
  \A path \in DOMAIN saved :
    /\ path.id \in DOMAIN messages
    /\ saved[path] # Torn => saved[path] = messages[path.id].rfc_message_id

(* Every path in a file of the backup is one that has been saved to, for   *)
(* the message of the record.                                              *)
RecordsLead ==
  \A path \in DOMAIN disk : \A r \in disk[path] :
    /\ r.id \in DOMAIN messages
    /\ r.path # NoPath => r.path \in DOMAIN saved /\ r.path.id = r.id

(* A file never held another kind than its own.                            *)
KindsApart ==
  \A file \in DOMAIN KindIn :
    Plain(file) \in DOMAIN disk =>
      \A r \in disk[Plain(file)] : Parsed(r.id).kind = KindIn[file]

(* What is recovered is what the scanned part of the mailbox holds, all of *)
(* it once the listings are written.                                       *)
RecoveredIsFound ==
  /\ vx_recovered =
       {i \in WithAttachments : \E k \in 1 .. vx_next - 1 : HoldsAttachments(vx_mbox[k], i)}
  /\ \A i \in vx_recovered : AttachmentPath(i) \in DOMAIN saved
  /\ vx_pc \notin {"resolve", "scan"} => vx_next = Len(vx_mbox) + 1
  /\ vx_pc = "resolve" => vx_mbox = <<>>

(* The listings come one after the other.                                  *)
Before(file) ==
  CASE file = "sms.jsonl" -> {"calls.jsonl", "voicemails.jsonl", "calls.csv", "transcripts"}
    [] file = "calls.jsonl" -> {"voicemails.jsonl", "calls.csv", "transcripts"}
    [] file = "voicemails.jsonl" ->
         IF OfKind("voicemail") = {} THEN {} ELSE {"calls.csv", "transcripts"}
    [] file = "calls.csv" -> {"transcripts"}

ListingsWritten ==
  \A file \in DOMAIN KindIn :
    vx_pc \in Before(file) =>
      Plain(file) \in DOMAIN disk /\ disk[Plain(file)] = Records(OfKind(KindIn[file]))

TranscriptsWritten ==
  vx_pc = "transcripts" =>
    \A i \in OfKind("sms") :
      \/ KeyOf(i) \in vx_contacts
      \/ /\ Transcript(KeyOf(i)) \in DOMAIN disk
         /\ disk[Transcript(KeyOf(i))] = Records({j \in OfKind("sms") : KeyOf(j) = KeyOf(i)})

(* Two contacts never share a name.                                        *)
ContactsApart ==
  /\ vx_pc # "idle" => vx_contacts \subseteq {KeyOf(i) : i \in OfKind("sms")}
  /\ vx_pc \notin {"idle", "transcripts"} => vx_contacts = {KeyOf(i) : i \in OfKind("sms")}
  /\ vx_pc # "idle" =>
       \A i, j \in OfKind("sms") :
         vx_stems[KeyOf(i)] = vx_stems[KeyOf(j)] => KeyOf(i) = KeyOf(j)

VoiceInv ==
  /\ VoiceTypes /\ SavedIsOwn /\ RecordsLead /\ KindsApart
  /\ RecoveredIsFound /\ ListingsWritten /\ TranscriptsWritten /\ ContactsApart

(* The file that is scanned is a sequence of messages.                     *)
LEMMA ScannedMbox ==
  ASSUME VoiceTypes
  PROVE  /\ vx_mbox \in Seq(Messages) /\ Len(vx_mbox) \in Nat
         /\ DOMAIN vx_mbox = 1 .. Len(vx_mbox)
<1>1. vx_mbox \in Seq(Messages)
  <2>1. Mboxes \subseteq Seq(Messages) /\ <<>> \in Seq(Messages)
    BY IngestAssumption
  <2> QED
    BY <2>1 DEF VoiceTypes
<1> QED
  BY <1>1

(* The end of a run, come to or not, leaves nothing of it but the files.   *)
LEMMA EndedIsSound ==
  ASSUME Ended
  PROVE  /\ vx_pc' \in {"idle"} /\ vx_rows' \in 0 .. 0 /\ vx_override' = <<>>
         /\ vx_mbox' = <<>> /\ vx_next' \in 1 .. Len(vx_mbox')  + 1
         /\ RecoveredIsFound' /\ ListingsWritten' /\ TranscriptsWritten' /\ ContactsApart'
<1>1. /\ vx_pc' = "idle" /\ vx_rows' = 0 /\ vx_next' = 1 /\ vx_mbox' = <<>>
      /\ vx_recovered' = {} /\ vx_contacts' = {} /\ Len(vx_mbox') = 0
  BY DEF Ended
<1>2. RecoveredIsFound'
  BY <1>1 DEF RecoveredIsFound
<1>3. ListingsWritten'
  BY <1>1 DEF ListingsWritten, Before, KindIn
<1> QED
  BY <1>1, <1>2, <1>3 DEF Ended, TranscriptsWritten, ContactsApart

-----------------------------------------------------------------------------
(* The steps of an export.                                                 *)

(* A new export has recovered and written nothing yet.                     *)
LEMMA ExportStartKeeps ==
  ASSUME RunInv, VoiceInv, NEW wanted \in BOOLEAN, NEW override \in Overrides,
         ExportStart(wanted, override)
  PROVE  VoiceInv'
<1> USE DEF VoiceInv
<1>1. /\ messages \in Seq(Messages) /\ DOMAIN messages = 1 .. Len(messages)
      /\ Len(messages) \in Nat /\ Contents
  BY DEF RunInv, TypeOK, VoiceTypes
<1>2. /\ vx_pc' \in {"resolve", "sms.jsonl"} /\ vx_rows' = Len(messages) /\ vx_mbox' = <<>>
      /\ Len(vx_mbox') = 0 /\ vx_next' = 1 /\ vx_recovered' = {} /\ vx_override' = override
      /\ UNCHANGED <<messages, disk, saved>>
  BY DEF ExportStart, vars
<1>3. VoiceTypes'
  BY <1>1, <1>2, VoiceAssumption DEF VoiceTypes, Contents, KindIn
<1>4. SavedIsOwn' /\ RecordsLead' /\ KindsApart'
  BY <1>2 DEF SavedIsOwn, RecordsLead, KindsApart, Parsed
<1>5. RecoveredIsFound'
  BY <1>2 DEF RecoveredIsFound
<1>6. ListingsWritten' /\ TranscriptsWritten'
  BY <1>2 DEF ListingsWritten, TranscriptsWritten, Before, KindIn
<1>7. ContactsApart'
  <2>1. OfKind("sms")' = {i \in DOMAIN messages : Parsed(i).kind = "sms"}
    BY <1>1, <1>2 DEF OfKind, Parsed
  <2>2. vx_contacts' = {KeyOf(i) : i \in OfKind("sms")'} /\ vx_stems' = Stems
    BY <2>1 DEF ExportStart
  <2>3. \A i, j \in OfKind("sms")' : Stems[KeyOf(i)] = Stems[KeyOf(j)] => KeyOf(i) = KeyOf(j)
    BY <1>1, <2>1, StemsApart DEF Apart
  <2>4. \A i : KeyOf(i)' = KeyOf(i)
    BY <1>2 DEF KeyOf, Parsed
  <2> QED
    BY <1>2, <2>2, <2>3, <2>4 DEF ContactsApart
<1> QED
  BY <1>3, <1>4, <1>5, <1>6, <1>7

(* It reads the rows and looks for the mbox.                               *)
LEMMA ResolveKeeps ==
  ASSUME RunInv, VoiceInv, Resolve
  PROVE  VoiceInv'
<1> USE DEF VoiceInv
<1>1. /\ vx_pc = "resolve" /\ vx_pc' \in {"scan", "sms.jsonl"} /\ vx_mbox = <<>>
      /\ vx_mbox' \in Mboxes \cup {<<>>} /\ vx_next = 1
      /\ vx_pc' = "sms.jsonl" => vx_mbox' = <<>>
      /\ UNCHANGED <<messages, vx_rows, vx_stems, vx_override, vx_next, vx_recovered,
                     vx_contacts, disk, saved>>
  BY DEF Resolve, vars, RunInv, TypeOK, VoiceTypes, RecoveredIsFound
<1>2. Len(vx_mbox') \in Nat
  <2>1. Mboxes \subseteq Seq(Messages) /\ <<>> \in Seq(Messages)
    BY IngestAssumption
  <2> QED
    BY <1>1, <2>1
<1>3. VoiceTypes'
  <2>1. vx_next' \in 1 .. Len(vx_mbox') + 1
    BY <1>1, <1>2
  <2> QED
    BY <1>1, <2>1 DEF VoiceTypes, Contents, KindIn
<1>4. SavedIsOwn' /\ RecordsLead' /\ KindsApart'
  BY <1>1 DEF SavedIsOwn, RecordsLead, KindsApart, Parsed
<1>5. RecoveredIsFound'
  <2>1. vx_recovered' = {} /\ 1 .. vx_next' - 1 = {}
    BY <1>1 DEF RecoveredIsFound
  <2>2. vx_pc' \notin {"resolve", "scan"} => vx_next' = Len(vx_mbox') + 1
    <3>1. vx_pc' \notin {"resolve", "scan"} => vx_mbox' = <<>>
      BY <1>1
    <3>2. Len(<<>>) + 1 = 1
      OBVIOUS
    <3> QED
      BY <1>1, <3>1, <3>2
  <2> QED
    BY <1>1, <2>1, <2>2 DEF RecoveredIsFound
<1>6. ListingsWritten' /\ TranscriptsWritten'
  BY <1>1 DEF ListingsWritten, TranscriptsWritten, Before, KindIn
<1>7. ContactsApart'
  BY <1>1 DEF ContactsApart, OfKind, KeyOf, Parsed
<1> QED
  BY <1>3, <1>4, <1>5, <1>6, <1>7

(* What is saved is of the message with the Message-ID of the mail.        *)
LEMMA ScanMailKeeps ==
  ASSUME RunInv, VoiceInv, ScanMail
  PROVE  VoiceInv'
<1> USE DEF VoiceInv
<1> DEFINE mail == vx_mbox[vx_next]
           found == IF Savable(mail) THEN Wanted(mail) ELSE {}
           paths == {AttachmentPath(i) : i \in found}
<1>1. /\ vx_pc = "scan" /\ vx_next \in 1 .. Len(vx_mbox) /\ vx_next' = vx_next + 1
      /\ vx_recovered' = vx_recovered \cup found
      /\ saved' = WriteAll(saved, paths, mail.rfc_message_id)
      /\ UNCHANGED <<messages, vx_pc, vx_rows, vx_stems, vx_override, vx_mbox, vx_contacts,
                     disk>>
  BY ScannedMbox DEF ScanMail, vars, VoiceTypes
<1>2. found = {i \in WithAttachments : HoldsAttachments(mail, i)}
  BY DEF Wanted, Savable, Clash, HoldsAttachments
<1>3. WithAttachments \subseteq DOMAIN messages
  BY DEF WithAttachments, VoiceTypes, RunInv, TypeOK
<1> HIDE DEF mail, found
<1>4. VoiceTypes'
  BY <1>1, ScannedMbox DEF VoiceTypes, Contents
<1>5. SavedIsOwn'
  <2>1. ASSUME NEW path \in paths
        PROVE  path.id \in DOMAIN messages /\ mail.rfc_message_id = messages[path.id].rfc_message_id
    BY <1>2, <1>3 DEF AttachmentPath, HoldsAttachments
  <2> HIDE DEF paths
  <2> QED
    BY <1>1, <2>1 DEF SavedIsOwn, WriteAll
<1>6. DOMAIN saved' = DOMAIN saved \cup paths
  BY <1>1 DEF WriteAll
<1>7. RecordsLead' /\ KindsApart'
  BY <1>1, <1>6 DEF RecordsLead, KindsApart, Parsed
<1>8. RecoveredIsFound'
  <2>1. WithAttachments' = WithAttachments /\ \A i : AttachmentPath(i)' = AttachmentPath(i)
    BY <1>1 DEF WithAttachments, HasAttachments, Parsed, AttachmentPath, KeyOf
  <2>2. 1 .. vx_next' - 1 = (1 .. vx_next - 1) \cup {vx_next}
    BY <1>1
  <2>3. \A m, i : HoldsAttachments(m, i)' <=> HoldsAttachments(m, i)
    BY <1>1 DEF HoldsAttachments
  <2>4. vx_recovered' = {i \in WithAttachments :
                           \E k \in 1 .. vx_next' - 1 : HoldsAttachments(vx_mbox[k], i)}
    BY <1>1, <1>2, <2>2 DEF RecoveredIsFound, mail
  <2>5. \A i \in vx_recovered' : AttachmentPath(i) \in DOMAIN saved'
    BY <1>1, <1>6 DEF RecoveredIsFound
  <2> QED
    BY <1>1, <2>1, <2>3, <2>4, <2>5 DEF RecoveredIsFound
<1>9. ListingsWritten' /\ TranscriptsWritten'
  BY <1>1 DEF ListingsWritten, TranscriptsWritten, Before, KindIn
<1>10. ContactsApart'
  BY <1>1 DEF ContactsApart, OfKind, KeyOf, Parsed
<1> QED
  BY <1>4, <1>5, <1>7, <1>8, <1>9, <1>10

(* The scan ends, at the end of the file or with what it wanted found.     *)
LEMMA ScanEndsKeeps ==
  ASSUME RunInv, VoiceInv, ScanEnds
  PROVE  VoiceInv'
<1> USE DEF VoiceInv
<1>1. /\ vx_pc = "scan" /\ vx_pc' = "sms.jsonl" /\ vx_next = Len(vx_mbox) + 1
      /\ UNCHANGED <<messages, vx_rows, vx_stems, vx_override, vx_mbox, vx_next, vx_recovered,
                     vx_contacts, disk, saved>>
  BY ScannedMbox DEF ScanEnds, vars, VoiceTypes
<1>2. VoiceTypes'
  BY <1>1 DEF VoiceTypes, Contents, KindIn
<1>3. SavedIsOwn' /\ RecordsLead' /\ KindsApart'
  BY <1>1 DEF SavedIsOwn, RecordsLead, KindsApart, Parsed
<1>4. RecoveredIsFound'
  BY <1>1 DEF RecoveredIsFound, WithAttachments, HasAttachments, Parsed, AttachmentPath, KeyOf,
     HoldsAttachments
<1>5. ListingsWritten' /\ TranscriptsWritten'
  BY <1>1 DEF ListingsWritten, TranscriptsWritten, Before, KindIn
<1>6. ContactsApart'
  BY <1>1 DEF ContactsApart, OfKind, KeyOf, Parsed
<1> QED
  BY <1>2, <1>3, <1>4, <1>5, <1>6

(* The records of a kind are one for each message, with a path if          *)
(* recovered.                                                              *)
LEMMA RecordsHave ==
  /\ \A S : \A r \in Records(S) : r.id \in S /\ (r.path # NoPath <=> r.id \in vx_recovered)
  /\ \A S : \A i \in S : \E r \in Records(S) : r.id = i
<1>1. ASSUME NEW S, NEW i \in S
      PROVE  [id |-> i, path |-> IF i \in vx_recovered THEN AttachmentPath(i) ELSE NoPath]
               \in Records(S)
  BY DEF Records
<1>2. ASSUME NEW S, NEW r \in Records(S)
      PROVE  r.id \in S /\ (r.path # NoPath <=> r.id \in vx_recovered)
  <2>1. PICK i \in S : r = [id |-> i, path |-> IF i \in vx_recovered THEN AttachmentPath(i)
                                               ELSE NoPath]
    BY DEF Records
  <2>2. AttachmentPath(i).dir # NoPath.dir
    BY DEF AttachmentPath, NoPath, Plain
  <2> QED
    BY <2>1, <2>2
<1>3. ASSUME NEW S, NEW i \in S PROVE \E r \in Records(S) : r.id = i
  <2> DEFINE r == [id |-> i, path |-> IF i \in vx_recovered THEN AttachmentPath(i) ELSE NoPath]
  <2>1. r \in Records(S) /\ r.id = i
    BY <1>1
  <2> HIDE DEF r
  <2> QED
    BY <2>1
<1> QED
  BY <1>2, <1>3

(* The records of a run lead to the attachments it has saved.              *)
LEMMA RecordsAreSound ==
  ASSUME VoiceInv, NEW S, S \subseteq DOMAIN messages, NEW r \in Records(S)
  PROVE  /\ r.id \in S
         /\ r.path # NoPath => r.path \in DOMAIN saved /\ r.path.id = r.id
<1>1. PICK i \in S : r = [id |-> i, path |-> IF i \in vx_recovered THEN AttachmentPath(i)
                                             ELSE NoPath]
  BY DEF Records
<1>2. CASE i \in vx_recovered
  BY <1>1, <1>2 DEF VoiceInv, RecoveredIsFound, AttachmentPath
<1>3. CASE i \notin vx_recovered
  BY <1>1, <1>3
<1> QED
  BY <1>2, <1>3

(* A listing is rewritten as a whole, or cut off.                          *)
LEMMA WriteListingKeeps ==
  ASSUME RunInv, VoiceInv, WriteListing
  PROVE  VoiceInv'
<1> DEFINE kind == KindIn[vx_pc]
           records == Records(OfKind(kind))
<1>1. /\ vx_pc \in DOMAIN KindIn /\ disk' = Write(disk, Plain(vx_pc), records)
      /\ vx_pc' = After(vx_pc)
      /\ UNCHANGED <<messages, vx_rows, vx_stems, vx_override, vx_mbox, vx_next, vx_recovered,
                     vx_contacts, saved>>
  BY DEF WriteListing, vars
<1>2. /\ OfKind(kind) \subseteq DOMAIN messages
      /\ \A S : Records(S)' = Records(S) /\ \A k : OfKind(k)' = OfKind(k)
  BY <1>1 DEF OfKind, Records, AttachmentPath, KeyOf, Parsed, VoiceInv, VoiceTypes, RunInv, TypeOK
<1>3. /\ DOMAIN disk' = DOMAIN disk \cup {Plain(vx_pc)} /\ disk'[Plain(vx_pc)] = records
      /\ \A path \in DOMAIN disk : path # Plain(vx_pc) => disk'[path] = disk[path]
  BY <1>1 DEF Write, WriteAll
<1>4. \A file, other : Plain(file) = Plain(other) => file = other
  <2> SUFFICES ASSUME NEW file, NEW other, Plain(file) = Plain(other) PROVE file = other
    OBVIOUS
  <2>1. Plain(file).name[1] = file /\ Plain(other).name[1] = other
    BY DEF Plain
  <2> QED
    BY <2>1
<1>5. vx_pc' \in DOMAIN KindIn \cup {"transcripts"}
  BY <1>1 DEF After, KindIn
<1> HIDE DEF records
<1>6. VoiceTypes'
  BY <1>1, <1>5 DEF VoiceInv, VoiceTypes, Contents
<1>7. SavedIsOwn'
  BY <1>1 DEF VoiceInv, SavedIsOwn
<1>8. RecordsLead'
  <2>1. \A r \in records : /\ r.id \in DOMAIN messages
                           /\ r.path # NoPath => r.path \in DOMAIN saved /\ r.path.id = r.id
    BY <1>2, RecordsAreSound DEF records
  <2> QED
    BY <1>1, <1>3, <2>1 DEF VoiceInv, RecordsLead
<1>9. KindsApart'
  <2>1. \A r \in records : Parsed(r.id).kind = kind
    <3>1. \A r \in records : r.id \in OfKind(kind)
      BY <1>2, RecordsAreSound DEF records
    <3> QED
      BY <3>1 DEF OfKind
  <2>2. \A i : Parsed(i)' = Parsed(i)
    BY <1>1 DEF Parsed
  <2> SUFFICES ASSUME NEW file \in DOMAIN KindIn, Plain(file) \in DOMAIN disk',
                      NEW r \in disk'[Plain(file)]
               PROVE  Parsed(r.id).kind = KindIn[file]
    BY <2>2 DEF KindsApart
  <2>3. CASE file = vx_pc
    BY <1>3, <2>1, <2>3
  <2>4. CASE file # vx_pc
    BY <1>3, <1>4, <2>4 DEF VoiceInv, KindsApart
  <2> QED
    BY <2>3, <2>4
<1>10. RecoveredIsFound'
  BY <1>1, <1>5 DEF VoiceInv, RecoveredIsFound, WithAttachments, HasAttachments, Parsed,
     AttachmentPath, KeyOf, HoldsAttachments, KindIn
<1>11. ListingsWritten'
  <2> SUFFICES ASSUME NEW file \in DOMAIN KindIn, vx_pc' \in Before(file)'
               PROVE  /\ Plain(file) \in DOMAIN disk'
                      /\ disk'[Plain(file)] = Records(OfKind(KindIn[file]))
    BY <1>2 DEF ListingsWritten
  <2>1. CASE file = vx_pc
    BY <1>3, <2>1 DEF records
  <2>2. CASE file # vx_pc
    <3>1. Before(file)' = Before(file)
      BY <1>2 DEF Before
    <3>2. vx_pc \in Before(file)
      <4>1. CASE file = "sms.jsonl"
        BY <1>1, <2>2, <3>1, <4>1 DEF Before, After, KindIn
      <4>2. CASE file = "calls.jsonl"
        BY <1>1, <2>2, <3>1, <4>2 DEF Before, After, KindIn
      <4>3. CASE file = "voicemails.jsonl"
        BY <1>1, <2>2, <3>1, <4>3 DEF Before, After, KindIn
      <4>4. CASE file = "calls.csv"
        BY <1>1, <2>2, <3>1, <4>4 DEF Before, After, KindIn
      <4> QED
        BY <4>1, <4>2, <4>3, <4>4 DEF KindIn
    <3> QED
      BY <1>3, <1>4, <2>2, <3>2 DEF VoiceInv, ListingsWritten
  <2> QED
    BY <2>1, <2>2
<1>12. ContactsApart'
  BY <1>1, <1>5 DEF VoiceInv, ContactsApart, OfKind, KeyOf, Parsed, KindIn
<1>13. TranscriptsWritten'
  <2>1. vx_contacts' = {KeyOf(i) : i \in OfKind("sms")}
    BY <1>1 DEF VoiceInv, ContactsApart, KindIn
  <2>2. OfKind("sms")' = OfKind("sms") /\ \A i : KeyOf(i)' = KeyOf(i)
    BY <1>1 DEF OfKind, KeyOf, Parsed
  <2> QED
    BY <2>1, <2>2 DEF TranscriptsWritten
<1> QED
  BY <1>6, <1>7, <1>8, <1>9, <1>10, <1>11, <1>12, <1>13 DEF VoiceInv

(* So is the transcript of each contact, in a file of his own.             *)
LEMMA WriteTranscriptKeeps ==
  ASSUME RunInv, VoiceInv, WriteTranscript
  PROVE  VoiceInv'
<1>1. PICK key \in vx_contacts :
        /\ disk' = Write(disk, Transcript(key), Records(Group(key) \cap OfKind("sms")))
        /\ vx_contacts' = vx_contacts \ {key}
  BY DEF WriteTranscript
<1>2. /\ vx_pc = "transcripts"
      /\ UNCHANGED <<messages, vx_rows, vx_stems, vx_override, vx_pc, vx_mbox, vx_next,
                     vx_recovered, saved>>
  BY DEF WriteTranscript, vars
<1> DEFINE mine(k) == {i \in OfKind("sms") : KeyOf(i) = k}
           records == Records(mine(key))
<1>3. /\ \A S : Records(S)' = Records(S) /\ \A k : OfKind(k)' = OfKind(k)
      /\ \A i : KeyOf(i)' = KeyOf(i) /\ \A k : Transcript(k)' = Transcript(k)
      /\ OfKind("sms") \subseteq DOMAIN messages
  BY <1>2 DEF OfKind, Records, AttachmentPath, KeyOf, Parsed, Transcript, VoiceInv, VoiceTypes,
     RunInv, TypeOK
<1>4. disk' = Write(disk, Transcript(key), records)
  <2>1. Group(key) \cap OfKind("sms") = mine(key)
    BY <1>3 DEF Group, OfKind
  <2> QED
    BY <1>1, <2>1
<1>5. /\ DOMAIN disk' = DOMAIN disk \cup {Transcript(key)} /\ disk'[Transcript(key)] = records
      /\ \A path \in DOMAIN disk : path # Transcript(key) => disk'[path] = disk[path]
  BY <1>4 DEF Write, WriteAll
<1>6. \A file : Plain(file) # Transcript(key)
  BY DEF Plain, Transcript
<1> HIDE DEF records
<1>7. VoiceTypes' /\ SavedIsOwn'
  BY <1>2 DEF VoiceInv, VoiceTypes, SavedIsOwn, Contents
<1>8. RecordsLead'
  <2>1. \A r \in records : /\ r.id \in DOMAIN messages
                           /\ r.path # NoPath => r.path \in DOMAIN saved /\ r.path.id = r.id
    BY <1>3, RecordsAreSound DEF records
  <2> QED
    BY <1>2, <1>5, <2>1 DEF VoiceInv, RecordsLead
<1>9. KindsApart'
  BY <1>2, <1>5, <1>6 DEF VoiceInv, KindsApart, Parsed
<1>10. RecoveredIsFound'
  BY <1>2 DEF VoiceInv, RecoveredIsFound, WithAttachments, HasAttachments, Parsed,
     AttachmentPath, KeyOf, HoldsAttachments
<1>11. ListingsWritten'
  <2>1. \A file : Before(file)' = Before(file)
    BY <1>3 DEF Before
  <2> QED
    BY <1>2, <1>3, <1>5, <1>6, <2>1 DEF VoiceInv, ListingsWritten
<1>12. ContactsApart'
  BY <1>1, <1>2, <1>3 DEF VoiceInv, ContactsApart
<1>13. TranscriptsWritten'
  <2> SUFFICES ASSUME NEW i \in OfKind("sms"), KeyOf(i) \notin vx_contacts'
               PROVE  /\ Transcript(KeyOf(i)) \in DOMAIN disk'
                      /\ disk'[Transcript(KeyOf(i))] = Records(mine(KeyOf(i)))
    BY <1>3 DEF TranscriptsWritten
  <2>1. CASE KeyOf(i) = key
    BY <1>5, <2>1 DEF records
  <2>2. CASE KeyOf(i) # key
    <3>1. PICK j \in OfKind("sms") : KeyOf(j) = key
      BY <1>1, <1>2 DEF VoiceInv, ContactsApart
    <3>2. vx_stems[KeyOf(i)] # vx_stems[key]
      BY <1>2, <2>2, <3>1 DEF VoiceInv, ContactsApart
    <3>3. Transcript(KeyOf(i)) # Transcript(key)
      BY <3>2 DEF Transcript
    <3>4. KeyOf(i) \notin vx_contacts
      BY <1>1, <2>2
    <3> QED
      BY <1>2, <1>5, <3>3, <3>4 DEF VoiceInv, TranscriptsWritten
  <2> QED
    BY <2>1, <2>2
<1> QED
  BY <1>7, <1>8, <1>9, <1>10, <1>11, <1>12, <1>13 DEF VoiceInv

(* A run that is killed leaves a file cut off, which is then not read as   *)
(* the file of a complete run.                                             *)
LEMMA ExportStops ==
  ASSUME RunInv, VoiceInv, ExportEnds \/ ExportDies
  PROVE  VoiceInv'
<1> USE DEF VoiceInv
<1>1. Ended /\ UNCHANGED messages
  BY DEF ExportEnds, ExportDies, vars
<1>2. VoiceTypes'
  BY <1>1, EndedIsSound DEF VoiceTypes, Contents, RunInv, TypeOK
<1>3. SavedIsOwn' /\ DOMAIN saved \subseteq DOMAIN saved'
  <2>1. CASE UNCHANGED saved
    BY <1>1, <2>1 DEF SavedIsOwn
  <2>2. ASSUME NEW i \in WithAttachments, saved' = Write(saved, AttachmentPath(i), Torn)
        PROVE  SavedIsOwn' /\ DOMAIN saved \subseteq DOMAIN saved'
    <3>1. i \in DOMAIN messages /\ AttachmentPath(i).id = i
      BY DEF WithAttachments, VoiceTypes, RunInv, TypeOK, AttachmentPath
    <3> QED
      BY <1>1, <2>2, <3>1 DEF SavedIsOwn, Write, WriteAll
  <2> QED
    BY <2>1, <2>2 DEF ExportEnds, ExportDies, Wanted
<1>4. \A path \in DOMAIN disk' :
        disk'[path] = {} \/ (path \in DOMAIN disk /\ disk'[path] = disk[path])
  <2>1. ASSUME NEW new, disk' = Write(disk, new, {})
        PROVE  \A path \in DOMAIN disk' :
                 disk'[path] = {} \/ (path \in DOMAIN disk /\ disk'[path] = disk[path])
    BY <2>1 DEF Write, WriteAll
  <2> QED
    BY <2>1 DEF ExportEnds, ExportDies
<1>5. RecordsLead' /\ KindsApart'
  BY <1>1, <1>3, <1>4 DEF RecordsLead, KindsApart, Parsed
<1> QED
  BY <1>1, <1>2, <1>3, <1>5, EndedIsSound

(* Ingest may add messages, which the run does not see.                    *)
LEMMA IngestKeeps ==
  ASSUME RunInv, VoiceInv, [Next]_vars, UNCHANGED <<runVars, disk, saved>>
  PROVE  VoiceInv'
<1>1. /\ UNCHANGED <<vx_pc, vx_rows, vx_stems, vx_override, vx_mbox, vx_next, vx_recovered,
                     vx_contacts, disk, saved>>
  BY DEF runVars
<1>2. /\ messages \in Seq(Messages) /\ messages' \in Seq(Messages)
      /\ Len(messages) \in Nat /\ Len(messages') \in Nat /\ Len(messages) <= Len(messages')
      /\ DOMAIN messages = 1 .. Len(messages) /\ DOMAIN messages' = 1 .. Len(messages')
      /\ \A i \in DOMAIN messages : messages'[i] = messages[i]
  <2>1. messages \in Seq(Messages) /\ Extends(messages, messages')
    BY StepKeeps DEF RunInv, TypeOK, Grows
  <2>2. Len(messages) \in Nat /\ DOMAIN messages = 1 .. Len(messages)
    BY <2>1
  <2>3. /\ messages' \in Seq(Messages) /\ Len(messages) <= Len(messages')
        /\ \A i \in 1 .. Len(messages) : messages'[i] = messages[i]
    BY <2>1 DEF Extends
  <2>4. Len(messages') \in Nat /\ DOMAIN messages' = 1 .. Len(messages')
    BY <2>3
  <2> QED
    BY <2>1, <2>2, <2>3, <2>4
<1>3. /\ DOMAIN messages \subseteq DOMAIN messages' /\ 1 .. vx_rows \subseteq DOMAIN messages
      /\ vx_rows \in 0 .. Len(messages')
  BY <1>2 DEF VoiceInv, VoiceTypes
<1>4. Contents'
  <2>1. in_mbox = <<>> \/ in_mbox \in Mboxes
    BY DEF RunInv, TypeOK
  <2>2. \A k \in DOMAIN in_mbox : in_mbox[k].content \in DOMAIN VoiceOf
    <3>1. DOMAIN <<>> = {}
      OBVIOUS
    <3> QED
      BY <2>1, <3>1, VoiceAssumption
  <2>3. \A i \in DOMAIN messages' :
          i \in DOMAIN messages \/ \E k \in DOMAIN in_mbox : messages'[i] = in_mbox[k]
    BY NewRowsAreRead
  <2> QED
    BY <1>2, <2>2, <2>3 DEF VoiceInv, VoiceTypes, Contents
<1>5. /\ \A i \in DOMAIN messages : /\ Parsed(i)' = Parsed(i) /\ KeyOf(i)' = KeyOf(i)
                                    /\ AttachmentPath(i)' = AttachmentPath(i)
                                    /\ HasAttachments(i)' = HasAttachments(i)
      /\ \A k : Transcript(k)' = Transcript(k)
  BY <1>1, <1>2 DEF Parsed, KeyOf, AttachmentPath, HasAttachments, Transcript
<1>6. /\ \A k : OfKind(k)' = OfKind(k) /\ OfKind(k) \subseteq DOMAIN messages
      /\ WithAttachments' = WithAttachments /\ WithAttachments \subseteq DOMAIN messages
      /\ \A i \in DOMAIN messages : \A mail : HoldsAttachments(mail, i)' <=> HoldsAttachments(mail, i)
  BY <1>1, <1>2, <1>3, <1>5 DEF OfKind, WithAttachments, HoldsAttachments
<1>7. \A S \in SUBSET DOMAIN messages : Records(S)' = Records(S)
  BY <1>1, <1>5 DEF Records
<1>8. VoiceTypes'
  BY <1>1, <1>3, <1>4 DEF VoiceInv, VoiceTypes
<1>9. SavedIsOwn' /\ RecordsLead' /\ KindsApart'
  BY <1>1, <1>2, <1>3, <1>5 DEF VoiceInv, SavedIsOwn, RecordsLead, KindsApart
<1>10. RecoveredIsFound'
  BY <1>1, <1>5, <1>6 DEF VoiceInv, RecoveredIsFound
<1>11. ListingsWritten'
  <2>1. \A file : Before(file)' = Before(file)
    BY <1>6 DEF Before
  <2> QED
    BY <1>1, <1>6, <1>7, <2>1 DEF VoiceInv, ListingsWritten
<1>12. ContactsApart'
  BY <1>1, <1>5, <1>6 DEF VoiceInv, ContactsApart
<1>13. TranscriptsWritten'
  <2> SUFFICES ASSUME vx_pc = "transcripts", NEW i \in OfKind("sms"),
                      KeyOf(i) \notin vx_contacts
               PROVE  /\ Transcript(KeyOf(i)) \in DOMAIN disk
                      /\ disk[Transcript(KeyOf(i))] =
                           Records({j \in OfKind("sms") : KeyOf(j) = KeyOf(i)})'
    BY <1>1, <1>5, <1>6 DEF TranscriptsWritten
  <2> DEFINE mine == {j \in OfKind("sms") : KeyOf(j) = KeyOf(i)}
  <2>1. mine' = mine /\ mine \in SUBSET DOMAIN messages
    BY <1>5, <1>6
  <2>2. Records(mine)' = Records(mine)
    BY <1>1, <1>5, <2>1 DEF Records
  <2> QED
    BY <2>2 DEF VoiceInv, TranscriptsWritten
<1> QED
  BY <1>8, <1>9, <1>10, <1>11, <1>12, <1>13 DEF VoiceInv

(* Every step of an export, and of the ingest beside it, keeps both        *)
(* invariants.                                                             *)
LEMMA VoiceStep ==
  ASSUME RunInv, VoiceInv, [ExportNext]_allVars
  PROVE  RunInv' /\ VoiceInv'
<1>1. ASSUME UNCHANGED vars PROVE RunInv'
  BY <1>1, StepKeeps
<1>2. ASSUME NEW wanted \in BOOLEAN, NEW override \in Overrides, ExportStart(wanted, override)
      PROVE  RunInv' /\ VoiceInv'
  BY <1>1, <1>2, ExportStartKeeps DEF ExportStart
<1>3. CASE Resolve
  BY <1>1, <1>3, ResolveKeeps DEF Resolve
<1>4. CASE ScanMail
  BY <1>1, <1>4, ScanMailKeeps DEF ScanMail
<1>5. CASE ScanEnds
  BY <1>1, <1>5, ScanEndsKeeps DEF ScanEnds
<1>6. CASE WriteListing
  BY <1>1, <1>6, WriteListingKeeps DEF WriteListing
<1>7. CASE WriteTranscript
  BY <1>1, <1>7, WriteTranscriptKeeps DEF WriteTranscript
<1>8. CASE ExportEnds \/ ExportDies
  BY <1>1, <1>8, ExportStops DEF ExportEnds, ExportDies
<1>9. CASE Next /\ UNCHANGED <<runVars, disk, saved>>
  BY <1>9, IngestKeeps, StepKeeps
<1>10. CASE UNCHANGED allVars
  BY <1>10, IngestKeeps, StepKeeps DEF allVars
<1> QED
  BY <1>2, <1>3, <1>4, <1>5, <1>6, <1>7, <1>8, <1>9, <1>10 DEF ExportNext

-----------------------------------------------------------------------------
(* The inductive invariant of ingest and export together.                  *)
THEOREM ExportIsSound == ExportSpec => [](RunInv /\ VoiceInv)
<1>1. ExportInit => RunInv /\ VoiceInv
  <2> SUFFICES ASSUME ExportInit PROVE RunInv /\ VoiceInv
    OBVIOUS
  <2>1. /\ messages = <<>> /\ vx_pc = "idle" /\ vx_rows = 0 /\ vx_override = <<>>
        /\ vx_mbox = <<>> /\ vx_next = 1 /\ vx_recovered = {} /\ vx_contacts = {}
        /\ DOMAIN disk = {} /\ DOMAIN saved = {}
    BY DEF ExportInit, Init
  <2>2. Len(messages) = 0 /\ DOMAIN messages = {} /\ Len(vx_mbox) = 0
    BY <2>1
  <2>3. VoiceTypes /\ RecoveredIsFound
    BY <2>1, <2>2 DEF VoiceTypes, Contents, RecoveredIsFound
  <2>4. SavedIsOwn /\ RecordsLead /\ KindsApart
    BY <2>1 DEF SavedIsOwn, RecordsLead, KindsApart
  <2>5. ListingsWritten /\ TranscriptsWritten /\ ContactsApart
    BY <2>1 DEF ListingsWritten, TranscriptsWritten, ContactsApart, Before, KindIn
  <2> QED
    BY <2>3, <2>4, <2>5, InitIsSound DEF ExportInit, VoiceInv
<1>2. RunInv /\ VoiceInv /\ [ExportNext]_allVars => (RunInv /\ VoiceInv)'
  BY VoiceStep
<1> QED
  BY <1>1, <1>2, PTL DEF ExportSpec

(* PathsResolve: every path in the backup leads to attachments of the      *)
(* message of its record.                                                  *)
THEOREM PathsLeadToTheirOwn == ExportSpec => []PathsResolve
<1>1. VoiceInv => PathsResolve
  BY DEF VoiceInv, RecordsLead, SavedIsOwn, PathsResolve
<1> QED
  BY <1>1, ExportIsSound, PTL

(* BackupIsComplete: whatever contacts are called, each gets a transcript  *)
(* of its own, and every message is in the listing of its kind.            *)
THEOREM BackupsAreComplete == ExportSpec => []BackupIsComplete
<1>1. ASSUME VoiceInv, Complete PROVE BackupIsComplete
  <2>1. vx_pc = "transcripts" /\ vx_contacts = {}
    BY <1>1 DEF Complete
  <2>2. \A S : {r.id : r \in Records(S)} = S
    BY RecordsHave
  <2>3. /\ Listed(Plain("sms.jsonl")) = OfKind("sms")
        /\ Listed(Plain("calls.jsonl")) = OfKind("call")
        /\ OfKind("voicemail") # {} =>
             Listed(Plain("voicemails.jsonl")) = OfKind("voicemail")
    BY <1>1, <2>1, <2>2 DEF VoiceInv, ListingsWritten, Before, KindIn, Listed
  <2>4. \A i \in OfKind("sms") :
          Listed(Transcript(KeyOf(i))) = {j \in OfKind("sms") : KeyOf(j) = KeyOf(i)}
    BY <1>1, <2>1, <2>2 DEF VoiceInv, TranscriptsWritten, Listed
  <2> QED
    BY <2>3, <2>4 DEF BackupIsComplete
<1>2. VoiceInv => BackupIsComplete
  BY <1>1 DEF BackupIsComplete
<1> QED
  BY <1>2, ExportIsSound, PTL

(* FlagsAreHonest: a record is flagged if and only if the scanned file     *)
(* lacks its attachments.                                                  *)
THEOREM FlagsAreTrue == ExportSpec => []FlagsAreHonest
<1>1. ASSUME VoiceInv, Complete, NEW i \in OfKind("sms") \cup OfKind("voicemail")
      PROVE  i \in SavedFor <=>
               HasAttachments(i) /\ \E k \in DOMAIN vx_mbox : HoldsAttachments(vx_mbox[k], i)
  <2>1. /\ vx_pc = "transcripts" /\ i \in 1 .. vx_rows
        /\ Parsed(i).kind \in {"sms", "voicemail"}
    BY <1>1 DEF Complete, OfKind
  <2> DEFINE sms == Plain("sms.jsonl")
             voicemails == Plain("voicemails.jsonl")
  <2>2. /\ sms \in DOMAIN disk /\ disk[sms] = Records(OfKind("sms"))
        /\ i \in OfKind("voicemail") =>
             voicemails \in DOMAIN disk /\ disk[voicemails] = Records(OfKind("voicemail"))
    BY <1>1, <2>1 DEF VoiceInv, ListingsWritten, Before, KindIn
  <2>3. i \in vx_recovered <=>
          HasAttachments(i) /\ \E k \in DOMAIN vx_mbox : HoldsAttachments(vx_mbox[k], i)
    <3>1. vx_next - 1 = Len(vx_mbox) /\ DOMAIN vx_mbox = 1 .. Len(vx_mbox)
      BY <1>1, <2>1, ScannedMbox DEF VoiceInv, RecoveredIsFound
    <3> QED
      BY <1>1, <2>1, <3>1 DEF VoiceInv, RecoveredIsFound, WithAttachments
  <2>4. \A S : \A r \in Records(S) : r.path # NoPath <=> r.id \in vx_recovered
    BY RecordsHave
  <2>5. ASSUME i \in SavedFor PROVE i \in vx_recovered
    <3>1. PICK path \in {sms, voicemails} \cap DOMAIN disk :
            \E x \in disk[path] : x.path # NoPath /\ x.id = i
      BY <2>5 DEF SavedFor
    <3>2. CASE path = sms
      BY <2>2, <2>4, <3>1, <3>2
    <3>3. CASE path = voicemails
      <4>1. Parsed(i).kind = "voicemail"
        <5>1. KindIn["voicemails.jsonl"] = "voicemail" /\ "voicemails.jsonl" \in DOMAIN KindIn
          BY DEF KindIn
        <5> QED
          BY <1>1, <3>1, <3>3, <5>1 DEF VoiceInv, KindsApart
      <4>2. i \in OfKind("voicemail")
        BY <2>1, <4>1 DEF OfKind
      <4> QED
        BY <2>2, <2>4, <3>1, <3>3, <4>2
    <3> QED
      BY <3>1, <3>2, <3>3
  <2>6. ASSUME i \in vx_recovered PROVE i \in SavedFor
    <3> DEFINE r == [id |-> i, path |-> AttachmentPath(i)]
    <3>1. \A S : i \in S => r \in Records(S)
      BY <2>6 DEF Records
    <3>2. r.path # NoPath /\ r.id = i
      BY DEF AttachmentPath, NoPath, Plain
    <3>3. \E path \in {sms, voicemails} \cap DOMAIN disk : r \in disk[path]
      BY <1>1, <2>2, <3>1
    <3> HIDE DEF r
    <3> QED
      BY <3>2, <3>3 DEF SavedFor
  <2> QED
    BY <2>3, <2>5, <2>6
<1>2. VoiceInv => FlagsAreHonest
  BY <1>1 DEF FlagsAreHonest
<1> QED
  BY <1>2, ExportIsSound, PTL
=============================================================================
