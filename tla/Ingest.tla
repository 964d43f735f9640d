------------------------------- MODULE Ingest -------------------------------
(***************************************************************************)
(* email-cleaner ingest: streaming an MBOX into the messages table in      *)
(* batches, and deriving the contacts table from the mail its owner sent.  *)
(* A run may stop at any point and is then simply run again, on the same   *)
(* file or on a later export of the same mailbox.                          *)
(*                                                                         *)
(* A message is reduced to the two identifiers it may carry, to the        *)
(* content that stands in for them, and to its sender and recipients;      *)
(* "readable" says whether parsing it raises.                              *)
(***************************************************************************)
EXTENDS Integers, Sequences, FiniteSets

CONSTANTS Addresses,     \* normalized mail addresses
          Synthetic,     \* those in the Voice converter's placeholder domain
          Mboxes,        \* the files that ingest is run on
          BatchSize,     \* BATCH_SIZE
          Limits,        \* values of --limit; NoLimit when it is not given
          OwnAddresses   \* values of user_addresses; {} also for --skip-contacts

NULL == "null"
NoLimit == -1

Messages ==
  [gmail_msgid : STRING, rfc_message_id : STRING, content : STRING \ {NULL},
   from_addr : Addresses, to_all : SUBSET Addresses, readable : BOOLEAN]

ASSUME IngestAssumption ==
  /\ Synthetic \subseteq Addresses /\ OwnAddresses \subseteq SUBSET Addresses
  /\ Mboxes \subseteq Seq(Messages)
  /\ BatchSize \in Nat \ {0} /\ Limits \subseteq Nat \cup {NoLimit}

VARIABLES messages,    \* the messages table, in the order of its ids
          contacts,    \* address |-> sent_count
          mbox_source, \* what meta records, or <<>>
          in_pc,       \* "idle", "reading", "record", "derive"
          in_mbox,     \* the file of the current run
          in_next,     \* the next message of it to read
          in_seen,     \* how many messages the run has parsed
          in_batch,    \* parsed, not yet committed
          in_limit, in_own,    \* the options of the run
          counted      \* history: per contact, what its last count was made of

vars == <<messages, contacts, mbox_source, in_pc, in_mbox, in_next, in_seen,
          in_batch, in_limit, in_own, counted>>

TypeOK ==
  /\ messages \in Seq(Messages) /\ \A i \in DOMAIN messages : messages[i].readable
  /\ contacts \in [DOMAIN contacts -> Nat \ {0}]
  /\ DOMAIN contacts \subseteq Addresses \ Synthetic
  /\ mbox_source \in Mboxes \cup {<<>>}
  /\ in_pc \in {"idle", "reading", "record", "derive"}
  /\ in_mbox \in Mboxes \cup {<<>>} /\ in_next \in 1 .. Len(in_mbox) + 1
  /\ in_seen \in 0 .. Len(in_mbox)
  /\ in_batch \in Seq(Messages) /\ Len(in_batch) < BatchSize
  /\ in_limit \in Limits \cup {NoLimit} /\ in_own \in OwnAddresses \cup {{}}
  /\ counted \in [DOMAIN contacts -> [own : SUBSET Addresses, rows : Nat]]

-----------------------------------------------------------------------------
(* The unique keys of the table.                                           *)

(* Mutant: identifiers only.                                               *)
NoDedupKey(m) == NULL

DedupKey(m) ==
  IF m.gmail_msgid = NULL /\ m.rfc_message_id = NULL THEN m.content ELSE NULL

Clash(x, y) == x # NULL /\ x = y
Duplicates(r, m) ==
  \/ Clash(r.gmail_msgid, m.gmail_msgid)
  \/ Clash(r.rfc_message_id, m.rfc_message_id)
  \/ Clash(DedupKey(r), DedupKey(m))

(* INSERT OR IGNORE                                                        *)
InsertOrIgnore(table, m) ==
  IF \E i \in DOMAIN table : Duplicates(table[i], m) THEN table ELSE Append(table, m)

(* The table after each of the rows of a batch.                            *)
Inserts(table, batch) ==
  LET after[n \in 0 .. Len(batch)] ==
        IF n = 0 THEN table ELSE InsertOrIgnore(after[n - 1], batch[n])
  IN  after

Commit(batch) == messages' = Inserts(messages, batch)[Len(batch)]

-----------------------------------------------------------------------------
Start(mbox, limit, own) ==
  /\ in_pc = "idle"
  /\ in_pc' = "reading" /\ in_mbox' = mbox /\ in_next' = 1 /\ in_seen' = 0
  /\ in_batch' = <<>> /\ in_limit' = limit /\ in_own' = own
  /\ UNCHANGED <<messages, contacts, mbox_source, counted>>

More == in_next <= Len(in_mbox) /\ (in_limit = NoLimit \/ in_seen < in_limit)

ReadUnreadable ==
  /\ in_pc = "reading" /\ More /\ ~in_mbox[in_next].readable
  /\ in_next' = in_next + 1
  /\ UNCHANGED <<messages, contacts, mbox_source, in_pc, in_mbox, in_seen, in_batch,
                 in_limit, in_own, counted>>

(* The batch that this message fills is committed.                         *)
Read ==
  /\ in_pc = "reading" /\ More /\ in_mbox[in_next].readable
  /\ LET batch == Append(in_batch, in_mbox[in_next]) IN
       IF Len(batch) >= BatchSize
       THEN Commit(batch) /\ in_batch' = <<>>
       ELSE in_batch' = batch /\ UNCHANGED messages
  /\ in_next' = in_next + 1 /\ in_seen' = in_seen + 1
  /\ UNCHANGED <<contacts, mbox_source, in_pc, in_mbox, in_limit, in_own, counted>>

(* Mutant: the last batch, not being full, is not written.                 *)
FinishUnflushed ==
  /\ in_pc = "reading" /\ ~More
  /\ in_batch' = <<>> /\ in_pc' = "record"
  /\ UNCHANGED <<messages, contacts, mbox_source, in_mbox, in_next, in_seen, in_limit,
                 in_own, counted>>

Finish ==
  /\ in_pc = "reading" /\ ~More
  /\ Commit(in_batch) /\ in_batch' = <<>> /\ in_pc' = "record"
  /\ UNCHANGED <<contacts, mbox_source, in_mbox, in_next, in_seen, in_limit, in_own,
                 counted>>

RecordSource ==
  /\ in_pc = "record"
  /\ mbox_source' = in_mbox
  /\ in_pc' = IF in_own = {} THEN "idle" ELSE "derive"
  /\ UNCHANGED <<messages, contacts, in_mbox, in_next, in_seen, in_batch, in_limit, in_own,
                 counted>>

-----------------------------------------------------------------------------
SentTo(a, own) ==
  {i \in DOMAIN messages : messages[i].from_addr \in own /\ a \in messages[i].to_all}

Correspondents(own) == {a \in Addresses \ (own \cup Synthetic) : SentTo(a, own) # {}}

(* Mutant: ON CONFLICT ... sent_count + excluded.sent_count                *)
UpsertedSum(own) ==
  [a \in DOMAIN contacts \cup Correspondents(own) |->
     (IF a \in DOMAIN contacts THEN contacts[a] ELSE 0)
     + (IF a \in Correspondents(own) THEN Cardinality(SentTo(a, own)) ELSE 0)]

(* Mutant: the table is rebuilt, forgetting who was known before.          *)
UpsertedAnew(own) == [a \in Correspondents(own) |-> Cardinality(SentTo(a, own))]

Upserted(own) ==
  [a \in DOMAIN contacts \cup Correspondents(own) |->
     IF a \in Correspondents(own) THEN Cardinality(SentTo(a, own)) ELSE contacts[a]]

DeriveContacts ==
  /\ in_pc = "derive"
  /\ contacts' = Upserted(in_own) /\ in_pc' = "idle"
  /\ counted' = [a \in DOMAIN contacts' |->
                   IF a \in Correspondents(in_own)
                   THEN [own |-> in_own, rows |-> Len(messages)] ELSE counted[a]]
  /\ UNCHANGED <<messages, mbox_source, in_mbox, in_next, in_seen, in_batch, in_limit, in_own>>

(* Ctrl-C, a crash, a busy database: what is not committed is gone.        *)
Stop ==
  /\ in_pc # "idle"
  /\ in_pc' = "idle" /\ in_batch' = <<>>
  /\ UNCHANGED <<messages, contacts, mbox_source, in_mbox, in_next, in_seen, in_limit, in_own,
                 counted>>

Init ==
  /\ messages = <<>> /\ contacts = [a \in {} |-> 0] /\ mbox_source = <<>>
  /\ in_pc = "idle" /\ in_mbox = <<>> /\ in_next = 1 /\ in_seen = 0
  /\ in_batch = <<>> /\ in_limit = NoLimit /\ in_own = {}
  /\ counted = [a \in {} |-> [own |-> {}, rows |-> 0]]

Running == ReadUnreadable \/ Read \/ Finish \/ RecordSource \/ DeriveContacts

Next ==
  \/ \E mbox \in Mboxes, limit \in Limits, own \in OwnAddresses : Start(mbox, limit, own)
  \/ Running
  \/ Stop

Spec == Init /\ [][Next]_vars

(* A run that is not stopped goes on, and each file is tried again in      *)
(* full, with each configuration.                                          *)
FairSpec ==
  /\ Spec /\ WF_vars(Running)
  /\ \A mbox \in Mboxes, own \in OwnAddresses : SF_vars(Start(mbox, NoLimit, own))

-----------------------------------------------------------------------------
(* What makes two parses the same message: a common identifier, or, when   *)
(* both lack identifiers, the same content.                                *)
Same(x, y) ==
  \/ x.gmail_msgid # NULL /\ x.gmail_msgid = y.gmail_msgid
  \/ x.rfc_message_id # NULL /\ x.rfc_message_id = y.rfc_message_id
  \/ /\ {x.gmail_msgid, x.rfc_message_id, y.gmail_msgid, y.rfc_message_id} = {NULL}
     /\ x.content = y.content

Stored(m) == \E i \in DOMAIN messages : Same(messages[i], m)
StoredUpTo(mbox, n) == \A i \in 1 .. n : mbox[i].readable => Stored(mbox[i])

(* A run misses no message that it has read, whatever its limit, once it   *)
(* has reached the end (store.py, insert_messages).                        *)
NothingIsMissed == in_pc \in {"record", "derive"} => StoredUpTo(in_mbox, in_next - 1)

(* Ingesting a file again adds nothing when all of it is there already,    *)
(* messages without any identifier included (store.py, _dedup_key).        *)
RerunAddsNothing ==
  [][StoredUpTo(in_mbox, Len(in_mbox)) => messages' = messages]_vars

(* A contact's count is the number of messages from an own address to it,  *)
(* among those in the table when it was last counted and for the addresses *)
(* configured then.  However often contacts are derived and files are      *)
(* ingested, none of these is stored, and so counted, twice (contacts.py,  *)
(* derive_contacts; store.py, insert_messages).                            *)
CountedFor(a) ==
  {i \in 1 .. counted[a].rows :
     messages[i].from_addr \in counted[a].own /\ a \in messages[i].to_all}

SentCountIsHonest ==
  \A a \in DOMAIN contacts :
    /\ contacts[a] = Cardinality(CountedFor(a))
    /\ \A i, j \in CountedFor(a) : Same(messages[i], messages[j]) => i = j

(* Stopped before the end.                                                 *)
CutShort == Stop /\ ~RecordSource /\ ~DeriveContacts

(* Once runs are no longer cut short, everything readable is stored and    *)
(* everyone the owner wrote to is a known contact (cli.py, ingest).        *)
AllArrives ==
  <>[][~CutShort]_vars =>
    <>[](\A mbox \in Mboxes :
           /\ StoredUpTo(mbox, Len(mbox))
           /\ \A own \in OwnAddresses : Correspondents(own) \subseteq DOMAIN contacts)
=============================================================================
