------------------------------ MODULE Reconcile ------------------------------
(***************************************************************************)
(* gmail/reconcile.py: one call of reconcile_chunk, which finds out for    *)
(* each record of a chunk which live Gmail message it is, if any.          *)
(*                                                                         *)
(* The chunk is searched record by record; the metadata of all candidates  *)
(* is then fetched in a single batched request, and compared.  Meanwhile   *)
(* the owner of the mailbox goes on moving and deleting mail.              *)
(*                                                                         *)
(* Searching is external and inexact: it finds what resembles the query.   *)
(* Message-IDs are taken up to case, which is how they are compared.       *)
(***************************************************************************)
EXTENDS Integers, FiniteSets

CONSTANTS Rows,        \* the ids of the chunk's rows, in order
          Mails,       \* the messages that are, or were, in Gmail
          Envelopes,   \* the headers that records and messages may have
          Resembles,   \* <<x, y>>: a search for the name x also finds y
          DateWindow   \* _METADATA_DATE_WINDOW

NULL == "null"
NoDate == -1
Places == {"visible", "trash", "gone"}    \* a search looks at visible mail only

ASSUME RowsAssumption == Rows \subseteq Nat /\ IsFiniteSet(Rows)
ASSUME MailsAssumption == IsFiniteSet(Mails)
ASSUME WindowAssumption == DateWindow \in Nat
ASSUME EnvelopesAssumption ==
  \A e \in Envelopes : /\ DOMAIN e = {"msgid", "from", "subject", "date"}
                       /\ e.date \in Nat \cup {NoDate}

VARIABLES record,   \* per row, the envelope ingest stored
          live,     \* per Gmail message, its envelope; never changes
          place,    \* per Gmail message, where it is
          found,    \* per row, what its search came to
          out,      \* per row, what reconcile_chunk returns for it
          failed,   \* rows one of whose requests has failed
          answers,  \* per row, what reconcile_message would have returned so far
          moved     \* has the owner changed the mailbox during the call?

vars == <<record, live, place, found, out, failed, answers, moved>>

Unknown == [kind |-> "unknown", mail |-> NULL]
Unconfirmed == [kind |-> "unconfirmed", mail |-> NULL]
Error == [kind |-> "error", mail |-> NULL]
Candidate(x) == [kind |-> "candidate", mail |-> x]
ConfirmedAs(x) == [kind |-> "confirmed", mail |-> x]

TypeOK ==
  /\ record \in [Rows -> Envelopes] /\ live \in [Mails -> Envelopes]
  /\ place \in [Mails -> Places]
  /\ found \in [Rows -> {Unknown, Unconfirmed, Error} \cup {Candidate(x) : x \in Mails}]
  /\ out \in [Rows -> {Unknown, Unconfirmed, Error} \cup {ConfirmedAs(x) : x \in Mails}]
  /\ failed \subseteq Rows /\ moved \in BOOLEAN
  /\ answers \in [Rows -> SUBSET ({Unconfirmed} \cup {ConfirmedAs(x) : x \in Mails})]

-----------------------------------------------------------------------------
(* Searching.                                                              *)

Like(x, y) == x # NULL /\ y # NULL /\ (x = y \/ <<x, y>> \in Resembles)

(* rfc822msgid:, or from: subject: after: before: within the window.       *)
Finds(r, e) ==
  IF r.msgid # NULL
  THEN Like(r.msgid, e.msgid)
  ELSE /\ Like(r.from, e.from) /\ Like(r.subject, e.subject)
       /\ e.date > r.date - DateWindow /\ e.date < r.date + DateWindow

SearchHits(r) == {x \in Mails : place[x] = "visible" /\ Finds(r, live[x])}

Searchable(r) ==
  r.msgid # NULL \/ (r.from # NULL /\ r.subject # NULL /\ r.date # NoDate)

(* _search and _confirmed_unique: anything but one match is decided here.  *)
Search(r) ==
  IF Searchable(r) /\ Cardinality(SearchHits(r)) = 1
  THEN Candidate(CHOOSE x \in SearchHits(r) : TRUE) ELSE Unconfirmed

-----------------------------------------------------------------------------
(* Confirming.                                                             *)

FromMatches(r, e) == r.from # NULL /\ r.from = e.from

(* Mutant: a Message-ID that matches is enough.                            *)
ConfirmsByIdAlone(r, e) ==
  IF r.msgid # NULL THEN r.msgid = e.msgid
  ELSE FromMatches(r, e) /\ r.subject = e.subject

Confirms(r, e) ==
  /\ FromMatches(r, e)
  /\ IF r.msgid # NULL THEN r.msgid = e.msgid ELSE r.subject = e.subject

Confirm(r, x) == IF Confirms(r, live[x]) THEN ConfirmedAs(x) ELSE Unconfirmed

(* reconcile_message: one record at one moment, when nothing fails.        *)
ReconcileMessage(r) ==
  LET s == Search(r) IN IF s.kind = "candidate" THEN Confirm(r, s.mail) ELSE s

(* Mutant: a request that failed has no headers, so nothing is confirmed.  *)
OutcomeOfHeaders(i, erred) ==
  IF found[i].kind = "candidate"
  THEN IF i \in erred THEN Unconfirmed ELSE Confirm(record[i], found[i].mail)
  ELSE found[i]

(* Mutant: the answers of the batch are matched to rows by position.       *)
OutcomeByPosition(i, erred) ==
  IF found[i].kind = "candidate"
  THEN IF i \in erred THEN Error
       ELSE Confirm(record[i], (CHOOSE s \in {found[j] : j \in Rows} :
                                  s.kind = "candidate").mail)
  ELSE found[i]

(* Phase 3.                                                                *)
Outcome(i, erred) ==
  IF found[i].kind = "candidate"
  THEN IF i \in erred THEN Error ELSE Confirm(record[i], found[i].mail)
  ELSE found[i]

-----------------------------------------------------------------------------
Init ==
  /\ record \in [Rows -> Envelopes]
  /\ live \in [Mails -> {e \in Envelopes : e.date # NoDate}]
  /\ place \in [Mails -> {"visible", "trash"}]
  /\ found = [i \in Rows |-> Unknown] /\ out = [i \in Rows |-> Unknown]
  /\ failed = {} /\ moved = FALSE
  /\ answers = [i \in Rows |-> {ReconcileMessage(record[i])}]

Witnessed == answers' = [i \in Rows |-> answers[i] \cup {ReconcileMessage(record[i])'}]

(* Phase 1: search the next row, or fail to.                               *)
SearchNext(i) ==
  /\ found[i] = Unknown
  /\ \A j \in Rows : j < i => found[j] # Unknown
  /\ \/ found' = [found EXCEPT ![i] = Search(record[i])] /\ UNCHANGED failed
     \/ found' = [found EXCEPT ![i] = Error] /\ failed' = failed \cup {i}
  /\ UNCHANGED <<record, live, place, out, answers, moved>>

Pending == {i \in Rows : found[i].kind = "candidate"}

(* Phases 2 and 3.  A request of the batch fails for a message that is     *)
(* gone and may fail for any other; the batch may fail as a whole.         *)
FetchAndConfirm ==
  /\ \A i \in Rows : found[i] # Unknown /\ out[i] = Unknown
  /\ \E erred \in SUBSET Pending :
       /\ {i \in Pending : place[found[i].mail] = "gone"} \subseteq erred
       /\ out' = [i \in Rows |-> Outcome(i, erred)]
       /\ failed' = failed \cup erred
  /\ UNCHANGED <<record, live, place, found, answers, moved>>

OwnerMoves(x) ==
  /\ place[x] # "gone"
  /\ \E p \in Places \ {place[x]} : place' = [place EXCEPT ![x] = p]
  /\ \E i \in Rows : out[i] = Unknown
  /\ moved' = TRUE
  /\ UNCHANGED <<record, live, found, out, failed>>
  /\ Witnessed

Next ==
  \/ \E i \in Rows : SearchNext(i)
  \/ FetchAndConfirm
  \/ \E x \in Mails : OwnerMoves(x)

Spec == Init /\ [][Next]_vars

-----------------------------------------------------------------------------
(* What a row is confirmed as is its record: no look-alike sender, and no  *)
(* message that the search threw in, is ever acted on; and in a mailbox    *)
(* that nobody changes meanwhile, nothing else in sight could have been    *)
(* meant (reconcile.py, _from_matches, "substring matching would confirm   *)
(* look-alike senders"; "ambiguous: multiple live matches").               *)
ConfirmedIsTheRecord ==
  \A i \in Rows : out[i] # Unknown /\ out[i].kind = "confirmed" =>
    LET r == record[i]  e == live[out[i].mail] IN
      /\ r.from = e.from
      /\ r.msgid # NULL => r.msgid = e.msgid
      /\ r.msgid = NULL =>
           r.subject = e.subject /\ e.date - r.date \in -DateWindow .. DateWindow
      /\ ~moved => \A x \in Mails :
           place[x] = "visible" /\ Finds(r, live[x]) => x = out[i].mail

(* A failure is never a silent skip, and never more than an error of the   *)
(* rows it hit (reconcile.py, reconcile_chunk, "surfaces as the error so   *)
(* the runner records a re-runnable error, never a silent skip").          *)
FailuresSurface ==
  \A i \in Rows : out[i] # Unknown => (out[i] = Error <=> i \in failed)

(* Batching and the owner's moves make no difference to the answers: what  *)
(* a row that did not fail gets is what reconciling it alone would have    *)
(* returned at some moment of the call.                                    *)
AnswersAreOfOneMoment ==
  \A i \in Rows : out[i] # Unknown /\ out[i] # Error => out[i] \in answers[i]
=============================================================================
