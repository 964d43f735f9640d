-------------------------- MODULE ReconcileProofs --------------------------
(***************************************************************************)
(* Proofs about Reconcile for any chunk, any mailbox, any headers and any  *)
(* way in which a search may be inexact.                                   *)
(*                                                                         *)
(* The invariant ties what a search came to, which is only a name by the   *)
(* time it is used, to the moment it was found at.                         *)
(***************************************************************************)
EXTENDS Reconcile, FiniteSetTheorems, TLAPS

(* What is known of row i from its search.                                 *)
FoundIsSound(i) ==
  \/ found[i] = Unknown /\ i \notin failed /\ out[i] = Unknown
  \/ found[i] = Error /\ i \in failed
  \/ found[i] = Unconfirmed /\ i \notin failed /\ Unconfirmed \in answers[i]
  \/ \E x \in Mails :
       /\ found[i] = Candidate(x)
       /\ Finds(record[i], live[x]) /\ Searchable(record[i])
       /\ Confirm(record[i], x) \in answers[i]
       /\ ~moved => SearchHits(record[i]) = {x}
       /\ out[i] = Unknown => i \notin failed

(* What is returned for it is what was found, compared, or an error.       *)
OutIsSound(i) ==
  \/ out[i] = Unknown
  \/ out[i] = Error /\ i \in failed
  \/ out[i] = Unconfirmed /\ i \notin failed /\ Unconfirmed \in answers[i]
  \/ \E x \in Mails :
       /\ out[i] = ConfirmedAs(x) /\ out[i] \in answers[i] /\ i \notin failed
       /\ found[i] = Candidate(x) /\ Confirms(record[i], live[x])

RInv ==
  /\ record \in [Rows -> Envelopes]
  /\ live \in [Mails -> {e \in Envelopes : e.date # NoDate}]
  /\ place \in [Mails -> Places] /\ failed \subseteq Rows
  /\ found \in [Rows -> {Unknown, Unconfirmed, Error} \cup {Candidate(x) : x \in Mails}]
  /\ out \in [Rows -> {Unknown, Unconfirmed, Error} \cup {ConfirmedAs(x) : x \in Mails}]
  /\ answers \in [Rows -> SUBSET ({Unconfirmed} \cup {ConfirmedAs(x) : x \in Mails})]
  /\ moved \in BOOLEAN
  /\ \A i \in Rows : ReconcileMessage(record[i]) \in answers[i]
  /\ \A i \in Rows : FoundIsSound(i) /\ OutIsSound(i)

-----------------------------------------------------------------------------
(* Kinds of results are told apart.                                        *)
LEMMA KindsDiffer ==
  /\ Unknown # Unconfirmed /\ Unknown # Error /\ Unconfirmed # Error
  /\ \A x : /\ Candidate(x) \notin {Unknown, Unconfirmed, Error}
            /\ ConfirmedAs(x) \notin {Unknown, Unconfirmed, Error}
  /\ \A x, y : Candidate(x) # ConfirmedAs(y)
  /\ \A x, y : (Candidate(x) = Candidate(y) => x = y) /\ (ConfirmedAs(x) = ConfirmedAs(y) => x = y)
  BY DEF Unknown, Unconfirmed, Error, Candidate, ConfirmedAs

(* An only match is the one that is chosen.                                *)
LEMMA OnlyMatch ==
  ASSUME NEW H \in SUBSET Mails, Cardinality(H) = 1
  PROVE  \E x \in Mails : H = {x} /\ (CHOOSE y \in H : TRUE) = x
<1>1. IsFiniteSet(H)
  BY MailsAssumption, FS_Subset
<1>2. PICK x : H = {x}
  BY <1>1, FS_Singleton
<1> QED
  BY <1>2

(* A search comes to nothing, or to its only match.                        *)
LEMMA SearchIsUnique ==
  ASSUME NEW r
  PROVE  \/ Search(r) = Unconfirmed
         \/ \E x \in Mails : Search(r) = Candidate(x) /\ SearchHits(r) = {x} /\ Searchable(r)
<1>1. SearchHits(r) \in SUBSET Mails
  BY DEF SearchHits
<1> QED
  BY <1>1, OnlyMatch DEF Search

(* What reconciling one record comes to is an answer.                      *)
LEMMA MessageIsAnswered ==
  ASSUME NEW r
  PROVE  /\ ReconcileMessage(r) \in {Unconfirmed} \cup {ConfirmedAs(x) : x \in Mails}
         /\ Search(r) = Unconfirmed => ReconcileMessage(r) = Unconfirmed
         /\ \A x \in Mails : Search(r) = Candidate(x) => ReconcileMessage(r) = Confirm(r, x)
<1>1. Unconfirmed.kind = "unconfirmed"
  BY DEF Unconfirmed
<1>2. \A x : Candidate(x).kind = "candidate" /\ Candidate(x).mail = x
  BY DEF Candidate
<1>3. \A x \in Mails : Confirm(r, x) \in {Unconfirmed, ConfirmedAs(x)}
  BY DEF Confirm
<1>4. CASE Search(r) = Unconfirmed
  BY <1>1, <1>4, KindsDiffer DEF ReconcileMessage
<1>5. ASSUME NEW x \in Mails, Search(r) = Candidate(x)
      PROVE  ReconcileMessage(r) = Confirm(r, x)
  BY <1>2, <1>5 DEF ReconcileMessage
<1> QED
  BY <1>3, <1>4, <1>5, SearchIsUnique, KindsDiffer

-----------------------------------------------------------------------------
(* The steps.                                                              *)

(* A chunk whose search has not begun.                                     *)
LEMMA InitIsSound == Init => RInv
<1> SUFFICES ASSUME Init PROVE RInv
  OBVIOUS
<1>1. answers \in [Rows -> SUBSET ({Unconfirmed} \cup {ConfirmedAs(x) : x \in Mails})]
  BY MessageIsAnswered DEF Init
<1>2. \A i \in Rows : ReconcileMessage(record[i]) \in answers[i]
  BY DEF Init
<1>3. \A i \in Rows : FoundIsSound(i) /\ OutIsSound(i)
  BY DEF Init, FoundIsSound, OutIsSound
<1> QED
  BY <1>1, <1>2, <1>3 DEF Init, RInv, Places

(* What is known of a row stays known when its answers only grow, and when *)
(* the mailbox is noted to have moved if it has.                           *)
LEMMA SoundStays ==
  ASSUME RInv, NEW j \in Rows, FoundIsSound(j), OutIsSound(j),
         UNCHANGED <<record, live>>, found'[j] = found[j], out'[j] = out[j],
         (j \in failed') <=> (j \in failed), answers[j] \subseteq answers'[j],
         moved => moved', ~moved' => place' = place
  PROVE  FoundIsSound(j)' /\ OutIsSound(j)'
<1>1. OutIsSound(j)'
  BY DEF OutIsSound
<1>2. ASSUME NEW x \in Mails, found[j] = Candidate(x),
             Finds(record[j], live[x]), Searchable(record[j]),
             Confirm(record[j], x) \in answers[j],
             ~moved => SearchHits(record[j]) = {x},
             out[j] = Unknown => j \notin failed
      PROVE  FoundIsSound(j)'
  <2>1. Finds(record[j], live[x])' /\ Searchable(record[j])'
    BY <1>2
  <2>2. Confirm(record[j], x)' \in answers'[j]
    <3>1. Confirm(record[j], x)' = Confirm(record[j], x)
      BY DEF Confirm
    <3> QED
      BY <1>2, <3>1
  <2>3. (~moved => SearchHits(record[j]) = {x})'
    <3>1. SUFFICES ASSUME ~moved' PROVE SearchHits(record[j])' = {x}
      OBVIOUS
    <3>2. SearchHits(record[j])' = SearchHits(record[j])
      BY <3>1 DEF SearchHits
    <3> QED
      BY <1>2, <3>1, <3>2
  <2> QED
    BY <1>2, <2>1, <2>2, <2>3 DEF FoundIsSound
<1>3. CASE \/ found[j] = Unknown /\ j \notin failed /\ out[j] = Unknown
           \/ found[j] = Error /\ j \in failed
           \/ found[j] = Unconfirmed /\ j \notin failed /\ Unconfirmed \in answers[j]
  BY <1>1, <1>3 DEF FoundIsSound
<1>4. \/ found[j] = Unknown /\ j \notin failed /\ out[j] = Unknown
      \/ found[j] = Error /\ j \in failed
      \/ found[j] = Unconfirmed /\ j \notin failed /\ Unconfirmed \in answers[j]
      \/ \E x \in Mails :
           /\ found[j] = Candidate(x)
           /\ Finds(record[j], live[x]) /\ Searchable(record[j])
           /\ Confirm(record[j], x) \in answers[j]
           /\ ~moved => SearchHits(record[j]) = {x}
           /\ out[j] = Unknown => j \notin failed
  BY DEF FoundIsSound
<1> QED
  BY <1>1, <1>2, <1>3, <1>4

(* The search for one record: what it finds is there at that moment.       *)
LEMMA SearchKeeps ==
  ASSUME RInv, NEW i \in Rows, SearchNext(i)
  PROVE  RInv'
<1>1. UNCHANGED <<record, live, place, out, answers, moved>> /\ found[i] = Unknown
  BY DEF SearchNext
<1>2. out[i] = Unknown /\ i \notin failed
  BY <1>1, KindsDiffer DEF RInv, FoundIsSound
<1>3. \A j \in Rows : ReconcileMessage(record[j])' = ReconcileMessage(record[j])
  BY <1>1 DEF ReconcileMessage, Search, SearchHits, Confirm
<1>4. OutIsSound(i)'
  BY <1>1, <1>2 DEF OutIsSound
<1>5. CASE found' = [found EXCEPT ![i] = Search(record[i])] /\ UNCHANGED failed
  <2>1. found'[i] = Search(record[i]) /\ \A j \in Rows \ {i} : found'[j] = found[j]
    BY <1>5 DEF RInv
  <2>2. FoundIsSound(i)'
    <3>1. CASE Search(record[i]) = Unconfirmed
      <4>1. Unconfirmed \in answers[i]
        BY <3>1, MessageIsAnswered DEF RInv
      <4> QED
        BY <1>1, <1>2, <1>5, <2>1, <3>1, <4>1 DEF FoundIsSound
    <3>2. ASSUME NEW x \in Mails, Search(record[i]) = Candidate(x),
                 SearchHits(record[i]) = {x}, Searchable(record[i])
          PROVE  FoundIsSound(i)'
      <4>1. Confirm(record[i], x) \in answers[i]
        BY <3>2, MessageIsAnswered DEF RInv
      <4>2. Finds(record[i], live[x])
        BY <3>2 DEF SearchHits
      <4>3. Finds(record[i], live[x])' /\ Searchable(record[i])'
        BY <1>1, <3>2, <4>2
      <4>4. /\ Confirm(record[i], x)' = Confirm(record[i], x)
            /\ SearchHits(record[i])' = SearchHits(record[i])
        BY <1>1 DEF Confirm, SearchHits
      <4> QED
        BY <1>1, <1>2, <1>5, <2>1, <3>2, <4>1, <4>3, <4>4 DEF FoundIsSound
    <3> QED
      BY <3>1, <3>2, SearchIsUnique
  <2>3. ASSUME NEW j \in Rows, j # i PROVE FoundIsSound(j)' /\ OutIsSound(j)'
    BY <1>1, <1>5, <2>1, <2>3, SoundStays DEF RInv
  <2>4. found' \in [Rows -> {Unknown, Unconfirmed, Error} \cup {Candidate(x) : x \in Mails}]
    BY <1>5, SearchIsUnique DEF RInv
  <2> QED
    BY <1>1, <1>3, <1>4, <1>5, <2>2, <2>3, <2>4 DEF RInv
<1>6. CASE found' = [found EXCEPT ![i] = Error] /\ failed' = failed \cup {i}
  <2>1. found'[i] = Error /\ \A j \in Rows \ {i} : found'[j] = found[j]
    BY <1>6 DEF RInv
  <2>2. FoundIsSound(i)'
    BY <1>6, <2>1 DEF FoundIsSound
  <2>3. ASSUME NEW j \in Rows, j # i PROVE FoundIsSound(j)' /\ OutIsSound(j)'
    BY <1>1, <1>6, <2>1, <2>3, SoundStays DEF RInv
  <2>4. found' \in [Rows -> {Unknown, Unconfirmed, Error} \cup {Candidate(x) : x \in Mails}]
    BY <1>6 DEF RInv
  <2> QED
    BY <1>1, <1>3, <1>4, <1>6, <2>2, <2>3, <2>4 DEF RInv
<1> QED
  BY <1>5, <1>6 DEF SearchNext

(* What each row is given is what its search found, as it was then.        *)
LEMMA FetchKeeps ==
  ASSUME RInv, FetchAndConfirm
  PROVE  RInv'
<1>1. /\ UNCHANGED <<record, live, place, found, answers, moved>>
      /\ \A i \in Rows : found[i] # Unknown /\ out[i] = Unknown
  BY DEF FetchAndConfirm
<1>2. PICK erred \in SUBSET Pending :
        /\ out' = [i \in Rows |-> Outcome(i, erred)]
        /\ failed' = failed \cup erred
  BY DEF FetchAndConfirm
<1>3. \A i \in Rows : ReconcileMessage(record[i])' = ReconcileMessage(record[i])
  BY <1>1 DEF ReconcileMessage, Search, SearchHits, Confirm
<1>4. erred \subseteq Rows
  BY DEF Pending
<1>5. ASSUME NEW i \in Rows
      PROVE  /\ FoundIsSound(i)' /\ OutIsSound(i)'
             /\ out'[i] \in {Unknown, Unconfirmed, Error} \cup {ConfirmedAs(x) : x \in Mails}
  <2>1. out'[i] = Outcome(i, erred)
    BY <1>2
  <2>2. CASE \/ found[i] = Error /\ i \in failed
             \/ found[i] = Unconfirmed /\ i \notin failed /\ Unconfirmed \in answers[i]
    <3>1. found[i].kind # "candidate"
      BY <2>2 DEF Error, Unconfirmed
    <3>2. out'[i] = found[i] /\ (i \in failed' <=> i \in failed)
      BY <1>2, <2>1, <3>1 DEF Outcome, Pending
    <3> QED
      BY <1>1, <2>2, <3>2 DEF FoundIsSound, OutIsSound
  <2>3. ASSUME NEW x \in Mails, found[i] = Candidate(x),
               Finds(record[i], live[x]), Searchable(record[i]),
               Confirm(record[i], x) \in answers[i],
               ~moved => SearchHits(record[i]) = {x},
               i \notin failed
        PROVE  /\ FoundIsSound(i)' /\ OutIsSound(i)'
               /\ out'[i] \in {Unknown, Unconfirmed, Error}
                              \cup {ConfirmedAs(y) : y \in Mails}
    <3>1. out'[i] = IF i \in erred THEN Error ELSE Confirm(record[i], x)
      BY <2>1, <2>3 DEF Outcome, Candidate
    <3>2. i \in failed' <=> i \in erred
      BY <1>2, <2>3
    <3>3. Confirm(record[i], x) \in {Unconfirmed, ConfirmedAs(x)}
      BY DEF Confirm
    <3>4. Confirm(record[i], x) = ConfirmedAs(x) => Confirms(record[i], live[x])
      BY KindsDiffer DEF Confirm
    <3>5. out'[i] # Unknown
      BY <3>1, <3>3, KindsDiffer
    <3>6. /\ Confirm(record[i], x)' = Confirm(record[i], x)
          /\ SearchHits(record[i])' = SearchHits(record[i])
      BY <1>1 DEF Confirm, SearchHits
    <3>7. Finds(record[i], live[x])' /\ Searchable(record[i])'
      BY <1>1, <2>3
    <3>8. FoundIsSound(i)'
      BY <1>1, <2>3, <3>5, <3>6, <3>7 DEF FoundIsSound
    <3>9. Confirms(record[i], live[x])' <=> Confirms(record[i], live[x])
      BY <1>1
    <3>10. OutIsSound(i)'
      BY <1>1, <2>3, <3>1, <3>2, <3>3, <3>4, <3>9 DEF OutIsSound
    <3> QED
      BY <3>1, <3>3, <3>8, <3>10
  <2> QED
    BY <1>1, <2>2, <2>3 DEF RInv, FoundIsSound
<1>6. out' \in [Rows -> {Unknown, Unconfirmed, Error} \cup {ConfirmedAs(x) : x \in Mails}]
  BY <1>2, <1>5
<1> QED
  BY <1>1, <1>2, <1>3, <1>4, <1>5, <1>6 DEF RInv

(* The same after a step, whatever the mailbox is then.                    *)
LEMMA MessageIsAnsweredLater ==
  ASSUME NEW r
  PROVE  ReconcileMessage(r)' \in {Unconfirmed} \cup {ConfirmedAs(x) : x \in Mails}
<1>1. SearchHits(r)' \in SUBSET Mails
  BY DEF SearchHits
<1>2. \/ Search(r)' = Unconfirmed
      \/ \E x \in Mails : Search(r)' = Candidate(x)
  BY <1>1, OnlyMatch DEF Search
<1>3. \A x \in Mails : Confirm(r, x)' \in {Unconfirmed, ConfirmedAs(x)}
  BY DEF Confirm
<1>4. CASE Search(r)' = Unconfirmed
  BY <1>4 DEF ReconcileMessage, Unconfirmed
<1>5. ASSUME NEW x \in Mails, Search(r)' = Candidate(x)
      PROVE  ReconcileMessage(r)' = Confirm(r, x)'
  BY <1>5 DEF ReconcileMessage, Candidate
<1> QED
  BY <1>2, <1>3, <1>4, <1>5

(* The owner moves or deletes a message: what was found is not unfound.    *)
LEMMA MovesKeep ==
  ASSUME RInv, NEW x \in Mails, OwnerMoves(x)
  PROVE  RInv'
<1>1. UNCHANGED <<record, live, found, out, failed>> /\ moved' = TRUE
  BY DEF OwnerMoves
<1>2. place' \in [Mails -> Places]
  BY DEF OwnerMoves, RInv
<1>3. answers' = [i \in Rows |-> answers[i] \cup {ReconcileMessage(record[i])'}]
  BY DEF OwnerMoves, Witnessed
<1>4. ASSUME NEW i \in Rows
      PROVE  ReconcileMessage(record[i])' \in {Unconfirmed} \cup {ConfirmedAs(y) : y \in Mails}
  BY MessageIsAnsweredLater
<1>5. \A i \in Rows : FoundIsSound(i)' /\ OutIsSound(i)'
  BY <1>1, <1>3, SoundStays DEF RInv
<1>6. answers' \in [Rows -> SUBSET ({Unconfirmed} \cup {ConfirmedAs(y) : y \in Mails})]
  BY <1>3, <1>4 DEF RInv
<1> QED
  BY <1>1, <1>2, <1>3, <1>5, <1>6 DEF RInv

(* The invariant.                                                          *)
THEOREM ChunkIsSound == Spec => []RInv
<1>1. RInv /\ [Next]_vars => RInv'
  <2> SUFFICES ASSUME RInv, [Next]_vars PROVE RInv'
    OBVIOUS
  <2>1. CASE UNCHANGED vars
    <3>1. \A i \in Rows : FoundIsSound(i)' /\ OutIsSound(i)'
      BY <2>1, SoundStays DEF RInv, vars
    <3>2. \A i \in Rows : ReconcileMessage(record[i])' = ReconcileMessage(record[i])
      BY <2>1 DEF vars, ReconcileMessage, Search, SearchHits, Confirm
    <3> QED
      BY <2>1, <3>1, <3>2 DEF RInv, vars
  <2> QED
    BY <2>1, SearchKeeps, FetchKeeps, MovesKeep DEF Next
<1> QED
  BY <1>1, InitIsSound, PTL DEF Spec

-----------------------------------------------------------------------------
(* The properties.                                                         *)

(* ConfirmedIsTheRecord: what is confirmed is the record of the row, and   *)
(* the only thing in sight that could be, unless the owner has intervened. *)
THEOREM OnlyTheRecord == Spec => []ConfirmedIsTheRecord
<1>1. RInv => ConfirmedIsTheRecord
  <2> SUFFICES ASSUME RInv, NEW i \in Rows, out[i].kind = "confirmed",
                      NEW x \in Mails, out[i] = ConfirmedAs(x), found[i] = Candidate(x),
                      Confirms(record[i], live[x])
               PROVE  LET r == record[i]  e == live[out[i].mail] IN
                        /\ r.from = e.from
                        /\ r.msgid # NULL => r.msgid = e.msgid
                        /\ r.msgid = NULL => /\ r.subject = e.subject
                                             /\ e.date - r.date \in -DateWindow .. DateWindow
                        /\ ~moved => \A y \in Mails :
                             place[y] = "visible" /\ Finds(r, live[y]) => y = out[i].mail
    BY DEF ConfirmedIsTheRecord, RInv, OutIsSound, Unknown, Error, Unconfirmed, ConfirmedAs
  <2>1. out[i].mail = x
    BY DEF ConfirmedAs
  <2>2. /\ Finds(record[i], live[x]) /\ Searchable(record[i])
        /\ ~moved => SearchHits(record[i]) = {x}
    BY KindsDiffer DEF RInv, FoundIsSound
  <2>3. record[i].from = live[x].from /\ (record[i].msgid # NULL => record[i].msgid = live[x].msgid)
    BY DEF Confirms, FromMatches
  <2>4. ASSUME record[i].msgid = NULL
        PROVE  /\ record[i].subject = live[x].subject
               /\ live[x].date - record[i].date \in -DateWindow .. DateWindow
    <3>1. record[i].date \in Int /\ live[x].date \in Int /\ DateWindow \in Int
      BY EnvelopesAssumption, WindowAssumption DEF RInv, NoDate
    <3> QED
      BY <2>2, <2>4, <3>1 DEF Finds, Confirms
  <2>5. ~moved => \A y \in Mails :
          place[y] = "visible" /\ Finds(record[i], live[y]) => y = x
    BY <2>2 DEF SearchHits
  <2> QED
    BY <2>1, <2>3, <2>4, <2>5
<1> QED
  BY <1>1, ChunkIsSound, PTL

(* FailuresSurface: a row is an error exactly if a request of it failed.   *)
THEOREM NoSilentSkip == Spec => []FailuresSurface
<1>1. RInv => FailuresSurface
  BY KindsDiffer DEF RInv, OutIsSound, FailuresSurface
<1> QED
  BY <1>1, ChunkIsSound, PTL

(* AnswersAreOfOneMoment: batching changes no answer.                      *)
THEOREM BatchingIsHarmless == Spec => []AnswersAreOfOneMoment
<1>1. RInv => AnswersAreOfOneMoment
  BY KindsDiffer DEF RInv, OutIsSound, AnswersAreOfOneMoment
<1> QED
  BY <1>1, ChunkIsSound, PTL
=============================================================================
