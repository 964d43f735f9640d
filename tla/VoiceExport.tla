----------------------------- MODULE VoiceExport -----------------------------
(***************************************************************************)
(* email-cleaner voice-export (voice_export.py, ingest/voice.py): backing  *)
(* up the Google Voice messages of the table to files, with the            *)
(* attachments, which ingest does not keep, read again from the source     *)
(* mbox.  Beside it, ingest may be running.                                *)
(*                                                                         *)
(* The rows are read once.  Then, unless attachments are not wanted, the   *)
(* mbox is resolved and scanned, and each file is rewritten in full; a     *)
(* crash may tear the one that is being written.  A file name is the       *)
(* sequence of its pieces, so that "ann-2" is a name as well as what the   *)
(* second "ann" is called.                                                 *)
(***************************************************************************)
EXTENDS Ingest

CONSTANTS VoiceOf,      \* the columns parse_message reads, by the message's content
          Texts,        \* contact labels, sender names and local parts: see TextInfo
          Overrides,    \* values of --mbox; <<>> when it is not given
          Underscore,   \* the piece between a name and a number
          Ordinals,     \* "-2", "-3", ...
          MaxExports    \* bound: how often the command is run

Labels == {"sms", "voicemail", "call log"}
Kinds == {"sms", "voicemail", "call"}
Names == Seq(STRING)                 \* a piece of a file name, <<>> for None

(* key is the text in lower case, slug what _safe_filename makes of it,    *)
(* digits what normalize_number makes of it, and numeric whether it is a   *)
(* number and nothing else.                                                *)
TextInfo == [key : STRING, slug : Names, digits : Names, numeric : BOOLEAN]

Keys == {Texts[text].key : text \in DOMAIN Texts}

(* There is always an ordinal left: they stand for all numbers.  subject   *)
(* is the contact of a subject like "SMS with X"; synthetic says whether   *)
(* the sender has the domain of the converter, as the other party of a     *)
(* conversation does.                                                      *)
ASSUME VoiceAssumption ==
  /\ DOMAIN Texts \subseteq STRING /\ "unknown" \in DOMAIN Texts
  /\ IsFiniteSet(DOMAIN Texts) /\ \A text \in DOMAIN Texts : Texts[text] \in TextInfo
  /\ Underscore \in Names /\ Ordinals \in Seq(STRING) /\ Cardinality(Keys) <= Len(Ordinals)
  /\ \A n, k \in DOMAIN Ordinals : Ordinals[n] = Ordinals[k] => n = k
  /\ Overrides \subseteq Mboxes \cup {<<>>} /\ MaxExports \in Nat
  /\ \A mbox \in Mboxes : \A i \in DOMAIN mbox : mbox[i].content \in DOMAIN VoiceOf
  /\ \A c \in DOMAIN VoiceOf :
       VoiceOf[c] \in [labels : SUBSET Labels, date : Nat,
                      synthetic : BOOLEAN, attachments : BOOLEAN,
                      subject : DOMAIN Texts \cup {NULL},
                      from_name : DOMAIN Texts \cup {NULL},
                      local : DOMAIN Texts \cup {NULL}]

VARIABLES vx_runs,       \* how often it has been run
          vx_pc,         \* "idle", "resolve", "scan", or what is being written
          vx_rows,       \* how many messages the table held when it was read
          vx_stems,      \* contact key |-> the name of its files
          vx_override,   \* the --mbox given
          vx_mbox,       \* the file to scan, or <<>>
          vx_next,       \* the next message of it to look at
          vx_recovered,  \* the messages whose attachments it has saved
          vx_contacts,   \* the SMS contacts whose transcripts are not written
          disk,          \* path |-> the records in that file
          saved          \* path |-> the Message-ID of the attachments stored there

runVars == <<vx_runs, vx_pc, vx_rows, vx_stems, vx_override, vx_mbox, vx_next, vx_recovered,
             vx_contacts>>
allVars == <<vars, runVars, disk, saved>>

-----------------------------------------------------------------------------
WriteAll(f, X, y) == [z \in DOMAIN f \cup X |-> IF z \in X THEN y ELSE f[z]]
Write(f, x, y) == WriteAll(f, {x}, y)

(* parse_message.                                                          *)

Kind(v) ==
  CASE "sms" \in v.labels -> "sms"
    [] v.labels \cap {"sms", "voicemail"} = {"voicemail"} -> "voicemail"
    [] v.labels = {"call log"} -> "call"
    [] OTHER -> NULL

Inbound(v) == v.synthetic \/ v.local = NULL \/ Kind(v) = "call"

Or(x, y) == IF x # NULL THEN x ELSE y

ContactLabel(v) == Or(v.subject, Or(v.from_name, Or(v.local, "unknown")))

(* A contact label is a number or a name; the sender tells the other.      *)
ContactName(v) ==
  LET word(x) == IF x # NULL /\ Texts[x].numeric THEN NULL ELSE x
      name == Or(word(ContactLabel(v)), word(v.from_name))
  IN  IF name = NULL THEN <<>> ELSE Texts[name].slug

ContactNumber(v) ==
  IF Texts[ContactLabel(v)].numeric THEN Texts[ContactLabel(v)].digits
  ELSE IF Inbound(v) /\ v.local # NULL THEN Texts[v.local].digits
  ELSE <<>>

(* A call has no attachments, whatever the row says.                       *)
Parse ==
  [c \in DOMAIN VoiceOf |->
     LET v == VoiceOf[c] IN
       [kind |-> Kind(v), key |-> Texts[ContactLabel(v)].key, name |-> ContactName(v),
        number |-> ContactNumber(v), date |-> v.date,
        attachments |-> v.attachments /\ Kind(v) \in {"sms", "voicemail"}]]

Parsed(i) == Parse[messages[i].content]
KeyOf(i) == Parsed(i).key
OfKind(kind) == {i \in 1 .. vx_rows : Parsed(i).kind = kind}
HasAttachments(i) == Parsed(i).attachments
WithAttachments == {i \in 1 .. vx_rows : HasAttachments(i)}

(* The messages of a conversation; the first of them, by date, that gives  *)
(* a name, or a number, names it.                                          *)
Group(key) ==
  {i \in DOMAIN messages : Parsed(i).kind \in {"sms", "voicemail"} /\ KeyOf(i) = key}

Earlier(i, j) ==
  Parsed(i).date < Parsed(j).date \/ (Parsed(i).date = Parsed(j).date /\ i <= j)
FirstWith(S, field) ==
  LET given == {i \in S : Parsed(i)[field] # <<>>}
  IN  IF given = {} THEN <<>>
      ELSE Parsed(CHOOSE i \in given : \A j \in given : Earlier(i, j))[field]

Display(key) ==
  LET name == FirstWith(Group(key), "name")
      number == FirstWith(Group(key), "number")
  IN  IF name # <<>> /\ number # <<>> THEN name \o Underscore \o number
      ELSE IF name \o number # <<>> THEN name \o number ELSE <<key>>

(* Mutant: a name that is taken is taken again.                            *)
UniqueAnyway(stem, used) == stem

Unique(stem, used) ==
  IF stem \notin used THEN stem
  ELSE LET free == {n \in DOMAIN Ordinals : Append(stem, Ordinals[n]) \notin used}
       IN  Append(stem, Ordinals[CHOOSE n \in free : \A k \in free : n <= k])

(* The conversations in the order of their first message, those with an    *)
(* SMS before those with voicemails only, get their names one by one.      *)
(* Names are compared as the code does, exactly: that a file system may    *)
(* take two names for one that differ in case only is not modelled.        *)
Named(stems, i, kind) ==
  IF Parsed(i).kind # kind \/ KeyOf(i) \in DOMAIN stems THEN stems
  ELSE LET used == {stems[key] : key \in DOMAIN stems}
       IN  Write(stems, KeyOf(i), Unique(Display(KeyOf(i)), used))

StemsAfter ==
  LET rows == Len(messages)
      after[n \in 0 .. 2 * rows] ==
        IF n = 0 THEN [key \in {} |-> <<>>]
        ELSE IF n <= rows THEN Named(after[n - 1], n, "sms")
        ELSE Named(after[n - 1], n - rows, "voicemail")
  IN  after

Stems == StemsAfter[2 * Len(messages)]

-----------------------------------------------------------------------------
(* The files.  A record is a message with the path of its attachments; one *)
(* path stands for all attachments of a message.                           *)

Plain(file) == [dir |-> "", name |-> <<file>>, id |-> 0]
NoPath == Plain("")

(* Mutant: two messages of one contact share a name.                       *)
AttachmentsByContact(i) ==
  [dir |-> "attachments", name |-> vx_stems[KeyOf(i)], id |-> 0]

AttachmentPath(i) == [dir |-> "attachments", name |-> vx_stems[KeyOf(i)], id |-> i]

Records(S) ==
  {[id |-> i, path |-> IF i \in vx_recovered THEN AttachmentPath(i) ELSE NoPath] : i \in S}

Transcript(key) == [dir |-> "sms", name |-> vx_stems[key], id |-> 0]

(* The files that hold all messages of one kind.                           *)
KindIn == [file \in {"sms.jsonl", "calls.jsonl", "voicemails.jsonl", "calls.csv"} |->
             CASE file = "sms.jsonl" -> "sms"
               [] file = "voicemails.jsonl" -> "voicemail"
               [] OTHER -> "call"]

After(file) ==
  CASE file = "sms.jsonl" -> "calls.jsonl"
    [] file = "calls.jsonl" -> IF OfKind("voicemail") = {} THEN "calls.csv"
                               ELSE "voicemails.jsonl"
    [] file = "voicemails.jsonl" -> "calls.csv"
    [] file = "calls.csv" -> "transcripts"

Torn == "torn"

-----------------------------------------------------------------------------
ExportStart(wanted, override) ==
  /\ vx_pc = "idle" /\ vx_runs < MaxExports
  /\ vx_runs' = vx_runs + 1 /\ vx_pc' = IF wanted THEN "resolve" ELSE "sms.jsonl"
  /\ vx_rows' = Len(messages) /\ vx_stems' = Stems /\ vx_override' = override
  /\ vx_mbox' = <<>> /\ vx_next' = 1 /\ vx_recovered' = {}
  /\ vx_contacts' = {KeyOf(i) : i \in {j \in DOMAIN messages : Parsed(j).kind = "sms"}}
  /\ UNCHANGED <<vars, disk, saved>>

(* The ingested file may have been moved away since.                       *)
Resolve ==
  /\ vx_pc = "resolve"
  /\ \E found \in {IF vx_override = <<>> THEN mbox_source ELSE vx_override, <<>>} :
       LET scan == WithAttachments # {} /\ found # <<>> IN
         /\ vx_mbox' = IF scan THEN found ELSE <<>>
         /\ vx_pc' = IF scan THEN "scan" ELSE "sms.jsonl"
  /\ UNCHANGED <<vars, vx_runs, vx_rows, vx_stems, vx_override, vx_next,
                 vx_recovered, vx_contacts, disk, saved>>

Wanted(mail) ==
  {i \in WithAttachments : Clash(messages[i].rfc_message_id, mail.rfc_message_id)}

(* Mutant: a copy of the mail that has no attachments counts as well.      *)
SavableAny(mail) == mail.readable

Savable(mail) == mail.readable /\ VoiceOf[mail.content].attachments

(* Of several mails with a wanted Message-ID the last one stays.           *)
ScanMail ==
  /\ vx_pc = "scan" /\ vx_next <= Len(vx_mbox)
  /\ LET mail == vx_mbox[vx_next]
         found == IF Savable(mail) THEN Wanted(mail) ELSE {}
     IN  /\ vx_recovered' = vx_recovered \cup found
         /\ saved' = WriteAll(saved, {AttachmentPath(i) : i \in found}, mail.rfc_message_id)
  /\ vx_next' = vx_next + 1
  /\ UNCHANGED <<vars, vx_runs, vx_pc, vx_rows, vx_stems, vx_override,
                 vx_mbox, vx_contacts, disk>>

ScanEnds ==
  /\ vx_pc = "scan" /\ vx_next > Len(vx_mbox)
  /\ vx_pc' = "sms.jsonl"
  /\ UNCHANGED <<vars, vx_runs, vx_rows, vx_stems, vx_override, vx_mbox,
                 vx_next, vx_recovered, vx_contacts, disk, saved>>

WriteListing ==
  /\ vx_pc \in DOMAIN KindIn
  /\ disk' = Write(disk, Plain(vx_pc), Records(OfKind(KindIn[vx_pc])))
  /\ vx_pc' = After(vx_pc)
  /\ UNCHANGED <<vars, vx_runs, vx_rows, vx_stems, vx_override, vx_mbox,
                 vx_next, vx_recovered, vx_contacts, saved>>

WriteTranscript ==
  /\ vx_pc = "transcripts"
  /\ \E key \in vx_contacts :
       /\ disk' = Write(disk, Transcript(key), Records(Group(key) \cap OfKind("sms")))
       /\ vx_contacts' = vx_contacts \ {key}
  /\ UNCHANGED <<vars, vx_runs, vx_pc, vx_rows, vx_stems, vx_override,
                 vx_mbox, vx_next, vx_recovered, saved>>

(* Forgetting the run's variables only keeps states few.                   *)
Ended ==
  /\ vx_pc' = "idle" /\ vx_rows' = 0 /\ vx_stems' = <<>> /\ vx_override' = <<>>
  /\ vx_mbox' = <<>> /\ vx_next' = 1 /\ vx_recovered' = {} /\ vx_contacts' = {}

Complete == vx_pc = "transcripts" /\ vx_contacts = {}

ExportEnds ==
  /\ Complete
  /\ Ended /\ UNCHANGED <<vars, vx_runs, disk, saved>>

(* Killed, or out of disk space: what it was writing is cut off.  The part *)
(* that was written is left out of the model.                              *)
ExportDies ==
  /\ vx_pc # "idle"
  /\ \/ UNCHANGED <<disk, saved>>
     \/ /\ vx_pc \in DOMAIN KindIn
        /\ disk' = Write(disk, Plain(vx_pc), {}) /\ UNCHANGED saved
     \/ /\ vx_pc = "transcripts"
        /\ \E key \in vx_contacts : disk' = Write(disk, Transcript(key), {})
        /\ UNCHANGED saved
     \/ /\ vx_pc = "scan" /\ vx_next <= Len(vx_mbox) /\ Savable(vx_mbox[vx_next])
        /\ \E i \in Wanted(vx_mbox[vx_next]) : saved' = Write(saved, AttachmentPath(i), Torn)
        /\ UNCHANGED disk
  /\ Ended /\ UNCHANGED <<vars, vx_runs>>

ExportInit ==
  /\ Init
  /\ vx_runs = 0 /\ vx_pc = "idle" /\ vx_rows = 0 /\ vx_stems = <<>>
  /\ vx_override = <<>> /\ vx_mbox = <<>> /\ vx_next = 1
  /\ vx_recovered = {} /\ vx_contacts = {}
  /\ disk = [path \in {} |-> {}] /\ saved = [path \in {} |-> Torn]

ExportNext ==
  \/ \E wanted \in BOOLEAN, override \in Overrides : ExportStart(wanted, override)
  \/ Resolve \/ ScanMail \/ ScanEnds \/ WriteListing \/ WriteTranscript
  \/ ExportEnds \/ ExportDies
  \/ Next /\ UNCHANGED <<runVars, disk, saved>>

ExportSpec == ExportInit /\ [][ExportNext]_allVars

-----------------------------------------------------------------------------
Listed(path) == {r.id : r \in disk[path]}

SavedFor ==
  LET jsonl == {Plain("sms.jsonl"), Plain("voicemails.jsonl")} \cap DOMAIN disk
  IN  {r.id : r \in {x \in UNION {disk[path] : path \in jsonl} : x.path # NoPath}}

HoldsAttachments(mail, i) ==
  /\ mail.readable /\ VoiceOf[mail.content].attachments
  /\ mail.rfc_message_id # NULL
  /\ mail.rfc_message_id = messages[i].rfc_message_id

(* A run that comes to its end has written every Voice message it read     *)
(* into the file of its kind, and every SMS into the transcript of its     *)
(* contact, which holds nobody else's, whatever the names look like as     *)
(* file names (voice_export.py: "lossless", "one normalized JSON record    *)
(* per SMS", "per-contact transcript").                                    *)
BackupIsComplete ==
  Complete =>
    /\ Listed(Plain("sms.jsonl")) = OfKind("sms")
    /\ Listed(Plain("calls.jsonl")) = OfKind("call")
    /\ OfKind("voicemail") # {} =>
         Listed(Plain("voicemails.jsonl")) = OfKind("voicemail")
    /\ \A i \in OfKind("sms") :
         Listed(Transcript(KeyOf(i))) = {j \in OfKind("sms") : KeyOf(j) = KeyOf(i)}

(* A run that comes to its end lists as not exported the attachments that  *)
(* the file it scanned does not have, and no others (voice_export.py:      *)
(* "each affected record is flagged").                                     *)
FlagsAreHonest ==
  Complete =>
    \A i \in OfKind("sms") \cup OfKind("voicemail") :
      i \in SavedFor <=>
        HasAttachments(i) /\ \E k \in DOMAIN vx_mbox : HoldsAttachments(vx_mbox[k], i)

(* Every path in a file of the backup leads to attachments of that very    *)
(* message, also in files left over from earlier runs; only a crash while  *)
(* they are being saved again may cut them off.                            *)
PathsResolve ==
  \A path \in DOMAIN disk : \A r \in disk[path] :
    r.path # NoPath =>
      /\ r.path \in DOMAIN saved
      /\ saved[r.path] # Torn => saved[r.path] = messages[r.id].rfc_message_id
=============================================================================
