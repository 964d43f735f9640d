---------------------------- MODULE MCVoiceExport ----------------------------
(***************************************************************************)
(* Small instances of VoiceExport for TLC: two exports of one mailbox, of  *)
(* which the second lacks an attachment.                                   *)
(***************************************************************************)
EXTENDS VoiceExport

Mail(rfc, content) ==
  [gmail_msgid |-> NULL, rfc_message_id |-> rfc, content |-> content,
   from_addr |-> "number", to_all |-> {}, readable |-> TRUE]

(* A message to Ann and her reply, which only gives her number; Ann!,      *)
(* whose file name would be Ann's; a contact who is called Ann-2; a call;  *)
(* a voicemail from a number, also listed as a call, without an id; and a  *)
(* copy of the first message that has neither its label nor its            *)
(* attachments.                                                            *)
MCVoice ==
  LET voice(labels, subject, from_name, local, date, attachments) ==
        [labels |-> labels, subject |-> subject, from_name |-> from_name, local |-> local,
         synthetic |-> local = "555", date |-> date, attachments |-> attachments]
  IN  [c \in {"ann", "reply", "ann!", "ann-2", "call", "voicemail", "copy"} |->
         CASE c = "ann" -> voice({"sms"}, "Ann", "me", "me", 5, TRUE)
           [] c = "reply" -> voice({"sms"}, "Ann", "Ann", "555", 3, TRUE)
           [] c = "ann!" -> voice({"sms"}, "Ann!", "me", "me", 4, TRUE)
           [] c = "ann-2" -> voice({"sms"}, "Ann-2", "me", "me", 4, FALSE)
           [] c = "call" -> voice({"call log"}, "Ann", "Ann", "555", 6, TRUE)
           [] c = "voicemail" ->
                voice({"voicemail", "call log"}, NULL, NULL, "555", 7, TRUE)
           [] c = "copy" -> voice({}, "Ann", "me", "me", 5, FALSE)]

MCText ==
  LET name(key, slug) == [key |-> key, slug |-> slug, digits |-> <<>>, numeric |-> FALSE]
  IN  [text \in {"Ann", "Ann!", "Ann-2", "me", "unknown", "555"} |->
         CASE text = "Ann" -> name("ann", <<"Ann">>)
           [] text = "Ann!" -> name("ann!", <<"Ann">>)
           [] text = "Ann-2" -> [name("ann-2", <<"Ann", "-2">>) EXCEPT !.digits = <<"2">>]
           [] text = "555" -> [key |-> "555", slug |-> <<"555">>, digits |-> <<"555">>,
                               numeric |-> TRUE]
           [] OTHER -> name(text, <<text>>)]

(* TLC evaluates these once, and what a .cfg substitutes every time.       *)
MCVoiceOf == MCVoice
MCTexts == MCText

MCTakeout == <<Mail("r1", "ann"), Mail("r2", "ann-2"), Mail("r3", "ann!")>>
MCLater ==
  <<Mail("r1", "copy"), Mail("r4", "reply"), Mail("r5", "call"), Mail(NULL, "voicemail")>>
MCTwo == {MCTakeout, MCLater}
MCBoth == MCTwo
MCOverrides == {<<>>, MCTakeout}
MCUnderscore == <<"_">>
MCOrdinals == <<"-2", "-3", "-4", "-5", "-6", "-7">>
MCOwn == {{}}
MCLimits == {NoLimit}
=============================================================================
