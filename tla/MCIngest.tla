------------------------------ MODULE MCIngest ------------------------------
(***************************************************************************)
(* Small instances of Ingest for TLC: two exports of one mailbox.          *)
(***************************************************************************)
EXTENDS Ingest

Mail(gmail, rfc, content, from, to) ==
  [gmail_msgid |-> gmail, rfc_message_id |-> rfc, content |-> content,
   from_addr |-> from, to_all |-> to, readable |-> TRUE]

(* A message to a list and a friend, and the list's copy of it; a note     *)
(* without identifiers, to a Voice number too; a message that cannot be    *)
(* parsed; and an answer.                                                  *)
MCSent == Mail("g1", "r1", "c1", "me", {"friend", "me2"})
MCCopy == Mail("g2", "r1", "c2", "me", {"friend"})
MCNote == Mail(NULL, NULL, "c3", "me2", {"number", "friend"})
MCBroken == [Mail(NULL, NULL, "c4", "friend", {}) EXCEPT !.readable = FALSE]
MCAnswer == Mail(NULL, "r5", "c5", "friend", {"me"})

MCTakeout == <<MCSent, MCNote, MCBroken, MCCopy, MCAnswer>>
MCLater == <<MCNote, MCCopy, MCAnswer>>
MCBoth == {MCTakeout, MCLater}
MCOwn == {{}, {"me"}, {"me", "me2"}}
MCLimits == {NoLimit, 2}
=============================================================================
