---------------------------- MODULE MCReconcile ----------------------------
(***************************************************************************)
(* Small instances of Reconcile for TLC.                                   *)
(***************************************************************************)
EXTENDS Reconcile

MCEnvelope(msgid, from, subject, date) ==
  [msgid |-> msgid, from |-> from, subject |-> subject, date |-> date]

(* With and without a Message-ID; look-alikes of either name; a copy from  *)
(* outside the date window; too little to search by.                       *)
MCEnvelopes ==
  {MCEnvelope("id1", "ann", "sale", 5),
   MCEnvelope("id1", "joann", "sale", 5),
   MCEnvelope("id2", "ann", "sale", 5),
   MCEnvelope(NULL, "ann", "sale", 5),
   MCEnvelope(NULL, "joann", "sale", 6),
   MCEnvelope(NULL, "ann", "resale", 5),
   MCEnvelope(NULL, "ann", "sale", 7),
   MCEnvelope(NULL, NULL, "sale", 5),
   MCEnvelope(NULL, "ann", "sale", NoDate)}

MCResembles == {<<"ann", "joann">>, <<"sale", "resale">>}
=============================================================================
