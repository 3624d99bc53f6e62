--------------------------- MODULE MCOtaReassembly ---------------------------
(* OtaReassembly on a few short messages.                                  *)
EXTENDS OtaReassembly

Message(source, sequence, events, controls, phy, mac, payload) ==
  [source |-> source, sequence |-> sequence,
   events |-> events, controls |-> controls, phy |-> phy, mac |-> mac,
   data |-> 4 + phy + mac + payload]

(* In parts of six bytes: a message with an event and a control in three   *)
(* parts, one in two parts whose first ends where a field does, and one in *)
(* a single part.                                                          *)
MCMessages ==
  {Message(1, 1, 1, 1, 3, 1, 3), Message(1, 2, 0, 0, 2, 1, 1),
   Message(2, 1, 0, 0, 1, 1, 0)}

MCPartTimeouts == {-1, 1, 9}

(* In parts of four bytes, the first part ends where the phy header does.  *)
BoundaryMessages == {Message(1, 1, 0, 0, 2, 1, 1)}

(* The same frame without that coincidence.                                *)
SplitMessages == {Message(1, 1, 0, 0, 1, 1, 1)}
=============================================================================
