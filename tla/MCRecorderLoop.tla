---------------------------- MODULE MCRecorderLoop ----------------------------
(* RecorderLoop with an event, an event datagram of a wrong length, a frame *)
(* that carries an event, and a frame whose extraction does not return.    *)
EXTENDS RecorderLoop

EventDatagram(length, claimed) ==
  [socket |-> "event", length |-> length, claimed |-> claimed]
OtaDatagram(yields, returns) == [socket |-> "ota", yields |-> yields, returns |-> returns]
EventOf(size) == [type |-> "event", size |-> size]
OtaOf(size) == [type |-> "ota", size |-> size]

MCDatagrams ==
  {EventDatagram(3, 1), EventDatagram(4, 1), EventDatagram(1, 0),
   OtaDatagram(<<EventOf(2), OtaOf(1)>>, TRUE), OtaDatagram(<< >>, FALSE)}
=============================================================================
