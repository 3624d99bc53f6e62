----------------------------- MODULE OtaMessage -----------------------------
(***************************************************************************)
(* What OTAExtractor::handleOTAMessage and stringFromVectorIO              *)
(* (otaextractor.cc) take out of a received over-the-air message, whose    *)
(* bytes come as a vector of parts.                                        *)
(*                                                                         *)
(* A message is a record with its source and sequence number, the sizes of *)
(* its events, controls and data, and the lengths of the two headers that, *)
(* each behind a length of two bytes, start its data.  A byte is [of, at]: *)
(* the message it was sent in and its position there.                      *)
(***************************************************************************)
EXTENDS Integers, Sequences

PrefixSize == 2
Size(m) == m.events + m.controls + m.data
Bytes(m, from, to) == [i \in 1 .. to - from |-> [of |-> m, at |-> from + i - 1]]

PhyPrefixAt(m) == m.events + m.controls
MacPrefixAt(m) == PhyPrefixAt(m) + PrefixSize + m.phy

(* The length two bytes stand for; -1 when they are no message's length.   *)
PrefixValue(text) ==
  LET m == text[1].of
  IN  IF text = Bytes(m, PhyPrefixAt(m), PhyPrefixAt(m) + PrefixSize) THEN m.phy
      ELSE IF text = Bytes(m, MacPrefixAt(m), MacPrefixAt(m) + PrefixSize) THEN m.mac
      ELSE -1

-----------------------------------------------------------------------------
(* Where the reads of a message's fields have got to: the part and the     *)
(* offset in it, the bytes of the last read, and how many it still wants.  *)
(* status "hang": the loop of stringFromVectorIO never ends.  "overrun":   *)
(* it reads behind the last part.  "garbled": a length is read from bytes  *)
(* that are none.                                                          *)
Start == [status |-> "ok", index |-> 1, offset |-> 0, text |-> << >>, target |-> 0]

(* The body of the loop, while there is something left to read.            *)
ReadOn(vector, cursor) ==
  LET part == vector[cursor.index]
      available == Len(part) - cursor.offset
  IN  IF cursor.status # "ok" \/ cursor.target = 0 THEN cursor
      ELSE IF cursor.index > Len(vector) THEN [cursor EXCEPT !.status = "overrun"]
      ELSE IF available = 0 THEN [cursor EXCEPT !.status = "hang"]
      ELSE IF available >= cursor.target
      THEN [cursor EXCEPT
              !.text = @ \o SubSeq(part, cursor.offset + 1, cursor.offset + cursor.target),
              !.offset = cursor.offset + cursor.target,
              !.target = 0]
      ELSE [cursor EXCEPT
              !.text = @ \o SubSeq(part, cursor.offset + 1, Len(part)),
              !.index = @ + 1,
              !.offset = 0,
              !.target = @ - available]

(* stringFromVectorIO: size bytes, from where the last read ended.  Every  *)
(* turn of the loop but the last goes on to the next part.                 *)
StringFromVectorIO(vector, cursor, size) ==
  LET loop[turn \in 0 .. Len(vector) + 1] ==
        IF turn = 0 THEN [cursor EXCEPT !.text = << >>, !.target = size]
        ELSE ReadOn(vector, loop[turn - 1])
  IN  loop[Len(vector) + 1]

(* The two bytes of a length, then as many bytes as it says, unless there  *)
(* are fewer left of the data.                                             *)
Prefix(vector, cursor) ==
  LET prefix == StringFromVectorIO(vector, cursor, PrefixSize)
  IN  IF prefix.status = "ok" /\ PrefixValue(prefix.text) < 0
      THEN [prefix EXCEPT !.status = "garbled"] ELSE prefix

-----------------------------------------------------------------------------
NoHeader == << >>
EventRecord(text) == [type |-> "event", event |-> text]
OtaRecord(source, sequence, phy, mac) ==
  [type |-> "ota", source |-> source, sequence |-> sequence, phy |-> phy, mac |-> mac]

(* handleOTAMessage: the records, or the status of the read that does not  *)
(* return.  A mac header shorter than its length, or absent, is left out   *)
(* of the record.                                                          *)
HandleOTAMessage(events, controls, data, source, sequence, vector) ==
  LET event    == StringFromVectorIO(vector, Start, events)
      control  == StringFromVectorIO(vector, event, controls)
      eventRecords == IF events > 0 THEN << EventRecord(event.text) >> ELSE << >>
      phyLength == Prefix(vector, control)
      phySize   == PrefixValue(phyLength.text)
      phy       == StringFromVectorIO(vector, phyLength, phySize)
      macData   == data - PrefixSize - phySize
      macLength == Prefix(vector, phy)
      macSize   == PrefixValue(macLength.text)
      mac       == StringFromVectorIO(vector, macLength, macSize)
      Result(cursor, records) ==
        [status |-> cursor.status, records |-> IF cursor.status = "ok" THEN records ELSE << >>]
  IN  IF control.status # "ok" \/ data <= PrefixSize THEN Result(control, eventRecords)
      ELSE IF phyLength.status # "ok" THEN Result(phyLength, << >>)
      ELSE IF data - PrefixSize < phySize THEN Result(phyLength, eventRecords)
      ELSE IF phy.status # "ok" THEN Result(phy, << >>)
      ELSE IF macData <= PrefixSize
      THEN Result(phy, eventRecords \o << OtaRecord(source, sequence, phy.text, NoHeader) >>)
      ELSE IF macLength.status # "ok" THEN Result(macLength, << >>)
      ELSE IF macData < macSize
      THEN Result(macLength,
                  eventRecords \o << OtaRecord(source, sequence, phy.text, NoHeader) >>)
      ELSE Result(mac, eventRecords \o << OtaRecord(source, sequence, phy.text, mac.text) >>)
=============================================================================
