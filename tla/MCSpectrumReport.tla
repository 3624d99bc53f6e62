--------------------------- MODULE MCSpectrumReport ----------------------------
(* SpectrumReport with one transmitter: a message with two antennas, one   *)
(* whose second segment is over the limit of durations, and one without    *)
(* antennas.                                                               *)
EXTENDS SpectrumReport

Segment(o, d) == [freq |-> 1, offset |-> o, duration |-> d]
Sent(groups) ==
  [subid |-> 1, antennas |-> [g \in DOMAIN groups |-> [group |-> g, bandwidth |-> 10]],
   groups |-> groups, transmitters |-> <<[nem |-> "n1", audible |-> TRUE]>>]

MCMessages ==
  {Sent(<< <<Segment(1, 0)>>, <<Segment(1, 2)>> >>),
   Sent(<< <<Segment(1, 3), Segment(0, 5)>> >>),
   Sent(<< >>)}

MCSkews == {-1}
MCFreqs == {<<1, 1>>}
MCIds == (1 .. 2) \X (1 .. 2) \X (1 .. 2)
=============================================================================
