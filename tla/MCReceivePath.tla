---------------------------- MODULE MCReceivePath -----------------------------
(* ReceivePath with two transmitters and messages with no, one and two     *)
(* antennas, with segments within and over the limits.                     *)
EXTENDS ReceivePath

Antenna(group, bandwidth) == [group |-> group, bandwidth |-> bandwidth]
Segment(freq, offset, duration) == [freq |-> freq, offset |-> offset, duration |-> duration]
From(nem, audible) == [nem |-> nem, audible |-> audible]
Message(subid, antennas, groups, transmitters) ==
  [subid |-> subid, antennas |-> antennas, groups |-> groups, transmitters |-> transmitters]

Short == <<Segment(1, 0, 1), Segment(2, 1, 2)>>
Long  == <<Segment(1, 0, 2), Segment(2, 0, 3), Segment(3, 1, 1)>>
Late  == <<Segment(3, 3, 1)>>

MCMessages ==
  {Message(1, << >>, <<Short>>, <<From("n1", TRUE)>>),
   Message(1, <<Antenna(1, 20)>>, <<Short>>, <<From("n1", TRUE)>>),
   Message(1, <<Antenna(1, 10)>>, <<Long>>, <<From("n1", FALSE), From("n2", TRUE)>>),
   Message(2, <<Antenna(1, 10), Antenna(2, 10)>>, <<Short, Late>>, <<From("n2", TRUE)>>),
   Message(2, <<Antenna(1, 10), Antenna(4, 10)>>, <<Short, Late>>, <<From("n1", TRUE)>>),
   Message(2, <<Antenna(1, 10)>>, <<Short>>, <<From("n1", FALSE)>>)}

MCSkews == {-3, 0, 2}
=============================================================================
