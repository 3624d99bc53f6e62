--------------------------- MODULE MCRecordingTools ---------------------------
(* RecordingTools on all short recordings of a few frames.                 *)
EXTENDS RecordingTools

Event(locations) == [type |-> "event", locations |-> locations]
Segment(freq, offset, power) ==
  [freq |-> freq, offset |-> offset, duration |-> 2, power |-> power]
Antenna(index, group) == [index |-> index, group |-> group, pointing |-> FALSE]
Ota(sequence, registration, transmitters, antennas) ==
  [type |-> "ota", source |-> 1, sequence |-> sequence, registration |-> registration,
   txTime |-> 10 * sequence, transmitters |-> transmitters, antennas |-> antennas,
   groups |-> <<<<Segment(1, 0, Missing), Segment(1, 3, 7)>>, <<Segment(2, 0, 8)>>>>]
Transmitter(nem) == [nem |-> nem, power |-> 5 + nem]

(* One transmitter through two antennas, two transmitters, an antenna that *)
(* points, another registration; two moves of a node, an event that is not *)
(* a location.                                                             *)
OtaFrames ==
  {Event([n \in {1} |-> "here"]), Event([n \in {1, 2} |-> "there"]), Event(<< >>),
   Ota(1, 7, <<Transmitter(1)>>, <<Antenna(0, 1), Antenna(1, 2)>>),
   Ota(2, 7, <<Transmitter(1), Transmitter(2)>>, <<Antenna(0, 2)>>),
   Ota(3, 7, <<Transmitter(2)>>, <<[Antenna(0, 1) EXCEPT !.pointing = TRUE]>>),
   Ota(4, 0, <<Transmitter(1)>>, <<Antenna(0, 3)>>)}

Energy(freq, bins) == [subid |-> 1, freq |-> freq, bins |-> bins]
Measurement(sequence, pov, energies) ==
  [type |-> "energy", start |-> 10 * sequence, sequence |-> sequence,
   pov |-> pov, energies |-> energies]

(* Measurements without and with a position, one of nothing, one with      *)
(* other bins and one whose first energy has none.                         *)
EnergyFrames ==
  {Measurement(1, Missing, <<Energy(1, 2), Energy(2, 2)>>),
   Measurement(2, "here", <<Energy(1, 2)>>), Measurement(3, "there", << >>),
   Measurement(4, Missing, <<Energy(1, 3)>>),
   Measurement(5, Missing, <<Energy(1, 0), Energy(2, 2)>>)}

Upto(n, S) == UNION {[1 .. k -> S] : k \in 0 .. n}
Invocation(tool, recordings, formats) ==
  {v \in [tool : {tool}, format : formats, progress : BOOLEAN, stdin : BOOLEAN,
          torn : BOOLEAN, recording : recordings] :
     v.progress => Len(v.recording) <= 1}

MCInvocations ==
  Invocation("ota", Upto(3, OtaFrames), {"csv", "sqlitedb"})
    \cup Invocation("energy", Upto(3, EnergyFrames), {"csv", "sqlitedb"})

(* What a monitor that knows its position writes.                          *)
LocatedMonitor ==
  [tool : {"energy"}, format : {"csv", "sqlitedb"}, progress : {FALSE},
   stdin : {FALSE}, torn : {FALSE},
   recording : {<<Measurement(1, "here", <<Energy(1, 2)>>),
                  Measurement(2, "there", <<Energy(1, 2), Energy(2, 2)>>)>>}]
===============================================================================
