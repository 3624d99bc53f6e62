---------------------------- MODULE RecordingTools ----------------------------
(***************************************************************************)
(* emane-spectrum-ota-record-tool and emane-spectrum-energy-recording-tool *)
(* read a recording frame by frame and write a row for every frequency     *)
(* segment of a transmission, or for every frequency of an energy          *)
(* measurement, as CSV or into an SQLite table.  Both are one thread; an   *)
(* interrupt ends them between two rows, any other exception where it is   *)
(* raised.                                                                 *)
(*                                                                         *)
(* The hard part is what one frame leaves for the next: the positions of   *)
(* the location events so far, which the rows of later transmissions       *)
(* carry; whether the header was written; variables that only some frames  *)
(* assign; the keys already in the table.                                  *)
(*                                                                         *)
(* A frame of a recording is one of                                        *)
(*   [type |-> "event", locations]    locations: a function on the nodes   *)
(*        a location event is about, empty for other events                *)
(*   [type |-> "ota", source, sequence, registration, txTime,              *)
(*        transmitters, antennas, groups]    sequences of [nem, power],    *)
(*        of [index, group, pointing] and of sequences of [freq, offset,   *)
(*        duration, power]; groups count from zero in the code, and from   *)
(*        one here                                                         *)
(*   [type |-> "energy", start, sequence, pov, energies]    pov: Missing   *)
(*        or the monitor's position; energies: a sequence of [subid, freq, *)
(*        bins], bins their number                                         *)
(***************************************************************************)
EXTENDS Integers, Sequences, FiniteSets, SequencesExt

CONSTANTS
  Nems,       \* nodes
  Missing,    \* an optional field that is not there
  Invocations \* command lines, each with the recording it is given

ASSUME MissingAssumption == Missing \notin Int

EmulatorRegistration == 7

IsSequence(s) == s \in Seq(Range(s))

IsFrame(frame) ==
  \/ frame.type = "event"
  \/ /\ frame.type = "ota"
     /\ IsSequence(frame.transmitters) /\ IsSequence(frame.antennas) /\ IsSequence(frame.groups)
     /\ \A t \in DOMAIN frame.transmitters : frame.transmitters[t].nem \in Nems
     /\ \A g \in DOMAIN frame.groups :
          /\ IsSequence(frame.groups[g])
          /\ \A s \in DOMAIN frame.groups[g] : frame.groups[g][s].offset \in Int
     /\ frame.txTime \in Int
  \/ /\ frame.type = "energy"
     /\ IsSequence(frame.energies)
     /\ \A k \in DOMAIN frame.energies : frame.energies[k].bins \in Nat

(* An invocation: the tool, its output format, whether it shows progress,  *)
(* whether it reads standard input, the whole frames of its input, and     *)
(* whether a torn frame follows them.                                      *)
ASSUME InvocationsAssumption ==
  \A v \in Invocations :
     /\ v.tool \in {"ota", "energy"} /\ v.format \in {"csv", "sqlitedb"}
     /\ v.progress \in BOOLEAN /\ v.stdin \in BOOLEAN /\ v.torn \in BOOLEAN
     /\ IsSequence(v.recording)
     /\ \A i \in 1 .. Len(v.recording) :
           /\ IsFrame(v.recording[i])
           /\ v.recording[i].type \in (IF v.tool = "ota" THEN {"event", "ota"} ELSE {"energy"})

VARIABLES
  args,      \* the invocation
  phase,     \* where the tool is
  next,      \* the frame it reads next
  positions, \* positions: per node, what the last location event said
  unset,     \* the energy tool's orientation and velocity are not assigned yet
  setUp,     \* the bins of the header the energy tool wrote; Missing before
  pending,   \* what it has still to write of the frames read
  output     \* the lines of the CSV file, or the table and its rows

vars == <<args, phase, next, positions, unset, setUp, pending, output>>

Recording == args.recording
Old == [kind |-> "old"]
Failure == [kind |-> "failure"]
Header(bins) == [kind |-> "header", bins |-> bins]

-----------------------------------------------------------------------------
(* The rows of a transmission: for each transmitter and antenna, the       *)
(* segments of the antenna's frequency group.  An antenna with a pointing  *)
(* ends the tool: its elevation is assigned to a field the protobuf        *)
(* message does not have.  So does a group that is not there.              *)
SegmentPower(transmitter, segment) ==
  IF segment.power = Missing THEN transmitter.power ELSE segment.power

OtaRow(frame, t, a, s, position) ==
  LET segment == frame.groups[frame.antennas[a].group][s]
      sot == frame.txTime + segment.offset
  IN  [kind |-> "row", source |-> frame.source, sequence |-> frame.sequence,
       transmitter |-> frame.transmitters[t].nem, antenna |-> frame.antennas[a].index,
       freq |-> segment.freq, sot |-> sot, eot |-> sot + segment.duration,
       power |-> SegmentPower(frame.transmitters[t], segment), position |-> position]

AntennaFails(frame, a) ==
  \/ frame.antennas[a].pointing
  \/ frame.antennas[a].group \notin 1 .. Len(frame.groups)

AntennaLines(frame, t, a) ==
  IF AntennaFails(frame, a) THEN <<Failure>>
  ELSE [s \in 1 .. Len(frame.groups[frame.antennas[a].group]) |->
          OtaRow(frame, t, a, s, positions[frame.transmitters[t].nem])]

OtaLines(frame) ==
  IF frame.registration # EmulatorRegistration THEN << >>
  ELSE FlattenSeq([t \in 1 .. Len(frame.transmitters) |->
         FlattenSeq([a \in 1 .. Len(frame.antennas) |-> AntennaLines(frame, t, a)])])

(* The rows of a measurement, behind the header or CREATE TABLE when its   *)
(* first energy with bins is the recording's first.  Orientation and       *)
(* velocity are only assigned, to nothing, by a measurement without a pov; *)
(* a row that uses them before is a NameError.                             *)
EnergyRow(frame, k) ==
  [kind |-> "row", start |-> frame.start, sequence |-> frame.sequence,
   subid |-> frame.energies[k].subid, freq |-> frame.energies[k].freq,
   position |-> frame.pov, bins |-> frame.energies[k].bins]

SetsUpAt(frame, k) ==
  /\ setUp = Missing
  /\ frame.energies[k].bins > 0
  /\ \A j \in 1 .. k - 1 : frame.energies[j].bins = 0

AttitudeUnset(frame) == unset /\ frame.pov # Missing

EnergyLines(frame) ==
  FlattenSeq([k \in 1 .. Len(frame.energies) |->
    (IF SetsUpAt(frame, k) THEN <<Header(frame.energies[k].bins)>> ELSE << >>)
      \o <<IF AttitudeUnset(frame) THEN Failure ELSE EnergyRow(frame, k)>>])

(* The primary keys of the two tables.                                     *)
Key(row) ==
  IF args.tool = "ota"
  THEN <<row.source, row.sequence, row.antenna, row.freq, row.sot>>
  ELSE <<row.start, row.sequence, row.subid, row.freq>>

InsertFailsForBinsOnly(row) ==
  /\ args.format = "sqlitedb"
  /\ args.tool = "energy" /\ setUp # row.bins

(* SQLite refuses a second row of a key, and in the energy tool a row      *)
(* before the table is there or with a number of bins it does not have.    *)
InsertFails(row) ==
  /\ args.format = "sqlitedb"
  /\ \/ \E j \in 1 .. Len(output) : output[j].kind = "row" /\ Key(output[j]) = Key(row)
     \/ args.tool = "energy" /\ setUp # row.bins

-----------------------------------------------------------------------------
(* Up to the loop: the output is emptied; the OTA tool writes its header.  *)
Start ==
  /\ phase = "starting"
  /\ phase' = "reading"
  /\ output' = IF args.tool = "ota" THEN <<Header(0)>> ELSE << >>
  /\ UNCHANGED <<args, next, positions, unset, setUp, pending>>

(* The progress is a share of the input's size: zero for an empty file,    *)
(* and for standard input, whose size is not asked for.                    *)
TotalIsZero == args.stdin \/ (Recording = << >> /\ ~args.torn)
ReadsNext == phase = "reading" /\ pending = << >>

ProgressFails ==
  /\ ReadsNext
  /\ args.progress /\ TotalIsZero
  /\ phase' = "failed"
  /\ UNCHANGED <<args, next, positions, unset, setUp, pending, output>>

ReadFrame == ReadsNext /\ ~(args.progress /\ TotalIsZero) /\ next <= Len(Recording)

(* An end of the input, also in the middle of a length or of a frame, ends *)
(* the loop.                                                               *)
EndOfInputWaits ==
  /\ ReadsNext /\ ~(args.progress /\ TotalIsZero) /\ next > Len(Recording)
  /\ ~args.torn
  /\ phase' = "done"
  /\ UNCHANGED <<args, next, positions, unset, setUp, pending, output>>

EndOfInput ==
  /\ ReadsNext /\ ~(args.progress /\ TotalIsZero) /\ next > Len(Recording)
  /\ phase' = "done"
  /\ UNCHANGED <<args, next, positions, unset, setUp, pending, output>>

ReadEventOnce ==
  /\ ReadFrame /\ Recording[next].type = "event"
  /\ positions' = [n \in Nems |-> IF n \in DOMAIN Recording[next].locations
                                      /\ positions[n] = Missing
                                  THEN Recording[next].locations[n] ELSE positions[n]]
  /\ next' = next + 1
  /\ UNCHANGED <<args, phase, unset, setUp, pending, output>>

ReadEvent ==
  /\ ReadFrame /\ Recording[next].type = "event"
  /\ positions' = [n \in Nems |-> IF n \in DOMAIN Recording[next].locations
                                  THEN Recording[next].locations[n] ELSE positions[n]]
  /\ next' = next + 1
  /\ UNCHANGED <<args, phase, unset, setUp, pending, output>>

ReadOta ==
  /\ ReadFrame /\ Recording[next].type = "ota"
  /\ pending' = OtaLines(Recording[next])
  /\ next' = next + 1
  /\ UNCHANGED <<args, phase, positions, unset, setUp, output>>

ReadEnergyEachOnItsOwn ==
  /\ ReadFrame /\ Recording[next].type = "energy"
  /\ pending' = EnergyLines(Recording[next])
  /\ unset' = (Recording[next].pov # Missing)
  /\ next' = next + 1
  /\ UNCHANGED <<args, phase, positions, setUp, output>>

ReadEnergy ==
  /\ ReadFrame /\ Recording[next].type = "energy"
  /\ pending' = EnergyLines(Recording[next])
  /\ unset' = (unset /\ Recording[next].pov # Missing)
  /\ next' = next + 1
  /\ UNCHANGED <<args, phase, positions, setUp, output>>

(* print, or INSERT and commit.                                            *)
WriteHeader ==
  /\ phase = "reading" /\ pending # << >> /\ Head(pending).kind = "header"
  /\ setUp' = Head(pending).bins
  /\ output' = Append(output, Head(pending))
  /\ pending' = Tail(pending)
  /\ UNCHANGED <<args, phase, next, positions, unset>>

WriteRow ==
  /\ phase = "reading" /\ pending # << >> /\ Head(pending).kind = "row"
  /\ ~InsertFails(Head(pending))
  /\ output' = Append(output, Head(pending))
  /\ pending' = Tail(pending)
  /\ UNCHANGED <<args, phase, next, positions, unset, setUp>>

Fails ==
  /\ phase = "reading" /\ pending # << >>
  /\ \/ Head(pending).kind = "failure"
     \/ Head(pending).kind = "row" /\ InsertFails(Head(pending))
  /\ phase' = "failed"
  /\ UNCHANGED <<args, next, positions, unset, setUp, pending, output>>

(* KeyboardInterrupt                                                       *)
Interrupted ==
  /\ phase = "reading"
  /\ phase' = "interrupted"
  /\ UNCHANGED <<args, next, positions, unset, setUp, pending, output>>

Init ==
  /\ args \in Invocations
  /\ phase = "starting" /\ next = 1
  /\ positions = [n \in Nems |-> Missing]
  /\ unset = TRUE /\ setUp = Missing
  /\ pending = << >> /\ output = <<Old>>

ToolStep ==
  \/ Start
  \/ ProgressFails
  \/ EndOfInput
  \/ ReadEvent
  \/ ReadOta
  \/ ReadEnergy
  \/ WriteHeader
  \/ WriteRow
  \/ Fails

Next == ToolStep \/ Interrupted

Spec == Init /\ [][Next]_vars

(* The tool runs as long as it can take a step; nobody has to interrupt.   *)
FairSpec == Spec /\ WF_vars(ToolStep)

-----------------------------------------------------------------------------
Frames == 1 .. Len(Recording)
SegmentsOf(frame, a) == frame.groups[frame.antennas[a].group]
OutputRows == {output[j] : j \in {j \in 1 .. Len(output) : output[j].kind = "row"}}

(* Where the location events before frame i leave node n.                  *)
LocatedBy(n, i) == Recording[i].type = "event" /\ n \in DOMAIN Recording[i].locations
PositionAt(n, i) ==
  LET located == {j \in 1 .. i - 1 : LocatedBy(n, j)}
  IN  IF located = {} THEN Missing
      ELSE Recording[CHOOSE j \in located : \A k \in located : k <= j].locations[n]

(* What the documentation has the tools say of frame i: a row for each     *)
(* transmitter, antenna and segment, with the position of its transmitter  *)
(* at that point of the recording; a row for each energy.                  *)
OtaRowsOf(i) ==
  LET frame == Recording[i]
  IN  {[kind |-> "row", source |-> frame.source, sequence |-> frame.sequence,
        transmitter |-> tx.nem, antenna |-> x[1].index, freq |-> x[2].freq,
        sot |-> frame.txTime + x[2].offset,
        eot |-> frame.txTime + x[2].offset + x[2].duration,
        power |-> IF x[2].power # Missing THEN x[2].power ELSE tx.power,
        position |-> PositionAt(tx.nem, i)] :
          tx \in {frame.transmitters[t] : t \in DOMAIN frame.transmitters},
          x \in UNION {{<<frame.antennas[a], SegmentsOf(frame, a)[s]>> :
                          s \in DOMAIN SegmentsOf(frame, a)} :
                        a \in {a \in DOMAIN frame.antennas : ~AntennaFails(frame, a)}}}

EnergyRowsOf(i) ==
  LET frame == Recording[i]
  IN  {[kind |-> "row", start |-> frame.start, sequence |-> frame.sequence,
        subid |-> e.subid, freq |-> e.freq, position |-> frame.pov, bins |-> e.bins] :
          e \in {frame.energies[k] : k \in DOMAIN frame.energies}}

RowsOf(i) ==
  CASE Recording[i].type = "event" -> {}
    [] Recording[i].type = "energy" -> EnergyRowsOf(i)
    [] Recording[i].type = "ota" ->
         IF Recording[i].registration = EmulatorRegistration THEN OtaRowsOf(i) ELSE {}

(* The types; a table, once the tool started, holds no two rows of a key,  *)
(* and the tool is done only when it read all frames and wrote all rows.   *)
TypeOK ==
  /\ args \in Invocations
  /\ phase \in {"starting", "reading", "done", "failed", "interrupted"}
  /\ next \in 1 .. Len(Recording) + 1
  /\ DOMAIN positions = Nems /\ unset \in BOOLEAN
  /\ phase # "starting" => Old \notin Range(output)
  /\ phase = "done" => next = Len(Recording) + 1 /\ pending = << >>
  /\ args.format = "sqlitedb" =>
       \A j, k \in 1 .. Len(output) :
          output[j].kind = "row" /\ output[k].kind = "row" /\ j # k => Key(output[j]) # Key(output[k])

(* However the tool ends, and wherever it is: every row is one of a frame  *)
(* read, with the power, the times and the position of its transmitter     *)
(* that frame and the location events before it give it; and no row is     *)
(* missing of a frame that the tool has done with.                         *)
RowsTellRecording ==
  /\ \A row \in OutputRows : \E i \in 1 .. next - 1 : row \in RowsOf(i)
  /\ \A i \in 1 .. next - 1 :
       i < next - 1 \/ pending = << >> => RowsOf(i) \subseteq OutputRows

(* The rows of a frame differ in the columns of the primary key, in which  *)
(* there is no transmitter.                                                *)
RowKeysDiffer(frame) ==
  \A t, u \in DOMAIN frame.transmitters, a, b \in DOMAIN frame.antennas :
    \A s \in DOMAIN SegmentsOf(frame, a), r \in DOMAIN SegmentsOf(frame, b) :
      /\ frame.antennas[a].index = frame.antennas[b].index
      /\ SegmentsOf(frame, a)[s].freq = SegmentsOf(frame, b)[r].freq
      /\ SegmentsOf(frame, a)[s].offset = SegmentsOf(frame, b)[r].offset
      => t = u /\ a = b /\ s = r

EnergyKeysDiffer(frame) ==
  \A k, l \in DOMAIN frame.energies :
    /\ frame.energies[k].subid = frame.energies[l].subid
    /\ frame.energies[k].freq = frame.energies[l].freq
    => k = l

(* The recordings that the tools convert: those of a transmission have no  *)
(* antenna that points and no group out of range, the bins of measurements *)
(* are of one number, and one without position precedes those with one;    *)
(* for a table, the keys differ; the progress is of a file that is not     *)
(* empty.                                                                  *)
Convertible ==
  /\ args.progress => ~args.stdin /\ (Recording # << >> \/ args.torn)
  /\ \A i \in Frames : LET frame == Recording[i] IN
       /\ frame.type = "ota" =>
            \A a \in DOMAIN frame.antennas :
               ~frame.antennas[a].pointing /\ frame.antennas[a].group \in DOMAIN frame.groups
       /\ frame.type = "energy" =>
            /\ frame.pov # Missing => \E j \in 1 .. i - 1 : Recording[j].pov = Missing
            /\ \A k \in DOMAIN frame.energies :
                 /\ frame.energies[k].bins > 0
                 /\ \A j \in Frames : \A l \in DOMAIN Recording[j].energies :
                      Recording[j].energies[l].bins = frame.energies[k].bins
  /\ args.format = "sqlitedb" =>
       /\ \A i, j \in Frames : \A r \in RowsOf(i), s \in RowsOf(j) : Key(r) = Key(s) => i = j
       /\ \A i \in Frames :
            /\ Recording[i].type = "ota" /\ Recording[i].registration = EmulatorRegistration
               => RowKeysDiffer(Recording[i])
            /\ Recording[i].type = "energy" => EnergyKeysDiffer(Recording[i])

(* A convertible recording is never given up: no frame of it leaves behind *)
(* what makes a later one fail.                                            *)
ConvertsConvertible == Convertible => phase # "failed"

(* The tool ends, also at the end of a recording whose last frame is torn. *)
Ends == <>(phase \in {"done", "failed", "interrupted"})

(* "Each energy measurement is converted into multiple row entries": the   *)
(* documentation of the energy tool.                                       *)
EachMeasurementConverted ==
  phase \in {"done", "failed"} => \A i \in Frames : RowsOf(i) \subseteq OutputRows
=============================================================================
