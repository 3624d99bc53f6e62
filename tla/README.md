# Models of emane-spectrum-tools

TLA+ modules, TLC configurations and TLAPS proofs about the spectrum tools of
this repository: the `emane-spectrum-monitor` application and its physical
layer, the streamer and the analyzer that read what it publishes, the
`emane-spectrum-ota-recorder`, and the tools that convert recordings. Paths are relative to
the repository root; `monitorphy.cc` and its neighbours are in
`src/libemane-spectrum-monitor/`, the recorder in
`src/emane-spectrum-ota-recorder/`, the tools in `src/python/`.

## The system

| Component | State it keeps | Operations | Correct when |
|---|---|---|---|
| Spectrum query (`monitorphy.cc:530-585, 973-1147`) | last query index, sequence number, pending timer, publish socket, recorder file | `start`, `querySpectrumService` | one chain of callbacks that goes on; consecutive numbers; no instant measured twice or left out; bins show what was recorded |
| Noise-bin reduction (`maxnoisebin.h`) | none | `maxNoiseBin` | the largest power within the bounds, both ends rounded the right way |
| Receive path (`monitorphy.cc:646-971`, `receiveprocessoralt.cc`, `spectrummonitoralt.cc`) | a bandwidth, a spectrum monitor and its noise recorders per subid; managers of location, antenna, fading, pathloss; drop counters | `processUpstreamPacket`, `processEvent`, `update`, `request` | energy inside the recorders' window; successes complete; drops counted and explained |
| MonitorPhy configuration and life (`monitorphy.cc:142-636`) | parameters, the gain, the antenna given to the antenna manager, the recorder file | `initialize`, `configure`, `start`, `stop`, `processConfiguration` | a configuration that does not fit is refused; reports name the antenna that energy was received with, unless it was turned or modified since; a failed start costs no earlier recording |
| Energy streamer (`spectrumenergystreamer.py`) | store, bandwidths, lock, cancel event | `run`, `update`, `data`, `stop` | a max-hold buffer: nothing lost between two reads |
| OTA extractor (`otaextractor.cc`) | assemblies of parts by source and sequence number, time of the last check | `process` | one faithful record for each frame received; incomplete assemblies go |
| Event extractor (`eventextractor.cc`) | none | `process` | a record for a datagram of the right length, none otherwise |
| Recorder (`recorder.cc`) | epoll set, eventfd, record file | `main`, `sighandler` | the file is readable at any time; a signal ends the recorder and loses nothing collected |
| Monitor application (`monitor.cc`, `monitorconfigurationfile.cc`) | merged configuration, a mutex | `main`, `sighandler`, `load` | command line first; one signal stops it |
| Recording tools (`emane-spectrum-energy-recording-tool`, `emane-spectrum-ota-record-tool`) | positions, whether orientation and velocity were ever assigned, the header's columns, rows and their keys | read a frame, write a row | a row for each segment or measurement of each whole record, with the position of its instant |
| Analyzer (`emane-spectrum-analyzer`) | waterfalls in total and per waveform, waveforms met, the cycle of the key `w` | `_update`, `press` | shows what the streamer returned; the rows of an instant fit together; no update raises |

How they interact: the framework calls `processUpstreamPacket`, `processEvent`
and timer callbacks one after the other on a layer's queue thread, so each is
atomic with respect to the others, and reads a system clock that may be
adjusted. The query reads the noise recorders the receive path writes and
publishes to subscribers over ZeroMQ, which drops what a subscriber does not
take in time. In a subscriber the streamer's receiver thread and the callers of
`data()` share a store under a lock. The recorder is one thread and a signal
handler; its sockets are multicast UDP, so parts are lost, reordered and
duplicated.

The hard behaviours are listed, each at its line, under "hazards" in
`PROJECT.json`.

## The modules

* `NoiseBins` - pure operators of `maxnoisebin.h`: `StartIndex`, `EndIndex`,
  `MaxNoiseBinThrows`, `MaxNoiseBin`, with the two framework functions it
  depends on (`AbsoluteBin`, `RecorderWindow`) marked external.
* `SpectrumQuery` - the query cycle. `Start` and `RunQuery` run
  `QuerySpectrumService`, whose four alternatives are the paths through the
  function: `FirstQuery` (997), `PublishQuery` (1004-1146), `FailedQuery` (an
  exception out of 1032-1042: the sequence number is used up and nothing is
  scheduled) and `RepeatedQuery` (an interval that was already queried).
  `Receive` abstracts the receive path to the energy a message leaves: any new
  segments, each with the noise bins it covers, near the clock (`Arriving`).
  `TimerExpires`, `Tick` and `StepBack` are the framework's timer and the clock.
  The unsigned difference of line 1004 is taken modulo `Word`. The members the
  constructor leaves uninitialised start from any of `InitIndex` and
  `InitSequence`. Times are integers, one unit standing for a microsecond;
  rate and bin sizes are scaled down with it.
* `ReceivePath` - `ProcessUpstreamPacket` and `ProcessEvent`. A message is
  processed in one action (the code cannot be interrupted), but the action is
  computed antenna by antenna and segment by segment: `DroppedAt` is the first
  antenna that ends it, `ThrowsAt` the first segment over a limit, and
  `MessageEnergy` what was recorded before. What the framework's
  `determineGain` answers is any function of transmitter and antenna
  (`GainAnswersTo`).
* `NoiseRecorders` - what the two share: the recorders that exist, and the limit
  of durations.
* `SpectrumReport` - both together, the physical layer between the air and its
  subscribers. `Processing` is `ProcessMessage` (or the drop) of the receive path
  and `RecordsEnergy` of the query at once, at the clock's time; `Cell` gives the
  noise bins that `NoiseRecorder::update` puts a segment in. `Event` and
  `QueryStep` are the steps of either part alone. `processed` is a history of the
  instants, so that the properties speak of the time something was on the air.
* `MonitorPhy` - `Monitor` composed with the physical layer it configures,
  starts and stops: `PhyConfigure`, `PhyStart` and `PhyStop` are steps of `main`
  and of the layer at once, and either may fail. While the layer runs, the gain
  may be modified, antenna profile events arrive, messages are received and reports
  made. Of a reception it keeps the antenna whose gain was used. `start` copies the
  configuration to the antenna manager, `processConfiguration` changes the
  configuration only, and a profile event turns the manager's antenna: `Pointings`
  are the profile ids, azimuths and elevations it may tell. `ReportedAntenna` is
  what a report reads at its time, `former` a history of the antennas turned since
  the last one. The antenna manager belongs to the framework; the model assumes that
  an event turns an antenna of a profile and never one with a fixed gain.
* `MaxHold` - the abstract buffer a user of the streamer sees: `Absorb` a whole
  message, `Take` everything.
* `EnergyStreamer` - the two threads, one action per step that another thread
  can see: acquire, merge a key, publish bandwidths, release; acquire, copy,
  clear, release. `UpdateRaises` is `max([])` at line 114, which ends the
  receiver thread with the lock held. `Held` and `result.energy` map it to
  `MaxHold`.
* `Analyzer` - extends `EnergyStreamer`: `_update` is its caller of `data()`.
  `Draw` adds a row to the waterfalls of what `data()` returned; `Band` and
  `Model` spread a power over the steps of its bandwidth, `BinEnergy` and
  `Shown` give a row's value. Powers are linear and compared with a floor, where
  the code converts to dBm. `Press` takes the next waveform of the cycle, which
  `NewCycle` makes anew, in any order (it is made from a Python set), when a
  waveform is met. `Position` orders the frequencies of a store by arrival, any
  order being possible. An exception in an update is kept as `failed`.
* `OtaMessage` - what a read of a message's bytes gives, part by part
  (`StringFromVectorIO`), and the records made of them (`HandleOTAMessage`). A
  byte is its message and position, so that a record built from the wrong bytes
  is seen. Reads that do not return, or leave the vector, have a status.
* `OtaReassembly` - `Process` with its assemblies, the check that abandons
  them, and the network: `Deliver` (any order, or never), `Duplicate`,
  `Reject`, `Tick`.
* `RecorderLoop` - the recorder's loop, signals, buffered file, kill and
  restart, and starts that are refused or fail before and after the file is
  truncated (`Refuses`, `StartFails`). A datagram of the event socket goes
  through the event extractor (`EventRecords`: a record if the length it claims
  is the length it has); one of the OTA socket carries what its extractor makes
  of it, and one hangs. `ReadRecords` is the loop with which the tools read a
  recording.
* `RecordingTools` - both tools, which share their shape: a frame is read and
  becomes lines (`OtaLines`, `EnergyLines`), which are written one at a time and
  committed, so that an interrupt or a failure falls between two rows. What a
  frame leaves for the next is state: `positions`, `unset` (orientation and
  velocity were never assigned), `setUp` (the header's columns) and the rows,
  whose keys SQLite compares. The four ways to fail are those of the code: an
  antenna that points (line 285 of the OTA tool assigns to a missing field) or a
  group out of range, unset names (229-254 of the energy tool), a key or a number
  of columns the table refuses, and progress over an input of size zero.
* `Monitor` - `main` of the monitor, option by option: `ParameterOption`,
  `ConfigOption` with `Load`, `NemOption` and the rest, then `Prepare` (322-411),
  `Configure` (the merges and the defaults, 413-484) and `StartManager`, each of
  which may fail; then the handlers, the two locks and `StopManager`, with a
  signal at any instant. Values and files are model values; `Insert` is
  `std::map::insert`, by way of `Over`, and `Merge` a loop of them. Unlocking a free mutex (a signal before line 530) is
  undefined and leaves it free in a build with glibc, which the model takes: the
  signal is lost.
* `MCAnalyzer`, `MCMonitorPhy`, `MCOtaReassembly`, `MCReceivePath`,
  `MCRecorderLoop`, `MCRecordingTools`, `MCSpectrumReport` - values for the model
  checker.
* `SpectrumQueryProofs`, `AnalyzerProofs` (with the streamer's), `MonitorPhyProofs`
  (with `Monitor`'s), `SpectrumReportProofs` (with `ReceivePath`'s), `RecorderLoopProofs`,
  `OtaReassemblyProofs`, `RecordingToolsProofs` - theorems and proofs;
  `NumberInduction` - the facts about numbers they share.

`SpectrumQuery` uses `NoiseBins`; `OtaReassembly` uses `OtaMessage`;
`EnergyStreamer` instantiates `MaxHold`. `Analyzer` extends `EnergyStreamer`,
`MonitorPhy` extends `Monitor`, and `SpectrumReport` extends `SpectrumQuery` and
`ReceivePath`, so that the runs check them as they are composed in the program. Definitions whose comment or place
before another definition of a similar name shows a slip (`BinEndOneBinOn`,
`LoopsForever`, ...) are the mutations `PROJECT.json` lists: with one of them in
place of the definition it precedes, the property named there is violated.

## The runs

| Run | Question | Result |
|---|---|---|
| `spectrum_report` | receive path and query together, callbacks late by less than an interval, a clock set back once: does each segment of a success show in every bin it overlaps of every later message, was all power shown received, is nothing lost between two messages, do the queries go on? | holds; the last two unless the clock was set back |
| `query_disturbed` | with callbacks up to two intervals late, a clock set back, failing queries and an uninitialised index: one chain of callbacks, consecutive numbers, nothing measured twice, bins exactly what was recorded? | holds |
| `query_stall` | does the cycle survive a stall longer than `noisemaxsegmentduration`? | no, see below |
| `receive_path` | whatever is missing or over a limit: a counter for every drop, energy in the window, prefixes after drops? | holds |
| `analyzer` | do the threads, with `_update` as the caller, implement a max-hold buffer, and does `data()` return? Is what it returns shown, do the waterfalls stay aligned whenever waveforms come and go, does no update fail? | holds; `data()` returns unless `update` raised |
| `ota_reassembly` | parts in any order, lost, late or duplicated: are records faithful, is what was received recorded, do stale assemblies go? | holds, except for the messages with a duplicated part |
| `ota_boundary` | is a frame recorded when a field ends where a part does? | no, see below |
| `ota_timeout` | is a frame in two parts recorded whatever the timeout's memory holds? | not always, see below |
| `recorder_loop` | signals, busy sockets, a kill at any instant, a restart: does the file read as a prefix, is a clean stop complete, does a signal end the loop? | holds, unless an extractor hangs |
| `recording_tools` | over all short recordings, whole or torn, interrupted or not: are rows those of the frames read, with the positions of their instant, is everything convertible converted, does the tool end? | holds |
| `recording_position` | is each measurement of a monitor that knows its position converted? | no, see below |
| `monitor` | in every order of options and files, does the layer get the first given parameters and the last given id, do reports name the antenna their energy was received with, does a failed start leave an earlier recording, and does exactly a signal during the wait stop the manager? | holds; a report may name an antenna that profile events turned since the report before, and any once a fixed gain is modified |

Bounds. `query_*`: three to five intervals, so that a first, a normal, a late
and a failing query and the query after each occur; one frequency and two segments, so that two
powers meet in one bin and two bins in one query; `Word` of 8, 16 in
`query_disturbed`, at least twice the largest index. `spectrum_report`: two
intervals of two bins of one noise bin each, after the first query; two messages
of three (two antennas, one of them with a segment of no duration; a second
segment over the limit of durations; no antennas), sent an instant before they are
processed, with offsets, so that segments begin in one interval and end in the
next; callbacks up to an interval minus an instant late and one step back by an instant. `receive_path`: two messages and two events, from
six messages that have no, one and two antennas, segments within and over every
limit, an invalid group index, and transmitters that are and are not audible;
properties relate at most a message to its own energy. `analyzer`: three
messages and three updates, so that a message comes before, between and after
the steps of a read; the socket holds one, so that one is dropped. Two waveforms,
one with two frequencies whose bands overlap and reach over the end of the range,
one whose band does not begin at a bin; three updates are enough for a waveform
to come late and fall silent, and with a depth of two for a row to fall off. `ota_*`:
messages of one, two and three parts; one duplicated part; one rejected
datagram; three seconds against thresholds of -1, 1 and 9. `recorder_loop`:
three datagrams and two signals in two runs of the process. `recording_tools`:
every sequence of up to three of seven OTA or five energy frames, which has each
obstacle alone, before and after a good frame, and a node located before,
between and after its transmissions. `monitor`: every command line of up to three
options, so that a parameter and a file
meet in both orders and two files disagree, with sizes of the noise bin that do
and do not divide the sum of the windows; one other gain; two
pointings, so that an antenna is pointed, turned and turned back between a reception and
its report; two signals, one before and one
during the wait, or both at once. The bounds on time
and on histories stop a behaviour, so runs do not look for deadlocks; where
progress matters it is a liveness property.

Fairness. `query_stall`, `spectrum_report`: weak fairness of the start, the timer, the layer's thread
and the clock: the framework runs what is queued, and nothing in the code keeps
it from that; messages and events need not come. `KeepsQuerying` excepts a clock that was set back: a
callback that was queued before, and runs in the interval queried last, finds nothing to
do and schedules no other (997-1147), which ends the queries. `analyzer`: weak fairness of both threads' next step, and strong
fairness of acquiring the lock, since a thread that waits for a lock released
again and again gets it at some time; nobody has to send, update, press or
close.
`recorder_loop`: weak fairness of the loop's next step; datagrams, signals and
failing calls are not fair. `recording_tools`: weak fairness of the tool's next
step; nobody has to interrupt it, and its input is a file, which has an end.
`monitor`: weak fairness of `main`, a thread the operating system runs; no
signal has to come, and the layer has nothing it must do. `ReceivePath` and
`OtaReassembly` are checked for safety only.

What the violated runs show:

* `query_stall`: line 1032 asks for a window of all intervals since the last
  query. If it is longer than `noisemaxsegmentduration` and
  `noisemaxclampenable` is off, the exception leaves `querySpectrumService`
  before lines 1134-1146: the spectrum is not queried again until a restart.
* `ota_boundary`: `stringFromVectorIO` leaves its offset behind the last byte
  of a part that a field ends with, and the next read never moves on. It needs
  a message in several parts with such a coincidence.
* `ota_timeout`: the constructor gives the part timeout to
  `lastPartCheckTime_` and leaves `partTimeoutThreshold_` uninitialised. With
  a large value nothing is lost; with zero, each check abandons every assembly there
  is, and a frame in several parts may be abandoned between them. A check comes at
  most every two seconds (line 273, `recorder.cc:428`), the first at the first
  datagram, which is the one the run shows; parts that arrive between two checks are
  recorded.
* `recording_position`: the energy tool assigns orientation and velocity inside
  the branch for a measurement without `pov`. A measurement with one, before any
  without, has rows that use undefined names, and the tool ends with a
  `NameError`; after one without, the columns of all rows are empty.

Four observations need no run. A clock set back may end the queries, as said under
fairness, while line 219 of `monitorphy.cc` promises a rate. And line 1012 of `monitorphy.cc` puts the length of
one bin into `duration`, while `doc/emane-spectrum-tools-monitor.md:130` has the
bins subdivide `start_time` to `start_time + duration`. A report has the pointing of
its own time (`monitorphy.cc:1088-1101`), though an earlier one may have received its
energy. And the energy tool writes roll, pitch and yaw before azimuth, elevation and
magnitude (`emane-spectrum-energy-recording-tool:276-281, 300-305`), where its header
and its table (134-139, 159-164) have them behind: the six columns are in the wrong order.

## The proofs

All theorems hold for every value of the constants that satisfies the modules'
named assumptions.

`SpectrumQueryProofs`: `TypeCorrect`, `OneTimer`, `SequencesConsecutive` and
`MeasuredOnce`. None of the three safety properties is inductive. `IInv` adds
`NothingBeforeStart` (no callback, frequency or message before `start`),
`SequenceFollows` (while a callback is pending, the last message has the number
before the next: a failing query breaks this, and then no callback is pending,
which is why a hole never shows), `QueryNotAhead` and `MeasuredBeforeNext`
(what messages measured ends before the next query starts). The bins of a
message are within one interval because `binsize * (rate / binsize) <= rate`
(`BinsWithinRate`), and `QueryIndex` is monotonic in time. `MessagesContiguous`
needs more: under `OnTime` (callbacks less than an interval late, bins that
fill the interval, a zero index at the start) `CInv` bounds how late the pending
callback is, hence the next query is in the very next interval.
No run checks `ContiguousMessages`: `NothingLost` of the composition needs it and says more.

`ReceivedEnergyIsReported` and `ReportedEnergyWasReceived` say what the bins of a
message show, for every rate and every size of bin that `BinsAligned` admits: bins
of the query and of the interval are whole numbers of noise bins, and a noise bin is
longer than a microsecond (of one that is not, `EndIndex` takes away the bin's only
microsecond). `BinBoundaries` then says which noise bins a bin of a message covers,
`ReportedIsGreatest` that it has the greatest of their powers whenever the call does
not throw, and `WindowEndsByNow` that a window reaches no further than the clock has.
`EInv` ties the power of a noise bin to the receptions counted in it
(`PowerIsReceived`) and each reception's frequency to what was known when it came
(`FrequenciesKnown`); `LastQueryReached` says that the
last query was within the clock's range, so that the difference of line 1004, when
the clock was set back, wraps around to a negative duration and the query fails.

`AnalyzerProofs` begins with the streamer: `TypeCorrect`, `Inductive`, `LosesNothing`,
`ResultsBelongTogether` and `Refinement`. `IInv` ties the holder of the lock to
where the two threads are (`LockDiscipline`), so that a step of one inside its
critical section meets a fixed state of the other; `StoreHasBandwidth` says that
a power in the store has its bandwidth, or gets it before the lock is released.
For the refinement `UpdateAcquires` maps to `Absorb` (the part of the message
not yet merged counts as held), `DataCopies` to `Take`, and every other step to
a stutter. Each step of `AnalyzerSpec` is a step of the streamer or leaves its
variables alone (`ImplementsStreamer`), so all this holds in the composition.

The view has three theorems of its own. `AnalyzerUpdatesSucceed`: bandwidths are
never taken back (`BandwidthsKept`), so every waveform met has one in each later
result (`KnownHaveBandwidth`) and with it a row, which is what `_update` looks up;
`CycleInv` is the invariant. `WaterfallsFit`: a row of the total is bin by bin the
largest power over the frequencies, one of a waveform the largest over its own, so
none is above the total and their sum not below it; a waveform that was never met has
no row (`WaterfallInv`). Sums are folds over sets, reasoned about by
`SubsetInduction`. `EnergyIsShown`: a frequency in range has a bin (`BinOfFrequency`),
and a bin in the band of a frequency lies where the waveform is sent
(`BandIsSentOn`), for any range, step and bandwidths.

`MonitorPhyProofs` begins with `main` alone: `StoppedBySignal`. That main has
passed its second lock shows a signal only together with `WaitsOnItsLock`: while
it waits, the mutex is its own until the handler has run. Each step of `PhySpec` is
one of `main` or none of it (`ImplementsMonitor`), so what is proved of `main` holds
with the layer. `ReportsAgree` and `EarlierRecordingKept` are not inductive:
`PhaseFollows` ties the layer's phase to where `main` is, so that
`start` comes after `configure` and once; `UsedIsMade` says that nothing is
received before `start`, and that what a report is about was received with the
manager's antenna as it is or as it was before an event of the time since the last
report, and with a profile's only once it has a pointing, when the report names it too.

`CommandLineFirst`, `LastNemIdUsed` and `MonitorTypesKept` are about the options,
for every command line and all files. The properties speak of places on the line
(the least one that gives a parameter, the greatest that gives an id); the code
inserts into maps as it goes. `InsertAllProperties` says what a loop of insertions
leaves, by induction on the loop's turns. `OptionsRead` is the invariant:
while options are read, tables and ids are what the rules of the properties give for
the options before `optind` (`LineTable`, `FileTable`, `LineId`, `FileId`, and a
lemma for each on what one more option changes); after the last one the merges and
the defaults make of them what the properties state (`TablesComplete`).

`NumberInduction`: every non-empty set of naturals has a least element and a bounded
one a greatest, and `InductionUpTo`, induction up to a bound, stated with the set of
the numbers that have the property. The library states induction with an operator as
a parameter, which the provers cannot instantiate; with a set, folds, loops and
recursive functions can be reasoned about turn by turn.

`SpectrumReportProofs` begins with the receive path: `ReceiveTypes`,
`ReceiveWithinWindow`, `SuccessIsComplete`,
`PartialEnergyIsPrefix` and `ReportsWhatHasEnergy`, for any messages,
transmitters, antennas, segments and limits. The invariant `RInv` is the four
properties together with the types and `EnergyOfReceived`: every segment recorded is
of a message received, so that what is said of a message stays true when others
follow. The work is in the operators: `DroppedAt` and `ThrowsAt` point at the least
antenna and segment that ends a message, so everything before was applied.

Then the composition. `ReportImplementsReceive` and `ReportImplementsQuery`: every
step of `ReportSpec` is one of `ReceivePath` and one of `SpectrumQuery`, or leaves
their variables alone. The second is not a matter of form: that the noise bins of a
message are ones the query admits (`Arriving`) needs the bounds on times proved
of the receive path, and that a message is a reception of new segments needs
`Linked`, the invariant that ties the two parts: the query's receptions are exactly
the segments recorded, each in the noise bins of the time it was really on the air.
So all theorems of the parts hold in the composition, and
`FairReportImplementsQuery` carries over what is known of the fair query.

Three theorems follow that neither part can state, for bins that `BinsAligned` admits, the
third also under `OnTime`. They compare the instants a
segment lasts with those a bin measures, for any rate, bins, messages, limits and
clock steps; noise bins appear in the proofs only. `ReceivedIsReported` puts together
that a success records every segment (`RInv`), in noise bins of its own time
(`Linked`), that a bin of the query overlaps a segment exactly if it holds one of the
segment's noise bins (bins are aligned, `QueryBinBoundaries`), and that the bin shows
at least the power of its noise bins (`EInv` of the query). `ReportedIsReceived` goes the
other way: a positive power is at most that of a noise bin, which some reception
covers, which is a segment of a message with power. `ReceivedIsMeasured` adds the
absence of gaps: messages are contiguous when the query is on time, and start at query
times (`StartsAtQuery`), so an instant not yet measured when its segment came is in one
published later. `SuccessRecordsAll`,
`ReportedFrequencies` and `ReportTypeOK` are proved and not checked by a run:
`SuccessIsReported` contains the first; the others are parts of the invariants above.

`RecorderLoopProofs`: `RecorderTypes`, `FileIsPrefix` and `CleanStopIsComplete`.
`LInv` says that the stream written so far is the framing of the first `Written` of
the records collected (`StreamIsFrames`), that those still in hand are the rest
(`PendingIsRest`), and that the file is a prefix of the stream, wherever a kill cuts
it. `ReadRecords` is a recursive function: `ReadingExists` shows that it has a value,
`ReadsWritten`, by induction from the end of the file, that on a prefix of a framing
the value is the whole records within it.

`OtaReassemblyProofs`: `ReassemblyTypes`, `RecordsAreFaithful`,
`ReceivedMessagesAreRecorded` and `StaleAssembliesAreAbandoned`, for any messages,
for every size of part (the parts of a message are equal but for its last), and any network that duplicates, delays, drops
and reorders. The proof goes in four layers:

1. One turn of the loop of `StringFromVectorIO` takes what is left of a part or
   what is left of the field, and what it has taken is the next bytes of the
   message; by induction on the turns, a read that returns gives exactly the bytes it
   was asked for, and one over contiguous parts leaves nothing behind.
2. `HandleOTAMessage` reads the header's fields in order, so over the parts of one
   message its records are that message's.
3. Parts of a message that are kept under different offsets do not overlap, and if
   their lengths sum to the message's, they are all of it and contiguous.
4. `OInv`, the inductive invariant, ties the assemblies to that: `AssembliesSound`
   (every part kept is a part of the message its key names), `AssembliesExact`
   (`received` is the number of bytes the parts cover, and the sizes are known
   exactly when the first part is there), `ProcessedLeft` (a part processed is not
   on its way again, unless duplicated) and `Accounted` (a message of which parts were
   processed is recorded, or its assembly has them, unless it was abandoned or a part
   of it duplicated).

None of the four theorems is inductive alone: that a record is faithful follows only
when the sum of the lengths shows that the assembly is complete, and the sum is
right only because a part met twice is marked. The two messages of one key that
`KeysAssumption` excludes are in the model's hazard about a restarted emulator.

`RecordingToolsProofs`: `RecordingTypesKept`, `RowsTell` and `ConvertibleIsConverted`,
for every recording, torn or not, and every command line. The lines of a frame are
sequences joined by `FlattenSeq`; `FlatElements` says what elements such a join has
and that they differ if the parts' do, and `OtaLinesAre` and `EnergyLinesAre` what
lines a frame gives. The invariant `RInv`: positions are those the recording told up
to the frame read (`PositionsTell`), what is written and to be written are lines of
frames read (`OutputTypes`, `StateTypes`), every row of a frame read is written or to
be written, unless the tool is to fail over that frame (`RowsWritten`), and rows in a
table differ in their keys (`TableKeys`). `CInv` adds for a recording that satisfies
`Convertible` that nothing left behind makes a later line fail: no failure among the lines
to write, keys apart, orientation and velocity assigned before they are used, the
table as wide as every measurement (`NoFailure`, `KeysApart`, `AttitudeRead`,
`TableFits`).

Only model-checked: the liveness properties (`KeepsQuerying`,
`DataReturnsUnlessFailed`, both `StopsWhenSignalled`, `Ends`), since fairness is out
of the prover's reach. Every invariant and safety property of the passing runs is
proved.

## Not modelled

* The position, orientation and velocity of a message, copied from the location
  manager at the time of a query. Its antenna is in `MonitorPhy`.
* Floating-point power arithmetic: pathloss, gain, fading and spectral masks
  give a power that is zero or not.
* Parameters that are stored and decide nothing here, the parsing of values and
  of the XML configuration, logging, the statistics tables besides the drop
  counters.
* The values of a recording's columns of antenna, orientation and velocity, whether
  copied always or only if the field is there; of the latter two the model has
  whether they were ever assigned. The fading manager's own parameters, which are
  the framework's.
* What the documentation asks of a configuration and `configure` does not test
  (`monitorphy.cc:219, 226`: multiples of `noisebinsize`, a bin within the rate):
  the queries of such a configuration. A message without bins, which it may give,
  is in the analyzer's run.
* A callback of the query after `stop`: `stop` and `destroy` only log, and
  whether the framework still runs a timer is outside the repository.
* Undefined behaviour with unbounded outcomes: a group index equal to the
  number of groups (`receiveprocessoralt.cc:72`) and the bytes read behind the
  last part of a message with a duplicated part, which stops the model with a
  status.
* The lines, axes and noise columns of the analyzer, which keep nothing for the
  next update; the conversion of powers to dBm, which is monotonic.
* The OpenTestPoint probe (a generator that runs at build time and an adapter
  without state), the message formats (declarations), build files.

## Plan

Done: every component that changes state, each with its properties; the composition of
receive path and query; proofs of all safety properties the runs check, component by
component and for the compositions. What would come next is the composition of a
monitor with its subscriber: `SpectrumReport` publishing to `EnergyStreamer` over a
socket that drops messages, so that the chain from the air to the drawn row is one statement.
