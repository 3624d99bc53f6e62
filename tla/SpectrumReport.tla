---------------------------- MODULE SpectrumReport ----------------------------
(***************************************************************************)
(* MonitorPhy as its subscribers see it: messages from the air come in     *)
(* (ReceivePath), spectrum energy goes out (SpectrumQuery), and the noise  *)
(* recorders are between them.  A message is processed at the clock's time *)
(* and its segments are recorded relative to it; events, messages and      *)
(* callbacks run one after the other on the NEM layer's queue thread, in   *)
(* any order.                                                              *)
(***************************************************************************)
EXTENDS SpectrumQuery, ReceivePath

(* What the query needs of the limits of the receive path: a segment's     *)
(* noise bins are no further from the clock than its bounds say, its       *)
(* frequency is one of the query's, and its id one of its ids.             *)
ASSUME LimitsAgree ==
  /\ MaxAge >= TimeSyncThreshold + NoiseBin
  /\ MaxAhead >= TimeSyncThreshold + MaxOffset + MaxPropagation + MaxDuration
ASSUME SegmentsAgree ==
  \A m \in Messages : \A a \in 1 .. Len(m.antennas) :
     m.antennas[a].group <= Len(m.groups) =>
       \A s \in 1 .. Len(Segments(m, a)) :
          /\ <<m.subid, Segments(m, a)[s].freq>> \in Freqs
          /\ \A n \in 1 .. MaxMessages : <<n, a, s>> \in Ids

VARIABLE processed \* history: the instants the messages were processed at

queryVars == <<now, adjustments, started, lastQueryIndex, sequenceNumber, timers, queued,
               published>>
managerVars == <<maxClamp, pathloss, delay, fading, events>>
reportVars == <<vars, receiveVars, processed>>

Id(e) == <<e.message, e.antenna, e.segment>>
Frequency(e) == <<e.subid, e.freq>>

(* NoiseRecorder::update: the noise bins of a segment that is recorded now *)
(* begin with the one its start lies in and end with the one its end lies  *)
(* in or closes.                                                           *)
CellUnadjusted(e) ==
  [freq  |-> Frequency(e),
   first |-> AbsoluteBin(now + e.start, NoiseBin, FALSE),
   last  |-> AbsoluteBin(now + e.end, NoiseBin, FALSE)]

CellOfClaimedTime(e) ==
  [freq  |-> Frequency(e),
   first |-> AbsoluteBin(now, NoiseBin, FALSE),
   last  |-> AbsoluteBin(now + (e.end - e.start), NoiseBin, TRUE)]

Cell(e) ==
  [freq  |-> Frequency(e),
   first |-> AbsoluteBin(now + e.start, NoiseBin, FALSE),
   last  |-> AbsoluteBin(now + e.end, NoiseBin, TRUE)]

NewSegments(m, skew, answers) ==
  [id \in UNION {{<<Len(received) + 1, a, s>> : s \in RecordedSegments(m, a)} :
                   a \in UpdatedAntennas(m, answers)} |->
     Cell(SegmentEnergy(m, id[2], id[3], skew))]

(* The epoch is longer ago than clocks may differ.                         *)
Processing(m, skew) ==
  /\ started /\ now >= TimeSyncThreshold
  /\ Len(received) < MaxMessages
  /\ \/ DropWithoutAntennas(m) /\ RecordsEnergy(<< >>)
     \/ \E answers \in GainAnswersTo(m) :
           ProcessMessage(m, skew, answers) /\ RecordsEnergy(NewSegments(m, skew, answers))
  /\ processed' = Append(processed, now)
  /\ UNCHANGED <<queryVars, managerVars>>

Event(n) ==
  /\ ProcessEvent(n)
  /\ UNCHANGED <<queryVars, power, receptions, processed>>

QueryStep ==
  /\ \/ Start
     \/ TimerExpires
     \/ RunQuery
     \/ Tick
     \/ \E d \in 1 .. MaxStepBack : StepBack(d)
  /\ UNCHANGED <<managerVars, spectrumMap, drops, energy, received, processed>>

ReportInit ==
  /\ Init /\ ReceiveInit
  /\ maxClamp = MaxClamp
  /\ processed = << >>

ReportNext ==
  \/ \E m \in Messages, skew \in Skews : Processing(m, skew)
  \/ \E n \in Nems : Event(n)
  \/ QueryStep

ReportSpec == ReportInit /\ [][ReportNext]_reportVars

(* Messages and events may come or not; the query runs when it is due.     *)
FairReportSpec == ReportSpec /\ Fairness

-----------------------------------------------------------------------------
(***************************************************************************)
(* Properties.  Bin i of message j measures the instants                   *)
(*    BinLow(j, i) .. BinHigh(j, i) - 1                                    *)
(* and a recorded segment lasts from From(e) to Until(e).                  *)
(***************************************************************************)
BinLow(j, i) == published[j].start + QueryBin * i
BinHigh(j, i) == published[j].start + QueryBin * (i + 1)

From(e) == processed[e.message] + e.start
Until(e) == processed[e.message] + e.end
RecordedBefore(e, j) == receptions[Id(e)].after < j

Overlaps(e, j, i) == From(e) < BinHigh(j, i) /\ BinLow(j, i) < Until(e)

ShowsPower(j, f, i) == f \in DOMAIN published[j].energies /\ published[j].energies[f][i] > 0

(* The history of when the messages were processed is complete, and the    *)
(* segments the query reports from are those the receive path recorded.    *)
ReportTypeOK ==
  /\ processed \in Seq(0 .. MaxTime)
  /\ Len(processed) = Len(received)
  /\ DOMAIN receptions = {Id(e) : e \in energy}

(* What is received is reported: every segment of a message that counts as *)
(* a success and has power is recorded, and shows in every bin it overlaps *)
(* of every message published from then on, whatever the clock does        *)
(* between reception and query.  A segment without a duration may not.     *)
SuccessIsReported ==
  \A n \in 1 .. Len(received) :
     LET m == received[n].of
     IN  received[n].status = "success" /\ Audible(m) =>
           \A a \in 1 .. Len(m.antennas) : \A s \in 1 .. Len(Segments(m, a)) :
              \E e \in energy :
                 /\ Id(e) = <<n, a, s>>
                 /\ \A j \in 1 .. Len(published), i \in 0 .. BinSummaryCount - 1 :
                      From(e) < Until(e) /\ RecordedBefore(e, j) /\ Overlaps(e, j, i) =>
                        ShowsPower(j, Frequency(e), i)

(* What is reported was received: a bin shows power on a frequency only if *)
(* it overlaps a segment on that frequency of a message with power that    *)
(* was processed before.                                                   *)
ReportedWasReceived ==
  \A j \in 1 .. Len(published) : \A f \in DOMAIN published[j].energies :
     \A i \in 0 .. BinSummaryCount - 1 :
        published[j].energies[f][i] > 0 =>
          \E e \in energy : /\ Frequency(e) = f /\ RecordedBefore(e, j) /\ Overlaps(e, j, i)
                            /\ Audible(received[e.message].of)

(* Energy is lost only to a message that was published too early for it:   *)
(* while callbacks are less than an interval late and the clock is not set *)
(* back, every instant of a recorded segment that no message had measured  *)
(* when the segment was recorded is in the first message that comes to     *)
(* measure it.                                                             *)
Unmeasured(e, t) ==
  LET after == receptions[Id(e)].after
  IN  /\ published[1].start <= t
      /\ after > 0 => MeasuredUntil(published[after]) <= t

NothingLost ==
  adjustments = 0 /\ published # << >> =>
    \A e \in energy : \A t \in From(e) .. Until(e) - 1 :
       Unmeasured(e, t) /\ t < MeasuredUntil(published[Len(published)]) =>
         \E j \in 1 .. Len(published) :
            /\ RecordedBefore(e, j)
            /\ Measures(published[j], t)
            /\ ShowsPower(j, Frequency(e), (t - published[j].start) \div QueryBin)
=============================================================================
