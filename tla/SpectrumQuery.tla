---------------------------- MODULE SpectrumQuery ----------------------------
(***************************************************************************)
(* The periodic spectrum query of MonitorPhy (monitorphy.cc).  A timer     *)
(* callback, querySpectrumService, asks every noise recorder for the       *)
(* energy since the previous query, reduces it to the largest power of     *)
(* each query bin, publishes one SpectrumEnergy message and schedules      *)
(* itself again.  Receptions record energy between two callbacks; both run *)
(* one after the other on the NEM layer's queue thread, so each is one     *)
(* action.                                                                 *)
(*                                                                         *)
(* The hard parts are the clock (a system clock: it may step back), late   *)
(* callbacks (the thread was busy), the unsigned difference of query       *)
(* indices, a member the constructor does not initialise, and an exception *)
(* raised after the sequence number was taken and before the timer was     *)
(* scheduled again.                                                        *)
(***************************************************************************)
EXTENDS Integers, Sequences, FiniteSets, NoiseBins, NoiseRecorders

CONSTANTS
  Rate,         \* spectrumquery.rate, microseconds
  QueryBin,     \* spectrumquery.binsize
  NoiseBin,     \* noisebinsize
  MaxClamp,     \* noisemaxclampenable
  Freqs,        \* the (subid, frequency) pairs transmissions use
  InitIndex,    \* values lastQueryIndex_ may hold before the first query
  InitSequence, \* values u64SequenceNumber_ may hold before the first query
  Word,         \* size of std::uint64_t's range, scaled down
  StartTimes,   \* instants at which the monitor may be started
  MaxTime,      \* bound: the last instant of a behaviour
  MaxLate,      \* bound: how late the layer thread runs a timer callback
  MaxStepBack,  \* bound: how far one adjustment sets the clock back
  MaxAdjustments, \* bound: times the clock is set back
  MaxAge,       \* bound: how long after its reception time a message is processed
  MaxAhead,     \* bound: how far ahead of the clock energy is recorded
  Ids           \* what tells segments apart; how many there are is a bound

ASSUME ParameterAssumption ==
  /\ Rate \in Nat \ {0} /\ QueryBin \in Nat \ {0} /\ NoiseBin \in Nat \ {0}
  /\ MaxDuration \in Nat /\ MaxClamp \in BOOLEAN
(* A difference of two indices is below half of the range.                 *)
ASSUME InitialAssumption ==
  /\ Word \in Nat /\ MaxTime \div Rate < Word /\ 2 * (MaxTime \div Rate) <= Word
  /\ InitIndex \subseteq 0 .. Word - 1 /\ InitSequence \subseteq Nat
ASSUME TimeAssumption ==
  /\ MaxTime \in Nat /\ MaxLate \in Nat
  /\ MaxStepBack \in Nat /\ MaxAdjustments \in Nat
  /\ MaxAge \in Nat /\ MaxAhead \in Nat /\ IsFiniteSet(Ids)
  /\ StartTimes \subseteq Rate .. MaxTime

VARIABLES
  now,            \* Clock::now()
  adjustments,    \* how often the clock was set back
  started,        \* MonitorPhy::start() has run
  lastQueryIndex, \* lastQueryIndex_
  sequenceNumber, \* u64SequenceNumber_
  timers,         \* instants querySpectrumService is scheduled at
  queued,         \* those that expired, their callbacks queued on the layer's thread
  power,          \* per frequency, the power in each noise bin of its recorder
  receptions,     \* history: the segments received, each with the number of messages before it
  published       \* history: the messages published, oldest first

vars == <<now, adjustments, started, lastQueryIndex, sequenceNumber, timers, queued, power, recorders,
          receptions, published>>

NoiseBinIndices == 0 .. (MaxTime + MaxAhead) \div NoiseBin

(* getQueryIndex and getQueryTime *)
QueryIndexUndivided(t) == t
QueryIndex(t) == t \div Rate
QueryTime(index) == index * Rate

(* binSummaryCount: the number of energy measurements per frequency.       *)
BinSummaryCountShort == Rate \div QueryBin - 1
BinSummaryCount == Rate \div QueryBin

-----------------------------------------------------------------------------
(* What a query sees.  currentQueryIndex and, after the test for a first   *)
(* call, lastQueryIndex_.  Their difference is unsigned.                   *)
CurrentIndex == QueryIndex(now)
FromIndex == IF lastQueryIndex = 0 THEN CurrentIndex ELSE lastQueryIndex
Elapsed == (CurrentIndex - FromIndex) % Word

(* Rate * Elapsed as a signed duration: a wrapped difference is negative.  *)
RequestDuration ==
  Rate * IF Elapsed * 2 < Word THEN Elapsed ELSE Elapsed - Word

(* SpectrumMonitorAlt::request_i throws when the duration is over the      *)
(* maximum and is not clamped.  A negative duration passes that test and   *)
(* no window of bins comes back.                                           *)
RequestThrows == (RequestDuration > MaxDuration /\ ~MaxClamp) \/ RequestDuration < 0

RequestWindow(f) ==
  RecorderWindow(power[f], NoiseBin, QueryTime(FromIndex),
                 IF RequestDuration > MaxDuration THEN MaxDuration ELSE RequestDuration)

BinStart(from, i) == QueryTime(from) + QueryBin * i
BinEndOneBinOn(from, i) == QueryTime(from) + QueryBin * (i + 2) - 1
BinEnd(from, i) == QueryTime(from) + QueryBin * (i + 1) - 1

QueryThrows ==
  \E f \in recorders :
     \/ RequestThrows
     \/ \E i \in 0 .. BinSummaryCount - 1 :
           MaxNoiseBinThrows(RequestWindow(f), BinStart(FromIndex, i), BinEnd(FromIndex, i))

Message ==
  [start    |-> QueryTime(FromIndex),
   duration |-> QueryBin,
   sequence |-> sequenceNumber,
   energies |-> [f \in recorders |->
                   [i \in 0 .. BinSummaryCount - 1 |->
                      MaxNoiseBin(RequestWindow(f), BinStart(FromIndex, i),
                                  BinEnd(FromIndex, i))]]]

(* querySpectrumService.  The first call only notes the index; a call in a *)
(* later interval publishes, or throws having used up a sequence number; a *)
(* call in an interval that was already queried does nothing, and does not *)
(* schedule another.                                                       *)
FirstQuery ==
  /\ lastQueryIndex = 0
  /\ lastQueryIndex' = CurrentIndex
  /\ timers' = timers \cup {QueryTime(CurrentIndex + 1)}
  /\ UNCHANGED <<sequenceNumber, published>>

PublishQueryTimedFromLast ==
  /\ Elapsed >= 1
  /\ ~QueryThrows
  /\ published' = Append(published, Message)
  /\ sequenceNumber' = sequenceNumber + 1
  /\ lastQueryIndex' = CurrentIndex
  /\ timers' = timers \cup {QueryTime(FromIndex + 1)}

PublishQueryIndexBehind ==
  /\ Elapsed >= 1
  /\ ~QueryThrows
  /\ published' = Append(published, Message)
  /\ sequenceNumber' = sequenceNumber + 1
  /\ lastQueryIndex' = CurrentIndex - 1
  /\ timers' = timers \cup {QueryTime(CurrentIndex + 1)}

PublishQueryUnscheduled ==
  /\ Elapsed >= 1
  /\ ~QueryThrows
  /\ published' = Append(published, Message)
  /\ sequenceNumber' = sequenceNumber + 1
  /\ lastQueryIndex' = CurrentIndex
  /\ UNCHANGED timers

PublishQuery ==
  /\ Elapsed >= 1
  /\ ~QueryThrows
  /\ published' = Append(published, Message)
  /\ sequenceNumber' = sequenceNumber + 1
  /\ lastQueryIndex' = CurrentIndex
  /\ timers' = timers \cup {QueryTime(CurrentIndex + 1)}

FailedQueryRetried ==
  /\ Elapsed >= 1
  /\ QueryThrows
  /\ sequenceNumber' = sequenceNumber + 1
  /\ lastQueryIndex' = CurrentIndex
  /\ timers' = timers \cup {QueryTime(CurrentIndex + 1)}
  /\ UNCHANGED published

FailedQuery ==
  /\ Elapsed >= 1
  /\ QueryThrows
  /\ sequenceNumber' = sequenceNumber + 1
  /\ UNCHANGED <<lastQueryIndex, timers, published>>

RepeatedQuery ==
  /\ lastQueryIndex # 0
  /\ Elapsed = 0
  /\ UNCHANGED <<lastQueryIndex, sequenceNumber, timers, published>>

QuerySpectrumService ==
  \/ FirstQuery
  \/ PublishQuery
  \/ FailedQuery
  \/ RepeatedQuery

-----------------------------------------------------------------------------
Start ==
  /\ ~started
  /\ started' = TRUE
  /\ QuerySpectrumService
  /\ UNCHANGED <<now, adjustments, queued, power, recorders, receptions>>

(* The timer service queues the callback on the layer's thread ...         *)
TimerExpires ==
  /\ \E t \in timers :
        /\ t <= now
        /\ timers' = timers \ {t}
        /\ queued' = queued \cup {t}
  /\ UNCHANGED <<now, adjustments, started, lastQueryIndex, sequenceNumber, power,
                 recorders, receptions, published>>

(* ... which runs it when it has done the work queued before it.           *)
RunQuery ==
  /\ \E t \in queued : queued' = queued \ {t}
  /\ QuerySpectrumService
  /\ UNCHANGED <<now, adjustments, started, power, recorders, receptions>>

(* processUpstreamPacket.  A segment covers the noise bins first .. last,  *)
(* none if it has no duration; a message puts the energy of its segments   *)
(* (new, by their ids) into their bins.  A frequency's recorder is created *)
(* when its first energy arrives.                                          *)
Cells == {c \in [freq : Freqs, first : NoiseBinIndices, last : NoiseBinIndices \cup {-1}] :
            c.first <= c.last + 1}

Covers(cell, f, b) == cell.freq = f /\ cell.first <= b /\ b <= cell.last

RecordsEnergy(new) ==
  /\ power' = [f \in Freqs |-> [b \in NoiseBinIndices |->
                 power[f][b] + Cardinality({i \in DOMAIN new : Covers(new[i], f, b)})]]
  /\ receptions' = [i \in DOMAIN receptions \cup DOMAIN new |->
                      IF i \in DOMAIN receptions THEN receptions[i]
                      ELSE [freq |-> new[i].freq, first |-> new[i].first,
                            last |-> new[i].last, after |-> Len(published)]]

(* Segments are neither older nor further ahead than the receive path lets *)
(* them be.                                                                *)
Arriving == {c \in Cells : /\ NoiseBin * c.first >= now - MaxAge
                           /\ NoiseBin * c.last <= now + MaxAhead}

Receive(new) ==
  /\ started
  /\ recorders' = recorders \cup {new[i].freq : i \in DOMAIN new}
  /\ RecordsEnergy(new)
  /\ UNCHANGED <<now, adjustments, started, lastQueryIndex, sequenceNumber, timers,
                 queued, published>>

(* Time passes; no callback stays due for more than MaxLate.               *)
Tick ==
  /\ now < MaxTime
  /\ \A t \in timers \cup queued : now < t + MaxLate
  /\ now' = now + 1
  /\ UNCHANGED <<adjustments, started, lastQueryIndex, sequenceNumber, timers, queued,
                 power, recorders, receptions, published>>

(* The system clock is set back.                                           *)
StepBack(d) ==
  /\ started
  /\ adjustments < MaxAdjustments
  /\ now - d >= Rate
  /\ adjustments' = adjustments + 1
  /\ now' = now - d
  /\ UNCHANGED <<started, lastQueryIndex, sequenceNumber, timers, queued, power,
                 recorders, receptions, published>>

Init ==
  /\ now \in StartTimes
  /\ adjustments = 0
  /\ started = FALSE
  /\ lastQueryIndex \in InitIndex
  /\ sequenceNumber \in InitSequence
  /\ timers = {}
  /\ queued = {}
  /\ power = [f \in Freqs |-> [b \in NoiseBinIndices |-> 0]]
  /\ recorders = {}
  /\ receptions = << >>
  /\ published = << >>

Next ==
  \/ Start
  \/ TimerExpires
  \/ RunQuery
  \/ \E ids \in SUBSET (Ids \ DOMAIN receptions) :
        \E new \in [ids -> Arriving] : Receive(new)
  \/ Tick
  \/ \E d \in 1 .. MaxStepBack : StepBack(d)

Spec == Init /\ [][Next]_vars

(* The layer's thread runs what is due and the clock goes on.              *)
Fairness == WF_vars(Start) /\ WF_vars(TimerExpires) /\ WF_vars(RunQuery) /\ WF_vars(Tick)
FairSpec == Spec /\ Fairness
-----------------------------------------------------------------------------
(***************************************************************************)
(* Properties.  The bins of a message cover the instants                   *)
(*   m.start .. MeasuredUntil(m) - 1                                       *)
(***************************************************************************)
MeasuredUntil(m) == m.start + QueryBin * BinSummaryCount

Measures(m, t) == m.start <= t /\ t < MeasuredUntil(m)

IsSequence(s) == s \in Seq({s[i] : i \in 1 .. Len(s)})

Receptions == [freq : Freqs, first : NoiseBinIndices, last : NoiseBinIndices \cup {-1},
               after : Nat]

(* The variables have their types.                                         *)
TypeOK ==
  /\ now \in Nat /\ now <= MaxTime
  /\ adjustments \in Nat
  /\ started \in BOOLEAN
  /\ lastQueryIndex \in 0 .. Word - 1
  /\ sequenceNumber \in Nat
  /\ timers \subseteq Nat /\ queued \subseteq Nat
  /\ power \in [Freqs -> [NoiseBinIndices -> Nat]]
  /\ recorders \subseteq Freqs
  /\ DOMAIN receptions \subseteq Ids
  /\ receptions \in [DOMAIN receptions -> Receptions]
  /\ IsSequence(published)
  /\ \A i \in 1 .. Len(published) :
        /\ published[i].start \in Nat
        /\ published[i].sequence \in Nat
        /\ DOMAIN published[i].energies \subseteq Freqs

(* At most one callback is pending, scheduled or queued, and it is the one *)
(* for the interval that follows the last query: no path through           *)
(* querySpectrumService leaves two chains of callbacks.                    *)
TimerFollowsQuery ==
  /\ timers \cup queued \subseteq {QueryTime(lastQueryIndex + 1)}
  /\ timers \cap queued = {}

(* The sequence numbers of the messages are consecutive, so a subscriber   *)
(* that finds a hole has lost a message: the number a failing query uses   *)
(* up is never followed by another message.                                *)
ConsecutiveSequences ==
  \A i \in 1 .. Len(published) - 1 :
     published[i + 1].sequence = published[i].sequence + 1

(* Unless the clock was set back, no two messages measure a frequency at   *)
(* the same instant, whatever lastQueryIndex_ held at the start and        *)
(* however late the callbacks ran.                                         *)
NothingMeasuredTwice ==
  adjustments = 0 =>
    \A i, j \in 1 .. Len(published) :
       \A f \in DOMAIN published[i].energies \cap DOMAIN published[j].energies :
          i < j => MeasuredUntil(published[i]) <= published[j].start

(* When no callback is a whole interval late and the clock is not set      *)
(* back, each message starts where the bins of the one before it end.      *)
ContiguousMessages ==
  adjustments = 0 =>
    \A i \in 1 .. Len(published) - 1 :
       published[i + 1].start = MeasuredUntil(published[i])

(* The segments received before message j that cover bin b of a frequency. *)
Before(j, f, b) == {i \in DOMAIN receptions : /\ Covers(receptions[i], f, b)
                                              /\ receptions[i].after < j}

(* Energy recorded before a message that measures its instant is in the    *)
(* bin of that message that covers it, with the power of all segments that *)
(* met in its noise bin.                                                   *)
EnergyReported ==
  \A j \in 1 .. Len(published), f \in Freqs, b \in NoiseBinIndices :
    LET m == published[j]
        t == NoiseBin * b
    IN  Measures(m, t) /\ Before(j, f, b) # {} =>
          /\ f \in DOMAIN m.energies
          /\ m.energies[f][(t - m.start) \div QueryBin] >= Cardinality(Before(j, f, b))

(* A bin of a message never shows more power than had been recorded in a   *)
(* noise bin within its boundaries: nothing leaks in from a neighbour.     *)
NoPhantomEnergy ==
  \A j \in 1 .. Len(published) :
    \A f \in DOMAIN published[j].energies, i \in 0 .. BinSummaryCount - 1 :
       \E b \in NoiseBinIndices :
          /\ published[j].start + QueryBin * i <= NoiseBin * b
          /\ NoiseBin * b < published[j].start + QueryBin * (i + 1)
          /\ published[j].energies[f][i] <= Cardinality(Before(j, f, b))

(* Once the clock has reached an interval the query follows: the loop of   *)
(* callbacks does not end.  It may if the clock is set back: a callback    *)
(* that was queued before, and runs in the interval queried last, does     *)
(* nothing and schedules no other.                                         *)
KeepsQuerying ==
  \A index \in 0 .. QueryIndex(MaxTime) :
     now >= QueryTime(index) ~> lastQueryIndex >= index \/ adjustments > 0
=============================================================================
