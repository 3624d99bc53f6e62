------------------------- MODULE SpectrumQueryProofs -------------------------
(***************************************************************************)
(* Proofs about SpectrumQuery, for every rate, bin size, word size and     *)
(* every bound.                                                            *)
(***************************************************************************)
EXTENDS SpectrumQuery, NumberInduction, FiniteSetTheorems, SequenceTheorems

-----------------------------------------------------------------------------
(* getQueryIndex and getQueryTime are adjoint: an instant lies in the      *)
(* interval that starts at the time of its index.                          *)
LEMMA QueryIndexBounds ==
  ASSUME NEW t \in Nat
  PROVE  /\ QueryIndex(t) \in Nat
         /\ QueryTime(QueryIndex(t)) <= t
         /\ t < QueryTime(QueryIndex(t)) + Rate
  BY ParameterAssumption DEF QueryIndex, QueryTime

LEMMA QueryTimeNat ==
  ASSUME NEW i \in Nat
  PROVE  QueryTime(i) \in Nat /\ QueryTime(i + 1) = QueryTime(i) + Rate
  BY ParameterAssumption DEF QueryTime

LEMMA QueryTimeIncreases ==
  ASSUME NEW i \in Nat, NEW j \in Nat, i < j
  PROVE  QueryTime(i) + Rate <= QueryTime(j)
  BY ParameterAssumption DEF QueryTime

LEMMA QueryIndexMonotonic ==
  ASSUME NEW t \in Nat, NEW u \in Nat, t <= u
  PROVE  QueryIndex(t) <= QueryIndex(u)
<1> SUFFICES ASSUME QueryIndex(u) < QueryIndex(t)
             PROVE  FALSE
  BY QueryIndexBounds
<1>1. QueryTime(QueryIndex(u)) + Rate <= QueryTime(QueryIndex(t))
  BY QueryIndexBounds, QueryTimeIncreases
<1>2. QueryTime(QueryIndex(t)) <= t /\ u < QueryTime(QueryIndex(u)) + Rate
  BY QueryIndexBounds
<1>3. QueryTime(QueryIndex(u)) \in Nat /\ QueryTime(QueryIndex(t)) \in Nat
  BY QueryIndexBounds, QueryTimeNat
<1> QED
  BY <1>1, <1>2, <1>3, ParameterAssumption

(* The bins of a message never reach into the interval after the one it    *)
(* starts in.                                                              *)
LEMMA BinsWithinRate ==
  /\ BinSummaryCount \in Nat
  /\ QueryBin * BinSummaryCount \in Nat
  /\ QueryBin * BinSummaryCount <= Rate
  BY ParameterAssumption DEF BinSummaryCount

LEMMA AppendIsSequence ==
  ASSUME NEW s, IsSequence(s), NEW m
  PROVE  /\ IsSequence(Append(s, m))
         /\ Len(s) \in Nat
         /\ Len(Append(s, m)) = Len(s) + 1
         /\ Append(s, m)[Len(s) + 1] = m
         /\ \A i \in 1 .. Len(s) : Append(s, m)[i] = s[i]
<1> DEFINE t == Append(s, m)
           S == {s[i] : i \in 1 .. Len(s)} \cup {m}
<1>1. s \in Seq(S)
  BY DEF IsSequence
<1>2. t \in Seq(S)
  BY <1>1
<1>3. Len(t) = Len(s) + 1 /\ Len(s) \in Nat
  BY <1>1
<1>4. \A i \in 1 .. Len(s) : t[i] = s[i]
  BY <1>1
<1>5. t[Len(s) + 1] = m
  BY <1>1, <1>3
<1>6. S \subseteq {t[i] : i \in 1 .. Len(t)}
  BY <1>3, <1>4, <1>5
<1> QED
  BY <1>2, <1>3, <1>4, <1>5, <1>6 DEF IsSequence

-----------------------------------------------------------------------------
(* The inductive invariant.  Before start() nothing is scheduled and       *)
(* nothing was received; while a callback is pending the last message      *)
(* carries the number before the next; unless the clock was set back the   *)
(* last query is not ahead of the clock, and what was measured lies before *)
(* the interval the next query starts from.                                *)
NothingBeforeStart ==
  ~started => timers = {} /\ queued = {} /\ recorders = {} /\ published = << >>

SequenceFollows ==
  timers \cup queued # {} /\ Len(published) > 0 =>
    published[Len(published)].sequence + 1 = sequenceNumber

QueryNotAhead ==
  adjustments = 0 /\ started => lastQueryIndex <= CurrentIndex

MeasuredBeforeNext ==
  adjustments = 0 =>
    \A i \in 1 .. Len(published) :
       DOMAIN published[i].energies # {} =>
          MeasuredUntil(published[i]) <= QueryTime(lastQueryIndex)

IInv ==
  /\ TypeOK
  /\ NothingBeforeStart
  /\ TimerFollowsQuery
  /\ SequenceFollows
  /\ ConsecutiveSequences
  /\ QueryNotAhead
  /\ MeasuredBeforeNext
  /\ NothingMeasuredTwice

-----------------------------------------------------------------------------
(* The indices a query computes, when the variables have their types.      *)
LEMMA IndicesType ==
  ASSUME TypeOK
  PROVE  /\ CurrentIndex \in 0 .. Word - 1
         /\ FromIndex \in 0 .. Word - 1
         /\ Elapsed \in Nat
         /\ Elapsed = 0 <=> CurrentIndex = FromIndex
<1>1. CurrentIndex \in Nat /\ CurrentIndex <= QueryIndex(MaxTime)
  BY QueryIndexBounds, QueryIndexMonotonic, TimeAssumption DEF CurrentIndex, TypeOK
<1>2. QueryIndex(MaxTime) < Word /\ QueryIndex(MaxTime) \in Nat /\ Word \in Nat
  BY InitialAssumption, QueryIndexBounds, TimeAssumption DEF QueryIndex
<1>3. CurrentIndex \in 0 .. Word - 1
  BY <1>1, <1>2
<1>4. FromIndex \in 0 .. Word - 1
  BY <1>3 DEF FromIndex, TypeOK
<1> DEFINE d == CurrentIndex - FromIndex
<1>5. d \in Int /\ -Word < d /\ d < Word
  BY <1>2, <1>3, <1>4
<1>6. d % Word \in Nat /\ (d % Word = 0 <=> d = 0)
  <2> HIDE DEF d
  <2> QED
    BY <1>2, <1>5
<1> QED
  BY <1>3, <1>4, <1>6 DEF Elapsed

(* What every path through querySpectrumService leaves typed.              *)
LEMMA QueryKeepsTypes ==
  ASSUME TypeOK, QuerySpectrumService
  PROVE  /\ lastQueryIndex' \in 0 .. Word - 1
         /\ sequenceNumber' \in Nat
         /\ timers' \subseteq Nat
         /\ IsSequence(published)'
         /\ \A i \in 1 .. Len(published') :
               /\ published'[i].start \in Nat
               /\ published'[i].sequence \in Nat
               /\ DOMAIN published'[i].energies \subseteq Freqs
<1>1. QueryTime(CurrentIndex + 1) \in Nat /\ QueryTime(FromIndex) \in Nat
  BY IndicesType, QueryTimeNat
<1>2. CASE FirstQuery
  BY <1>1, <1>2, IndicesType DEF FirstQuery, TypeOK, IsSequence
<1>3. CASE PublishQuery
  <2>1. /\ Message.start \in Nat
        /\ Message.sequence \in Nat
        /\ DOMAIN Message.energies \subseteq Freqs
    BY <1>1 DEF Message, TypeOK
  <2>2. IsSequence(published) /\ published' = Append(published, Message)
    BY <1>3 DEF PublishQuery, TypeOK
  <2>3. IsSequence(published)'
    BY <2>2, AppendIsSequence DEF IsSequence
  <2>4. \A i \in 1 .. Len(published') :
           /\ published'[i].start \in Nat
           /\ published'[i].sequence \in Nat
           /\ DOMAIN published'[i].energies \subseteq Freqs
    <3> TAKE i \in 1 .. Len(published')
    <3>1. CASE i \in 1 .. Len(published)
      BY <2>2, <3>1, AppendIsSequence DEF TypeOK
    <3>2. CASE i = Len(published) + 1
      BY <2>1, <2>2, <3>2, AppendIsSequence
    <3> QED
      BY <2>2, <3>1, <3>2, AppendIsSequence
  <2>5. /\ lastQueryIndex' = CurrentIndex
        /\ sequenceNumber' = sequenceNumber + 1
        /\ timers' = timers \cup {QueryTime(CurrentIndex + 1)}
    BY <1>3 DEF PublishQuery
  <2>6. /\ lastQueryIndex' \in 0 .. Word - 1
        /\ sequenceNumber' \in Nat
        /\ timers' \subseteq Nat
    <3>1. lastQueryIndex' \in 0 .. Word - 1
      BY <2>5, IndicesType
    <3>2. sequenceNumber' \in Nat
      BY <2>5 DEF TypeOK
    <3>3. timers' \subseteq Nat
      BY <1>1, <2>5 DEF TypeOK
    <3> QED
      BY <3>1, <3>2, <3>3
  <2> QED
    BY <2>3, <2>4, <2>6
<1>4. CASE FailedQuery
  BY <1>4 DEF FailedQuery, TypeOK, IsSequence
<1>5. CASE RepeatedQuery
  BY <1>5 DEF RepeatedQuery, TypeOK, IsSequence
<1> QED
  BY <1>2, <1>3, <1>4, <1>5 DEF QuerySpectrumService

-----------------------------------------------------------------------------
(* What a message brings: its segments lie in the range of noise bins, the *)
(* power of a bin grows by one for each that covers it, and the history    *)
(* has them with what had been published by then.                          *)
LEMMA ArrivingIsCell ==
  ASSUME NEW ids, NEW new \in [ids -> Arriving], NEW i \in ids
  PROVE  /\ new[i].freq \in Freqs
         /\ new[i].first \in NoiseBinIndices
         /\ new[i].last \in NoiseBinIndices \cup {-1}
<1>1. new[i] \in Cells
  BY DEF Arriving
<1> QED
  BY <1>1 DEF Cells

LEMMA ReceivedPower ==
  ASSUME TypeOK, NEW ids \in SUBSET (Ids \ DOMAIN receptions),
         NEW new \in [ids -> Arriving], Receive(new)
  PROVE  /\ power' \in [Freqs -> [NoiseBinIndices -> Nat]]
         /\ \A f \in Freqs, b \in NoiseBinIndices :
               LET met == {i \in ids : Covers(new[i], f, b)}
               IN  /\ IsFiniteSet(met)
                   /\ power'[f][b] = power[f][b] + Cardinality(met)
<1> DEFINE Met(f, b) == {i \in ids : Covers(new[i], f, b)}
<1>1. DOMAIN new = ids /\ IsFiniteSet(ids)
  BY TimeAssumption, FS_Subset
<1>2. \A f, b : IsFiniteSet(Met(f, b)) /\ Cardinality(Met(f, b)) \in Nat
  <2> TAKE f, b
  <2>1. Met(f, b) \subseteq ids
    OBVIOUS
  <2> HIDE DEF Met
  <2> QED
    BY <1>1, <2>1, FS_Subset, FS_CardinalityType
<1>3. power' = [f \in Freqs |-> [b \in NoiseBinIndices |-> power[f][b] + Cardinality(Met(f, b))]]
  BY <1>1 DEF Receive, RecordsEnergy
<1> HIDE DEF Met
<1>4. power \in [Freqs -> [NoiseBinIndices -> Nat]]
  BY DEF TypeOK
<1> DEFINE Total(f, b) == power[f][b] + Cardinality(Met(f, b))
<1>5. \A f \in Freqs, b \in NoiseBinIndices : Total(f, b) \in Nat
  BY <1>2, <1>4
<1>6. power' = [f \in Freqs |-> [b \in NoiseBinIndices |-> Total(f, b)]]
  BY <1>3
<1> HIDE DEF Total
<1>7. power' \in [Freqs -> [NoiseBinIndices -> Nat]]
  <2> DEFINE Row(f) == [b \in NoiseBinIndices |-> Total(f, b)]
  <2>1. \A f \in Freqs : Row(f) \in [NoiseBinIndices -> Nat]
    BY <1>5
  <2>2. power' = [f \in Freqs |-> Row(f)]
    BY <1>6
  <2> HIDE DEF Row
  <2> QED
    BY <2>1, <2>2
<1>8. \A f \in Freqs, b \in NoiseBinIndices : power'[f][b] = Total(f, b)
  BY <1>6
<1>9. \A f \in Freqs, b \in NoiseBinIndices :
         IsFiniteSet(Met(f, b)) /\ power'[f][b] = power[f][b] + Cardinality(Met(f, b))
  BY <1>2, <1>8 DEF Total
<1> QED
  BY <1>7, <1>9, Zenon DEF Met

LEMMA ReceivedSegments ==
  ASSUME TypeOK, NEW ids \in SUBSET (Ids \ DOMAIN receptions),
         NEW new \in [ids -> Arriving], Receive(new)
  PROVE  /\ DOMAIN receptions' = DOMAIN receptions \cup ids
         /\ DOMAIN receptions' \subseteq Ids
         /\ receptions' \in [DOMAIN receptions' -> Receptions]
         /\ \A i \in DOMAIN receptions : receptions'[i] = receptions[i]
         /\ \A i \in ids : receptions'[i] = [freq |-> new[i].freq, first |-> new[i].first,
                                           last |-> new[i].last, after |-> Len(published)]
<1> DEFINE R(i) == [freq |-> new[i].freq, first |-> new[i].first, last |-> new[i].last,
                    after |-> Len(published)]
<1>1. receptions' = [i \in DOMAIN receptions \cup ids |->
                       IF i \in DOMAIN receptions THEN receptions[i] ELSE R(i)]
  BY DEF Receive, RecordsEnergy
<1>2. Len(published) \in Nat
  BY AppendIsSequence DEF TypeOK
<1>3. \A i \in ids : R(i) \in Receptions
  BY <1>2, ArrivingIsCell DEF Receptions
<1>4. \A i \in DOMAIN receptions : receptions[i] \in Receptions
  BY DEF TypeOK
<1> HIDE DEF R
<1>5. DOMAIN receptions' = DOMAIN receptions \cup ids
  BY <1>1
<1>6. /\ \A i \in DOMAIN receptions : receptions'[i] = receptions[i]
      /\ \A i \in ids : receptions'[i] = R(i)
  BY <1>1
<1>7. receptions' \in [DOMAIN receptions' -> Receptions]
  BY <1>1, <1>3, <1>4, <1>5
<1>8. DOMAIN receptions' \subseteq Ids
  BY <1>5 DEF TypeOK
<1> QED
  BY <1>5, <1>6, <1>7, <1>8 DEF R

-----------------------------------------------------------------------------
LEMMA TypeInvariance ==
  ASSUME TypeOK, [Next]_vars
  PROVE  TypeOK'
<1>1. CASE Start
  BY <1>1, QueryKeepsTypes DEF Start, TypeOK
<1>2. CASE TimerExpires
  BY <1>2 DEF TimerExpires, TypeOK, IsSequence
<1>3. CASE RunQuery
  BY <1>3, QueryKeepsTypes DEF RunQuery, TypeOK
<1>4. ASSUME NEW ids \in SUBSET (Ids \ DOMAIN receptions),
             NEW new \in [ids -> Arriving], Receive(new)
      PROVE  TypeOK'
  <2>1. power' \in [Freqs -> [NoiseBinIndices -> Nat]]
    BY <1>4, ReceivedPower
  <2>2. /\ DOMAIN receptions' \subseteq Ids
        /\ receptions' \in [DOMAIN receptions' -> Receptions]
    BY <1>4, ReceivedSegments
  <2>3. recorders' \subseteq Freqs
    BY <1>4, ArrivingIsCell DEF Receive, TypeOK
  <2>4. UNCHANGED <<now, adjustments, started, lastQueryIndex, sequenceNumber, timers,
                    queued, published>>
    BY <1>4 DEF Receive
  <2> QED
    BY <2>1, <2>2, <2>3, <2>4 DEF TypeOK, IsSequence
<1>5. CASE Tick
  BY <1>5, TimeAssumption DEF Tick, TypeOK, IsSequence
<1>6. ASSUME NEW d \in 1 .. MaxStepBack, StepBack(d)
      PROVE  TypeOK'
  <2>1. now' \in Nat /\ now' <= MaxTime /\ adjustments' \in Nat
    <3>1. Rate \in Nat /\ MaxStepBack \in Nat /\ MaxTime \in Nat
      BY TimeAssumption, ParameterAssumption
    <3>2. d \in Nat /\ now \in Nat /\ now <= MaxTime /\ adjustments \in Nat
      BY <3>1 DEF TypeOK
    <3> QED
      BY <1>6, <3>1, <3>2 DEF StepBack
  <2>2. UNCHANGED <<started, lastQueryIndex, sequenceNumber, timers, queued, power,
                    recorders, receptions, published>>
    BY <1>6 DEF StepBack
  <2> QED
    BY <2>1, <2>2 DEF TypeOK, IsSequence
<1>7. CASE UNCHANGED vars
  BY <1>7 DEF vars, TypeOK, IsSequence
<1> QED
  BY <1>1, <1>2, <1>3, <1>4, <1>5, <1>6, <1>7 DEF Next

LEMMA InitTyped == Init => TypeOK
<1> SUFFICES ASSUME Init
             PROVE  TypeOK
  OBVIOUS
<1>1. /\ now \in Nat /\ now <= MaxTime
      /\ adjustments \in Nat
      /\ lastQueryIndex \in 0 .. Word - 1
      /\ sequenceNumber \in Nat
  BY InitialAssumption, TimeAssumption, ParameterAssumption DEF Init
<1>2. power \in [Freqs -> [NoiseBinIndices -> Nat]]
  BY DEF Init
<1>3. /\ DOMAIN receptions = {} /\ receptions \in [DOMAIN receptions -> Receptions]
      /\ IsSequence(published)
      /\ Len(published) = 0
  BY DEF Init, IsSequence
<1>4. /\ started \in BOOLEAN
      /\ timers \subseteq Nat /\ queued \subseteq Nat
      /\ recorders \subseteq Freqs
  BY DEF Init
<1> QED
  BY <1>1, <1>2, <1>3, <1>4 DEF TypeOK

(* The variables keep their types.                                         *)
THEOREM TypeCorrect == Spec => []TypeOK
  BY InitTyped, TypeInvariance, PTL DEF Spec

-----------------------------------------------------------------------------
(* The invariant is about the query's own variables, the clock and what    *)
(* has been published: a step that leaves those alone keeps it.            *)
InvVars == <<now, adjustments, started, lastQueryIndex, sequenceNumber, timers,
             queued, recorders, published>>

LEMMA StutterKeepsIInv ==
  ASSUME IInv, TypeOK', UNCHANGED InvVars
  PROVE  IInv'
  BY DEF IInv, InvVars, NothingBeforeStart, TimerFollowsQuery, SequenceFollows,
         ConsecutiveSequences, QueryNotAhead, CurrentIndex, MeasuredBeforeNext,
         NothingMeasuredTwice, MeasuredUntil

LEMMA StartKeepsIInv ==
  ASSUME IInv, TypeOK', Start
  PROVE  IInv'
<1>1. /\ timers = {} /\ queued = {} /\ recorders = {} /\ published = << >>
      /\ queued' = {} /\ started' /\ now' = now
  BY DEF Start, IInv, NothingBeforeStart
<1>2. published' = << >> \/ published' = << Message >>
  BY <1>1 DEF Start, QuerySpectrumService, FirstQuery, PublishQuery, FailedQuery,
              RepeatedQuery
<1>3. DOMAIN Message.energies = {} /\ Message.sequence = sequenceNumber
  BY <1>1 DEF Message
<1>4. /\ Len(published') \in 0 .. 1
      /\ \A i \in 1 .. Len(published') : published'[i] = Message
  BY <1>2
<1>5. /\ timers' = {} \/ timers' = {QueryTime(CurrentIndex + 1)}
      /\ timers' # {} => lastQueryIndex' = CurrentIndex
      /\ timers' # {} /\ Len(published') > 0 => sequenceNumber' = sequenceNumber + 1
  <2>1. CASE FirstQuery
    BY <1>1, <2>1 DEF FirstQuery
  <2>2. CASE PublishQuery
    BY <1>1, <2>2 DEF PublishQuery
  <2>3. CASE FailedQuery \/ RepeatedQuery
    BY <1>1, <2>3 DEF FailedQuery, RepeatedQuery
  <2> QED
    BY <2>1, <2>2, <2>3 DEF Start, QuerySpectrumService
<1>6. NothingBeforeStart'
  BY <1>1 DEF NothingBeforeStart
<1>7. TimerFollowsQuery'
  BY <1>1, <1>5 DEF TimerFollowsQuery
<1>8. SequenceFollows'
  BY <1>1, <1>3, <1>4, <1>5 DEF SequenceFollows
<1>9. ConsecutiveSequences' /\ MeasuredBeforeNext' /\ NothingMeasuredTwice'
  BY <1>3, <1>4 DEF ConsecutiveSequences, MeasuredBeforeNext, NothingMeasuredTwice
<1>10. QueryNotAhead'
  <2>1. CASE lastQueryIndex' = CurrentIndex
    BY <1>1, <2>1, IndicesType DEF QueryNotAhead, CurrentIndex, IInv
  <2>2. CASE RepeatedQuery
    BY <1>1, <2>2, IndicesType DEF RepeatedQuery, QueryNotAhead, CurrentIndex, FromIndex, IInv
  <2>3. ~FailedQuery
    BY <1>1 DEF FailedQuery, QueryThrows
  <2> QED
    BY <2>1, <2>2, <2>3 DEF Start, QuerySpectrumService, FirstQuery, PublishQuery
<1> QED
  BY <1>6, <1>7, <1>8, <1>9, <1>10 DEF IInv

(* A query that publishes is in a later interval than the last one.        *)
LEMMA PublishAdvances ==
  ASSUME IInv, started, adjustments = 0, PublishQuery
  PROVE  lastQueryIndex < CurrentIndex /\ FromIndex = lastQueryIndex
<1>1. CurrentIndex # FromIndex
  BY IndicesType DEF PublishQuery, IInv
<1>2. FromIndex = lastQueryIndex
  BY <1>1 DEF FromIndex
<1>3. lastQueryIndex <= CurrentIndex
  BY DEF IInv, QueryNotAhead
<1> QED
  BY <1>1, <1>2, <1>3, IndicesType DEF IInv

(* The one case in which a message follows others.  With the clock never   *)
(* set back, it starts at or after the end of everything measured before   *)
(* it and ends at or before the next query's start.                        *)
LEMMA PublishKeepsMeasurements ==
  ASSUME IInv, TypeOK', started, PublishQuery, UNCHANGED <<now, adjustments>>
  PROVE  /\ MeasuredBeforeNext'
         /\ NothingMeasuredTwice'
<1> DEFINE n == Len(published)
<1>1. /\ n \in Nat
      /\ Len(published') = n + 1
      /\ published'[n + 1] = Message
      /\ \A i \in 1 .. n : published'[i] = published[i]
  BY AppendIsSequence DEF PublishQuery, IInv, TypeOK
<1>2. \A i \in 1 .. n : published[i].start \in Nat
  BY DEF IInv, TypeOK
<1>3. Message.start = QueryTime(FromIndex)
  BY DEF Message
<1> SUFFICES ASSUME adjustments = 0
             PROVE  /\ MeasuredBeforeNext'
                    /\ NothingMeasuredTwice'
  BY DEF MeasuredBeforeNext, NothingMeasuredTwice
<1>4. lastQueryIndex < CurrentIndex /\ FromIndex = lastQueryIndex
  BY PublishAdvances
<1>5. /\ QueryTime(lastQueryIndex) \in Nat
      /\ QueryTime(lastQueryIndex) + Rate <= QueryTime(CurrentIndex)
      /\ QueryTime(CurrentIndex) \in Nat
  BY <1>4, IndicesType, QueryTimeNat, QueryTimeIncreases DEF IInv
<1>6. lastQueryIndex' = CurrentIndex
  BY DEF PublishQuery
<1>7. /\ MeasuredUntil(Message) <= QueryTime(CurrentIndex)
      /\ QueryTime(lastQueryIndex) <= Message.start
  BY <1>3, <1>4, <1>5, BinsWithinRate, ParameterAssumption DEF MeasuredUntil
<1>8. \A i \in 1 .. n : DOMAIN published[i].energies # {} =>
                          MeasuredUntil(published[i]) <= QueryTime(lastQueryIndex)
  BY DEF IInv, MeasuredBeforeNext
<1>9. \A i \in 1 .. n : MeasuredUntil(published[i]) \in Nat
  BY <1>2, BinsWithinRate DEF MeasuredUntil
<1>10. MeasuredBeforeNext'
  <2>1. ASSUME NEW i \in 1 .. n, DOMAIN published[i].energies # {}
        PROVE  MeasuredUntil(published[i]) <= QueryTime(CurrentIndex)
    BY <2>1, <1>5, <1>8, <1>9, ParameterAssumption
  <2>2. ASSUME NEW i \in 1 .. n + 1, DOMAIN published'[i].energies # {}
        PROVE  MeasuredUntil(published'[i]) <= QueryTime(CurrentIndex)
    BY <2>1, <2>2, <1>1, <1>7
  <2>3. \A x : MeasuredUntil(x)' = MeasuredUntil(x)
    BY DEF MeasuredUntil
  <2> QED
    BY <2>2, <1>1, <1>6 DEF MeasuredBeforeNext, MeasuredUntil, QueryTime
<1>11. NothingMeasuredTwice'
  <2>1. ASSUME NEW i \in 1 .. n, DOMAIN published[i].energies # {}
        PROVE  MeasuredUntil(published[i]) <= Message.start
    BY <2>1, <1>3, <1>4, <1>8
  <2>2. ASSUME NEW i \in 1 .. n + 1, NEW j \in 1 .. n + 1, i < j,
               NEW f \in DOMAIN published'[i].energies \cap DOMAIN published'[j].energies
        PROVE  MeasuredUntil(published'[i]) <= published'[j].start
    <3>1. i \in 1 .. n /\ DOMAIN published[i].energies # {} /\ published'[i] = published[i]
      BY <2>2, <1>1
    <3>2. CASE j = n + 1
      BY <2>1, <3>1, <3>2, <1>1
    <3>3. CASE j \in 1 .. n
      BY <2>2, <3>1, <3>3, <1>1 DEF IInv, NothingMeasuredTwice
    <3> QED
      BY <3>2, <3>3, <1>1
  <2> QED
    BY <2>2, <1>1 DEF NothingMeasuredTwice, MeasuredUntil
<1> QED
  BY <1>10, <1>11

LEMMA RunQueryKeepsIInv ==
  ASSUME IInv, TypeOK', RunQuery
  PROVE  IInv'
<1> DEFINE n == Len(published)
<1>1. /\ started /\ started' = started
      /\ timers = {} /\ queued' = {}
      /\ n > 0 => published[n].sequence + 1 = sequenceNumber
  BY DEF RunQuery, IInv, NothingBeforeStart, TimerFollowsQuery, SequenceFollows, TypeOK
<1>2. n \in Nat
  BY AppendIsSequence DEF IInv, TypeOK
<1>3. now' = now /\ adjustments' = adjustments /\ recorders' = recorders
  BY DEF RunQuery
<1>4. CASE FirstQuery
  <2>1. lastQueryIndex = 0 /\ lastQueryIndex' = CurrentIndex
    BY <1>4 DEF FirstQuery
  <2>2. QueryTime(0) <= QueryTime(CurrentIndex) /\ QueryTime(0) \in Nat
           /\ QueryTime(CurrentIndex) \in Nat
    BY IndicesType, ParameterAssumption DEF IInv, QueryTime
  <2>3. MeasuredBeforeNext'
    <3>1. \A i \in 1 .. n : MeasuredUntil(published[i]) \in Nat
      BY BinsWithinRate DEF IInv, TypeOK, MeasuredUntil
    <3> QED
      BY <1>3, <1>4, <2>1, <2>2, <3>1
      DEF FirstQuery, IInv, MeasuredBeforeNext, MeasuredUntil
  <2>4. QueryNotAhead'
    BY <1>3, <2>1, IndicesType DEF IInv, QueryNotAhead, CurrentIndex
  <2> QED
    BY <1>1, <1>3, <1>4, <2>1, <2>3, <2>4
    DEF FirstQuery, IInv, NothingBeforeStart, TimerFollowsQuery, SequenceFollows,
        ConsecutiveSequences, NothingMeasuredTwice, MeasuredUntil
<1>5. CASE PublishQuery
  <2>1. /\ Len(published') = n + 1
        /\ published'[n + 1] = Message
        /\ \A i \in 1 .. n : published'[i] = published[i]
    BY <1>5, AppendIsSequence DEF PublishQuery, IInv, TypeOK
  <2>2. Message.sequence = sequenceNumber /\ sequenceNumber' = sequenceNumber + 1
    BY <1>5 DEF Message, PublishQuery
  <2>3. SequenceFollows'
    BY <2>1, <2>2 DEF SequenceFollows
  <2>4. ConsecutiveSequences'
    BY <1>1, <1>2, <2>1, <2>2 DEF IInv, ConsecutiveSequences
  <2>5. TimerFollowsQuery'
    BY <1>1, <1>5 DEF PublishQuery, TimerFollowsQuery
  <2>6. QueryNotAhead'
    BY <1>3, <1>5, IndicesType DEF PublishQuery, IInv, QueryNotAhead, CurrentIndex
  <2> QED
    BY <1>1, <1>3, <1>5, <2>3, <2>4, <2>5, <2>6, PublishKeepsMeasurements
    DEF IInv, NothingBeforeStart
<1>6. CASE FailedQuery \/ RepeatedQuery
  <2>1. /\ timers' = {} /\ lastQueryIndex' = lastQueryIndex
        /\ published' = published
    BY <1>1, <1>6 DEF FailedQuery, RepeatedQuery
  <2> QED
    BY <1>1, <1>3, <2>1
    DEF IInv, NothingBeforeStart, TimerFollowsQuery, SequenceFollows,
        ConsecutiveSequences, QueryNotAhead, CurrentIndex, MeasuredBeforeNext,
        NothingMeasuredTwice, MeasuredUntil
<1> QED
  BY <1>4, <1>5, <1>6 DEF RunQuery, QuerySpectrumService

LEMMA InvInductive ==
  ASSUME IInv, [Next]_vars
  PROVE  IInv'
<1>1. TypeOK'
  BY TypeInvariance DEF IInv
<1>2. CASE Start
  BY <1>1, <1>2, StartKeepsIInv
<1>3. CASE TimerExpires
  <2>1. PICK t \in timers : timers' = timers \ {t} /\ queued' = queued \cup {t}
    BY <1>3 DEF TimerExpires
  <2>2. UNCHANGED <<now, adjustments, started, lastQueryIndex, sequenceNumber, recorders,
                    published>>
    BY <1>3 DEF TimerExpires
  <2>3. TimerFollowsQuery' /\ timers' \cup queued' = timers \cup queued
    BY <2>1, <2>2 DEF IInv, TimerFollowsQuery, QueryTime
  <2>4. started
    BY <2>1 DEF IInv, NothingBeforeStart, TypeOK
  <2> QED
    BY <1>1, <2>2, <2>3, <2>4
    DEF IInv, NothingBeforeStart, SequenceFollows, ConsecutiveSequences, QueryNotAhead,
        CurrentIndex, MeasuredBeforeNext, NothingMeasuredTwice, MeasuredUntil
<1>4. CASE RunQuery
  BY <1>1, <1>4, RunQueryKeepsIInv
<1>5. ASSUME NEW ids \in SUBSET (Ids \ DOMAIN receptions),
             NEW new \in [ids -> Arriving], Receive(new)
      PROVE  IInv'
  BY <1>1, <1>5
  DEF Receive, IInv, NothingBeforeStart, TimerFollowsQuery, SequenceFollows,
      ConsecutiveSequences, QueryNotAhead, CurrentIndex, MeasuredBeforeNext,
      NothingMeasuredTwice, MeasuredUntil
<1>6. CASE Tick
  <2>1. CurrentIndex <= CurrentIndex'
    BY <1>6, QueryIndexMonotonic DEF Tick, CurrentIndex, IInv, TypeOK
  <2>2. QueryNotAhead'
    BY <1>1, <1>6, <2>1, IndicesType, QueryIndexBounds
    DEF Tick, IInv, TypeOK, QueryNotAhead, CurrentIndex
  <2> QED
    BY <1>1, <1>6, <2>2
    DEF Tick, IInv, NothingBeforeStart, TimerFollowsQuery, SequenceFollows,
        ConsecutiveSequences, MeasuredBeforeNext, NothingMeasuredTwice, MeasuredUntil
<1>7. ASSUME NEW d \in 1 .. MaxStepBack, StepBack(d)
      PROVE  IInv'
  <2>1. adjustments' # 0
    BY <1>7 DEF StepBack, IInv, TypeOK
  <2> QED
    BY <1>1, <1>7, <2>1
    DEF StepBack, IInv, NothingBeforeStart, TimerFollowsQuery, SequenceFollows,
        ConsecutiveSequences, QueryNotAhead, MeasuredBeforeNext, NothingMeasuredTwice
<1>8. CASE UNCHANGED vars
  BY <1>1, <1>8, StutterKeepsIInv DEF vars, InvVars
<1> QED
  BY <1>2, <1>3, <1>4, <1>5, <1>6, <1>7, <1>8 DEF Next

LEMMA InitInvariant == Init => IInv
<1> SUFFICES ASSUME Init
             PROVE  IInv
  OBVIOUS
<1>1. TypeOK
  BY InitTyped
<1> QED
  BY <1>1
  DEF Init, IInv, NothingBeforeStart, TimerFollowsQuery, SequenceFollows,
      ConsecutiveSequences, QueryNotAhead, MeasuredBeforeNext, NothingMeasuredTwice

LEMMA Invariance == Spec => []IInv
  BY InitInvariant, InvInductive, PTL DEF Spec

(* At most one callback is ever pending, and it is the one that follows    *)
(* the last query.                                                         *)
THEOREM OneTimer == Spec => []TimerFollowsQuery
  BY Invariance, PTL DEF IInv

(* No published message skips or repeats a sequence number.                *)
THEOREM SequencesConsecutive == Spec => []ConsecutiveSequences
  BY Invariance, PTL DEF IInv

(* Without clock adjustments no frequency is measured twice at an instant, *)
(* whatever the uninitialised index was and however late callbacks run.    *)
THEOREM MeasuredOnce == Spec => []NothingMeasuredTwice
  BY Invariance, PTL DEF IInv

-----------------------------------------------------------------------------
(* Contiguity, when no callback is a whole interval late, the bins fill    *)
(* the interval and lastQueryIndex_ starts from zero.  The strengthening   *)
(* bounds how late a pending callback is and ties the end of the last      *)
(* message to the interval the next one starts from.                       *)
OnTime ==
  /\ MaxLate < Rate
  /\ QueryBin * BinSummaryCount = Rate
  /\ InitIndex = {0}

IndexSetByStart ==
  /\ now >= Rate
  /\ started => lastQueryIndex > 0
  /\ ~started => lastQueryIndex = 0

PendingNotLate ==
  adjustments = 0 => \A t \in timers \cup queued : now <= t + MaxLate

LastEndsAtQuery ==
  adjustments = 0 /\ Len(published) > 0 =>
    MeasuredUntil(published[Len(published)]) = QueryTime(lastQueryIndex)

CInv ==
  /\ IInv
  /\ IndexSetByStart
  /\ PendingNotLate
  /\ LastEndsAtQuery
  /\ ContiguousMessages

(* A callback scheduled by this query is not late.                         *)
LEMMA NextTimerNotLate ==
  ASSUME TypeOK
  PROVE  now <= QueryTime(CurrentIndex + 1) + MaxLate
<1>1. now < QueryTime(CurrentIndex) + Rate /\ now \in Nat
  BY QueryIndexBounds DEF TypeOK, CurrentIndex
<1>2. /\ QueryTime(CurrentIndex) \in Nat
      /\ QueryTime(CurrentIndex + 1) = QueryTime(CurrentIndex) + Rate
  BY IndicesType, QueryTimeNat
<1> QED
  BY <1>1, <1>2, TimeAssumption, ParameterAssumption

(* An interval has passed since the epoch, so its index is not the value   *)
(* that marks the first query.                                             *)
LEMMA CurrentIndexPositive ==
  ASSUME TypeOK, now >= Rate
  PROVE  CurrentIndex > 0
<1>1. CurrentIndex \in Nat /\ now < QueryTime(CurrentIndex) + Rate
  BY QueryIndexBounds DEF CurrentIndex, TypeOK
<1>2. QueryTime(0) = 0
  BY ParameterAssumption DEF QueryTime
<1> QED
  BY <1>1, <1>2, ParameterAssumption DEF TypeOK

LEMMA RunQueryKeepsCInv ==
  ASSUME OnTime, CInv, IInv', RunQuery
  PROVE  CInv'
<1> DEFINE n == Len(published)
<1> USE DEF CInv
<1>1. /\ started /\ started' = started /\ timers = {} /\ queued' = {}
      /\ now' = now /\ adjustments' = adjustments
      /\ QueryTime(lastQueryIndex + 1) \in queued
  BY DEF RunQuery, IInv, NothingBeforeStart, TimerFollowsQuery, TypeOK
<1>2. IndexSetByStart' /\ ~FirstQuery
  <2>1. lastQueryIndex > 0 /\ CurrentIndex > 0
    BY <1>1, CurrentIndexPositive DEF IndexSetByStart, IInv
  <2>2. ~FirstQuery
    BY <2>1 DEF FirstQuery
  <2>3. lastQueryIndex' \in {lastQueryIndex, CurrentIndex}
    BY DEF RunQuery, QuerySpectrumService, FirstQuery, PublishQuery, FailedQuery,
           RepeatedQuery
  <2> QED
    BY <1>1, <2>1, <2>2, <2>3 DEF IndexSetByStart
<1>3. timers' = {} \/ timers' = {QueryTime(CurrentIndex + 1)}
  BY <1>1 DEF RunQuery, QuerySpectrumService, FirstQuery, PublishQuery, FailedQuery,
              RepeatedQuery
<1>4. PendingNotLate'
  BY <1>1, <1>3, NextTimerNotLate DEF PendingNotLate, IInv
<1> SUFFICES ASSUME adjustments = 0
             PROVE  LastEndsAtQuery' /\ ContiguousMessages'
  BY <1>1, <1>2, <1>4 DEF LastEndsAtQuery, ContiguousMessages
<1>5. CASE PublishQuery
  <2>1. /\ n \in Nat /\ Len(published') = n + 1
        /\ published'[n + 1] = Message
        /\ \A i \in 1 .. n : published'[i] = published[i]
    BY <1>5, AppendIsSequence DEF PublishQuery, IInv, TypeOK
  <2>2. lastQueryIndex < CurrentIndex /\ FromIndex = lastQueryIndex
    BY <1>1, <1>5, PublishAdvances
  <2>3. /\ lastQueryIndex \in Nat /\ CurrentIndex \in Nat
        /\ QueryTime(lastQueryIndex) \in Nat
        /\ QueryTime(lastQueryIndex + 1) = QueryTime(lastQueryIndex) + Rate
        /\ QueryTime(CurrentIndex) <= now
    BY IndicesType, QueryTimeNat, QueryIndexBounds DEF IInv, TypeOK, CurrentIndex
  <2>4. now <= QueryTime(lastQueryIndex) + Rate + MaxLate
    BY <1>1, <2>3 DEF PendingNotLate
  <2>5. ~(lastQueryIndex + 1 < CurrentIndex)
    <3> SUFFICES ASSUME lastQueryIndex + 1 < CurrentIndex
                 PROVE  FALSE
      OBVIOUS
    <3>1. QueryTime(lastQueryIndex + 1) + Rate <= QueryTime(CurrentIndex)
      BY <2>3, QueryTimeIncreases
    <3>2. QueryTime(CurrentIndex) \in Nat /\ now \in Nat
      BY <2>3, QueryTimeNat DEF IInv, TypeOK
    <3> QED
      BY <2>3, <2>4, <3>1, <3>2, ParameterAssumption, TimeAssumption DEF OnTime
  <2>6. lastQueryIndex' = lastQueryIndex + 1
    BY <1>5, <2>2, <2>3, <2>5 DEF PublishQuery
  <2>7. Message.start = QueryTime(lastQueryIndex)
    BY <2>2 DEF Message
  <2>8. MeasuredUntil(Message) = QueryTime(lastQueryIndex + 1)
    BY <2>3, <2>7 DEF MeasuredUntil, OnTime
  <2>9. LastEndsAtQuery'
    BY <2>1, <2>6, <2>8 DEF LastEndsAtQuery, MeasuredUntil, QueryTime
  <2>10. \A i \in 1 .. n : published'[i + 1].start = MeasuredUntil(published'[i])
    <3>1. ASSUME NEW i \in 1 .. n, i = n
          PROVE  published'[i + 1].start = MeasuredUntil(published'[i])
      BY <2>1, <2>7, <3>1 DEF LastEndsAtQuery
    <3>2. ASSUME NEW i \in 1 .. n - 1
          PROVE  published'[i + 1].start = MeasuredUntil(published'[i])
      BY <2>1, <3>2 DEF ContiguousMessages
    <3> QED
      BY <2>1, <3>1, <3>2
  <2> QED
    BY <2>1, <2>9, <2>10 DEF ContiguousMessages, MeasuredUntil
<1>6. CASE FailedQuery \/ RepeatedQuery
  <2>1. lastQueryIndex' = lastQueryIndex /\ published' = published
    BY <1>6 DEF FailedQuery, RepeatedQuery
  <2> QED
    BY <1>1, <2>1 DEF LastEndsAtQuery, ContiguousMessages, MeasuredUntil
<1> QED
  BY <1>2, <1>5, <1>6 DEF RunQuery, QuerySpectrumService

LEMMA CInvInductive ==
  ASSUME OnTime, CInv, IInv', [Next]_vars
  PROVE  CInv'
<1> USE DEF CInv
<1>1. CASE Start
  <2>1. /\ ~started /\ lastQueryIndex = 0 /\ CurrentIndex > 0
        /\ timers = {} /\ queued = {} /\ published = << >>
    BY <1>1, CurrentIndexPositive
    DEF Start, IndexSetByStart, IInv, NothingBeforeStart
  <2>2. Elapsed = 0
    BY <2>1, IndicesType DEF FromIndex, IInv
  <2>3. FirstQuery
    BY <1>1, <2>1, <2>2 DEF Start, QuerySpectrumService, PublishQuery, FailedQuery,
                            RepeatedQuery
  <2>4. /\ started' /\ now' = now /\ published' = << >> /\ queued' = {}
        /\ lastQueryIndex' = CurrentIndex
        /\ timers' = {QueryTime(CurrentIndex + 1)}
    BY <1>1, <2>1, <2>3 DEF Start, FirstQuery
  <2>5. PendingNotLate'
    BY <2>4, NextTimerNotLate DEF PendingNotLate, IInv
  <2>6. IndexSetByStart' /\ LastEndsAtQuery' /\ ContiguousMessages'
    BY <2>1, <2>4 DEF IndexSetByStart, LastEndsAtQuery, ContiguousMessages
  <2> QED
    BY <2>5, <2>6
<1>2. CASE TimerExpires
  <2>1. timers' \cup queued' = timers \cup queued
    BY <1>2 DEF TimerExpires
  <2> QED
    BY <1>2, <2>1 DEF TimerExpires, IndexSetByStart, PendingNotLate, LastEndsAtQuery,
                      ContiguousMessages, MeasuredUntil, QueryTime
<1>3. CASE RunQuery
  BY <1>3, RunQueryKeepsCInv
<1>4. ASSUME NEW ids \in SUBSET (Ids \ DOMAIN receptions),
             NEW new \in [ids -> Arriving], Receive(new)
      PROVE  CInv'
  BY <1>4 DEF Receive, IndexSetByStart, PendingNotLate, LastEndsAtQuery,
              ContiguousMessages, MeasuredUntil, QueryTime
<1>5. CASE Tick
  <2>1. PendingNotLate'
    BY <1>5, TimeAssumption DEF Tick, PendingNotLate, IInv, TypeOK
  <2>2. IndexSetByStart'
    BY <1>5, ParameterAssumption DEF Tick, IndexSetByStart, IInv, TypeOK
  <2> QED
    BY <1>5, <2>1, <2>2 DEF Tick, LastEndsAtQuery, ContiguousMessages, MeasuredUntil,
                            QueryTime
<1>6. ASSUME NEW d \in 1 .. MaxStepBack, StepBack(d)
      PROVE  CInv'
  <2>1. adjustments' # 0 /\ IndexSetByStart'
    BY <1>6 DEF StepBack, IndexSetByStart, IInv, TypeOK
  <2> QED
    BY <2>1 DEF PendingNotLate, LastEndsAtQuery, ContiguousMessages
<1>7. CASE UNCHANGED vars
  BY <1>7 DEF vars, IndexSetByStart, PendingNotLate, LastEndsAtQuery,
              ContiguousMessages, MeasuredUntil, QueryTime
<1> QED
  BY <1>1, <1>2, <1>3, <1>4, <1>5, <1>6, <1>7 DEF Next

(* While callbacks are less than an interval late and the bins fill the    *)
(* interval, the messages of a monitor whose clock is never set back leave *)
(* no instant out.                                                         *)
THEOREM MessagesContiguous ==
  ASSUME OnTime
  PROVE  Spec => []ContiguousMessages
<1>1. Init => CInv
  <2> SUFFICES ASSUME Init
               PROVE  CInv
    OBVIOUS
  <2>1. IInv
    BY InitInvariant
  <2>2. IndexSetByStart
    BY TimeAssumption, ParameterAssumption DEF Init, IndexSetByStart, OnTime
  <2> QED
    BY <2>1, <2>2 DEF Init, CInv, PendingNotLate, LastEndsAtQuery, ContiguousMessages
<1>2. CInv /\ IInv' /\ [Next]_vars => CInv'
  BY CInvInductive
<1>3. CInv => ContiguousMessages
  BY DEF CInv
<1> QED
  BY <1>1, <1>2, <1>3, Invariance, PTL DEF Spec

-----------------------------------------------------------------------------
(* What the bins of a message show, when the sizes are as the              *)
(* configuration's descriptions ask (monitorphy.cc:219, 226).  A noise bin *)
(* of one microsecond is left out: the end of a query bin is its last      *)
(* microsecond, which then is a boundary and counted to the bin before.    *)
BinsAligned ==
  /\ NoiseBin > 1
  /\ Rate % NoiseBin = 0 /\ QueryBin % NoiseBin = 0

LEMMA Division ==
  ASSUME NEW n \in Nat \ {0}, NEW x \in Nat, NEW r \in 0 .. n - 1
  PROVE  (n * x + r) \div n = x /\ (n * x + r) % n = r
<1> DEFINE t == n * x + r
           q == t \div n
<1>1. t \in Nat /\ q \in Int /\ n * q <= t /\ t < n * q + n /\ t % n = t - n * q
  OBVIOUS
<1>2. t = n * x + r /\ n * x \in Nat
  OBVIOUS
<1> HIDE DEF q, t
<1>3. ~(q < x)
  <2> SUFFICES ASSUME q < x PROVE FALSE
    OBVIOUS
  <2>1. q + 1 <= x
    BY <1>1
  <2>2. n * (q + 1) <= n * x
    BY <1>1, <2>1
  <2>3. n * (q + 1) = n * q + n
    BY <1>1
  <2> QED
    BY <1>1, <1>2, <2>2, <2>3
<1>4. ~(x < q)
  <2> SUFFICES ASSUME x < q PROVE FALSE
    OBVIOUS
  <2>1. x + 1 <= q
    BY <1>1
  <2>2. n * (x + 1) <= n * q
    BY <1>1, <2>1
  <2>3. n * (x + 1) = n * x + n
    BY <1>1
  <2> QED
    BY <1>1, <1>2, <2>2, <2>3
<1>5. q = x
  BY <1>1, <1>3, <1>4
<1>6. t % n = r
  BY <1>1, <1>2, <1>5
<1> QED
  BY <1>5, <1>6 DEF q, t

LEMMA MultipleOf ==
  ASSUME NEW n \in Nat \ {0}, NEW t \in Nat, t % n = 0
  PROVE  t \div n \in Nat /\ t = n * (t \div n)
  OBVIOUS

(* The noise bins of a query bin: it begins with one and ends with one.    *)
StartUnit == Rate \div NoiseBin
BinUnit == QueryBin \div NoiseBin
FirstBin(from, i) == StartUnit * from + BinUnit * i

LEMMA BinBoundaries ==
  ASSUME BinsAligned, NEW from \in Nat, NEW i \in Nat
  PROVE  /\ FirstBin(from, i) \in Nat /\ FirstBin(from, i + 1) \in Nat
         /\ FirstBin(from, i) < FirstBin(from, i + 1)
         /\ BinStart(from, i) = NoiseBin * FirstBin(from, i)
         /\ BinEnd(from, i) = NoiseBin * FirstBin(from, i + 1) - 1
         /\ QueryTime(from) = NoiseBin * FirstBin(from, 0)
         /\ AbsoluteBin(QueryTime(from), NoiseBin, FALSE) = FirstBin(from, 0)
         /\ AbsoluteBin(BinStart(from, i), NoiseBin, FALSE) = FirstBin(from, i)
         /\ AbsoluteBin(BinEnd(from, i), NoiseBin, TRUE) = FirstBin(from, i + 1) - 1
<1>1. /\ NoiseBin \in Nat \ {0} /\ NoiseBin > 1
      /\ StartUnit \in Nat /\ Rate = NoiseBin * StartUnit
      /\ BinUnit \in Nat /\ QueryBin = NoiseBin * BinUnit
  BY MultipleOf, ParameterAssumption DEF BinsAligned, StartUnit, BinUnit
<1>2. BinUnit > 0
  BY <1>1, ParameterAssumption
<1>3. ASSUME NEW k \in Nat
      PROVE  /\ FirstBin(from, k) \in Nat
             /\ QueryTime(from) + QueryBin * k = NoiseBin * FirstBin(from, k)
  <2>1. StartUnit * from \in Nat /\ BinUnit * k \in Nat
    BY <1>1
  <2>2. Rate * from = NoiseBin * (StartUnit * from)
    BY <1>1
  <2>3. QueryBin * k = NoiseBin * (BinUnit * k)
    BY <1>1
  <2>4. from * Rate = Rate * from
    BY <1>1
  <2> QED
    BY <1>1, <2>1, <2>2, <2>3, <2>4 DEF FirstBin, QueryTime
<1>4. FirstBin(from, i + 1) = FirstBin(from, i) + BinUnit
  <2>1. BinUnit * (i + 1) = BinUnit * i + BinUnit
    BY <1>1
  <2> QED
    BY <1>1, <2>1 DEF FirstBin
<1> HIDE DEF FirstBin
<1> DEFINE a == FirstBin(from, i)
           c == FirstBin(from, i + 1)
           z == FirstBin(from, 0)
<1>5. a \in Nat /\ c \in Nat /\ z \in Nat /\ a < c
  BY <1>1, <1>2, <1>3, <1>4
<1>6. BinStart(from, i) = NoiseBin * a
  BY <1>3 DEF BinStart
<1>7. BinEnd(from, i) = NoiseBin * c - 1
  <2>1. i + 1 \in Nat
    OBVIOUS
  <2>2. QueryTime(from) + QueryBin * (i + 1) = NoiseBin * c
    BY <1>3, <2>1
  <2> QED
    <3>1. QueryTime(from) \in Nat /\ QueryBin * (i + 1) \in Nat
      BY QueryTimeNat, ParameterAssumption
    <3> QED
      BY <2>2, <3>1 DEF BinEnd
<1>8. QueryTime(from) = NoiseBin * z
  BY <1>3, QueryTimeNat, ParameterAssumption
<1> HIDE DEF a, c, z
<1>9. \A x \in Nat : AbsoluteBin(NoiseBin * x, NoiseBin, FALSE) = x
  <2> TAKE x \in Nat
  <2>1. NoiseBin * x + 0 = NoiseBin * x /\ 0 \in 0 .. NoiseBin - 1
    BY <1>1
  <2>2. (NoiseBin * x) \div NoiseBin = x
    BY <1>1, <2>1, Division
  <2> QED
    BY <2>2 DEF AbsoluteBin
<1>10. AbsoluteBin(NoiseBin * c - 1, NoiseBin, TRUE) = c - 1
  <2> DEFINE x == c - 1
             r == NoiseBin - 1
  <2>1. x \in Nat /\ r \in 0 .. NoiseBin - 1 /\ r # 0
    BY <1>1, <1>5
  <2>2. NoiseBin * c - 1 = NoiseBin * x + r
    BY <1>1, <1>5
  <2> HIDE DEF x, r
  <2>3. (NoiseBin * x + r) \div NoiseBin = x /\ (NoiseBin * x + r) % NoiseBin = r
    BY <1>1, <2>1, Division
  <2>4. AbsoluteBin(NoiseBin * x + r, NoiseBin, TRUE) = x
    BY <2>1, <2>3 DEF AbsoluteBin
  <2> QED
    BY <2>2, <2>4 DEF x
<1> QED
  BY <1>5, <1>6, <1>7, <1>8, <1>9, <1>10 DEF a, c, z

(* A window that did not make a query throw ends by now: a difference of   *)
(* indices that wrapped is negative as a duration, and throws.             *)
LEMMA WindowEndsByNow ==
  ASSUME TypeOK, FromIndex <= QueryIndex(MaxTime), RequestDuration >= 0
  PROVE  /\ RequestDuration \in Nat
         /\ QueryTime(FromIndex) + RequestDuration <= now
<1> DEFINE M == QueryIndex(MaxTime)
           d == CurrentIndex - FromIndex
<1>1. /\ M \in Nat /\ Word \in Nat /\ M < Word /\ 2 * M <= Word
      /\ FromIndex \in Nat /\ CurrentIndex \in Nat /\ FromIndex <= M
  BY InitialAssumption, IndicesType, QueryIndexBounds, TimeAssumption DEF QueryIndex
<1>2. CurrentIndex <= M
  BY QueryIndexMonotonic, TimeAssumption DEF TypeOK, CurrentIndex
<1>3. /\ QueryTime(CurrentIndex) <= now
      /\ now \in Nat
  BY QueryIndexBounds DEF TypeOK, CurrentIndex
<1> HIDE DEF M
<1>4. d \in -M .. M
  BY <1>1, <1>2
<1> HIDE DEF d
<1>5. d >= 0 => d % Word = d
  BY <1>1, <1>4
<1>6. d < 0 => d % Word = d + Word
  BY <1>1, <1>4
<1>7. RequestDuration = Rate * IF (d % Word) * 2 < Word THEN d % Word ELSE (d % Word) - Word
  BY DEF RequestDuration, Elapsed, d
<1>8. d \in Nat /\ RequestDuration = Rate * d
  <2>1. CASE d < 0
    <3>1. ~((d % Word) * 2 < Word)
      BY <1>1, <1>4, <1>6, <2>1
    <3>2. RequestDuration = Rate * d
      BY <1>1, <1>4, <1>6, <1>7, <2>1, <3>1
    <3>3. Rate * d < 0
      BY <1>1, <1>4, <2>1, ParameterAssumption
    <3> QED
      BY <3>2, <3>3
  <2>2. CASE d >= 0 /\ d * 2 < Word
    BY <1>1, <1>4, <1>5, <1>7, <2>2
  <2>3. CASE d >= 0 /\ ~(d * 2 < Word)
    <3>1. RequestDuration = Rate * (d - Word) /\ d - Word \in Int /\ d - Word < 0
      BY <1>1, <1>4, <1>5, <1>7, <2>3
    <3>2. Rate * (d - Word) < 0
      BY <3>1, ParameterAssumption
    <3> QED
      BY <3>1, <3>2
  <2> QED
    BY <1>1, <1>4, <2>1, <2>2, <2>3
<1>9. CurrentIndex = FromIndex + d
  BY <1>1 DEF d
<1>10. QueryTime(CurrentIndex) = QueryTime(FromIndex) + RequestDuration
  <2>1. (FromIndex + d) * Rate = FromIndex * Rate + Rate * d
    BY <1>1, <1>8, ParameterAssumption
  <2> QED
    BY <1>8, <1>9, <2>1 DEF QueryTime
<1>11. QueryTime(FromIndex) \in Nat /\ RequestDuration \in Nat
  BY <1>1, <1>8, QueryTimeNat, ParameterAssumption
<1> QED
  BY <1>3, <1>10, <1>11

(* What MaxNoiseBin returns for a bin of a query that does not throw: the  *)
(* greatest power of the noise bins the query bin is made of.              *)
LEMMA ReportedIsGreatest ==
  ASSUME BinsAligned, TypeOK, FromIndex <= QueryIndex(MaxTime),
         NEW f \in recorders, NEW i \in 0 .. BinSummaryCount - 1,
         ~RequestThrows,
         ~MaxNoiseBinThrows(RequestWindow(f), BinStart(FromIndex, i), BinEnd(FromIndex, i))
  PROVE  LET bins == FirstBin(FromIndex, i) .. FirstBin(FromIndex, i + 1) - 1
             max  == MaxNoiseBin(RequestWindow(f), BinStart(FromIndex, i), BinEnd(FromIndex, i))
         IN  /\ bins \subseteq NoiseBinIndices
             /\ \E b \in bins : max = power[f][b]
             /\ \A b \in bins : power[f][b] <= max
<1> DEFINE duration == IF RequestDuration > MaxDuration THEN MaxDuration ELSE RequestDuration
           w == RequestWindow(f)
           z == FirstBin(FromIndex, 0)
           a == FirstBin(FromIndex, i)
           c == FirstBin(FromIndex, i + 1)
           last == AbsoluteBin(QueryTime(FromIndex) + duration, NoiseBin, TRUE)
<1>1. /\ FromIndex \in Nat /\ i \in Nat /\ i + 1 \in Nat
      /\ QueryTime(FromIndex) \in Nat /\ now \in Nat /\ now <= MaxTime
  <2>1. FromIndex \in Nat /\ now \in Nat /\ now <= MaxTime
    BY IndicesType DEF TypeOK
  <2>2. i \in Nat /\ i + 1 \in Nat
    OBVIOUS
  <2> QED
    BY <2>1, <2>2, QueryTimeNat
<1>2. RequestDuration >= 0
  <2>1. RequestDuration \in Int
    BY IndicesType, InitialAssumption, ParameterAssumption DEF RequestDuration
  <2> QED
    BY <2>1 DEF RequestThrows
<1>3. duration \in Nat /\ QueryTime(FromIndex) + duration <= MaxTime
  BY <1>1, <1>2, WindowEndsByNow, ParameterAssumption, TimeAssumption
<1>4. /\ z \in Nat /\ a \in Nat /\ c \in Nat /\ a < c
      /\ AbsoluteBin(QueryTime(FromIndex), NoiseBin, FALSE) = z
      /\ AbsoluteBin(BinStart(FromIndex, i), NoiseBin, FALSE) = a
      /\ AbsoluteBin(BinEnd(FromIndex, i), NoiseBin, TRUE) = c - 1
  <2>1. 0 \in Nat
    OBVIOUS
  <2> QED
    BY <1>1, <2>1, BinBoundaries
<1>5. w = [start |-> QueryTime(FromIndex), bin |-> NoiseBin,
           data |-> [k \in 0 .. last - z |-> power[f][z + k]]]
  BY <1>4 DEF RequestWindow, RecorderWindow
<1>6. /\ StartIndex(w, BinStart(FromIndex, i)) = a - z
      /\ EndIndex(w, BinEnd(FromIndex, i)) = c - 1 - z
  <2>1. w.start = QueryTime(FromIndex) /\ w.bin = NoiseBin
    BY <1>5
  <2> QED
    BY <1>4, <2>1, Zenon DEF StartIndex, EndIndex
<1>7. last \in Int /\ last <= (MaxTime + MaxAhead) \div NoiseBin
  <2> DEFINE t == QueryTime(FromIndex) + duration
             top == MaxTime + MaxAhead
  <2>1. t \in Nat /\ top \in Nat /\ t <= top
    BY <1>1, <1>3, TimeAssumption
  <2> HIDE DEF t, top
  <2>2. t \div NoiseBin <= top \div NoiseBin /\ t \div NoiseBin \in Int /\ top \div NoiseBin \in Int
    BY <2>1, ParameterAssumption
  <2>3. AbsoluteBin(t, NoiseBin, TRUE) \in Int /\ AbsoluteBin(t, NoiseBin, TRUE) <= t \div NoiseBin
    BY <2>2 DEF AbsoluteBin
  <2>4. last = AbsoluteBin(t, NoiseBin, TRUE)
    BY DEF t
  <2> HIDE DEF last
  <2> DEFINE u == t \div NoiseBin
             v == top \div NoiseBin
  <2>5. last \in Int /\ last <= top \div NoiseBin
    <3>1. u <= v /\ u \in Int /\ v \in Int
      BY <2>2
    <3>2. last \in Int /\ last <= u
      BY <2>3, <2>4
    <3> HIDE DEF u, v
    <3>3. last <= v
      BY <3>1, <3>2
    <3> QED
      BY <3>2, <3>3 DEF v
  <2> QED
    BY <2>5 DEF top
<1>8. a - z \in 0 .. last - z /\ c - 1 - z \in 0 .. last - z
  <2>1. DOMAIN w.data = 0 .. last - z
    BY <1>5
  <2>2. StartIndex(w, BinStart(FromIndex, i)) \in DOMAIN w.data
        /\ EndIndex(w, BinEnd(FromIndex, i)) \in DOMAIN w.data
    BY Zenon DEF MaxNoiseBinThrows
  <2> QED
    BY <1>6, <2>1, <2>2, Zenon
<1>9. MaxNoiseBin(w, BinStart(FromIndex, i), BinEnd(FromIndex, i)) =
        Max({w.data[k] : k \in a - z .. c - 1 - z})
  BY <1>6 DEF MaxNoiseBin
<1> HIDE DEF z, a, c, last, w
<1>10. a .. c - 1 \subseteq NoiseBinIndices
  BY <1>4, <1>7, <1>8, TimeAssumption, ParameterAssumption DEF NoiseBinIndices
<1> DEFINE p == power[f]
<1>11. \A b \in a .. c - 1 : p[b] \in Nat
  <2>1. p \in [NoiseBinIndices -> Nat]
    BY DEF TypeOK
  <2> QED
    BY <1>10, <2>1
<1>12. \A k \in a - z .. c - 1 - z : w.data[k] = p[z + k]
  BY <1>4, <1>5, <1>7, <1>8
<1> HIDE DEF p
<1>13. PICK g \in a .. c - 1 : \A b \in a .. c - 1 : p[b] <= p[g]
  <2>1. a <= c - 1 /\ a \in Int /\ c - 1 \in Int
    BY <1>4
  <2> QED
    BY <1>11, <2>1, GreatestValue
<1> DEFINE D == {w.data[k] : k \in a - z .. c - 1 - z}
<1>14. D = {p[b] : b \in a .. c - 1}
  <2>1. \A k \in a - z .. c - 1 - z : z + k \in a .. c - 1 /\ w.data[k] = p[z + k]
    BY <1>4, <1>12
  <2>2. \A b \in a .. c - 1 : b - z \in a - z .. c - 1 - z /\ w.data[b - z] = p[b]
    <3> TAKE b \in a .. c - 1
    <3>1. b - z \in a - z .. c - 1 - z /\ z + (b - z) = b
      BY <1>4
    <3> QED
      BY <1>12, <3>1
  <2>3. D \subseteq {p[b] : b \in a .. c - 1}
    BY <2>1
  <2>4. {p[b] : b \in a .. c - 1} \subseteq D
    BY <2>2
  <2> QED
    BY <2>3, <2>4
<1> HIDE DEF D
<1>15. Max(D) \in D /\ \A x \in D : Max(D) >= x
  <2>1. p[g] \in D /\ \A x \in D : p[g] >= x
    BY <1>11, <1>13, <1>14
  <2> QED
    BY <2>1 DEF Max
<1>16. PICK b \in a .. c - 1 : Max(D) = p[b]
  BY <1>14, <1>15
<1>17. \A e \in a .. c - 1 : p[e] <= Max(D)
  BY <1>11, <1>14, <1>15, <1>16
<1>18. MaxNoiseBin(w, BinStart(FromIndex, i), BinEnd(FromIndex, i)) = Max(D)
  BY <1>9 DEF D
<1> QED
  BY <1>10, <1>16, <1>17, <1>18 DEF a, c, w, p

(* A bin is between others as the instants it starts at are.               *)
LEMMA MultipleOrder ==
  ASSUME NEW n \in Nat \ {0}, NEW x \in Nat, NEW y \in Nat
  PROVE  /\ n * x <= n * y <=> x <= y
         /\ n * x < n * y <=> x < y
<1>1. x <= y => n * x <= n * y
  OBVIOUS
<1>2. y + 1 <= x => n * y + n <= n * x
  <2> SUFFICES ASSUME y + 1 <= x PROVE n * y + n <= n * x
    OBVIOUS
  <2>1. n * (y + 1) <= n * x
    OBVIOUS
  <2>2. n * (y + 1) = n * y + n
    OBVIOUS
  <2> QED
    BY <2>1, <2>2
<1>3. x + 1 <= y => n * x + n <= n * y
  <2> SUFFICES ASSUME x + 1 <= y PROVE n * x + n <= n * y
    OBVIOUS
  <2>1. n * (x + 1) <= n * y
    OBVIOUS
  <2>2. n * (x + 1) = n * x + n
    OBVIOUS
  <2> QED
    BY <2>1, <2>2
<1>4. y <= x => n * y <= n * x
  OBVIOUS
<1> DEFINE u == n * x
           v == n * y
<1>5. u \in Nat /\ v \in Nat
  OBVIOUS
<1> HIDE DEF u, v
<1>6. u <= v <=> x <= y
  BY <1>1, <1>2, <1>5 DEF u, v
<1>7. u < v <=> x < y
  BY <1>3, <1>4, <1>5 DEF u, v
<1> QED
  BY <1>6, <1>7 DEF u, v

-----------------------------------------------------------------------------
(* The invariant: the last query was in the clock's range, a noise bin has *)
(* the power of its receptions, and each reception's frequency is known    *)
(* from before the messages that come after it.                            *)
Covering(f, b) == {i \in DOMAIN receptions : Covers(receptions[i], f, b)}

LastQueryReached == started => lastQueryIndex <= QueryIndex(MaxTime)

NothingReceivedBeforeStart == ~started => receptions = << >>

PowerIsReceived ==
  \A f \in Freqs, b \in NoiseBinIndices : power[f][b] = Cardinality(Covering(f, b))

FrequenciesKnown ==
  \A i \in DOMAIN receptions :
     receptions[i].freq \in recorders /\ receptions[i].after <= Len(published)

EnergiesTyped ==
  \A j \in 1 .. Len(published) :
     \A f \in DOMAIN published[j].energies, i \in 0 .. BinSummaryCount - 1 :
        published[j].energies[f][i] \in Nat

EInv ==
  /\ TypeOK /\ NothingBeforeStart /\ LastQueryReached /\ NothingReceivedBeforeStart
  /\ PowerIsReceived /\ FrequenciesKnown /\ EnergiesTyped
  /\ EnergyReported /\ NoPhantomEnergy

LEMMA CoveringFinite ==
  ASSUME TypeOK, NEW f, NEW b
  PROVE  IsFiniteSet(Covering(f, b)) /\ Cardinality(Covering(f, b)) \in Nat
<1>1. Covering(f, b) \subseteq Ids
  BY DEF Covering, TypeOK
<1> QED
  BY <1>1, TimeAssumption, FS_Subset, FS_CardinalityType

(* The receptions a message can report: all there are when it is           *)
(* published, and from then on the same ones.                              *)
LEMMA BeforeNext ==
  ASSUME EInv, NEW f, NEW b
  PROVE  Before(Len(published) + 1, f, b) = Covering(f, b)
<1>1. Len(published) \in Nat
  BY AppendIsSequence DEF EInv, TypeOK
<1>2. \A i \in DOMAIN receptions : receptions[i].after \in Nat
  <2>1. \A i \in DOMAIN receptions : receptions[i] \in Receptions
    BY DEF EInv, TypeOK
  <2> QED
    BY <2>1 DEF Receptions
<1>3. \A i \in DOMAIN receptions : receptions[i].after < Len(published) + 1
  BY <1>1, <1>2 DEF EInv, FrequenciesKnown
<1> QED
  BY <1>3 DEF Before, Covering

(* The message a query publishes: each of its bins has a noise bin as high *)
(* and none that is higher.                                                *)
LEMMA MessageBins ==
  ASSUME BinsAligned, EInv, started, PublishQuery,
         NEW f \in recorders, NEW i \in 0 .. BinSummaryCount - 1
  PROVE  LET bins == {b \in NoiseBinIndices :
                        /\ Message.start + QueryBin * i <= NoiseBin * b
                        /\ NoiseBin * b < Message.start + QueryBin * (i + 1)}
         IN  /\ \E b \in bins : Message.energies[f][i] = power[f][b]
             /\ \A b \in bins : power[f][b] <= Message.energies[f][i]
<1> DEFINE a == FirstBin(FromIndex, i)
           c == FirstBin(FromIndex, i + 1)
           start == Message.start
           max == MaxNoiseBin(RequestWindow(f), BinStart(FromIndex, i), BinEnd(FromIndex, i))
           low == start + QueryBin * i
           high == start + QueryBin * (i + 1)
<1>1. /\ FromIndex \in Nat /\ i \in Nat /\ CurrentIndex <= QueryIndex(MaxTime)
  <2>1. FromIndex \in Nat /\ now \in Nat /\ now <= MaxTime
    BY IndicesType DEF EInv, TypeOK
  <2> QED
    BY <2>1, QueryIndexMonotonic, TimeAssumption DEF CurrentIndex
<1>2. FromIndex <= QueryIndex(MaxTime)
  BY <1>1 DEF FromIndex, EInv, LastQueryReached
<1>3. ~QueryThrows
  BY DEF PublishQuery
<1>4. /\ ~RequestThrows
      /\ ~MaxNoiseBinThrows(RequestWindow(f), BinStart(FromIndex, i), BinEnd(FromIndex, i))
  BY <1>3, Zenon DEF QueryThrows
<1>5. TypeOK
  BY DEF EInv
<1>6. /\ a .. c - 1 \subseteq NoiseBinIndices
      /\ \E b \in a .. c - 1 : max = power[f][b]
      /\ \A b \in a .. c - 1 : power[f][b] <= max
  BY <1>2, <1>4, <1>5, ReportedIsGreatest
<1>7. start = QueryTime(FromIndex) /\ Message.energies[f][i] = max
  BY DEF Message
<1>8. /\ a \in Nat /\ c \in Nat /\ a < c
      /\ BinStart(FromIndex, i) = NoiseBin * a
      /\ BinEnd(FromIndex, i) = NoiseBin * c - 1
  BY <1>1, BinBoundaries
<1>9. QueryTime(FromIndex) \in Nat /\ QueryBin * i \in Nat /\ QueryBin * (i + 1) \in Nat
        /\ NoiseBin * c \in Nat
  BY <1>1, <1>8, QueryTimeNat, ParameterAssumption
<1>10. low = NoiseBin * a
  BY <1>7, <1>8 DEF BinStart
<1>11. high = NoiseBin * c
  <2> DEFINE p == QueryBin * (i + 1)
             q == NoiseBin * c
             s == QueryTime(FromIndex)
  <2>1. s + p - 1 = q - 1
    BY <1>8 DEF BinEnd
  <2>2. s \in Nat /\ p \in Nat /\ q \in Nat
    BY <1>9
  <2> HIDE DEF p, q, s
  <2>3. s + p = q
    BY <2>1, <2>2
  <2> QED
    BY <1>7, <2>3 DEF p, q, s
<1> HIDE DEF a, c, low, high, max
<1>12. \A b \in NoiseBinIndices :
          low <= NoiseBin * b /\ NoiseBin * b < high <=> b \in a .. c - 1
  <2> TAKE b \in NoiseBinIndices
  <2>1. b \in Nat
    BY DEF NoiseBinIndices
  <2>2. low <= NoiseBin * b <=> a <= b
    BY <1>8, <1>10, <2>1, MultipleOrder, ParameterAssumption
  <2>3. NoiseBin * b < high <=> b < c
    BY <1>8, <1>11, <2>1, MultipleOrder, ParameterAssumption
  <2> QED
    BY <1>8, <2>1, <2>2, <2>3
<1>13. PICK b \in a .. c - 1 : max = power[f][b]
  BY <1>6
<1>14. b \in NoiseBinIndices /\ low <= NoiseBin * b /\ NoiseBin * b < high
  BY <1>6, <1>12
<1>15. \A e \in NoiseBinIndices : low <= NoiseBin * e /\ NoiseBin * e < high => power[f][e] <= max
  BY <1>6, <1>12
<1> QED
  BY <1>7, <1>13, <1>14, <1>15 DEF low, high

-----------------------------------------------------------------------------
LEMMA StartKeepsEInv ==
  ASSUME EInv, TypeOK', Start
  PROVE  EInv'
<1>1. /\ recorders = {} /\ published = << >> /\ receptions = << >> /\ started'
      /\ recorders' = recorders /\ receptions' = receptions /\ power' = power
  BY DEF Start, EInv, NothingBeforeStart, NothingReceivedBeforeStart
<1>2. published' = << >> \/ published' = << Message >>
  BY <1>1 DEF Start, QuerySpectrumService, FirstQuery, PublishQuery, FailedQuery, RepeatedQuery
<1>3. DOMAIN Message.energies = {}
  BY <1>1 DEF Message
<1>4. DOMAIN receptions' = {}
      /\ \A j \in 1 .. Len(published') : DOMAIN published'[j].energies = {}
  BY <1>1, <1>2, <1>3
<1>5. CurrentIndex <= QueryIndex(MaxTime) /\ CurrentIndex \in Nat
  <2>1. now \in Nat /\ now <= MaxTime
    BY DEF EInv, TypeOK
  <2> QED
    BY <2>1, QueryIndexMonotonic, QueryIndexBounds, TimeAssumption DEF CurrentIndex
<1>6. lastQueryIndex' = CurrentIndex
  <2>1. ~FailedQuery
    BY <1>1 DEF FailedQuery, QueryThrows
  <2>2. CASE RepeatedQuery
    BY <2>2, IndicesType DEF RepeatedQuery, FromIndex, EInv
  <2> QED
    BY <2>1, <2>2 DEF Start, QuerySpectrumService, FirstQuery, PublishQuery
<1>7. NothingBeforeStart' /\ LastQueryReached' /\ NothingReceivedBeforeStart'
  BY <1>1, <1>5, <1>6 DEF NothingBeforeStart, LastQueryReached, NothingReceivedBeforeStart
<1>8. PowerIsReceived'
  BY <1>1 DEF EInv, PowerIsReceived, Covering
<1>9. FrequenciesKnown' /\ EnergyReported'
  BY <1>4 DEF FrequenciesKnown, EnergyReported, Before
<1>10. NoPhantomEnergy' /\ EnergiesTyped'
  BY <1>4 DEF NoPhantomEnergy, EnergiesTyped
<1> QED
  BY <1>7, <1>8, <1>9, <1>10 DEF EInv

(* A message reports what was received before it, and nothing else.        *)
LEMMA PublishKeepsEnergy ==
  ASSUME BinsAligned, EInv, started, PublishQuery, UNCHANGED <<power, recorders, receptions>>
  PROVE  FrequenciesKnown' /\ EnergiesTyped' /\ EnergyReported' /\ NoPhantomEnergy'
<1> DEFINE n == Len(published)
<1>1. /\ n \in Nat
      /\ Len(published') = n + 1
      /\ published'[n + 1] = Message
      /\ \A i \in 1 .. n : published'[i] = published[i]
  BY AppendIsSequence DEF PublishQuery, EInv, TypeOK
<1> HIDE DEF n
<1>2. DOMAIN Message.energies = recorders
  BY DEF Message
<1>3. \A j \in 1 .. n + 1 : j \in 1 .. n \/ j = n + 1
  BY <1>1
<1>4. \A j \in 1 .. n : \A f, b : Before(j, f, b)' = Before(j, f, b)
  BY DEF Before
<1>5. \A j, f, b : j = n + 1 => Before(j, f, b)' = Covering(f, b)
  <2> TAKE j, f, b
  <2>1. Before(n + 1, f, b) = Covering(f, b)
    BY BeforeNext DEF n
  <2>2. Before(j, f, b)' = Before(j, f, b)
    BY DEF Before
  <2> QED
    BY <2>1, <2>2
<1>6. FrequenciesKnown'
  <2> SUFFICES ASSUME NEW i \in DOMAIN receptions
               PROVE  receptions[i].freq \in recorders /\ receptions[i].after <= Len(published')
    BY DEF FrequenciesKnown
  <2>1. receptions[i].freq \in recorders /\ receptions[i].after <= n
    BY DEF EInv, FrequenciesKnown, n
  <2>2. receptions[i].after \in Nat
    <3>1. receptions[i] \in Receptions
      BY DEF EInv, TypeOK
    <3> QED
      BY <3>1 DEF Receptions
  <2> QED
    BY <1>1, <2>1, <2>2
<1>7. EnergyReported'
  <2> SUFFICES ASSUME NEW j \in 1 .. n + 1, NEW f \in Freqs, NEW b \in NoiseBinIndices,
                      Measures(published'[j], NoiseBin * b), Before(j, f, b)' # {}
               PROVE  /\ f \in DOMAIN published'[j].energies
                      /\ published'[j].energies[f][(NoiseBin * b - published'[j].start) \div QueryBin]
                           >= Cardinality(Before(j, f, b)')
    BY <1>1 DEF EnergyReported, Measures, MeasuredUntil
  <2>1. CASE j \in 1 .. n
    BY <1>1, <1>4, <2>1 DEF EInv, EnergyReported, n
  <2>2. CASE j = n + 1
    <3> DEFINE t == NoiseBin * b
               d == t - Message.start
               i == d \div QueryBin
    <3>1. f \in recorders /\ b \in Nat /\ t \in Nat
      <4>1. Covering(f, b) # {}
        BY <1>5, <2>2
      <4>2. f \in recorders
        BY <4>1 DEF Covering, Covers, EInv, FrequenciesKnown
      <4> QED
        BY <4>2, ParameterAssumption DEF NoiseBinIndices
    <3>2. Message.start \in Nat
      BY IndicesType, QueryTimeNat DEF Message, EInv
    <3>3. Message.start <= t /\ t < Message.start + QueryBin * BinSummaryCount
      BY <1>1, <2>2 DEF Measures, MeasuredUntil
    <3> HIDE DEF t
    <3>4. d \in Nat /\ d < QueryBin * BinSummaryCount /\ t = Message.start + d
      BY <3>1, <3>2, <3>3, BinsWithinRate
    <3> HIDE DEF d
    <3>5. i \in Nat /\ QueryBin * i <= d /\ d < QueryBin * (i + 1)
      BY <3>4, ParameterAssumption
    <3> HIDE DEF i
    <3>6. i < BinSummaryCount
      <4> SUFFICES ASSUME BinSummaryCount <= i PROVE FALSE
        BY <3>5, BinsWithinRate
      <4>1. QueryBin * BinSummaryCount <= QueryBin * i
        BY <3>5, BinsWithinRate, MultipleOrder, ParameterAssumption
      <4>2. QueryBin * BinSummaryCount \in Nat /\ QueryBin * i \in Nat
        BY <3>5, BinsWithinRate, ParameterAssumption
      <4> QED
        BY <3>4, <3>5, <4>1, <4>2
    <3>7. i \in 0 .. BinSummaryCount - 1
      BY <3>5, <3>6, BinsWithinRate
    <3>8. /\ Message.start + QueryBin * i <= t
          /\ t < Message.start + QueryBin * (i + 1)
      <4> DEFINE x == QueryBin * i
                 y == QueryBin * (i + 1)
      <4>1. x \in Nat /\ y \in Nat /\ x <= d /\ d < y
        BY <3>5, ParameterAssumption
      <4> HIDE DEF x, y
      <4>2. Message.start + x <= t /\ t < Message.start + y
        BY <3>2, <3>4, <4>1
      <4> QED
        BY <4>2 DEF x, y
    <3>9. power[f][b] <= Message.energies[f][i]
      BY <3>1, <3>7, <3>8, MessageBins DEF t
    <3>10. \E e \in NoiseBinIndices : Message.energies[f][i] = power[f][e]
      BY <3>1, <3>7, MessageBins
    <3>11. power[f][b] \in Nat /\ Message.energies[f][i] \in Nat
      BY <3>1, <3>10 DEF EInv, TypeOK
    <3>12. power[f][b] = Cardinality(Before(j, f, b)')
      BY <1>5, <2>2 DEF EInv, PowerIsReceived
    <3>13. Message.energies[f][i] >= Cardinality(Before(j, f, b)')
      BY <3>9, <3>11, <3>12
    <3> QED
      BY <1>1, <1>2, <2>2, <3>1, <3>13 DEF t, d, i
  <2> QED
    BY <1>3, <2>1, <2>2
<1>8. NoPhantomEnergy'
  <2> SUFFICES ASSUME NEW j \in 1 .. n + 1, NEW f \in DOMAIN published'[j].energies,
                      NEW i \in 0 .. BinSummaryCount - 1
               PROVE  \E b \in NoiseBinIndices :
                         /\ published'[j].start + QueryBin * i <= NoiseBin * b
                         /\ NoiseBin * b < published'[j].start + QueryBin * (i + 1)
                         /\ published'[j].energies[f][i] <= Cardinality(Before(j, f, b)')
    BY <1>1 DEF NoPhantomEnergy
  <2>1. CASE j \in 1 .. n
    BY <1>1, <1>4, <2>1 DEF EInv, NoPhantomEnergy, n
  <2>2. CASE j = n + 1
    <3>1. f \in recorders /\ f \in Freqs
      BY <1>1, <1>2, <2>2 DEF EInv, TypeOK
    <3>2. PICK b \in NoiseBinIndices :
             /\ Message.start + QueryBin * i <= NoiseBin * b
             /\ NoiseBin * b < Message.start + QueryBin * (i + 1)
             /\ Message.energies[f][i] = power[f][b]
      BY <3>1, MessageBins
    <3>3. power[f][b] \in Nat
      BY <3>1 DEF EInv, TypeOK
    <3>4. power[f][b] = Cardinality(Before(j, f, b)')
      BY <1>5, <2>2, <3>1 DEF EInv, PowerIsReceived
    <3>5. Message.energies[f][i] <= Cardinality(Before(j, f, b)')
      BY <3>2, <3>3, <3>4
    <3> QED
      BY <1>1, <2>2, <3>2, <3>5
  <2> QED
    BY <1>3, <2>1, <2>2
<1>9. EnergiesTyped'
  <2> SUFFICES ASSUME NEW j \in 1 .. n + 1, NEW f \in DOMAIN published'[j].energies,
                      NEW i \in 0 .. BinSummaryCount - 1
               PROVE  published'[j].energies[f][i] \in Nat
    BY <1>1 DEF EnergiesTyped
  <2>1. CASE j \in 1 .. n
    BY <1>1, <2>1 DEF EInv, EnergiesTyped, n
  <2>2. CASE j = n + 1
    <3>1. f \in recorders /\ f \in Freqs
      BY <1>1, <1>2, <2>2 DEF EInv, TypeOK
    <3>2. \E b \in NoiseBinIndices : Message.energies[f][i] = power[f][b]
      BY <3>1, MessageBins
    <3> QED
      BY <1>1, <2>2, <3>1, <3>2 DEF EInv, TypeOK
  <2> QED
    BY <1>3, <2>1, <2>2
<1> QED
  BY <1>6, <1>7, <1>8, <1>9

LEMMA RunQueryKeepsEInv ==
  ASSUME BinsAligned, EInv, TypeOK', RunQuery
  PROVE  EInv'
<1>1. /\ started /\ started' = started /\ UNCHANGED <<power, recorders, receptions>>
  BY DEF RunQuery, EInv, NothingBeforeStart, TypeOK
<1>2. NothingBeforeStart' /\ NothingReceivedBeforeStart' /\ PowerIsReceived'
  BY <1>1 DEF EInv, NothingBeforeStart, NothingReceivedBeforeStart, PowerIsReceived, Covering
<1>3. LastQueryReached'
  <2>1. lastQueryIndex' \in {lastQueryIndex, CurrentIndex}
    BY DEF RunQuery, QuerySpectrumService, FirstQuery, PublishQuery, FailedQuery, RepeatedQuery
  <2>2. CurrentIndex <= QueryIndex(MaxTime)
    <3>1. now \in Nat /\ now <= MaxTime
      BY DEF EInv, TypeOK
    <3> QED
      BY <3>1, QueryIndexMonotonic, TimeAssumption DEF CurrentIndex
  <2> QED
    BY <1>1, <2>1, <2>2 DEF EInv, LastQueryReached
<1>4. CASE PublishQuery
  BY <1>1, <1>2, <1>3, <1>4, PublishKeepsEnergy DEF EInv
<1>5. CASE FirstQuery \/ FailedQuery \/ RepeatedQuery
  <2>1. published' = published
    BY <1>5 DEF FirstQuery, FailedQuery, RepeatedQuery
  <2>2. FrequenciesKnown' /\ EnergiesTyped' /\ EnergyReported' /\ NoPhantomEnergy'
    <3>1. FrequenciesKnown' = FrequenciesKnown /\ EnergiesTyped' = EnergiesTyped
      BY <1>1, <2>1 DEF FrequenciesKnown, EnergiesTyped
    <3>2. EnergyReported' = EnergyReported
      BY <1>1, <2>1 DEF EnergyReported, Measures, MeasuredUntil, Before
    <3>3. NoPhantomEnergy' = NoPhantomEnergy
      BY <1>1, <2>1 DEF NoPhantomEnergy, Before
    <3> QED
      BY <3>1, <3>2, <3>3 DEF EInv
  <2> QED
    BY <1>2, <1>3, <2>2 DEF EInv
<1> QED
  BY <1>4, <1>5 DEF RunQuery, QuerySpectrumService

(* A message adds the power of its segments to the noise bins they cover;  *)
(* the messages published so far came before it.                           *)
LEMMA ReceiveKeepsEInv ==
  ASSUME EInv, TypeOK', NEW ids \in SUBSET (Ids \ DOMAIN receptions),
         NEW new \in [ids -> Arriving], Receive(new)
  PROVE  EInv'
<1> DEFINE Met(f, b) == {i \in ids : Covers(new[i], f, b)}
<1>1. /\ started /\ started'
      /\ recorders' = recorders \cup {new[i].freq : i \in ids}
      /\ UNCHANGED <<lastQueryIndex, timers, queued, published>>
  BY DEF Receive
<1>2. TypeOK /\ Len(published) \in Nat
  BY AppendIsSequence DEF EInv, TypeOK
<1>3. /\ DOMAIN receptions' = DOMAIN receptions \cup ids
      /\ \A i \in DOMAIN receptions : receptions'[i] = receptions[i]
      /\ \A i \in ids : /\ receptions'[i].freq = new[i].freq
                       /\ receptions'[i].first = new[i].first
                       /\ receptions'[i].last = new[i].last
                       /\ receptions'[i].after = Len(published)
  <2>1. /\ DOMAIN receptions' = DOMAIN receptions \cup ids
        /\ \A i \in DOMAIN receptions : receptions'[i] = receptions[i]
        /\ \A i \in ids : receptions'[i] = [freq |-> new[i].freq, first |-> new[i].first,
                                          last |-> new[i].last, after |-> Len(published)]
    BY <1>2, ReceivedSegments
  <2> QED
    BY <2>1
<1>4. \A f, b : Covering(f, b)' = Covering(f, b) \cup Met(f, b)
  BY <1>3 DEF Covering, Covers
<1>5. \A f, b : Covering(f, b) \cap Met(f, b) = {}
  BY DEF Covering
<1>6. \A f \in Freqs, b \in NoiseBinIndices :
         IsFiniteSet(Met(f, b)) /\ power'[f][b] = power[f][b] + Cardinality(Met(f, b))
  BY <1>2, ReceivedPower
<1> HIDE DEF Met
<1>7. PowerIsReceived'
  <2> SUFFICES ASSUME NEW f \in Freqs, NEW b \in NoiseBinIndices
               PROVE  power'[f][b] = Cardinality(Covering(f, b)')
    BY DEF PowerIsReceived, NoiseBinIndices
  <2>1. power[f][b] = Cardinality(Covering(f, b))
    BY DEF EInv, PowerIsReceived
  <2>2. IsFiniteSet(Covering(f, b)) /\ IsFiniteSet(Met(f, b))
    BY <1>2, <1>6, CoveringFinite
  <2>3. Cardinality(Covering(f, b) \cup Met(f, b)) =
          Cardinality(Covering(f, b)) + Cardinality(Met(f, b))
            - Cardinality(Covering(f, b) \cap Met(f, b))
    BY <2>2, FS_Union
  <2>4. Cardinality(Covering(f, b) \cap Met(f, b)) = 0
    BY <1>5, FS_EmptySet
  <2>5. Cardinality(Covering(f, b)) \in Nat /\ Cardinality(Met(f, b)) \in Nat
    BY <2>2, FS_CardinalityType
  <2>6. Covering(f, b)' = Covering(f, b) \cup Met(f, b)
    BY <1>4
  <2>7. power'[f][b] = power[f][b] + Cardinality(Met(f, b))
    BY <1>6
  <2> QED
    BY <2>1, <2>3, <2>4, <2>5, <2>6, <2>7
<1>8. FrequenciesKnown'
  <2> SUFFICES ASSUME NEW i \in DOMAIN receptions'
               PROVE  receptions'[i].freq \in recorders' /\ receptions'[i].after <= Len(published)
    BY <1>1 DEF FrequenciesKnown
  <2>1. CASE i \in DOMAIN receptions
    BY <1>1, <1>3, <2>1 DEF EInv, FrequenciesKnown
  <2>2. CASE i \in ids
    BY <1>1, <1>2, <1>3, <2>2
  <2> QED
    BY <1>3, <2>1, <2>2
<1>9. \A j \in 1 .. Len(published) : \A f, b : Before(j, f, b)' = Before(j, f, b)
  <2> TAKE j \in 1 .. Len(published)
  <2> TAKE f, b
  <2>1. \A i \in ids : ~(receptions'[i].after < j)
    BY <1>2, <1>3
  <2>2. \A i \in ids : i \notin DOMAIN receptions
    OBVIOUS
  <2> QED
    BY <1>3, <2>1, <2>2 DEF Before, Covers
<1>10. EnergyReported'
  BY <1>1, <1>9 DEF EInv, EnergyReported, Measures, MeasuredUntil
<1>11. NoPhantomEnergy'
  <2> SUFFICES ASSUME NEW j \in 1 .. Len(published), NEW f \in DOMAIN published[j].energies,
                      NEW i \in 0 .. BinSummaryCount - 1
               PROVE  \E b \in NoiseBinIndices :
                         /\ published[j].start + QueryBin * i <= NoiseBin * b
                         /\ NoiseBin * b < published[j].start + QueryBin * (i + 1)
                         /\ published[j].energies[f][i] <= Cardinality(Before(j, f, b)')
    BY <1>1 DEF NoPhantomEnergy
  <2> QED
    BY <1>9 DEF EInv, NoPhantomEnergy
<1>12. NothingBeforeStart' /\ LastQueryReached' /\ NothingReceivedBeforeStart' /\ EnergiesTyped'
  BY <1>1 DEF EInv, NothingBeforeStart, LastQueryReached, NothingReceivedBeforeStart, EnergiesTyped
<1> QED
  BY <1>2, <1>7, <1>8, <1>10, <1>11, <1>12 DEF EInv

LEMMA EnergyInvariant ==
  ASSUME BinsAligned
  PROVE  Spec => []EInv
<1>1. Init => EInv
  <2> SUFFICES ASSUME Init PROVE EInv
    OBVIOUS
  <2>1. TypeOK
    BY InitTyped
  <2>2. /\ ~started /\ timers = {} /\ queued = {} /\ recorders = {}
        /\ DOMAIN receptions = {} /\ receptions = << >>
        /\ published = << >> /\ Len(published) = 0
    BY DEF Init
  <2>3. PowerIsReceived
    <3>1. \A f \in Freqs, b \in NoiseBinIndices : Covering(f, b) = {} /\ power[f][b] = 0
      BY <2>2 DEF Init, Covering
    <3> QED
      BY <2>2, <3>1, FS_EmptySet DEF PowerIsReceived
  <2> QED
    BY <2>1, <2>2, <2>3
    DEF EInv, NothingBeforeStart, LastQueryReached, NothingReceivedBeforeStart,
        FrequenciesKnown, EnergyReported, NoPhantomEnergy, EnergiesTyped
<1>2. EInv /\ [Next]_vars => EInv'
  <2> SUFFICES ASSUME EInv, [Next]_vars PROVE EInv'
    OBVIOUS
  <2>1. TypeOK'
    BY TypeInvariance DEF EInv
  <2>2. CASE Start
    BY <2>1, <2>2, StartKeepsEInv
  <2>3. CASE RunQuery
    BY <2>1, <2>3, RunQueryKeepsEInv
  <2>4. ASSUME NEW ids \in SUBSET (Ids \ DOMAIN receptions),
               NEW new \in [ids -> Arriving], Receive(new)
        PROVE  EInv'
    BY <2>1, <2>4, ReceiveKeepsEInv
  <2>5. CASE \/ TimerExpires \/ Tick \/ (\E d \in 1 .. MaxStepBack : StepBack(d))
             \/ UNCHANGED vars
    <3>1. UNCHANGED <<started, lastQueryIndex, power, recorders, receptions, published>>
      BY <2>5 DEF TimerExpires, Tick, StepBack, vars
    <3>2. NothingBeforeStart'
      BY <2>5 DEF EInv, NothingBeforeStart, TimerExpires, Tick, StepBack, vars
    <3>3. LastQueryReached' = LastQueryReached /\ FrequenciesKnown' = FrequenciesKnown
      BY <3>1 DEF LastQueryReached, FrequenciesKnown
    <3>4. /\ NothingReceivedBeforeStart' = NothingReceivedBeforeStart
          /\ PowerIsReceived' = PowerIsReceived
      BY <3>1 DEF NothingReceivedBeforeStart, PowerIsReceived, Covering
    <3>5. NoPhantomEnergy' = NoPhantomEnergy /\ EnergiesTyped' = EnergiesTyped
      BY <3>1 DEF NoPhantomEnergy, EnergiesTyped, Before
    <3>6. EnergyReported' = EnergyReported
      BY <3>1 DEF EnergyReported, Measures, MeasuredUntil, Before
    <3> QED
      BY <2>1, <3>2, <3>3, <3>4, <3>5, <3>6 DEF EInv
  <2> QED
    BY <2>2, <2>3, <2>4, <2>5 DEF Next
<1> QED
  BY <1>1, <1>2, PTL DEF Spec

(* Every message starts at the beginning of a query interval.              *)
StartsAtQuery ==
  \A j \in 1 .. Len(published) : \E k \in Nat : published[j].start = QueryTime(k)

LEMMA MessagesStartAtQueries == Spec => []StartsAtQuery
<1>1. Init => StartsAtQuery
  BY DEF Init, StartsAtQuery
<1>2. StartsAtQuery /\ TypeOK /\ [Next]_vars => StartsAtQuery'
  <2> SUFFICES ASSUME StartsAtQuery, TypeOK, [Next]_vars
               PROVE  StartsAtQuery'
    OBVIOUS
  <2>1. ASSUME published' = published
        PROVE  StartsAtQuery'
    <3>1. StartsAtQuery' = StartsAtQuery
      BY <2>1 DEF StartsAtQuery, QueryTime
    <3> QED
      BY <3>1
  <2>2. ASSUME published' = Append(published, Message)
        PROVE  StartsAtQuery'
    <3> DEFINE n == Len(published)
    <3>1. /\ n \in Nat /\ Len(published') = n + 1
          /\ published'[n + 1] = Message
          /\ \A j \in 1 .. n : published'[j] = published[j]
      BY <2>2, AppendIsSequence DEF TypeOK
    <3>2. FromIndex \in Nat /\ Message.start = QueryTime(FromIndex)
      BY IndicesType DEF Message
    <3> HIDE DEF n
    <3>3. ASSUME NEW j \in 1 .. n + 1
          PROVE  \E k \in Nat : published'[j].start = QueryTime(k)
      <4>1. CASE j \in 1 .. n
        BY <3>1, <4>1 DEF StartsAtQuery, n
      <4>2. CASE j = n + 1
        BY <3>1, <3>2, <4>2
      <4> QED
        BY <3>1, <4>1, <4>2
    <3> QED
      BY <3>1, <3>3 DEF StartsAtQuery, QueryTime
  <2>3. published' = published \/ published' = Append(published, Message)
    <3>1. CASE Start \/ RunQuery
      BY <3>1 DEF Start, RunQuery, QuerySpectrumService, FirstQuery, PublishQuery, FailedQuery,
                  RepeatedQuery
    <3>2. CASE TimerExpires \/ Tick \/ UNCHANGED vars
      BY <3>2 DEF TimerExpires, Tick, vars
    <3>3. ASSUME NEW ids \in SUBSET (Ids \ DOMAIN receptions),
                 NEW new \in [ids -> Arriving], Receive(new)
          PROVE  published' = published
      BY <3>3 DEF Receive
    <3>4. ASSUME NEW d \in 1 .. MaxStepBack, StepBack(d)
          PROVE  published' = published
      BY <3>4 DEF StepBack
    <3> QED
      BY <3>1, <3>2, <3>3, <3>4 DEF Next
  <2> QED
    BY <2>1, <2>2, <2>3
<1> QED
  BY <1>1, <1>2, TypeCorrect, PTL DEF Spec

(* With the sizes the configuration asks for, the energy received before a *)
(* message that measures its instant is in the bin that covers it, however *)
(* late the query ran, and whether or not the clock was set back           *)
(* (monitorphy.cc:1027-1111, maxnoisebin.h).                               *)
THEOREM ReceivedEnergyIsReported ==
  ASSUME BinsAligned
  PROVE  Spec => []EnergyReported
<1>1. EInv => EnergyReported
  BY DEF EInv
<1> QED
  BY <1>1, EnergyInvariant, PTL

(* And a bin shows no energy from outside of it.                           *)
THEOREM ReportedEnergyWasReceived ==
  ASSUME BinsAligned
  PROVE  Spec => []NoPhantomEnergy
<1>1. EInv => NoPhantomEnergy
  BY DEF EInv
<1> QED
  BY <1>1, EnergyInvariant, PTL
=============================================================================
