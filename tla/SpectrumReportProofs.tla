------------------------ MODULE SpectrumReportProofs --------------------------
(***************************************************************************)
(* First what the receive path records, for every message a sender may     *)
(* send, any number of transmitters, antennas and segments, and every      *)
(* limit.  Then the composition of receive path and query: it implements   *)
(* both, and what it reports is what was received.                         *)
(***************************************************************************)
EXTENDS SpectrumReport, SpectrumQueryProofs

(* FirstOf is the least index, and the default when there is none.         *)
LEMMA FirstOfLeast ==
  ASSUME NEW S \in SUBSET Nat, NEW d
  PROVE  /\ S = {} => FirstOf(S, d) = d
         /\ S # {} => FirstOf(S, d) \in S /\ \A j \in S : FirstOf(S, d) <= j
  BY LeastElement DEF FirstOf

(* The same for the indices up to n with n + 1 for none, as the loops of   *)
(* the code leave it: every index before it is not in the set.             *)
LEMMA FirstOfUpTo ==
  ASSUME NEW n \in Nat, NEW S \in SUBSET (1 .. n)
  PROVE  /\ FirstOf(S, n + 1) \in 1 .. n + 1
         /\ \A i \in 1 .. n : i < FirstOf(S, n + 1) => i \notin S
         /\ FirstOf(S, n + 1) <= n => FirstOf(S, n + 1) \in S
<1>1. S \in SUBSET Nat
  OBVIOUS
<1>2. CASE S = {}
  BY <1>1, <1>2, FirstOfLeast
<1>3. CASE S # {}
  <2> DEFINE f == FirstOf(S, n + 1)
  <2>1. f \in S /\ \A j \in S : f <= j
    BY <1>1, <1>3, FirstOfLeast
  <2> HIDE DEF f
  <2>2. f \in 1 .. n + 1 /\ \A i \in 1 .. n : i < f => i \notin S
    BY <2>1
  <2> QED
    BY <2>1, <2>2 DEF f
<1> QED
  BY <1>2, <1>3

-----------------------------------------------------------------------------
(* A message's fields are sequences of what process() walks through.       *)
LEMMA MessageFields ==
  ASSUME NEW m \in Messages
  PROVE  /\ Len(m.antennas) \in Nat /\ Len(m.transmitters) \in Nat
         /\ \A t \in 1 .. Len(m.transmitters) : m.transmitters[t].nem \in Nems
         /\ \A a \in 1 .. Len(m.antennas) :
               m.antennas[a].group \in Nat \ {0} /\ m.antennas[a].group # Len(m.groups) + 1
         /\ m.groups \in Seq(Seq([freq : Nat, offset : Nat, duration : Nat]))
<1>1. m.antennas \in Seq([group : Nat \ {0}, bandwidth : Nat])
  BY MessagesAssumption
<1>2. m.transmitters \in Seq([nem : Nems, audible : BOOLEAN])
  BY MessagesAssumption
<1>3. m.groups \in Seq(Seq([freq : Nat, offset : Nat, duration : Nat]))
  BY MessagesAssumption
<1>4. \A a \in 1 .. Len(m.antennas) : m.antennas[a].group # Len(m.groups) + 1
  BY MessagesAssumption
<1>5. Len(m.antennas) \in Nat /\ \A a \in 1 .. Len(m.antennas) : m.antennas[a].group \in Nat \ {0}
  <2>1. \A a \in 1 .. Len(m.antennas) : m.antennas[a] \in [group : Nat \ {0}, bandwidth : Nat]
    BY <1>1, ElementOfSeq
  <2> QED
    BY <1>1, <2>1, LenProperties
<1>6. Len(m.transmitters) \in Nat /\ \A t \in 1 .. Len(m.transmitters) : m.transmitters[t].nem \in Nems
  <2>1. \A t \in 1 .. Len(m.transmitters) : m.transmitters[t] \in [nem : Nems, audible : BOOLEAN]
    BY <1>2, ElementOfSeq
  <2> QED
    BY <1>2, <2>1, LenProperties
<1> QED
  BY <1>3, <1>4, <1>5, <1>6

(* The segments of an antenna whose group the message has.                 *)
LEMMA SegmentFields ==
  ASSUME NEW m \in Messages, NEW a \in 1 .. Len(m.antennas),
         m.antennas[a].group - 1 <= Len(m.groups)
  PROVE  Segments(m, a) \in Seq([freq : Nat, offset : Nat, duration : Nat])
<1>1. m.antennas[a].group \in 1 .. Len(m.groups)
  BY MessageFields
<1> QED
  BY <1>1, MessageFields DEF Segments

(* The delay of a message is none, or that of a location.                  *)
LEMMA PropagationType ==
  ASSUME ReceiveTypeOK, NEW m \in Messages
  PROVE  Propagation(m) \in Nat
<1> DEFINE located == {t \in 1 .. Len(m.transmitters) : delay[m.transmitters[t].nem] # Unknown}
<1>1. CASE located = {}
  BY <1>1 DEF Propagation
<1>2. CASE located # {}
  <2>1. located \in SUBSET Nat
    OBVIOUS
  <2> DEFINE t == FirstOf(located, 0)
  <2>2. t \in located
    BY <1>2, <2>1, FirstOfLeast
  <2>3. Propagation(m) = delay[m.transmitters[t].nem]
    BY <1>2 DEF Propagation
  <2>4. m.transmitters[t].nem \in Nems /\ delay[m.transmitters[t].nem] # Unknown
    BY <2>2, MessageFields
  <2> QED
    BY <2>3, <2>4, LimitsAssumption DEF ReceiveTypeOK
<1> QED
  BY <1>1, <1>2

(* The segment update() throws at.                                         *)
LEMMA ThrowsAtRange ==
  ASSUME NEW m \in Messages, NEW a \in 1 .. Len(m.antennas),
         m.antennas[a].group - 1 <= Len(m.groups)
  PROVE  ThrowsAt(m, a) \in 0 .. Len(Segments(m, a)) + 1
<1> DEFINE n == Len(Segments(m, a))
           S == {s \in 1 .. n : SegmentThrows(Segments(m, a)[s])}
<1>1. n \in Nat /\ S \in SUBSET (1 .. n)
  BY SegmentFields, LenProperties
<1>2. ThrowsAt(m, a) = 0 \/ ThrowsAt(m, a) = FirstOf(S, n + 1)
  BY DEF ThrowsAt
<1> HIDE DEF n, S
<1>3. FirstOf(S, n + 1) \in 1 .. n + 1
  BY <1>1, FirstOfUpTo
<1>4. ThrowsAt(m, a) \in 0 .. n + 1
  BY <1>1, <1>2, <1>3
<1> QED
  BY <1>4 DEF n

-----------------------------------------------------------------------------
(* What process() may answer before a message reaches update().            *)
EarlyDrops == DropCodes \ {"missingControl", "spectrumClamp"}

LEMMA TransmitterDropCode ==
  ASSUME NEW m \in Messages, NEW answers \in GainAnswersTo(m),
         NEW t \in 1 .. Len(m.transmitters), NEW a \in 1 .. Len(m.antennas)
  PROVE  TransmitterDrop(m.transmitters[t].nem, a, answers) \in EarlyDrops \cup {"none"}
<1> DEFINE n == m.transmitters[t].nem
<1>1. answers[<<n, a>>] \in GainAnswers
  BY DEF GainAnswersTo
<1>2. answers[<<n, a>>] \in {"success", "location", "profile", "horizon", "antennaIndex"}
  BY <1>1, AnswersAssumption
<1> HIDE DEF n
<1>3. answers[<<n, a>>] # "success" => GainDrop(answers[<<n, a>>]) \in EarlyDrops
  BY <1>2 DEF GainDrop, EarlyDrops, DropCodes
<1>4. TransmitterDrop(n, a, answers) \in EarlyDrops \cup {"none"}
  BY <1>3 DEF TransmitterDrop, EarlyDrops, DropCodes
<1> QED
  BY <1>4 DEF n

LEMMA AntennaDropCode ==
  ASSUME NEW m \in Messages, NEW answers \in GainAnswersTo(m),
         NEW a \in 1 .. Len(m.antennas)
  PROVE  /\ AntennaDrop(m, a, answers) \in EarlyDrops \cup {"none"}
         /\ AntennaDrop(m, a, answers) = "none" => m.antennas[a].group - 1 <= Len(m.groups)
<1> DEFINE failing == {t \in 1 .. Len(m.transmitters) :
                         TransmitterDrop(m.transmitters[t].nem, a, answers) # "none"}
<1>0. Len(m.groups) \in Nat /\ m.antennas[a].group \in Nat
  BY MessageFields, LenProperties
<1>1. CASE m.antennas[a].group - 1 > Len(m.groups)
  BY <1>1 DEF AntennaDrop, EarlyDrops, DropCodes
<1>2. CASE ~(m.antennas[a].group - 1 > Len(m.groups)) /\ failing = {}
  BY <1>0, <1>2 DEF AntennaDrop
<1>3. CASE ~(m.antennas[a].group - 1 > Len(m.groups)) /\ failing # {}
  <2> DEFINE t == FirstOf(failing, 0)
  <2>1. failing \in SUBSET Nat
    OBVIOUS
  <2>2. t \in failing
    BY <1>3, <2>1, FirstOfLeast
  <2>3. AntennaDrop(m, a, answers) = TransmitterDrop(m.transmitters[t].nem, a, answers)
    BY <1>3 DEF AntennaDrop
  <2>4. /\ t \in 1 .. Len(m.transmitters)
        /\ TransmitterDrop(m.transmitters[t].nem, a, answers) # "none"
    BY <2>2
  <2> HIDE DEF t
  <2>5. TransmitterDrop(m.transmitters[t].nem, a, answers) \in EarlyDrops \cup {"none"}
    BY <2>4, TransmitterDropCode
  <2> QED
    BY <1>0, <1>3, <2>3, <2>4, <2>5
<1> QED
  BY <1>1, <1>2, <1>3

(* An antenna that is not dropped, or only by the limits of update(), has  *)
(* segments; all of them are behind the throw when there is none.          *)
LEMMA OutcomeCode ==
  ASSUME NEW m \in Messages, NEW answers \in GainAnswersTo(m),
         NEW a \in 1 .. Len(m.antennas)
  PROVE  /\ Outcome(m, a, answers) \in DropCodes \cup {"none"}
         /\ Outcome(m, a, answers) \in {"none", "spectrumClamp"}
              => m.antennas[a].group - 1 <= Len(m.groups)
         /\ Outcome(m, a, answers) = "none" => ThrowsAt(m, a) = Len(Segments(m, a)) + 1
<1>1. CASE AntennaDrop(m, a, answers) # "none"
  BY <1>1, AntennaDropCode DEF Outcome, EarlyDrops, DropCodes
<1>2. CASE AntennaDrop(m, a, answers) = "none"
  <2>1. m.antennas[a].group - 1 <= Len(m.groups)
    BY <1>2, AntennaDropCode
  <2>2. ThrowsAt(m, a) \in 0 .. Len(Segments(m, a)) + 1 /\ Len(Segments(m, a)) \in Nat
    BY <2>1, ThrowsAtRange, SegmentFields, LenProperties
  <2> QED
    BY <1>2, <2>1, <2>2 DEF Outcome, DropCodes
<1> QED
  BY <1>1, <1>2

(* The antenna a message is dropped at, and what becomes of the message.   *)
LEMMA DroppedAtFirst ==
  ASSUME NEW m \in Messages, NEW answers \in GainAnswersTo(m)
  PROVE  /\ DroppedAt(m, answers) \in 1 .. Len(m.antennas) + 1
         /\ \A a \in 1 .. Len(m.antennas) :
               a < DroppedAt(m, answers) => Outcome(m, a, answers) = "none"
         /\ DroppedAt(m, answers) <= Len(m.antennas)
              => Outcome(m, DroppedAt(m, answers), answers) # "none"
<1> DEFINE n == Len(m.antennas)
           S == {a \in 1 .. n : Outcome(m, a, answers) # "none"}
<1>1. n \in Nat
  BY MessageFields
<1>2. S \in SUBSET (1 .. n)
  OBVIOUS
<1>3. DroppedAt(m, answers) = FirstOf(S, n + 1)
  BY DEF DroppedAt
<1>4. /\ FirstOf(S, n + 1) \in 1 .. n + 1
      /\ \A i \in 1 .. n : i < FirstOf(S, n + 1) => i \notin S
      /\ FirstOf(S, n + 1) <= n => FirstOf(S, n + 1) \in S
  BY <1>1, <1>2, FirstOfUpTo
<1> QED
  BY <1>3, <1>4

-----------------------------------------------------------------------------
(* The antennas that reach update(): those before one have all of their    *)
(* segments recorded.                                                      *)
LEMMA UpdatedAntenna ==
  ASSUME NEW m \in Messages, NEW answers \in GainAnswersTo(m),
         NEW a \in UpdatedAntennas(m, answers)
  PROVE  /\ a \in 1 .. Len(m.antennas)
         /\ Segments(m, a) \in Seq([freq : Nat, offset : Nat, duration : Nat])
         /\ ThrowsAt(m, a) \in 0 .. Len(Segments(m, a)) + 1
         /\ \A b \in 1 .. a - 1 : /\ b \in UpdatedAntennas(m, answers)
                                 /\ ThrowsAt(m, b) = Len(Segments(m, b)) + 1
<1>1. a \in 1 .. Len(m.antennas) /\ Len(m.antennas) \in Nat
  BY MessageFields DEF UpdatedAntennas
<1>2. a <= DroppedAt(m, answers) /\ DroppedAt(m, answers) \in Nat
  BY <1>1, DroppedAtFirst DEF UpdatedAntennas
<1>3. Outcome(m, a, answers) \in {"none", "spectrumClamp"}
  BY <1>1, DroppedAtFirst DEF UpdatedAntennas
<1>4. Segments(m, a) \in Seq([freq : Nat, offset : Nat, duration : Nat])
  BY <1>1, <1>3, OutcomeCode, SegmentFields
<1>5. ThrowsAt(m, a) \in 0 .. Len(Segments(m, a)) + 1
  BY <1>1, <1>3, OutcomeCode, ThrowsAtRange
<1>6. ASSUME NEW b \in 1 .. a - 1
      PROVE  b \in UpdatedAntennas(m, answers) /\ ThrowsAt(m, b) = Len(Segments(m, b)) + 1
  <2>1. b \in 1 .. Len(m.antennas) /\ b < DroppedAt(m, answers)
    BY <1>1, <1>2
  <2>2. Outcome(m, b, answers) = "none"
    BY <2>1, DroppedAtFirst
  <2> QED
    BY <2>1, <2>2, OutcomeCode DEF UpdatedAntennas
<1> QED
  BY <1>1, <1>4, <1>5, <1>6

(* The segments recorded of an antenna are segments the message has.       *)
LEMMA RecordedSegment ==
  ASSUME NEW m \in Messages, NEW answers \in GainAnswersTo(m),
         NEW a \in UpdatedAntennas(m, answers), NEW s \in RecordedSegments(m, a)
  PROVE  /\ s \in 1 .. Len(Segments(m, a))
         /\ Segments(m, a)[s] \in [freq : Nat, offset : Nat, duration : Nat]
         /\ Audible(m)
         /\ 1 .. s \subseteq RecordedSegments(m, a)
<1>1. /\ Segments(m, a) \in Seq([freq : Nat, offset : Nat, duration : Nat])
      /\ ThrowsAt(m, a) \in 0 .. Len(Segments(m, a)) + 1
  BY UpdatedAntenna
<1>2. Len(Segments(m, a)) \in Nat
  BY <1>1, LenProperties
<1>3. s \in 1 .. ThrowsAt(m, a) - 1 /\ Audible(m)
  BY DEF RecordedSegments
<1>4. s \in 1 .. Len(Segments(m, a))
  BY <1>1, <1>2, <1>3
<1>5. Segments(m, a)[s] \in [freq : Nat, offset : Nat, duration : Nat]
  BY <1>1, <1>4, ElementOfSeq
<1>6. 1 .. s \subseteq RecordedSegments(m, a)
  BY <1>1, <1>2, <1>3 DEF RecordedSegments
<1> QED
  BY <1>3, <1>4, <1>5, <1>6

(* A message's energy is that of its recorded segments, and nothing else.  *)
LEMMA MessageEnergyIs ==
  ASSUME NEW m, NEW skew, NEW answers, NEW e
  PROVE  e \in MessageEnergy(m, skew, answers) <=>
           \E a \in UpdatedAntennas(m, answers) : \E s \in RecordedSegments(m, a) :
              e = SegmentEnergy(m, a, s, skew)
  BY DEF MessageEnergy

LEMMA ClampBounds ==
  ASSUME NEW value \in Nat, NEW limit \in Nat
  PROVE  Clamp(value, limit) \in 0 .. limit
  BY DEF Clamp

(* The time a recorder is given is within the limits.                      *)
LEMMA SegmentEnergyWindow ==
  ASSUME ReceiveTypeOK, NEW m \in Messages, NEW skew \in Skews, NEW answers \in GainAnswersTo(m),
         NEW a \in UpdatedAntennas(m, answers), NEW s \in RecordedSegments(m, a),
         NEW e, e = SegmentEnergy(m, a, s, skew)
  PROVE  /\ e.start \in -TimeSyncThreshold .. TimeSyncThreshold + MaxOffset + MaxPropagation
         /\ e.end - e.start \in 0 .. MaxDuration
<1> DEFINE segment == Segments(m, a)[s]
           v == ValidTxTime(skew)
           p == Clamp(Propagation(m), MaxPropagation)
           o == Clamp(segment.offset, MaxOffset)
           d == Clamp(segment.duration, MaxDuration)
<1>1. segment.offset \in Nat /\ segment.duration \in Nat
  BY RecordedSegment
<1>2. p \in 0 .. MaxPropagation /\ o \in 0 .. MaxOffset /\ d \in 0 .. MaxDuration
  BY <1>1, PropagationType, ClampBounds, LimitsAssumption
<1>3. v \in -TimeSyncThreshold .. TimeSyncThreshold
  BY LimitsAssumption DEF ValidTxTime
<1>4. e.start = v + p + o /\ e.end = e.start + d
  BY DEF SegmentEnergy
<1> HIDE DEF v, p, o, d
<1> QED
  BY <1>2, <1>3, <1>4, LimitsAssumption

-----------------------------------------------------------------------------
(* Every recorded segment is of a message that was received, so that what  *)
(* is known of that message stays known when later ones are appended.      *)
EnergyOfReceived == \A e \in energy : e.message \in 1 .. Len(received)

RInv ==
  /\ ReceiveTypeOK
  /\ EnergyOfReceived
  /\ EnergyWithinWindow
  /\ SuccessRecordsAll
  /\ EnergyIsPrefix
  /\ ReportedFrequencies

(* A message is appended and energy is only added to.                      *)
LEMMA HistoryGrows ==
  ASSUME ReceiveTypeOK, NEW r, received' = Append(received, r), energy \subseteq energy'
  PROVE  /\ Len(received) \in Nat /\ Len(received') = Len(received) + 1
         /\ \A i \in 1 .. Len(received) : received'[i] = received[i]
         /\ received'[Len(received) + 1] = r
         /\ \A i, a, s : IsRecorded(i, a, s) => IsRecorded(i, a, s)'
<1>1. received \in Seq([of : Messages, status : DropCodes \cup {"success"}])
  BY DEF ReceiveTypeOK
<1>2. Len(received) \in Nat
  BY <1>1, LenProperties
<1>3. /\ Len(received') = Len(received) + 1
      /\ \A i \in 1 .. Len(received) : received'[i] = received[i]
      /\ received'[Len(received) + 1] = r
  BY <1>1
<1>4. \A i, a, s : IsRecorded(i, a, s) => IsRecorded(i, a, s)'
  BY DEF IsRecorded
<1> QED
  BY <1>2, <1>3, <1>4

(* A message with no antennas changes nothing the properties speak of but  *)
(* the history.                                                            *)
LEMMA DroppedWithoutAntennas ==
  ASSUME RInv, NEW m \in Messages, DropWithoutAntennas(m), UNCHANGED <<maxClamp, pathloss, delay, fading, events>>
  PROVE  RInv'
<1> DEFINE r == [of |-> m, status |-> "missingControl"]
<1> USE DEF RInv
<1>1. received' = Append(received, r) /\ UNCHANGED <<spectrumMap, recorders, energy>>
  BY DEF DropWithoutAntennas
<1>2. r \in [of : Messages, status : DropCodes \cup {"success"}] /\ r.status # "success"
  BY DEF DropCodes
<1>3. /\ Len(received) \in Nat /\ Len(received') = Len(received) + 1
      /\ \A i \in 1 .. Len(received) : received'[i] = received[i]
      /\ received'[Len(received) + 1] = r
      /\ \A i, a, s : IsRecorded(i, a, s) => IsRecorded(i, a, s)'
  BY <1>1, HistoryGrows
<1> HIDE DEF r
<1>4. ReceiveTypeOK'
  <2>1. drops' \in [DropCodes -> Nat]
    <3>1. drops \in [DropCodes -> Nat] /\ drops' = [drops EXCEPT !["missingControl"] = @ + 1]
      BY DEF ReceiveTypeOK, DropWithoutAntennas
    <3>2. "missingControl" \in DropCodes
      BY DEF DropCodes
    <3> QED
      BY <3>1, <3>2
  <2>2. received' \in Seq([of : Messages, status : DropCodes \cup {"success"}])
    BY <1>1, <1>2, AppendProperties DEF ReceiveTypeOK
  <2> QED
    BY <1>1, <2>1, <2>2 DEF ReceiveTypeOK
<1>5. EnergyOfReceived'
  BY <1>1, <1>3 DEF EnergyOfReceived
<1>6. EnergyWithinWindow'
  BY <1>1 DEF EnergyWithinWindow
<1>7. SuccessRecordsAll'
  <2> SUFFICES ASSUME NEW i \in 1 .. Len(received'), received'[i].status = "success",
                      Audible(received'[i].of),
                      NEW a \in 1 .. Len(received'[i].of.antennas),
                      NEW s \in 1 .. Len(Segments(received'[i].of, a))
               PROVE  IsRecorded(i, a, s)'
    BY DEF SuccessRecordsAll
  <2>1. i \in 1 .. Len(received)
    BY <1>2, <1>3
  <2>2. IsRecorded(i, a, s)
    BY <1>3, <2>1 DEF SuccessRecordsAll
  <2> QED
    BY <1>3, <2>2
<1>8. EnergyIsPrefix'
  BY <1>1, <1>3 DEF EnergyIsPrefix, EnergyOfReceived
<1>9. ReportedFrequencies'
  BY <1>1 DEF ReportedFrequencies
<1> QED
  BY <1>4, <1>5, <1>6, <1>7, <1>8, <1>9

(* What becomes of a message has a counter, or is success.                 *)
LEMMA StatusCode ==
  ASSUME NEW m \in Messages, NEW answers \in GainAnswersTo(m)
  PROVE  /\ Status(m, answers) \in DropCodes \cup {"success"}
         /\ Status(m, answers) = "success" =>
              /\ UpdatedAntennas(m, answers) = 1 .. Len(m.antennas)
              /\ \A a \in 1 .. Len(m.antennas) : ThrowsAt(m, a) = Len(Segments(m, a)) + 1
         /\ Len(m.antennas) = 1 /\ UpdatedAntennas(m, answers) # {} =>
              Status(m, answers) \in {"success", "spectrumClamp"}
<1> DEFINE d == DroppedAt(m, answers)
           n == Len(m.antennas)
<1>1. n \in Nat /\ d \in 1 .. n + 1
  BY MessageFields, DroppedAtFirst
<1>2. CASE d > n
  <2>1. Status(m, answers) = "success"
    BY <1>2 DEF Status
  <2>2. \A a \in 1 .. n : a < d /\ Outcome(m, a, answers) = "none"
    BY <1>1, <1>2, DroppedAtFirst
  <2>3. UpdatedAntennas(m, answers) = 1 .. n
    BY <2>2 DEF UpdatedAntennas
  <2>4. \A a \in 1 .. n : ThrowsAt(m, a) = Len(Segments(m, a)) + 1
    BY <2>2, OutcomeCode
  <2> QED
    BY <2>1, <2>3, <2>4
<1>3. CASE ~(d > n)
  <2>1. d \in 1 .. n /\ Outcome(m, d, answers) # "none"
    BY <1>1, <1>3, DroppedAtFirst
  <2>2. Status(m, answers) = Outcome(m, d, answers)
    BY <1>3 DEF Status
  <2>3. Status(m, answers) \in DropCodes
    BY <2>1, <2>2, OutcomeCode
  <2>4. n = 1 /\ UpdatedAntennas(m, answers) # {} => Outcome(m, d, answers) = "spectrumClamp"
    BY <1>1, <2>1 DEF UpdatedAntennas
  <2> QED
    BY <2>2, <2>3, <2>4 DEF DropCodes
<1> QED
  BY <1>2, <1>3

(* A message that is processed keeps what holds of the earlier ones, and   *)
(* what it records itself comes in the order of its antennas and segments. *)
LEMMA MessageProcessed ==
  ASSUME RInv, NEW m \in Messages, NEW skew \in Skews, NEW answers \in GainAnswersTo(m),
         ProcessMessage(m, skew, answers), UNCHANGED <<maxClamp, pathloss, delay, fading, events>>
  PROVE  RInv'
<1> DEFINE status == Status(m, answers)
           r == [of |-> m, status |-> status]
           latest == Len(received) + 1
<1> USE DEF RInv
<1>1. /\ received' = Append(received, r)
      /\ energy' = energy \cup MessageEnergy(m, skew, answers)
      /\ recorders' = recorders \cup MessageRecorders(m, answers)
  BY DEF ProcessMessage
<1>2. r \in [of : Messages, status : DropCodes \cup {"success"}]
  BY StatusCode
<1>3. /\ Len(received) \in Nat /\ Len(received') = latest
      /\ \A i \in 1 .. Len(received) : received'[i] = received[i]
      /\ received'[latest] = r
      /\ \A i, a, s : IsRecorded(i, a, s) => IsRecorded(i, a, s)'
  BY <1>1, HistoryGrows
<1>4. ReceiveTypeOK'
  <2>1. drops' \in [DropCodes -> Nat]
    BY DEF ReceiveTypeOK, ProcessMessage
  <2>2. received' \in Seq([of : Messages, status : DropCodes \cup {"success"}])
    BY <1>1, <1>2, AppendProperties DEF ReceiveTypeOK
  <2>3. DOMAIN spectrumMap' \subseteq Subids
    BY DEF ReceiveTypeOK, ProcessMessage, Subids
  <2> QED
    BY <2>1, <2>2, <2>3 DEF ReceiveTypeOK
<1>5. \A e \in MessageEnergy(m, skew, answers) :
         \E a \in UpdatedAntennas(m, answers) : \E s \in RecordedSegments(m, a) :
            e = SegmentEnergy(m, a, s, skew)
  BY MessageEnergyIs
<1>6. \A a \in UpdatedAntennas(m, answers) : \A s \in RecordedSegments(m, a) :
         \E e \in energy' : e.message = latest /\ e.antenna = a /\ e.segment = s
  <2> SUFFICES ASSUME NEW a \in UpdatedAntennas(m, answers), NEW s \in RecordedSegments(m, a)
               PROVE  \E e \in energy' : e.message = latest /\ e.antenna = a /\ e.segment = s
    OBVIOUS
  <2> DEFINE e == SegmentEnergy(m, a, s, skew)
  <2>1. e \in energy'
    BY <1>1, MessageEnergyIs
  <2>2. e.message = latest /\ e.antenna = a /\ e.segment = s
    BY DEF SegmentEnergy
  <2> HIDE DEF e
  <2> QED
    BY <2>1, <2>2
<1>7. \A e \in energy' : e \notin energy => e \in MessageEnergy(m, skew, answers) /\ e.message = latest
  BY <1>1, <1>5 DEF SegmentEnergy
<1> HIDE DEF r, status
<1>8. EnergyOfReceived'
  BY <1>3, <1>7 DEF EnergyOfReceived
<1>9. EnergyWithinWindow'
  <2> SUFFICES ASSUME NEW e \in energy'
               PROVE  /\ e.start \in -TimeSyncThreshold .. TimeSyncThreshold + MaxOffset + MaxPropagation
                      /\ e.end - e.start \in 0 .. MaxDuration
    BY DEF EnergyWithinWindow
  <2>1. CASE e \in energy
    BY <2>1 DEF EnergyWithinWindow
  <2>2. CASE e \notin energy
    BY <1>5, <1>7, <2>2, SegmentEnergyWindow
  <2> QED
    BY <2>1, <2>2
<1>10. SuccessRecordsAll'
  <2> SUFFICES ASSUME NEW i \in 1 .. Len(received'), received'[i].status = "success",
                      Audible(received'[i].of),
                      NEW a \in 1 .. Len(received'[i].of.antennas),
                      NEW s \in 1 .. Len(Segments(received'[i].of, a))
               PROVE  IsRecorded(i, a, s)'
    BY DEF SuccessRecordsAll
  <2>1. CASE i \in 1 .. Len(received)
    BY <1>3, <2>1 DEF SuccessRecordsAll
  <2>2. CASE i = latest
    <3>1. received'[i].of = m /\ status = "success"
      BY <1>3, <2>2 DEF r
    <3>2. a \in UpdatedAntennas(m, answers) /\ ThrowsAt(m, a) = Len(Segments(m, a)) + 1
      BY <3>1, StatusCode DEF status
    <3>3. Len(Segments(m, a)) \in Nat
      BY <3>2, UpdatedAntenna, LenProperties
    <3>4. s \in RecordedSegments(m, a)
      BY <3>1, <3>2, <3>3 DEF RecordedSegments
    <3> QED
      BY <1>6, <2>2, <3>2, <3>4 DEF IsRecorded
  <2> QED
    BY <1>3, <2>1, <2>2
<1>11. EnergyIsPrefix'
  <2> SUFFICES ASSUME NEW e \in energy'
               PROVE  LET mm == received'[e.message].of
                      IN  /\ \A a \in 1 .. e.antenna :
                               \A s \in 1 .. (IF a = e.antenna THEN e.segment ELSE Len(Segments(mm, a))) :
                                  IsRecorded(e.message, a, s)'
                          /\ Len(mm.antennas) = 1 =>
                               received'[e.message].status \in {"success", "spectrumClamp"}
    BY DEF EnergyIsPrefix
  <2>1. CASE e \in energy
    <3>1. e.message \in 1 .. Len(received)
      BY <2>1 DEF EnergyOfReceived
    <3>2. received'[e.message] = received[e.message]
      BY <1>3, <3>1
    <3> QED
      BY <1>3, <2>1, <3>2 DEF EnergyIsPrefix
  <2>2. CASE e \notin energy
    <3>0. PICK b \in UpdatedAntennas(m, answers) :
             \E s \in RecordedSegments(m, b) : e = SegmentEnergy(m, b, s, skew)
      BY <1>5, <1>7, <2>2
    <3>1. PICK t \in RecordedSegments(m, b) : e = SegmentEnergy(m, b, t, skew)
      BY <3>0
    <3>2. e.message = latest /\ e.antenna = b /\ e.segment = t
      BY <3>1 DEF SegmentEnergy
    <3>3. received'[e.message].of = m /\ received'[e.message].status = status
      BY <1>3, <3>2 DEF r
    <3>4. ASSUME NEW a \in 1 .. b,
                 NEW s \in 1 .. (IF a = b THEN t ELSE Len(Segments(m, a)))
          PROVE  a \in UpdatedAntennas(m, answers) /\ s \in RecordedSegments(m, a)
      <4>1. CASE a = b
        BY <4>1, RecordedSegment
      <4>2. CASE a # b
        <5>1. b \in Nat /\ a \in 1 .. b - 1
          BY <4>2, UpdatedAntenna, MessageFields
        <5>2. a \in UpdatedAntennas(m, answers) /\ ThrowsAt(m, a) = Len(Segments(m, a)) + 1
          BY <5>1, UpdatedAntenna
        <5>3. Len(Segments(m, a)) \in Nat
          BY <5>2, UpdatedAntenna, LenProperties
        <5>4. Audible(m)
          BY RecordedSegment
        <5> QED
          BY <4>2, <5>2, <5>3, <5>4 DEF RecordedSegments
      <4> QED
        BY <4>1, <4>2
    <3>5. \A a \in 1 .. b : \A s \in 1 .. (IF a = b THEN t ELSE Len(Segments(m, a))) :
             IsRecorded(e.message, a, s)'
      BY <1>6, <3>2, <3>4 DEF IsRecorded
    <3>6. Len(m.antennas) = 1 => status \in {"success", "spectrumClamp"}
      BY StatusCode DEF status
    <3> QED
      BY <3>2, <3>3, <3>5, <3>6
  <2> QED
    BY <2>1, <2>2
<1>12. ReportedFrequencies'
  <2>1. \A x : x \in MessageRecorders(m, answers) <=>
           \E e \in MessageEnergy(m, skew, answers) : x = <<e.subid, e.freq>>
    <3>1. \A x : x \in MessageRecorders(m, answers) <=>
             \E a \in UpdatedAntennas(m, answers) : \E s \in RecordedSegments(m, a) :
                x = <<m.subid, Segments(m, a)[s].freq>>
      BY DEF MessageRecorders
    <3>2. \A a, s : /\ SegmentEnergy(m, a, s, skew).subid = m.subid
                   /\ SegmentEnergy(m, a, s, skew).freq = Segments(m, a)[s].freq
      BY DEF SegmentEnergy
    <3> QED
      BY <3>1, <3>2, MessageEnergyIs
  <2>2. recorders' = {<<e.subid, e.freq>> : e \in energy'}
    BY <1>1, <2>1 DEF ReportedFrequencies
  <2>3. DOMAIN spectrumMap' = DOMAIN spectrumMap \cup {m.subid}
    BY DEF ProcessMessage
  <2>4. \A x \in MessageRecorders(m, answers) : x[1] = m.subid
    BY DEF MessageRecorders
  <2>5. \A x \in recorders' : x[1] \in DOMAIN spectrumMap'
    BY <1>1, <2>3, <2>4 DEF ReportedFrequencies
  <2> QED
    BY <2>2, <2>5 DEF ReportedFrequencies
<1> QED
  BY <1>4, <1>8, <1>9, <1>10, <1>11, <1>12

(* An event changes the answers of the managers, never what was recorded.  *)
LEMMA EventProcessed ==
  ASSUME RInv, NEW n \in Nems, ProcessEvent(n)
  PROVE  RInv'
<1> USE DEF RInv
<1>1. UNCHANGED <<maxClamp, spectrumMap, recorders, drops, energy, received>>
  BY DEF ProcessEvent
<1>2. /\ pathloss' \subseteq Nems
      /\ delay' \in [Nems -> Delays \cup {Unknown}]
      /\ fading' \in [Nems -> FadingSelections \cup {"missing", "none"}]
      /\ events' \in Nat
  <2>1. events' \in Nat
    BY DEF ProcessEvent, ReceiveTypeOK
  <2>2. CASE FadingSelectionEvent(n)
    BY <2>1, <2>2 DEF FadingSelectionEvent, ReceiveTypeOK
  <2>3. CASE LocationEvent(n)
    BY <2>1, <2>3 DEF LocationEvent, ReceiveTypeOK
  <2>4. CASE PathlossEvent(n)
    BY <2>1, <2>4 DEF PathlossEvent, ReceiveTypeOK
  <2> QED
    BY <2>2, <2>3, <2>4 DEF ProcessEvent
<1>3. ReceiveTypeOK'
  BY <1>1, <1>2 DEF ReceiveTypeOK
<1>4. EnergyOfReceived' /\ EnergyWithinWindow' /\ ReportedFrequencies'
  BY <1>1 DEF EnergyOfReceived, EnergyWithinWindow, ReportedFrequencies
<1>5. SuccessRecordsAll' /\ EnergyIsPrefix'
  BY <1>1 DEF SuccessRecordsAll, EnergyIsPrefix, IsRecorded
<1> QED
  BY <1>3, <1>4, <1>5

LEMMA ReceiveInvariant == ReceiveSpec => []RInv
<1>1. ReceiveInit => RInv
  <2> SUFFICES ASSUME ReceiveInit PROVE RInv
    OBVIOUS
  <2>1. received = << >> /\ energy = {} /\ recorders = {} /\ spectrumMap = << >>
    BY DEF ReceiveInit
  <2>2. ReceiveTypeOK
    <3>1. received \in Seq([of : Messages, status : DropCodes \cup {"success"}])
      BY <2>1
    <3>2. DOMAIN spectrumMap \subseteq Subids
      BY <2>1
    <3> QED
      BY <3>1, <3>2 DEF ReceiveInit, ReceiveTypeOK
  <2>3. EnergyOfReceived /\ EnergyWithinWindow /\ EnergyIsPrefix /\ ReportedFrequencies
    BY <2>1 DEF EnergyOfReceived, EnergyWithinWindow, EnergyIsPrefix, ReportedFrequencies
  <2>4. SuccessRecordsAll
    BY <2>1 DEF SuccessRecordsAll
  <2> QED
    BY <2>2, <2>3, <2>4 DEF RInv
<1>2. RInv /\ [ReceiveNext]_receiveVars => RInv'
  <2> SUFFICES ASSUME RInv, [ReceiveNext]_receiveVars PROVE RInv'
    OBVIOUS
  <2>1. ASSUME NEW m \in Messages, NEW skew \in Skews, ProcessUpstreamPacket(m, skew)
        PROVE  RInv'
    <3>1. UNCHANGED <<maxClamp, pathloss, delay, fading, events>>
      BY <2>1 DEF ProcessUpstreamPacket
    <3>2. CASE DropWithoutAntennas(m)
      BY <3>1, <3>2, DroppedWithoutAntennas
    <3>3. ASSUME NEW answers \in GainAnswersTo(m), ProcessMessage(m, skew, answers)
          PROVE  RInv'
      BY <3>1, <3>3, MessageProcessed
    <3> QED
      BY <2>1, <3>2, <3>3 DEF ProcessUpstreamPacket
  <2>2. ASSUME NEW n \in Nems, ProcessEvent(n)
        PROVE  RInv'
    BY <2>2, EventProcessed
  <2>3. CASE UNCHANGED receiveVars
    <3>1. UNCHANGED <<maxClamp, pathloss, delay, fading, events, spectrumMap, recorders, drops, energy, received>>
      BY <2>3 DEF receiveVars
    <3>2. ReceiveTypeOK'
      BY <3>1 DEF RInv, ReceiveTypeOK
    <3>3. EnergyOfReceived' /\ EnergyWithinWindow' /\ ReportedFrequencies'
      BY <3>1 DEF RInv, EnergyOfReceived, EnergyWithinWindow, ReportedFrequencies
    <3>4. SuccessRecordsAll' /\ EnergyIsPrefix'
      BY <3>1 DEF RInv, SuccessRecordsAll, EnergyIsPrefix, IsRecorded
    <3> QED
      BY <3>2, <3>3, <3>4 DEF RInv
  <2> QED
    BY <2>1, <2>2, <2>3 DEF ReceiveNext
<1> QED
  BY <1>1, <1>2, PTL DEF ReceiveSpec

-----------------------------------------------------------------------------
(* The receive path keeps its types: whatever drops a message has a        *)
(* counter (monitorphy.cc:646-839).                                        *)
THEOREM ReceiveTypes == ReceiveSpec => []ReceiveTypeOK
<1>1. RInv => ReceiveTypeOK
  BY DEF RInv
<1> QED
  BY <1>1, ReceiveInvariant, PTL

(* Whatever a sender claims, what the recorders are given lies within the  *)
(* window of the limits, in both settings of noisemaxclampenable           *)
(* (spectrummonitoralt.cc:78-145).                                         *)
THEOREM ReceiveWithinWindow == ReceiveSpec => []EnergyWithinWindow
<1>1. RInv => EnergyWithinWindow
  BY DEF RInv
<1> QED
  BY <1>1, ReceiveInvariant, PTL

(* A message counted as a success has all of its segments recorded, for    *)
(* all of its antennas (receiveprocessoralt.cc:60-298).                    *)
THEOREM SuccessIsComplete == ReceiveSpec => []SuccessRecordsAll
<1>1. RInv => SuccessRecordsAll
  BY DEF RInv
<1> QED
  BY <1>1, ReceiveInvariant, PTL

(* What a message dropped in the middle leaves behind is a prefix of it    *)
(* (receiveprocessoralt.cc:265-297, spectrummonitoralt.cc:106-210).        *)
THEOREM PartialEnergyIsPrefix == ReceiveSpec => []EnergyIsPrefix
<1>1. RInv => EnergyIsPrefix
  BY DEF RInv
<1> QED
  BY <1>1, ReceiveInvariant, PTL

(* A query reports the frequencies with energy and no others, each with a  *)
(* bandwidth (spectrummonitoralt.cc:148-163, monitorphy.cc:690-727).        *)
THEOREM ReportsWhatHasEnergy == ReceiveSpec => []ReportedFrequencies
<1>1. RInv => ReportedFrequencies
  BY DEF RInv
<1> QED
  BY <1>1, ReceiveInvariant, PTL

-----------------------------------------------------------------------------
(* An event or a message of the composition is one of the receive path, and *)
(* nothing the query does touches what the receive path keeps.              *)
LEMMA ReceiveStep ==
  ASSUME [ReportNext]_reportVars
  PROVE  [ReceiveNext]_receiveVars
<1>1. ASSUME NEW m \in Messages, NEW skew \in Skews, Processing(m, skew)
      PROVE  ReceiveNext
  <2>1. ProcessUpstreamPacket(m, skew)
    BY <1>1 DEF Processing, ProcessUpstreamPacket, managerVars
  <2> QED
    BY <2>1 DEF ReceiveNext
<1>2. ASSUME NEW n \in Nems, Event(n)
      PROVE  ReceiveNext
  BY <1>2 DEF Event, ReceiveNext
<1>3. CASE QueryStep
  <2>1. UNCHANGED recorders
    BY <1>3 DEF QueryStep, Start, TimerExpires, RunQuery, Tick, StepBack
  <2> QED
    BY <1>3, <2>1 DEF QueryStep, managerVars, receiveVars
<1>4. CASE UNCHANGED reportVars
  BY <1>4 DEF reportVars
<1> QED
  BY <1>1, <1>2, <1>3, <1>4 DEF ReportNext

(* Whatever the query reports, the receive path behaves as it is specified. *)
THEOREM ReportImplementsReceive == ReportSpec => ReceiveSpec
<1>1. ReportInit => ReceiveInit
  BY DEF ReportInit
<1> QED
  BY <1>1, ReceiveStep, PTL DEF ReportSpec, ReceiveSpec

(* A number, its quotient and its remainder.                               *)
LEMMA Quotient ==
  ASSUME NEW n \in Nat \ {0}, NEW t \in Nat
  PROVE  /\ t \div n \in Nat /\ t % n \in 0 .. n - 1
         /\ t = n * (t \div n) + (t % n)
  OBVIOUS

(* Bins of an instant.  The bin it lies in, and the one it lies in or ends. *)
LEMMA BinOfInstant ==
  ASSUME NEW n \in Nat \ {0}, NEW t \in Nat
  PROVE  /\ AbsoluteBin(t, n, FALSE) \in Nat
         /\ n * AbsoluteBin(t, n, FALSE) <= t
         /\ t < n * AbsoluteBin(t, n, FALSE) + n
         /\ AbsoluteBin(t, n, TRUE) \in Nat \cup {-1}
         /\ n * AbsoluteBin(t, n, TRUE) < t
         /\ t <= n * AbsoluteBin(t, n, TRUE) + n
<1> DEFINE q == t \div n
           r == t % n
           first == AbsoluteBin(t, n, FALSE)
           last == AbsoluteBin(t, n, TRUE)
<1>1. q \in Nat /\ r \in 0 .. n - 1 /\ t = n * q + r
  OBVIOUS
<1>2. first = q
  BY <1>1 DEF AbsoluteBin
<1>3. last = IF r = 0 THEN q - 1 ELSE q
  BY <1>1 DEF AbsoluteBin
<1> HIDE DEF q, r, first, last
<1>4. n * (q - 1) = n * q - n /\ n * q \in Nat
  BY <1>1
<1>5. n * first <= t /\ t < n * first + n
  BY <1>1, <1>2, <1>4
<1>6. last \in Nat \cup {-1}
  BY <1>1, <1>3
<1>7. n * last < t /\ t <= n * last + n
  <2>1. CASE r = 0
    BY <1>1, <1>3, <1>4, <2>1
  <2>2. CASE r # 0
    BY <1>1, <1>3, <1>4, <2>2
  <2> QED
    BY <2>1, <2>2
<1> QED
  BY <1>1, <1>2, <1>5, <1>6, <1>7 DEF first, last

(* The bins of a segment that lies within the limits are bins of the       *)
(* recorders.                                                              *)
LEMMA SegmentBins ==
  ASSUME NEW from \in Nat, NEW until \in Nat, from <= until, until <= MaxTime + MaxAhead
  PROVE  LET first == AbsoluteBin(from, NoiseBin, FALSE)
             last  == AbsoluteBin(until, NoiseBin, TRUE)
         IN  first \in NoiseBinIndices /\ last \in NoiseBinIndices \cup {-1} /\ first <= last + 1
<1> DEFINE first == AbsoluteBin(from, NoiseBin, FALSE)
           last == AbsoluteBin(until, NoiseBin, TRUE)
           end == MaxTime + MaxAhead
           bins == end \div NoiseBin
<1>1. NoiseBin \in Nat \ {0} /\ end \in Nat
  BY ParameterAssumption, TimeAssumption
<1>2. /\ first \in Nat /\ NoiseBin * first <= from
      /\ last \in Nat \cup {-1} /\ NoiseBin * last < until /\ until <= NoiseBin * last + NoiseBin
  BY <1>1, BinOfInstant
<1>3. bins \in Nat /\ end < NoiseBin * (bins + 1)
  <2>1. AbsoluteBin(end, NoiseBin, FALSE) = bins
    BY <1>1 DEF AbsoluteBin
  <2>2. bins \in Nat /\ end < NoiseBin * bins + NoiseBin
    BY <1>1, <2>1, BinOfInstant
  <2> QED
    BY <1>1, <2>2
<1>4. NoiseBinIndices = 0 .. bins /\ until <= end
  BY DEF NoiseBinIndices
<1> HIDE DEF first, last, bins, end
<1>5. NoiseBin * first < NoiseBin * (bins + 1)
  BY <1>1, <1>2, <1>3, <1>4
<1>6. first < bins + 1
  BY <1>1, <1>2, <1>3, <1>5, MultipleOrder
<1>7. last \in Nat => last < bins + 1
  <2> SUFFICES ASSUME last \in Nat PROVE last < bins + 1
    OBVIOUS
  <2>1. NoiseBin * last < NoiseBin * (bins + 1)
    BY <1>1, <1>2, <1>3, <1>4
  <2> QED
    BY <1>1, <1>3, <2>1, MultipleOrder
<1>8. first <= last + 1
  <2>1. NoiseBin * (last + 1) = NoiseBin * last + NoiseBin /\ NoiseBin * last \in Int
    BY <1>1, <1>2
  <2>2. NoiseBin * first <= NoiseBin * (last + 1) /\ last + 1 \in Nat
    BY <1>1, <1>2, <2>1
  <2> QED
    BY <1>1, <1>2, <2>2, MultipleOrder
<1>9. first \in NoiseBinIndices /\ last \in NoiseBinIndices \cup {-1}
  BY <1>2, <1>3, <1>4, <1>6, <1>7
<1> QED
  BY <1>8, <1>9 DEF first, last

(* What a message records is new to the query, and in bins near the clock. *)
LEMMA NewSegment ==
  ASSUME TypeOK, RInv, ReportTypeOK, now >= TimeSyncThreshold, Len(received) < MaxMessages,
         NEW m \in Messages, NEW skew \in Skews, NEW answers \in GainAnswersTo(m),
         NEW a \in UpdatedAntennas(m, answers), NEW s \in RecordedSegments(m, a),
         NEW e, e = SegmentEnergy(m, a, s, skew)
  PROVE  /\ e.message = Len(received) + 1 /\ Id(e) = <<Len(received) + 1, a, s>>
         /\ Id(e) \in Ids \ DOMAIN receptions
         /\ now + e.start \in Nat /\ now + e.end \in Nat
         /\ Cell(e) \in Arriving
<1>1. /\ e.message = Len(received) + 1 /\ e.antenna = a /\ e.segment = s
      /\ e.subid = m.subid /\ e.freq = Segments(m, a)[s].freq
  BY DEF SegmentEnergy
<1>2. Id(e) = <<Len(received) + 1, a, s>> /\ Frequency(e) = <<m.subid, Segments(m, a)[s].freq>>
  BY <1>1 DEF Id, Frequency
<1>3. Len(received) \in Nat
  BY LenProperties DEF RInv, ReceiveTypeOK
<1>4. Id(e) \in Ids /\ Frequency(e) \in Freqs
  <2>1. a \in 1 .. Len(m.antennas) /\ s \in 1 .. Len(Segments(m, a))
    BY UpdatedAntenna, RecordedSegment
  <2>2. m.antennas[a].group <= Len(m.groups)
    <3>1. Outcome(m, a, answers) \in {"none", "spectrumClamp"}
      BY <2>1, DroppedAtFirst DEF UpdatedAntennas
    <3>2. m.antennas[a].group - 1 <= Len(m.groups) /\ m.antennas[a].group # Len(m.groups) + 1
      BY <2>1, <3>1, OutcomeCode, MessageFields
    <3>3. m.antennas[a].group \in Nat /\ Len(m.groups) \in Nat
      BY <2>1, MessageFields, LenProperties
    <3> QED
      BY <3>2, <3>3
  <2>3. Len(received) + 1 \in 1 .. MaxMessages
    BY <1>3, BoundsAssumption
  <2> QED
    BY <1>2, <2>1, <2>2, <2>3, SegmentsAgree
<1>5. Id(e) \notin DOMAIN receptions
  <2>1. ASSUME NEW d \in energy PROVE Id(e) # Id(d)
    <3>1. d.message \in 1 .. Len(received)
      BY DEF RInv, EnergyOfReceived
    <3>2. d.message # e.message
      BY <1>1, <1>3, <3>1
    <3> QED
      BY <3>2 DEF Id
  <2> QED
    BY <2>1 DEF ReportTypeOK
<1> DEFINE from == now + e.start
           until == now + e.end
<1>6. /\ e.start \in -TimeSyncThreshold .. TimeSyncThreshold + MaxOffset + MaxPropagation
      /\ e.end - e.start \in 0 .. MaxDuration
  BY SegmentEnergyWindow DEF RInv
<1>7. e.end \in Int
  <2>1. e.end = e.start + Clamp(Segments(m, a)[s].duration, MaxDuration)
    BY DEF SegmentEnergy
  <2>2. Clamp(Segments(m, a)[s].duration, MaxDuration) \in Nat
    <3>1. Segments(m, a)[s].duration \in Nat /\ MaxDuration \in Nat
      BY RecordedSegment, LimitsAssumption
    <3>2. Clamp(Segments(m, a)[s].duration, MaxDuration) \in 0 .. MaxDuration
      BY <3>1, ClampBounds
    <3> QED
      BY <3>2
  <2>3. e.start \in Int
    BY <1>6, LimitsAssumption
  <2> QED
    BY <2>1, <2>2, <2>3
<1>8. /\ from \in Nat /\ until \in Nat /\ from <= until
      /\ from - NoiseBin >= now - MaxAge
      /\ until <= now + MaxAhead /\ until <= MaxTime + MaxAhead
  <2>1. /\ now \in Nat /\ now <= MaxTime /\ MaxTime \in Nat /\ MaxAhead \in Nat
        /\ NoiseBin \in Nat /\ MaxAge \in Nat
    BY TimeAssumption, ParameterAssumption DEF TypeOK
  <2>2. /\ TimeSyncThreshold \in Nat /\ MaxOffset \in Nat /\ MaxPropagation \in Nat
        /\ MaxDuration \in Nat
        /\ MaxAge >= TimeSyncThreshold + NoiseBin
        /\ MaxAhead >= TimeSyncThreshold + MaxOffset + MaxPropagation + MaxDuration
    BY LimitsAgree, LimitsAssumption
  <2> DEFINE b == e.start
             d == e.end
  <2>3. /\ b \in Int /\ d \in Int /\ b >= -TimeSyncThreshold
        /\ b <= TimeSyncThreshold + MaxOffset + MaxPropagation
        /\ 0 <= d - b /\ d - b <= MaxDuration
    BY <1>6, <1>7, <2>2
  <2>4. from = now + b /\ until = now + d
    OBVIOUS
  <2> HIDE DEF from, until, b, d
  <2>5. b <= d /\ -TimeSyncThreshold <= b /\ d <= MaxAhead
    BY <2>1, <2>2, <2>3
  <2> QED
    BY <2>1, <2>2, <2>3, <2>4, <2>5
<1>9. Cell(e) = [freq |-> Frequency(e), first |-> AbsoluteBin(from, NoiseBin, FALSE),
                 last |-> AbsoluteBin(until, NoiseBin, TRUE)]
  BY DEF Cell
<1> HIDE DEF from, until
<1> DEFINE first == AbsoluteBin(from, NoiseBin, FALSE)
           last == AbsoluteBin(until, NoiseBin, TRUE)
<1>10. first \in NoiseBinIndices /\ last \in NoiseBinIndices \cup {-1} /\ first <= last + 1
  BY <1>8, SegmentBins
<1>11. /\ first \in Int /\ last \in Int
       /\ from < NoiseBin * first + NoiseBin /\ NoiseBin * last < until
  <2>1. NoiseBin \in Nat \ {0}
    BY ParameterAssumption
  <2>2. first \in Nat /\ last \in Nat \cup {-1}
    BY <1>8, <2>1, BinOfInstant
  <2>3. from < NoiseBin * first + NoiseBin /\ NoiseBin * last < until
    BY <1>8, <2>1, BinOfInstant
  <2> HIDE DEF first, last
  <2> QED
    BY <2>2, <2>3
<1>12. NoiseBin * first >= now - MaxAge /\ NoiseBin * last <= now + MaxAhead
  <2>1. now \in Nat /\ MaxAge \in Nat /\ MaxAhead \in Nat /\ NoiseBin \in Nat
    BY TimeAssumption, ParameterAssumption DEF TypeOK
  <2>2. NoiseBin * first \in Int /\ NoiseBin * last \in Int
    <3> HIDE DEF first, last
    <3> QED
      BY <1>11, <2>1
  <2> HIDE DEF first, last
  <2> QED
    BY <1>8, <1>11, <2>1, <2>2
<1> HIDE DEF first, last
<1>13. [freq |-> Frequency(e), first |-> first, last |-> last] \in Cells
  BY <1>4, <1>10 DEF Cells
<1>14. Cell(e) \in Arriving
  <2>1. [freq |-> Frequency(e), first |-> first, last |-> last] \in Arriving
    BY <1>12, <1>13 DEF Arriving
  <2> QED
    BY <1>9, <2>1 DEF first, last
<1> QED
  BY <1>1, <1>2, <1>4, <1>5, <1>8, <1>14 DEF from, until

-----------------------------------------------------------------------------
(* The link between what the receive path recorded and what the query      *)
(* reports from: the segment's frequency, and the noise bins from the one  *)
(* it begins in to the one it ends in.                                     *)
Linked ==
  /\ TypeOK
  /\ ReportTypeOK
  /\ \A e \in energy :
        /\ From(e) \in Nat /\ Until(e) \in Nat
        /\ Audible(received[e.message].of)
        /\ receptions[Id(e)].freq = Frequency(e)
        /\ receptions[Id(e)].first = AbsoluteBin(From(e), NoiseBin, FALSE)
        /\ receptions[Id(e)].last = AbsoluteBin(Until(e), NoiseBin, TRUE)

(* The cells of a message's segments, by their ids.                        *)
LEMMA NewSegmentsAre ==
  ASSUME TypeOK, RInv, ReportTypeOK, now >= TimeSyncThreshold, Len(received) < MaxMessages,
         NEW m \in Messages, NEW skew \in Skews, NEW answers \in GainAnswersTo(m),
         NEW new, new = NewSegments(m, skew, answers)
  PROVE  /\ DOMAIN new = {Id(e) : e \in MessageEnergy(m, skew, answers)}
         /\ DOMAIN new \subseteq Ids \ DOMAIN receptions
         /\ new \in [DOMAIN new -> Arriving]
         /\ {new[id].freq : id \in DOMAIN new} = MessageRecorders(m, answers)
         /\ \A e \in MessageEnergy(m, skew, answers) :
               /\ new[Id(e)] = Cell(e)
               /\ now + e.start \in Nat /\ now + e.end \in Nat
               /\ e.message = Len(received) + 1 /\ Audible(m)
<1> DEFINE ids == UNION {{<<Len(received) + 1, a, s>> : s \in RecordedSegments(m, a)} :
                           a \in UpdatedAntennas(m, answers)}
<1>1. new = [id \in ids |-> Cell(SegmentEnergy(m, id[2], id[3], skew))]
  BY DEF NewSegments
<1>2. \A id : id \in ids <=> \E a \in UpdatedAntennas(m, answers) :
                               \E s \in RecordedSegments(m, a) : id = <<Len(received) + 1, a, s>>
  OBVIOUS
<1> HIDE DEF ids
<1>3. ASSUME NEW a \in UpdatedAntennas(m, answers), NEW s \in RecordedSegments(m, a),
             NEW e, e = SegmentEnergy(m, a, s, skew)
      PROVE  /\ Id(e) \in ids /\ new[Id(e)] = Cell(e)
             /\ Id(e) \in Ids \ DOMAIN receptions /\ Cell(e) \in Arriving
             /\ now + e.start \in Nat /\ now + e.end \in Nat
             /\ e.message = Len(received) + 1 /\ Id(e) = <<Len(received) + 1, a, s>>
             /\ Audible(m) /\ Cell(e).freq = <<m.subid, Segments(m, a)[s].freq>>
  <2>1. /\ e.message = Len(received) + 1 /\ Id(e) = <<Len(received) + 1, a, s>>
        /\ Id(e) \in Ids \ DOMAIN receptions
        /\ now + e.start \in Nat /\ now + e.end \in Nat /\ Cell(e) \in Arriving
    BY <1>3, NewSegment
  <2>2. Id(e) \in ids
    BY <1>2, <2>1
  <2>3. Id(e)[2] = a /\ Id(e)[3] = s
    BY <2>1
  <2>4. new[Id(e)] = Cell(e)
    BY <1>1, <1>3, <2>2, <2>3
  <2>5. Audible(m)
    BY RecordedSegment
  <2>6. Cell(e).freq = Frequency(e)
    BY DEF Cell
  <2>7. Frequency(e) = <<m.subid, Segments(m, a)[s].freq>>
    BY <1>3 DEF Frequency, SegmentEnergy
  <2> QED
    BY <2>1, <2>2, <2>4, <2>5, <2>6, <2>7
<1>4. \A e \in MessageEnergy(m, skew, answers) :
         /\ Id(e) \in ids /\ new[Id(e)] = Cell(e)
         /\ now + e.start \in Nat /\ now + e.end \in Nat
         /\ e.message = Len(received) + 1 /\ Audible(m)
  BY <1>3, MessageEnergyIs
<1>5. ASSUME NEW id \in ids
      PROVE  /\ \E e \in MessageEnergy(m, skew, answers) : id = Id(e)
             /\ id \in Ids \ DOMAIN receptions /\ new[id] \in Arriving
             /\ new[id].freq \in MessageRecorders(m, answers)
  <2>1. PICK a \in UpdatedAntennas(m, answers) :
           \E s \in RecordedSegments(m, a) : id = <<Len(received) + 1, a, s>>
    BY <1>2
  <2>2. PICK s \in RecordedSegments(m, a) : id = <<Len(received) + 1, a, s>>
    BY <2>1
  <2> DEFINE e == SegmentEnergy(m, a, s, skew)
  <2>3. /\ new[Id(e)] = Cell(e)
        /\ Id(e) \in Ids \ DOMAIN receptions /\ Cell(e) \in Arriving
        /\ Id(e) = <<Len(received) + 1, a, s>>
        /\ Cell(e).freq = <<m.subid, Segments(m, a)[s].freq>>
    BY <1>3
  <2>4. e \in MessageEnergy(m, skew, answers)
    BY MessageEnergyIs
  <2> HIDE DEF e
  <2>5. <<m.subid, Segments(m, a)[s].freq>> \in MessageRecorders(m, answers)
    BY DEF MessageRecorders
  <2> QED
    BY <2>2, <2>3, <2>4, <2>5
<1>6. DOMAIN new = ids
  BY <1>1
<1>7. DOMAIN new = {Id(e) : e \in MessageEnergy(m, skew, answers)}
  BY <1>4, <1>5, <1>6
<1>8. new \in [DOMAIN new -> Arriving]
  BY <1>1, <1>5, <1>6
<1>9. \A x \in MessageRecorders(m, answers) : \E id \in ids : x = new[id].freq
  <2> SUFFICES ASSUME NEW x \in MessageRecorders(m, answers)
               PROVE  \E id \in ids : x = new[id].freq
    OBVIOUS
  <2>1. PICK a \in UpdatedAntennas(m, answers) :
           \E s \in RecordedSegments(m, a) : x = <<m.subid, Segments(m, a)[s].freq>>
    BY DEF MessageRecorders
  <2>2. PICK s \in RecordedSegments(m, a) : x = <<m.subid, Segments(m, a)[s].freq>>
    BY <2>1
  <2> DEFINE e == SegmentEnergy(m, a, s, skew)
  <2>3. /\ Id(e) \in ids /\ new[Id(e)] = Cell(e)
        /\ Cell(e).freq = <<m.subid, Segments(m, a)[s].freq>>
    BY <1>3
  <2> HIDE DEF e
  <2> QED
    BY <2>2, <2>3
<1>10. {new[id].freq : id \in DOMAIN new} = MessageRecorders(m, answers)
  BY <1>5, <1>6, <1>9
<1> QED
  BY <1>4, <1>5, <1>6, <1>7, <1>8, <1>10

(* Processing a message is one of the receptions the query allows for: of  *)
(* the segments it recorded, none if it was dropped before.                *)
LEMMA ProcessingReceives ==
  ASSUME Linked, RInv, NEW m \in Messages, NEW skew \in Skews, Processing(m, skew)
  PROVE  \E ids \in SUBSET (Ids \ DOMAIN receptions) : \E new \in [ids -> Arriving] :
            /\ Receive(new)
            /\ \E status : received' = Append(received, [of |-> m, status |-> status])
            /\ energy \subseteq energy'
            /\ ids = {Id(e) : e \in energy' \ energy}
            /\ \A e \in energy' \ energy :
                  /\ new[Id(e)] = Cell(e)
                  /\ now + e.start \in Nat /\ now + e.end \in Nat
                  /\ e.message = Len(received) + 1 /\ Audible(m)
<1>1. /\ started /\ now >= TimeSyncThreshold /\ Len(received) < MaxMessages
      /\ UNCHANGED <<now, adjustments, started, lastQueryIndex, sequenceNumber, timers, queued,
                     published>>
  BY DEF Processing, queryVars
<1>2. CASE DropWithoutAntennas(m) /\ RecordsEnergy(<< >>)
  <2>1. UNCHANGED <<recorders, energy>>
    BY <1>2 DEF DropWithoutAntennas
  <2>2. \E status : received' = Append(received, [of |-> m, status |-> status])
    BY <1>2 DEF DropWithoutAntennas
  <2>3. DOMAIN << >> = {} /\ << >> \in [{} -> Arriving]
    OBVIOUS
  <2>4. Receive(<< >>)
    BY <1>1, <1>2, <2>1, <2>3 DEF Receive
  <2>5. {} \in SUBSET (Ids \ DOMAIN receptions)
    OBVIOUS
  <2>6. {} = {Id(e) : e \in energy' \ energy} /\ energy' \ energy = {} /\ energy \subseteq energy'
    BY <2>1
  <2> QED
    BY <2>2, <2>3, <2>4, <2>5, <2>6
<1>3. ASSUME NEW answers \in GainAnswersTo(m), ProcessMessage(m, skew, answers),
             RecordsEnergy(NewSegments(m, skew, answers))
      PROVE  \E ids \in SUBSET (Ids \ DOMAIN receptions) : \E new \in [ids -> Arriving] :
                /\ Receive(new)
                /\ \E status : received' = Append(received, [of |-> m, status |-> status])
                /\ energy \subseteq energy'
                /\ ids = {Id(e) : e \in energy' \ energy}
                /\ \A e \in energy' \ energy :
                      /\ new[Id(e)] = Cell(e)
                      /\ now + e.start \in Nat /\ now + e.end \in Nat
                      /\ e.message = Len(received) + 1 /\ Audible(m)
  <2> DEFINE new == NewSegments(m, skew, answers)
  <2>1. /\ DOMAIN new = {Id(e) : e \in MessageEnergy(m, skew, answers)}
        /\ DOMAIN new \subseteq Ids \ DOMAIN receptions
        /\ new \in [DOMAIN new -> Arriving]
        /\ {new[id].freq : id \in DOMAIN new} = MessageRecorders(m, answers)
        /\ \A e \in MessageEnergy(m, skew, answers) :
              /\ new[Id(e)] = Cell(e)
              /\ now + e.start \in Nat /\ now + e.end \in Nat
              /\ e.message = Len(received) + 1 /\ Audible(m)
    BY <1>1, NewSegmentsAre DEF Linked
  <2>2. /\ recorders' = recorders \cup MessageRecorders(m, answers)
        /\ energy' = energy \cup MessageEnergy(m, skew, answers)
    BY <1>3 DEF ProcessMessage
  <2>3. \E status : received' = Append(received, [of |-> m, status |-> status])
    BY <1>3 DEF ProcessMessage
  <2>4. RecordsEnergy(new)
    BY <1>3
  <2> HIDE DEF new
  <2>5. Receive(new)
    BY <1>1, <2>1, <2>2, <2>4 DEF Receive
  <2>6. energy' \ energy = MessageEnergy(m, skew, answers)
    <3>1. Len(received) \in Nat
      BY LenProperties DEF RInv, ReceiveTypeOK
    <3>2. \A e \in energy : e \notin MessageEnergy(m, skew, answers)
      BY <2>1, <3>1 DEF RInv, EnergyOfReceived
    <3> QED
      BY <2>2, <3>2
  <2>7. energy \subseteq energy'
    BY <2>2
  <2>8. DOMAIN new = {Id(e) : e \in energy' \ energy}
    BY <2>1, <2>6
  <2>9. \A e \in energy' \ energy :
           /\ new[Id(e)] = Cell(e)
           /\ now + e.start \in Nat /\ now + e.end \in Nat
           /\ e.message = Len(received) + 1 /\ Audible(m)
    BY <2>1, <2>6
  <2>10. DOMAIN new \in SUBSET (Ids \ DOMAIN receptions)
    BY <2>1
  <2> QED
    BY <2>1, <2>3, <2>5, <2>7, <2>8, <2>9, <2>10, Zenon
<1> QED
  BY <1>2, <1>3 DEF Processing

(* Neither the events nor the query's own steps touch what was recorded.   *)
LEMMA OtherSteps ==
  ASSUME QueryStep \/ \E n \in Nems : Event(n)
  PROVE  [Next]_vars /\ UNCHANGED <<energy, received, processed, receptions>>
<1>1. ASSUME NEW n \in Nems, Event(n)
      PROVE  [Next]_vars /\ UNCHANGED <<energy, received, processed, receptions>>
  <2>1. UNCHANGED <<now, adjustments, started, lastQueryIndex, sequenceNumber, timers, queued,
                    published, power, receptions, processed>>
    BY <1>1 DEF Event, queryVars
  <2>2. UNCHANGED <<recorders, energy, received>>
    BY <1>1 DEF Event, ProcessEvent
  <2> QED
    BY <2>1, <2>2 DEF vars
<1>2. CASE QueryStep
  <2>1. UNCHANGED <<energy, received, processed>>
    BY <1>2 DEF QueryStep
  <2>2. Next /\ UNCHANGED receptions
    BY <1>2 DEF QueryStep, Next, Start, TimerExpires, RunQuery, Tick, StepBack
  <2> QED
    BY <2>1, <2>2
<1> QED
  BY <1>1, <1>2

(* A step of the composition is a step of the query, or none.              *)
LEMMA QueryRefined ==
  ASSUME Linked, RInv, [ReportNext]_reportVars
  PROVE  [Next]_vars
<1>1. ASSUME NEW m \in Messages, NEW skew \in Skews, Processing(m, skew)
      PROVE  [Next]_vars
  <2>1. \E ids \in SUBSET (Ids \ DOMAIN receptions) : \E new \in [ids -> Arriving] : Receive(new)
    BY <1>1, ProcessingReceives
  <2> QED
    BY <2>1 DEF Next
<1>2. CASE QueryStep \/ \E n \in Nems : Event(n)
  BY <1>2, OtherSteps
<1>3. CASE UNCHANGED reportVars
  BY <1>3 DEF reportVars
<1> QED
  BY <1>1, <1>2, <1>3 DEF ReportNext

(* The segments of a message are linked when it is processed, and stay so: *)
(* what was recorded before, and when, does not change.                    *)
LEMMA ProcessingKeepsLink ==
  ASSUME Linked, RInv, TypeOK', NEW m \in Messages, NEW skew \in Skews, Processing(m, skew)
  PROVE  Linked'
<1>1. PICK ids \in SUBSET (Ids \ DOMAIN receptions) : \E new \in [ids -> Arriving] :
         /\ Receive(new)
         /\ \E status : received' = Append(received, [of |-> m, status |-> status])
         /\ energy \subseteq energy'
         /\ ids = {Id(e) : e \in energy' \ energy}
         /\ \A e \in energy' \ energy :
               /\ new[Id(e)] = Cell(e)
               /\ now + e.start \in Nat /\ now + e.end \in Nat
               /\ e.message = Len(received) + 1 /\ Audible(m)
  BY ProcessingReceives
<1>2. PICK new \in [ids -> Arriving] :
         /\ Receive(new)
         /\ \E status : received' = Append(received, [of |-> m, status |-> status])
         /\ energy \subseteq energy'
         /\ ids = {Id(e) : e \in energy' \ energy}
         /\ \A e \in energy' \ energy :
               /\ new[Id(e)] = Cell(e)
               /\ now + e.start \in Nat /\ now + e.end \in Nat
               /\ e.message = Len(received) + 1 /\ Audible(m)
  BY <1>1
<1>3. PICK status : received' = Append(received, [of |-> m, status |-> status])
  BY <1>2
<1>4. /\ Len(received) \in Nat /\ Len(received') = Len(received) + 1
      /\ \A i \in 1 .. Len(received) : received'[i] = received[i]
      /\ received'[Len(received) + 1].of = m
  <2> DEFINE r == [of |-> m, status |-> status]
  <2>1. ReceiveTypeOK
    BY DEF RInv
  <2> HIDE DEF r
  <2>2. /\ Len(received) \in Nat /\ Len(received') = Len(received) + 1
        /\ \A i \in 1 .. Len(received) : received'[i] = received[i]
        /\ received'[Len(received) + 1] = r
    BY <1>2, <1>3, <2>1, HistoryGrows DEF r
  <2> QED
    BY <2>2 DEF r
<1>5. /\ processed' \in Seq(0 .. MaxTime) /\ Len(processed') = Len(processed) + 1
      /\ \A i \in 1 .. Len(processed) : processed'[i] = processed[i]
      /\ processed'[Len(processed) + 1] = now
  <2>1. processed \in Seq(0 .. MaxTime)
    BY DEF Linked, ReportTypeOK
  <2>2. now \in 0 .. MaxTime
    BY TimeAssumption DEF Linked, TypeOK
  <2>3. processed' = Append(processed, now)
    BY DEF Processing
  <2> QED
    BY <2>1, <2>2, <2>3, AppendProperties
<1>6. Len(processed) = Len(received)
  BY DEF Linked, ReportTypeOK
<1>7. /\ DOMAIN receptions' = DOMAIN receptions \cup ids
      /\ \A i \in DOMAIN receptions : receptions'[i] = receptions[i]
      /\ \A i \in ids : receptions'[i] = [freq |-> new[i].freq, first |-> new[i].first,
                                        last |-> new[i].last, after |-> Len(published)]
  BY <1>2, ReceivedSegments DEF Linked
<1>8. DOMAIN receptions = {Id(e) : e \in energy}
  BY DEF Linked, ReportTypeOK
<1>9. ReportTypeOK'
  <2>1. DOMAIN receptions' = {Id(e) : e \in energy'}
    BY <1>2, <1>7, <1>8 DEF Id
  <2> QED
    BY <1>4, <1>5, <1>6, <2>1 DEF ReportTypeOK
<1>10. ASSUME NEW e \in energy'
       PROVE  /\ From(e)' \in Nat /\ Until(e)' \in Nat
              /\ Audible(received'[e.message].of)
              /\ receptions'[Id(e)].freq = Frequency(e)
              /\ receptions'[Id(e)].first = AbsoluteBin(From(e)', NoiseBin, FALSE)
              /\ receptions'[Id(e)].last = AbsoluteBin(Until(e)', NoiseBin, TRUE)
  <2>1. CASE e \in energy
    <3>1. e.message \in 1 .. Len(received)
      BY <2>1 DEF RInv, EnergyOfReceived
    <3>2. processed'[e.message] = processed[e.message] /\ received'[e.message] = received[e.message]
      BY <1>4, <1>5, <1>6, <3>1
    <3>3. From(e)' = From(e) /\ Until(e)' = Until(e)
      BY <3>2 DEF From, Until
    <3>4. receptions'[Id(e)] = receptions[Id(e)]
      BY <1>7, <1>8, <2>1
    <3> QED
      BY <2>1, <3>2, <3>3, <3>4 DEF Linked
  <2>2. CASE e \notin energy
    <3>1. /\ Id(e) \in ids /\ new[Id(e)] = Cell(e)
          /\ now + e.start \in Nat /\ now + e.end \in Nat
          /\ e.message = Len(received) + 1 /\ Audible(m)
      BY <1>2, <2>2
    <3>2. From(e)' = now + e.start /\ Until(e)' = now + e.end
      BY <1>5, <1>6, <3>1 DEF From, Until
    <3>3. /\ Cell(e).freq = Frequency(e)
          /\ Cell(e).first = AbsoluteBin(now + e.start, NoiseBin, FALSE)
          /\ Cell(e).last = AbsoluteBin(now + e.end, NoiseBin, TRUE)
      BY DEF Cell
    <3>4. /\ receptions'[Id(e)].freq = Frequency(e)
          /\ receptions'[Id(e)].first = AbsoluteBin(now + e.start, NoiseBin, FALSE)
          /\ receptions'[Id(e)].last = AbsoluteBin(now + e.end, NoiseBin, TRUE)
      <4>1. receptions'[Id(e)] = [freq |-> Cell(e).freq, first |-> Cell(e).first,
                                last |-> Cell(e).last, after |-> Len(published)]
        BY <1>7, <3>1
      <4> QED
        BY <3>3, <4>1
    <3>5. Audible(received'[e.message].of)
      BY <1>4, <3>1
    <3> QED
      BY <3>1, <3>2, <3>4, <3>5
  <2> QED
    BY <2>1, <2>2
<1> QED
  BY <1>9, <1>10 DEF Linked

(* No step breaks the link: only a message adds to what is linked.         *)
LEMMA LinkKept ==
  ASSUME Linked, RInv, [ReportNext]_reportVars
  PROVE  Linked'
<1>1. TypeOK'
  BY QueryRefined, TypeInvariance DEF Linked
<1>2. ASSUME NEW m \in Messages, NEW skew \in Skews, Processing(m, skew)
      PROVE  Linked'
  BY <1>1, <1>2, ProcessingKeepsLink
<1>3. CASE UNCHANGED <<energy, received, processed, receptions>>
  <2>1. ReportTypeOK'
    BY <1>3 DEF Linked, ReportTypeOK
  <2>2. \A e \in energy' : From(e)' = From(e) /\ Until(e)' = Until(e)
    BY <1>3 DEF From, Until
  <2> QED
    BY <1>1, <1>3, <2>1, <2>2 DEF Linked
<1>4. CASE QueryStep \/ \E n \in Nems : Event(n)
  BY <1>3, <1>4, OtherSteps
<1>5. CASE UNCHANGED reportVars
  BY <1>3, <1>5 DEF reportVars, vars, receiveVars
<1> QED
  BY <1>2, <1>4, <1>5 DEF ReportNext

(* The link holds throughout, and with it what the receive path is proved  *)
(* to keep.                                                                *)
LEMMA ReportInvariant == ReportSpec => [](Linked /\ RInv)
<1>1. ReportInit => Linked
  <2> SUFFICES ASSUME ReportInit PROVE Linked
    OBVIOUS
  <2>1. energy = {} /\ receptions = << >> /\ processed = << >> /\ received = << >>
    BY DEF ReportInit, Init, ReceiveInit
  <2>2. processed \in Seq(0 .. MaxTime)
    BY <2>1
  <2>3. TypeOK
    BY InitTyped DEF ReportInit
  <2> QED
    BY <2>1, <2>2, <2>3 DEF Linked, ReportTypeOK
<1>2. Linked /\ RInv /\ [ReportNext]_reportVars => Linked'
  BY LinkKept
<1>3. ReportSpec => []RInv
  BY ReportImplementsReceive, ReceiveInvariant, PTL
<1> QED
  BY <1>1, <1>2, <1>3, PTL DEF ReportSpec

(* The query behaves as it is specified on its own: the messages from the  *)
(* air are receptions it allows for.                                       *)
THEOREM ReportImplementsQuery == ReportSpec => Spec
<1>1. ReportInit => Init
  BY DEF ReportInit
<1>2. Linked /\ RInv /\ [ReportNext]_reportVars => [Next]_vars
  BY QueryRefined
<1> QED
  BY <1>1, <1>2, ReportInvariant, PTL DEF ReportSpec, Spec

(* The same under fairness: what is checked of the query alone holds with  *)
(* messages arriving.                                                      *)
THEOREM FairReportImplementsQuery == FairReportSpec => FairSpec
BY ReportImplementsQuery, PTL DEF FairReportSpec, FairSpec

(* Every recorded segment is one the query reports from, and the other way *)
(* round.                                                                  *)
THEOREM ReportTypes == ReportSpec => []ReportTypeOK
<1>1. Linked => ReportTypeOK
  BY DEF Linked
<1> QED
  BY <1>1, ReportInvariant, PTL

-----------------------------------------------------------------------------
(* The noise bins of bin i of a message, when noise bins do not straddle.  *)
LEMMA QueryBinBoundaries ==
  ASSUME BinsAligned, StartsAtQuery, NEW j \in 1 .. Len(published), NEW i \in Nat
  PROVE  \E low \in Nat, high \in Nat :
            /\ low < high
            /\ BinLow(j, i) = NoiseBin * low /\ BinHigh(j, i) = NoiseBin * high
<1>1. PICK k \in Nat : published[j].start = QueryTime(k)
  BY DEF StartsAtQuery
<1>2. /\ FirstBin(k, i) \in Nat /\ FirstBin(k, i + 1) \in Nat
      /\ FirstBin(k, i) < FirstBin(k, i + 1)
      /\ BinStart(k, i) = NoiseBin * FirstBin(k, i)
      /\ BinStart(k, i + 1) = NoiseBin * FirstBin(k, i + 1)
  <2>1. i + 1 \in Nat
    OBVIOUS
  <2>2. BinStart(k, i + 1) = NoiseBin * FirstBin(k, i + 1)
    BY <2>1, BinBoundaries
  <2> QED
    BY <2>2, BinBoundaries
<1>3. BinLow(j, i) = BinStart(k, i) /\ BinHigh(j, i) = BinStart(k, i + 1)
  BY <1>1 DEF BinLow, BinHigh, BinStart
<1> QED
  BY <1>2, <1>3

(* The instants of a recorded segment and its noise bins.                  *)
LEMMA SegmentOfCell ==
  ASSUME Linked, NEW e \in energy
  PROVE  LET c == receptions[Id(e)]
         IN  /\ From(e) \in Nat /\ Until(e) \in Nat /\ Id(e) \in DOMAIN receptions
             /\ c.freq = Frequency(e) /\ c.freq \in Freqs
             /\ c.first \in Nat /\ c.first \in NoiseBinIndices
             /\ c.last \in Nat \cup {-1} /\ c.last \in NoiseBinIndices \cup {-1}
             /\ NoiseBin * c.first <= From(e) /\ From(e) < NoiseBin * (c.first + 1)
             /\ NoiseBin * c.last < Until(e) /\ Until(e) <= NoiseBin * (c.last + 1)
<1> DEFINE c == receptions[Id(e)]
           from == From(e)
           until == Until(e)
<1>1. /\ from \in Nat /\ until \in Nat
      /\ c.freq = Frequency(e)
      /\ c.first = AbsoluteBin(from, NoiseBin, FALSE)
      /\ c.last = AbsoluteBin(until, NoiseBin, TRUE)
  BY DEF Linked
<1>2. Id(e) \in DOMAIN receptions
  BY DEF Linked, ReportTypeOK
<1>3. c \in Receptions
  BY <1>2 DEF Linked, TypeOK
<1>4. /\ c.freq \in Freqs /\ c.first \in NoiseBinIndices
      /\ c.last \in NoiseBinIndices \cup {-1}
  BY <1>3 DEF Receptions
<1> HIDE DEF c, from, until
<1>5. NoiseBin \in Nat \ {0}
  BY ParameterAssumption
<1>6. /\ c.first \in Nat /\ NoiseBin * c.first <= from /\ from < NoiseBin * c.first + NoiseBin
      /\ c.last \in Nat \cup {-1} /\ NoiseBin * c.last < until
      /\ until <= NoiseBin * c.last + NoiseBin
  BY <1>1, <1>5, BinOfInstant
<1> DEFINE first == c.first
           last == c.last
<1>7. first \in Int /\ last \in Int
  BY <1>6
<1> HIDE DEF first, last
<1>8. /\ NoiseBin * (first + 1) = NoiseBin * first + NoiseBin
      /\ NoiseBin * (last + 1) = NoiseBin * last + NoiseBin
  BY <1>5, <1>7
<1> QED
  BY <1>1, <1>2, <1>4, <1>6, <1>8 DEF c, from, until, first, last

(* A set of segments shows power exactly when it is not empty.             *)
LEMMA BeforeCounted ==
  ASSUME TypeOK, NEW j, NEW f, NEW b
  PROVE  /\ Cardinality(Before(j, f, b)) \in Nat
         /\ Cardinality(Before(j, f, b)) > 0 <=> Before(j, f, b) # {}
<1>1. IsFiniteSet(Before(j, f, b))
  <2>1. Before(j, f, b) \subseteq Ids
    BY DEF Before, TypeOK
  <2> QED
    BY <2>1, TimeAssumption, FS_Subset
<1>2. Cardinality(Before(j, f, b)) \in Nat
  BY <1>1, FS_CardinalityType
<1>3. Cardinality(Before(j, f, b)) = 0 <=> Before(j, f, b) = {}
  BY <1>1, FS_EmptySet
<1> QED
  BY <1>2, <1>3

(* A recorded segment shows in every bin it overlaps of a later message:   *)
(* one of its noise bins is there.                                         *)
LEMMA OverlapShows ==
  ASSUME BinsAligned, Linked, EInv, StartsAtQuery,
         NEW e \in energy, NEW j \in 1 .. Len(published), NEW i \in 0 .. BinSummaryCount - 1,
         From(e) < Until(e), RecordedBefore(e, j), Overlaps(e, j, i)
  PROVE  ShowsPower(j, Frequency(e), i)
<1> DEFINE c == receptions[Id(e)]
           first == c.first
           last == c.last
           start == published[j].start
           from == From(e)
           until == Until(e)
<1>1. /\ from \in Nat /\ until \in Nat /\ Id(e) \in DOMAIN receptions
      /\ c.freq = Frequency(e) /\ c.freq \in Freqs
      /\ first \in Nat /\ first \in NoiseBinIndices
      /\ last \in Nat \cup {-1} /\ last \in NoiseBinIndices \cup {-1}
      /\ NoiseBin * first <= from /\ from < NoiseBin * (first + 1)
      /\ NoiseBin * last < until /\ until <= NoiseBin * (last + 1)
  BY SegmentOfCell
<1>2. PICK low \in Nat, high \in Nat :
         /\ low < high
         /\ BinLow(j, i) = NoiseBin * low /\ BinHigh(j, i) = NoiseBin * high
  BY QueryBinBoundaries
<1>3. NoiseBin \in Nat \ {0} /\ QueryBin \in Nat \ {0} /\ start \in Nat
  BY ParameterAssumption DEF Linked, TypeOK
<1>4. from < NoiseBin * high /\ NoiseBin * low < until /\ from < until
  BY <1>2 DEF Overlaps
<1> HIDE DEF c, first, last, start, from, until
<1>5. first < high
  <2>1. NoiseBin * first < NoiseBin * high
    BY <1>1, <1>2, <1>3, <1>4
  <2> QED
    BY <1>1, <1>2, <1>3, <2>1, MultipleOrder
<1>6. low < last + 1 /\ first < last + 1
  <2>1. NoiseBin * low < NoiseBin * (last + 1) /\ NoiseBin * first < NoiseBin * (last + 1)
    BY <1>1, <1>2, <1>3, <1>4
  <2>2. last + 1 \in Nat
    BY <1>1
  <2> QED
    BY <1>1, <1>2, <1>3, <2>1, <2>2, MultipleOrder
<1> DEFINE b == IF first <= low THEN low ELSE first
<1>7. b \in Nat /\ low <= b /\ b < high /\ first <= b /\ b <= last
  BY <1>1, <1>2, <1>5, <1>6
<1>8. b \in NoiseBinIndices
  <2>1. last \in NoiseBinIndices
    BY <1>1, <1>7
  <2> DEFINE n == (MaxTime + MaxAhead) \div NoiseBin
  <2>2. NoiseBinIndices = 0 .. n
    BY DEF NoiseBinIndices
  <2>3. n \in Int
    BY <1>3, TimeAssumption
  <2> HIDE DEF b, n
  <2> QED
    BY <1>7, <2>1, <2>2, <2>3
<1> HIDE DEF b
<1> DEFINE t == NoiseBin * b
           r == t - BinLow(j, i)
<1>9. BinLow(j, i) = start + QueryBin * i /\ BinHigh(j, i) = start + QueryBin * (i + 1)
  BY DEF BinLow, BinHigh, start
<1>10. BinSummaryCount \in Nat /\ QueryBin * i \in Nat /\ QueryBin * (i + 1) = QueryBin * i + QueryBin
  BY <1>3, BinsWithinRate
<1>11. t \in Nat /\ BinLow(j, i) <= t /\ t < BinHigh(j, i)
  <2>1. NoiseBin * low <= NoiseBin * b /\ NoiseBin * b < NoiseBin * high
    BY <1>2, <1>3, <1>7, MultipleOrder
  <2> QED
    BY <1>2, <1>3, <1>7, <2>1
<1>12. (t - start) \div QueryBin = i
  <2>1. r \in 0 .. QueryBin - 1 /\ t - start = QueryBin * i + r
    <3> HIDE DEF t
    <3> QED
      BY <1>3, <1>9, <1>10, <1>11
  <2> HIDE DEF t, r
  <2>2. i \in Nat
    BY <1>10
  <2>3. (QueryBin * i + r) \div QueryBin = i
    BY <1>3, <2>1, <2>2, Division
  <2> QED
    BY <2>1, <2>3
<1>13. Measures(published[j], t)
  <2>1. QueryBin * (i + 1) <= QueryBin * BinSummaryCount
    <3>1. i + 1 \in Nat /\ i + 1 <= BinSummaryCount
      BY <1>10
    <3> QED
      BY <1>3, <1>10, <3>1, MultipleOrder
  <2>2. QueryBin * BinSummaryCount \in Nat
    BY BinsWithinRate
  <2> HIDE DEF t
  <2>3. start <= t /\ t < start + QueryBin * BinSummaryCount
    BY <1>3, <1>9, <1>10, <1>11, <2>1, <2>2
  <2> QED
    BY <2>3 DEF Measures, MeasuredUntil, start
<1> DEFINE f == Frequency(e)
<1>14. Id(e) \in Before(j, f, b)
  BY <1>1, <1>7 DEF Before, Covers, RecordedBefore, c, first, last
<1>15. f \in Freqs
  BY <1>1
<1> HIDE DEF f
<1>16. /\ f \in DOMAIN published[j].energies
       /\ published[j].energies[f][i] >= Cardinality(Before(j, f, b))
  BY <1>8, <1>12, <1>13, <1>14, <1>15 DEF EInv, EnergyReported, start
<1>17. Cardinality(Before(j, f, b)) \in Nat /\ Cardinality(Before(j, f, b)) > 0
  BY <1>14, BeforeCounted DEF Linked
<1>18. published[j].energies[f][i] \in Nat
  BY <1>16 DEF EInv, EnergiesTyped
<1> QED
  BY <1>16, <1>17, <1>18 DEF ShowsPower, f

(* The segments of a success are recorded, and what is recorded shows.     *)
LEMMA SuccessShows ==
  ASSUME BinsAligned, Linked, RInv, EInv, StartsAtQuery
  PROVE  SuccessIsReported
<1> SUFFICES ASSUME NEW n \in 1 .. Len(received), received[n].status = "success",
                    Audible(received[n].of),
                    NEW a \in 1 .. Len(received[n].of.antennas),
                    NEW s \in 1 .. Len(Segments(received[n].of, a))
             PROVE  \E e \in energy :
                       /\ Id(e) = <<n, a, s>>
                       /\ \A j \in 1 .. Len(published), i \in 0 .. BinSummaryCount - 1 :
                            From(e) < Until(e) /\ RecordedBefore(e, j) /\ Overlaps(e, j, i) =>
                              ShowsPower(j, Frequency(e), i)
  BY DEF SuccessIsReported
<1>1. IsRecorded(n, a, s)
  BY DEF RInv, SuccessRecordsAll
<1>2. PICK e \in energy : e.message = n /\ e.antenna = a /\ e.segment = s
  BY <1>1 DEF IsRecorded
<1>3. Id(e) = <<n, a, s>>
  BY <1>2 DEF Id
<1>4. \A j \in 1 .. Len(published), i \in 0 .. BinSummaryCount - 1 :
         From(e) < Until(e) /\ RecordedBefore(e, j) /\ Overlaps(e, j, i) =>
           ShowsPower(j, Frequency(e), i)
  BY OverlapShows
<1> QED
  BY <1>3, <1>4

(* What a bin shows was recorded in one of its noise bins, so a segment     *)
(* that has that noise bin overlaps the bin.                                *)
LEMMA ShownWasReceived ==
  ASSUME BinsAligned, Linked, EInv, StartsAtQuery
  PROVE  ReportedWasReceived
<1> SUFFICES ASSUME NEW j \in 1 .. Len(published), NEW f \in DOMAIN published[j].energies,
                    NEW i \in 0 .. BinSummaryCount - 1, published[j].energies[f][i] > 0
             PROVE  \E e \in energy : /\ Frequency(e) = f /\ RecordedBefore(e, j)
                                      /\ Overlaps(e, j, i) /\ Audible(received[e.message].of)
  BY DEF ReportedWasReceived
<1>1. PICK b \in NoiseBinIndices :
         /\ published[j].start + QueryBin * i <= NoiseBin * b
         /\ NoiseBin * b < published[j].start + QueryBin * (i + 1)
         /\ published[j].energies[f][i] <= Cardinality(Before(j, f, b))
  BY DEF EInv, NoPhantomEnergy
<1>2. BinLow(j, i) <= NoiseBin * b /\ NoiseBin * b < BinHigh(j, i)
  BY <1>1 DEF BinLow, BinHigh
<1>3. published[j].energies[f][i] \in Nat
  BY DEF EInv, EnergiesTyped
<1>4. Before(j, f, b) # {}
  <2>1. Cardinality(Before(j, f, b)) \in Nat
    BY BeforeCounted DEF Linked
  <2>2. Cardinality(Before(j, f, b)) > 0
    BY <1>1, <1>3, <2>1
  <2> QED
    BY <2>2, BeforeCounted DEF Linked
<1>5. PICK id \in DOMAIN receptions : Covers(receptions[id], f, b) /\ receptions[id].after < j
  BY <1>4 DEF Before
<1>6. PICK e \in energy : id = Id(e)
  BY DEF Linked, ReportTypeOK
<1> DEFINE c == receptions[Id(e)]
           first == c.first
           last == c.last
           from == From(e)
           until == Until(e)
<1>7. c.freq = f /\ first <= b /\ b <= last /\ c.after < j
  BY <1>5, <1>6 DEF Covers
<1>8. /\ from \in Nat /\ until \in Nat
      /\ c.freq = Frequency(e)
      /\ first \in Nat /\ last \in Nat \cup {-1}
      /\ from < NoiseBin * (first + 1) /\ NoiseBin * last < until
  BY SegmentOfCell
<1>9. NoiseBin \in Nat \ {0} /\ b \in Nat
  <2>1. NoiseBin \in Nat \ {0}
    BY ParameterAssumption
  <2>2. b \in Nat
    BY DEF NoiseBinIndices
  <2> QED
    BY <2>1, <2>2
<1>10. PICK low \in Nat, high \in Nat :
          /\ low < high
          /\ BinLow(j, i) = NoiseBin * low /\ BinHigh(j, i) = NoiseBin * high
  <2>1. i \in Nat
    OBVIOUS
  <2> QED
    BY <2>1, QueryBinBoundaries
<1> HIDE DEF c, first, last, from, until
<1>11. low <= b /\ b < high
  BY <1>2, <1>9, <1>10, MultipleOrder
<1>12. from < BinHigh(j, i)
  <2>1. first + 1 \in Nat /\ first + 1 <= high
    BY <1>7, <1>8, <1>9, <1>10, <1>11
  <2>2. NoiseBin * (first + 1) <= NoiseBin * high
    BY <1>9, <1>10, <2>1, MultipleOrder
  <2> QED
    BY <1>8, <1>9, <1>10, <2>1, <2>2
<1>13. BinLow(j, i) < until
  <2>1. last \in Nat /\ low <= last
    BY <1>7, <1>8, <1>9, <1>10, <1>11
  <2>2. NoiseBin * low <= NoiseBin * last
    BY <1>9, <1>10, <2>1, MultipleOrder
  <2> QED
    BY <1>8, <1>9, <1>10, <2>1, <2>2
<1>14. Overlaps(e, j, i)
  BY <1>12, <1>13 DEF Overlaps, from, until
<1>15. Frequency(e) = f /\ RecordedBefore(e, j)
  BY <1>7, <1>8 DEF RecordedBefore, c
<1>16. Audible(received[e.message].of)
  BY DEF Linked
<1> QED
  BY <1>14, <1>15, <1>16

(* The first message after the reception whose bins reach an instant has   *)
(* it: the one before it ended at or before the instant, or had been       *)
(* published before the reception.                                         *)
LEMMA InstantShows ==
  ASSUME BinsAligned, Linked, EInv, StartsAtQuery, ContiguousMessages
  PROVE  NothingLost
<1> SUFFICES ASSUME adjustments = 0, published # << >>,
                    NEW e \in energy, NEW t \in From(e) .. Until(e) - 1,
                    Unmeasured(e, t), t < MeasuredUntil(published[Len(published)])
             PROVE  \E j \in 1 .. Len(published) :
                       /\ RecordedBefore(e, j)
                       /\ Measures(published[j], t)
                       /\ ShowsPower(j, Frequency(e), (t - published[j].start) \div QueryBin)
  BY DEF NothingLost
<1> DEFINE after == receptions[Id(e)].after
           n == Len(published)
           S == {k \in after + 1 .. n : t < MeasuredUntil(published[k])}
<1>1. /\ From(e) \in Nat /\ Until(e) \in Nat /\ Id(e) \in DOMAIN receptions
  BY SegmentOfCell
<1>2. t \in Nat /\ From(e) <= t /\ t < Until(e)
  BY <1>1
<1>3. after \in Nat /\ after <= n
  <2>1. receptions[Id(e)] \in Receptions
    BY <1>1 DEF Linked, TypeOK
  <2>2. after \in Nat
    BY <2>1 DEF Receptions
  <2>3. after <= n
    BY <1>1 DEF EInv, FrequenciesKnown
  <2> QED
    BY <2>2, <2>3
<1>4. n \in Nat /\ n > 0
  <2>1. \E T : published \in Seq(T)
    BY DEF Linked, TypeOK, IsSequence
  <2> QED
    BY <2>1, LenProperties, EmptySeq
<1>5. published[1].start <= t /\ (after > 0 => MeasuredUntil(published[after]) <= t)
  BY DEF Unmeasured
<1>6. \A k \in 1 .. n : published[k].start \in Nat /\ MeasuredUntil(published[k]) \in Nat
  BY BinsWithinRate DEF Linked, TypeOK, MeasuredUntil
<1>7. \A k \in 1 .. n - 1 : published[k + 1].start = MeasuredUntil(published[k])
  BY DEF ContiguousMessages
<1> HIDE DEF after, n
<1>8. n \in S
  <2>1. after # n
    BY <1>2, <1>3, <1>4, <1>5, <1>6 DEF n
  <2> QED
    BY <1>3, <1>4, <2>1 DEF n
<1>9. S \in SUBSET Nat
  BY <1>3, <1>4
<1>10. PICK j \in S : \A k \in S : j <= k
  BY <1>8, <1>9, LeastElement
<1>11. j \in 1 .. n /\ after < j /\ t < MeasuredUntil(published[j])
  BY <1>3, <1>4, <1>10
<1>12. published[j].start <= t
  <2>1. CASE j = 1
    BY <1>5, <2>1
  <2>2. CASE j # 1
    <3>1. PICK k \in 1 .. n - 1 : j = k + 1
      BY <1>4, <1>11, <2>2
    <3>2. published[j].start = MeasuredUntil(published[k])
      BY <1>7, <3>1
    <3>3. MeasuredUntil(published[k]) <= t
      <4>1. CASE k = after
        BY <1>5, <3>1, <4>1
      <4>2. CASE k # after
        <5>1. k \in after + 1 .. n /\ k < j
          BY <1>3, <1>4, <1>11, <3>1, <4>2
        <5>2. k \notin S
          BY <1>9, <1>10, <5>1
        <5>3. ~(t < MeasuredUntil(published[k]))
          BY <5>1, <5>2
        <5>4. k \in 1 .. n
          BY <1>4, <3>1
        <5>5. MeasuredUntil(published[k]) \in Nat
          BY <1>6, <5>4
        <5> QED
          BY <1>2, <5>3, <5>5
      <4> QED
        BY <4>1, <4>2
    <3> QED
      BY <3>2, <3>3
  <2> QED
    BY <2>1, <2>2
<1> HIDE DEF S
<1> DEFINE start == published[j].start
           i == (t - start) \div QueryBin
           r == (t - start) % QueryBin
<1>13. /\ QueryBin \in Nat \ {0} /\ BinSummaryCount \in Nat
       /\ start \in Nat /\ start <= t /\ t < start + QueryBin * BinSummaryCount
       /\ QueryBin * BinSummaryCount \in Nat
  BY <1>6, <1>11, <1>12, ParameterAssumption, BinsWithinRate DEF MeasuredUntil
<1>14. /\ i \in Nat /\ r \in 0 .. QueryBin - 1 /\ t - start = QueryBin * i + r
  <2> DEFINE d == t - start
  <2>1. d \in Nat
    <3> HIDE DEF start
    <3> QED
      BY <1>2, <1>13
  <2> HIDE DEF d
  <2>2. d \div QueryBin \in Nat /\ d % QueryBin \in 0 .. QueryBin - 1
        /\ d = QueryBin * (d \div QueryBin) + (d % QueryBin)
    BY <1>13, <2>1, Quotient
  <2> QED
    BY <2>2 DEF d
<1> HIDE DEF start, i, r
<1>15. QueryBin * i \in Nat /\ QueryBin * (i + 1) = QueryBin * i + QueryBin
  BY <1>13, <1>14
<1>16. i < BinSummaryCount
  <2>1. QueryBin * i < QueryBin * BinSummaryCount
    BY <1>2, <1>13, <1>14, <1>15
  <2> QED
    BY <1>13, <1>14, <2>1, MultipleOrder
<1>17. i \in 0 .. BinSummaryCount - 1
  BY <1>13, <1>14, <1>16
<1>18. BinLow(j, i) = start + QueryBin * i /\ BinHigh(j, i) = start + QueryBin * (i + 1)
  BY DEF BinLow, BinHigh, start
<1>19. Overlaps(e, j, i)
  <2>1. start + QueryBin * i <= t /\ t < start + QueryBin * (i + 1)
    BY <1>2, <1>13, <1>14, <1>15
  <2>2. start + QueryBin * i \in Nat /\ start + QueryBin * (i + 1) \in Nat
    BY <1>13, <1>15
  <2>3. From(e) < start + QueryBin * (i + 1) /\ start + QueryBin * i < Until(e)
    BY <1>1, <1>2, <2>1, <2>2
  <2> QED
    BY <1>18, <2>3 DEF Overlaps
<1>20. RecordedBefore(e, j)
  BY <1>11 DEF RecordedBefore, after
<1>21. From(e) < Until(e)
  BY <1>1, <1>2
<1>22. j \in 1 .. Len(published)
  BY <1>11 DEF n
<1>23. ShowsPower(j, Frequency(e), i)
  BY <1>17, <1>19, <1>20, <1>21, <1>22, OverlapShows
<1>24. Measures(published[j], t)
  BY <1>11, <1>12 DEF Measures
<1> QED
  BY <1>20, <1>22, <1>23, <1>24 DEF i, start

(* What the composition keeps, as both of its parts do.                    *)
LEMMA ReportEnergy ==
  ASSUME BinsAligned
  PROVE  ReportSpec => [](Linked /\ RInv /\ EInv /\ StartsAtQuery)
<1>1. Spec => []EInv
  BY EnergyInvariant
<1> QED
  BY <1>1, ReportInvariant, ReportImplementsQuery, MessagesStartAtQueries, PTL

(* Every segment of a message counted as a success shows in every bin it    *)
(* overlaps of the messages published afterwards, whatever the clock does   *)
(* in between (receiveprocessoralt.cc:265-297, monitorphy.cc:973-1129).     *)
THEOREM ReceivedIsReported ==
  ASSUME BinsAligned
  PROVE  ReportSpec => []SuccessIsReported
<1>1. Linked /\ RInv /\ EInv /\ StartsAtQuery => SuccessIsReported
  BY SuccessShows
<1> QED
  BY <1>1, ReportEnergy, PTL

(* What a bin shows is power of a segment that overlaps it, of a message    *)
(* that was processed before (maxnoisebin.h:45-118).                        *)
THEOREM ReportedIsReceived ==
  ASSUME BinsAligned
  PROVE  ReportSpec => []ReportedWasReceived
<1>1. Linked /\ RInv /\ EInv /\ StartsAtQuery => ReportedWasReceived
  BY ShownWasReceived
<1> QED
  BY <1>1, ReportEnergy, PTL

(* With callbacks less than an interval late and no step of the clock, all  *)
(* of a segment that had not been measured when it was received is reported *)
(* (monitorphy.cc:973-1129).                                                *)
THEOREM ReceivedIsMeasured ==
  ASSUME OnTime, BinsAligned
  PROVE  ReportSpec => []NothingLost
<1>1. Linked /\ RInv /\ EInv /\ StartsAtQuery /\ ContiguousMessages => NothingLost
  BY InstantShows
<1>2. Spec => []ContiguousMessages
  BY MessagesContiguous
<1> QED
  BY <1>1, <1>2, ReportEnergy, ReportImplementsQuery, PTL
=============================================================================
