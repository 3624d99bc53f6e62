---------------------------- MODULE ReceivePath ------------------------------
(***************************************************************************)
(* What MonitorPhy does with a message from the air (monitorphy.cc,        *)
(* receiveprocessoralt.cc, spectrummonitoralt.cc): it asks its managers    *)
(* for the pathloss, gain, location and fading of every transmitter, drops *)
(* the message at the first answer that is missing, and records the energy *)
(* of its segments in one noise recorder for each subid and frequency.     *)
(* Events change the managers' answers between two messages.  Both are     *)
(* processed one after the other on the layer's queue thread.              *)
(*                                                                         *)
(* The hard part: a message is a list of antennas, each with a list of     *)
(* segments, processed in order; whatever fails in the middle leaves the   *)
(* energy recorded before it.                                              *)
(*                                                                         *)
(* A message is a record [subid, antennas, groups, transmitters]: antennas *)
(* is a sequence of [group, bandwidth], groups a sequence of sequences of  *)
(* segments [freq, offset, duration], transmitters a sequence of [nem,     *)
(* audible]; audible is whether its power at the receiver is above zero.   *)
(* The code counts groups from zero and compares the index with > size():  *)
(* an index equal to the size reads behind the vector; it is left out.     *)
(* Times are relative to the instant a message is processed at.            *)
(***************************************************************************)
EXTENDS Integers, Sequences, FiniteSets, NoiseRecorders

CONSTANTS
  Nems,              \* transmitters
  Messages,          \* messages they may send
  Skews,             \* transmit times, relative to the processing of a message
  Delays,            \* propagation delays of the locations a node may have
  MaxOffset,         \* noisemaxsegmentoffset
  MaxPropagation,    \* noisemaxmessagepropagation
  TimeSyncThreshold, \* timesyncthreshold
  GainAnswers,       \* what determineGain may answer
  FadingAlgorithms,  \* models in fadingAlgorithmStore_
  FadingSelections,  \* models a fading selection event may name
  MaxMessages,       \* bound: messages in a behaviour
  MaxEvents          \* bound: events in a behaviour

ASSUME MessagesAssumption ==
  \A m \in Messages :
     /\ m.antennas \in Seq([group : Nat \ {0}, bandwidth : Nat])
     /\ m.groups \in Seq(Seq([freq : Nat, offset : Nat, duration : Nat]))
     /\ m.transmitters \in Seq([nem : Nems, audible : BOOLEAN])
     /\ \A a \in 1 .. Len(m.antennas) : m.antennas[a].group # Len(m.groups) + 1
     /\ \A g \in 1 .. Len(m.groups) : m.groups[g] # << >>
ASSUME LimitsAssumption ==
  /\ MaxOffset \in Nat /\ MaxPropagation \in Nat /\ MaxDuration \in Nat
  /\ TimeSyncThreshold \in Nat
  /\ Skews \subseteq Int /\ Delays \subseteq Nat
ASSUME AnswersAssumption ==
  GainAnswers \subseteq {"success", "location", "profile", "horizon", "antennaIndex"}
ASSUME BoundsAssumption == MaxMessages \in Nat /\ MaxEvents \in Nat

Unknown == -1
DropCodes == {"missingControl", "antennaFreqIndex", "propagationModel",
              "gainLocation", "gainProfile", "gainHorizon", "gainAntennaIndex",
              "fadingSelection", "fadingLocation", "fadingAlgorithm", "spectrumClamp"}

VARIABLES
  maxClamp,    \* bNoiseMaxClamp_: values over a limit are cut, not an error
  pathloss,    \* nodes the propagation model has a pathloss for
  delay,       \* a node's propagation delay; Unknown without its location
  fading,      \* a node's fading selection; "missing" without one
  events,      \* events so far
  spectrumMap, \* per subid, the bandwidth to report
  drops,       \* per drop code, the messages dropped
  energy,      \* what the recorders were updated with
  received     \* history: the messages, each with what became of it

receiveVars == <<maxClamp, pathloss, delay, fading, events, spectrumMap, recorders,
                 drops, energy, received>>

Subids == {m.subid : m \in Messages}

-----------------------------------------------------------------------------
(* ReceiveProcessorAlt::process                                            *)
Segments(m, a) == m.groups[m.antennas[a].group]

GainDropUnmapped(status) == status
GainDrop(status) ==
  CASE status = "location"     -> "gainLocation"
    [] status = "profile"      -> "gainProfile"
    [] status = "horizon"      -> "gainHorizon"
    [] status = "antennaIndex" -> "gainAntennaIndex"

(* What determineGain may answer for a message's transmitters and their    *)
(* antennas.  antennaManager_ learns the antennas of every message before  *)
(* it asks, and profiles, pointing and locations change between messages,  *)
(* so no answer is bound by an earlier one.                                *)
GainAnswersTo(m) ==
  [{m.transmitters[t].nem : t \in 1 .. Len(m.transmitters)} \X (1 .. Len(m.antennas))
     -> GainAnswers]

(* Why the message is dropped when transmitter n is looked at for antenna  *)
(* a, or "none"; answers is what determineGain answers.                    *)
TransmitterDrop(n, a, answers) ==
  CASE n \notin pathloss     -> "propagationModel"
    [] answers[<<n, a>>] # "success" -> GainDrop(answers[<<n, a>>])
    [] fading[n] = "missing" -> "fadingSelection"
    [] fading[n] = "none"    -> "none"
    [] delay[n] = Unknown    -> "fadingLocation"
    [] fading[n] \notin FadingAlgorithms -> "fadingAlgorithm"
    [] OTHER -> "none"

FirstOf(indices, default) ==
  IF indices = {} THEN default ELSE CHOOSE i \in indices : \A j \in indices : i <= j

AntennaDrop(m, a, answers) ==
  LET failing == {t \in 1 .. Len(m.transmitters) :
                    TransmitterDrop(m.transmitters[t].nem, a, answers) # "none"}
  IN  IF m.antennas[a].group - 1 > Len(m.groups) THEN "antennaFreqIndex"
      ELSE IF failing = {} THEN "none"
      ELSE TransmitterDrop(m.transmitters[FirstOf(failing, 0)].nem, a, answers)

(* The delay of the first transmitter that has a location.                 *)
Propagation(m) ==
  LET located == {t \in 1 .. Len(m.transmitters) : delay[m.transmitters[t].nem] # Unknown}
  IN  IF located = {} THEN 0 ELSE delay[m.transmitters[FirstOf(located, 0)].nem]

-----------------------------------------------------------------------------
(* SpectrumMonitorAlt::update                                              *)
Clamp(value, limit) == IF value > limit THEN limit ELSE value

ValidTxTimeOneSided(skew) == IF skew > TimeSyncThreshold THEN 0 ELSE skew
ValidTxTime(skew) ==
  IF skew > TimeSyncThreshold \/ -skew > TimeSyncThreshold THEN 0 ELSE skew

SegmentThrows(segment) ==
  ~maxClamp /\ (segment.offset > MaxOffset \/ segment.duration > MaxDuration)

(* The first segment update() throws at: 0 when it does before the first,  *)
(* one more than the last when it does not.                                *)
ThrowsAt(m, a) ==
  IF Propagation(m) > MaxPropagation /\ ~maxClamp THEN 0
  ELSE FirstOf({s \in 1 .. Len(Segments(m, a)) : SegmentThrows(Segments(m, a)[s])},
               Len(Segments(m, a)) + 1)

Audible(m) == \E t \in 1 .. Len(m.transmitters) : m.transmitters[t].audible

SegmentEnergy(m, a, s, skew) ==
  LET segment == Segments(m, a)[s]
      start   == ValidTxTime(skew) + Clamp(Propagation(m), MaxPropagation)
                   + Clamp(segment.offset, MaxOffset)
  IN  [message |-> Len(received) + 1, antenna |-> a, segment |-> s,
       subid |-> m.subid, freq |-> segment.freq,
       start |-> start, end |-> start + Clamp(segment.duration, MaxDuration)]

RecordedSegmentsSkipping(m, a) ==
  {s \in 1 .. Len(Segments(m, a)) : Audible(m) /\ ThrowsAt(m, a) > 0
                                    /\ ~SegmentThrows(Segments(m, a)[s])}
RecordedSegments(m, a) == {s \in 1 .. ThrowsAt(m, a) - 1 : Audible(m)}

-----------------------------------------------------------------------------
(* Why antenna a drops the message, or "none"; and the first that does.    *)
Outcome(m, a, answers) ==
  IF AntennaDrop(m, a, answers) # "none" THEN AntennaDrop(m, a, answers)
  ELSE IF ThrowsAt(m, a) <= Len(Segments(m, a)) THEN "spectrumClamp" ELSE "none"

DroppedAt(m, answers) ==
  FirstOf({a \in 1 .. Len(m.antennas) : Outcome(m, a, answers) # "none"},
          Len(m.antennas) + 1)

Status(m, answers) ==
  IF DroppedAt(m, answers) > Len(m.antennas) THEN "success"
  ELSE Outcome(m, DroppedAt(m, answers), answers)

(* The antennas whose segments reach SpectrumMonitorAlt::update.           *)
UpdatedAntennas(m, answers) ==
  LET last == DroppedAt(m, answers)
  IN  {a \in 1 .. Len(m.antennas) :
         a < last \/ (a = last /\ Outcome(m, a, answers) = "spectrumClamp")}

MessageEnergy(m, skew, answers) ==
  UNION {{SegmentEnergy(m, a, s, skew) : s \in RecordedSegments(m, a)} :
           a \in UpdatedAntennas(m, answers)}

MessageRecorders(m, answers) ==
  UNION {{<<m.subid, Segments(m, a)[s].freq>> : s \in RecordedSegments(m, a)} :
           a \in UpdatedAntennas(m, answers)}

-----------------------------------------------------------------------------
(* processUpstreamPacket.  The subid's bandwidth is the first antenna's of *)
(* the last message, dropped or not.                                       *)
DropWithoutAntennas(m) ==
  /\ m.antennas = << >>
  /\ drops' = [drops EXCEPT !["missingControl"] = @ + 1]
  /\ received' = Append(received, [of |-> m, status |-> "missingControl"])
  /\ UNCHANGED <<spectrumMap, recorders, energy>>

ProcessMessage(m, skew, answers) ==
  LET status == Status(m, answers)
  IN  /\ m.antennas # << >>
      /\ spectrumMap' = [subid \in DOMAIN spectrumMap \cup {m.subid} |->
                           IF subid = m.subid THEN m.antennas[1].bandwidth
                           ELSE spectrumMap[subid]]
      /\ recorders' = recorders \cup MessageRecorders(m, answers)
      /\ energy' = energy \cup MessageEnergy(m, skew, answers)
      /\ drops' = [code \in DropCodes |->
                     IF code = status THEN drops[code] + 1 ELSE drops[code]]
      /\ received' = Append(received, [of |-> m, status |-> status])

ProcessUpstreamPacket(m, skew) ==
  /\ Len(received) < MaxMessages
  /\ \/ DropWithoutAntennas(m)
     \/ \E answers \in GainAnswersTo(m) : ProcessMessage(m, skew, answers)
  /\ UNCHANGED <<maxClamp, pathloss, delay, fading, events>>

(* processEvent.  A location also brings the pathloss of a model that      *)
(* computes it.  An antenna profile event changes what determineGain       *)
(* answers and nothing else.                                               *)
FadingSelectionEvent(n) ==
  /\ \E model \in FadingSelections : fading' = [fading EXCEPT ![n] = model]
  /\ UNCHANGED <<pathloss, delay>>

LocationEvent(n) ==
  /\ \E d \in Delays : delay' = [delay EXCEPT ![n] = d]
  /\ pathloss' \in {pathloss, pathloss \cup {n}}
  /\ UNCHANGED fading

PathlossEvent(n) ==
  /\ pathloss' = pathloss \cup {n}
  /\ UNCHANGED <<delay, fading>>

ProcessEvent(n) ==
  /\ events < MaxEvents
  /\ events' = events + 1
  /\ \/ FadingSelectionEvent(n)
     \/ LocationEvent(n)
     \/ PathlossEvent(n)
  /\ UNCHANGED <<maxClamp, spectrumMap, recorders, drops, energy, received>>

(* Fading model none needs no event.                                       *)
ReceiveInit ==
  /\ maxClamp \in BOOLEAN
  /\ pathloss = {}
  /\ delay = [n \in Nems |-> Unknown]
  /\ \E selection \in {"missing", "none"} : fading = [n \in Nems |-> selection]
  /\ events = 0
  /\ spectrumMap = << >>
  /\ recorders = {}
  /\ drops = [code \in DropCodes |-> 0]
  /\ energy = {}
  /\ received = << >>

ReceiveNext ==
  \/ \E m \in Messages, skew \in Skews : ProcessUpstreamPacket(m, skew)
  \/ \E n \in Nems : ProcessEvent(n)

ReceiveSpec == ReceiveInit /\ [][ReceiveNext]_receiveVars

-----------------------------------------------------------------------------
(* The variables have their types; whatever drops a message has a counter. *)
ReceiveTypeOK ==
  /\ maxClamp \in BOOLEAN
  /\ pathloss \subseteq Nems
  /\ delay \in [Nems -> Delays \cup {Unknown}]
  /\ fading \in [Nems -> FadingSelections \cup {"missing", "none"}]
  /\ events \in Nat
  /\ DOMAIN spectrumMap \subseteq Subids
  /\ drops \in [DropCodes -> Nat]
  /\ received \in Seq([of : Messages, status : DropCodes \cup {"success"}])

(* Whatever a sender claims, energy starts no earlier than the time        *)
(* synchronisation threshold before it is processed, no later than the     *)
(* limits of offset and propagation allow, and is no longer than the limit *)
(* of durations: what a noise recorder's wheel and a query rely on.        *)
EnergyWithinWindow ==
  \A e \in energy :
     /\ e.start \in -TimeSyncThreshold .. TimeSyncThreshold + MaxOffset + MaxPropagation
     /\ e.end - e.start \in 0 .. MaxDuration

(* A message that counts as a success has the energy of all its segments   *)
(* recorded.                                                               *)
IsRecorded(i, a, s) == \E e \in energy : e.message = i /\ e.antenna = a /\ e.segment = s

SuccessRecordsAll ==
  \A i \in 1 .. Len(received) :
     LET m == received[i].of
     IN  received[i].status = "success" /\ Audible(m) =>
           \A a \in 1 .. Len(m.antennas) : \A s \in 1 .. Len(Segments(m, a)) :
              IsRecorded(i, a, s)

(* What a dropped message leaves behind comes first: if a segment of it is *)
(* recorded, so is every one before it, and a message with a single        *)
(* antenna leaves nothing unless a segment was over a limit.               *)
EnergyIsPrefix ==
  \A e \in energy :
     LET m == received[e.message].of
     IN  /\ \A a \in 1 .. e.antenna :
              \A s \in 1 .. (IF a = e.antenna THEN e.segment ELSE Len(Segments(m, a))) :
                 IsRecorded(e.message, a, s)
         /\ Len(m.antennas) = 1 =>
              received[e.message].status \in {"success", "spectrumClamp"}

(* A query reports a frequency exactly when energy was recorded on it, and *)
(* has a bandwidth for it.                                                 *)
ReportedFrequencies ==
  /\ recorders = {<<e.subid, e.freq>> : e \in energy}
  /\ \A r \in recorders : r[1] \in DOMAIN spectrumMap
=============================================================================
