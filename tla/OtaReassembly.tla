--------------------------- MODULE OtaReassembly ----------------------------
(***************************************************************************)
(* OTAExtractor (otaextractor.cc) behind the recorder's multicast socket:  *)
(* the parts of the over-the-air messages arrive in any order, some never, *)
(* some twice; process() collects them, extracts a message's records when  *)
(* its bytes are all there, and abandons assemblies that get no part for   *)
(* too long.                                                               *)
(*                                                                         *)
(* The timeout of an assembly, partTimeoutThreshold_, is never initialised *)
(* (otaextractor.cc:100-103), so it is any of PartTimeouts.                *)
(***************************************************************************)
EXTENDS OtaMessage, FiniteSets

CONSTANTS
  Messages,            \* what the emulators send
  PartSize,            \* bytes of a message in one datagram
  PartCheckThreshold,  \* partCheckThreshold_, in seconds
  PartTimeouts,        \* values the memory of partTimeoutThreshold_ may have
  MaxTime,             \* bound: seconds
  MaxDuplicates,       \* bound: datagrams delivered twice
  MaxMalformed         \* bound: datagrams that are no over-the-air message

ASSUME PartSizeAssumption == PartSize \in Nat \ {0}
ASSUME MessagesAssumption ==
  \A m \in Messages :
     /\ m.events \in Nat /\ m.controls \in Nat /\ m.phy \in Nat \ {0} /\ m.mac \in Nat \ {0}
     /\ m.data \in Nat /\ m.data >= m.phy + m.mac + 2 * PrefixSize
(* An emulator numbers its messages; one that is started again numbers     *)
(* them anew, and is not modelled.                                         *)
ASSUME KeysAssumption ==
  \A m, n \in Messages : m.source = n.source /\ m.sequence = n.sequence => m = n
ASSUME TimesAssumption == PartCheckThreshold \in Nat /\ PartTimeouts \subseteq Int
ASSUME BoundsAssumption ==
  MaxTime \in Nat /\ MaxDuplicates \in Nat /\ MaxMalformed \in Nat

VARIABLES
  now,                  \* Clock::now(), in seconds
  wire,                 \* parts that have not arrived; some never will
  duplicated,           \* keys of the messages with a part delivered twice
  malformed,            \* malformed datagrams so far
  partStore,            \* partStore_: assemblies by PartKey
  lastPartCheckTime,    \* lastPartCheckTime_; -1 before the first process()
  partTimeoutThreshold, \* partTimeoutThreshold_
  status,               \* "ok" while process() returns
  records,              \* the records it has returned
  processed,            \* history: the parts it was called with
  abandoned             \* history: keys of the assemblies it abandoned

vars == <<now, wire, duplicated, malformed, partStore, lastPartCheckTime,
          partTimeoutThreshold, status, records, processed, abandoned>>

-----------------------------------------------------------------------------
(* The parts an emulator splits a message into.                            *)
Smaller(a, b) == IF a <= b THEN a ELSE b

Part(m, offset) ==
  [of |-> m, offset |-> offset, size |-> Smaller(PartSize, Size(m) - offset),
   more |-> offset + PartSize < Size(m)]

PartsOf(m) == {Part(m, n * PartSize) : n \in 0 .. (Size(m) - 1) \div PartSize}

PartKey(m) == <<m.source, m.sequence>>
Keys == {PartKey(m) : m \in Messages}
AllParts == UNION {PartsOf(m) : m \in Messages}
HasPayloadInfo(part) == part.offset = 0
PartBytes(part) == Bytes(part.of, part.offset, part.offset + part.size)

-----------------------------------------------------------------------------
(* An assembly: what partStore_ maps a key to.  parts is a map from        *)
(* offsets: a part at an offset it has is counted and not inserted.  Only  *)
(* the first part has the payload info.                                    *)
AddPart(assembly, part) ==
  LET info == IF HasPayloadInfo(part) THEN part.of ELSE assembly
  IN  [received |-> assembly.received + part.size,
       events   |-> info.events,
       controls |-> info.controls,
       data     |-> info.data,
       parts    |-> IF \E p \in assembly.parts : p.offset = part.offset
                    THEN assembly.parts ELSE assembly.parts \cup {part},
       last     |-> now]

NewAssemblyUncounted(part) ==
  [received |-> 0, events   |-> IF HasPayloadInfo(part) THEN part.of.events ELSE 0,
   controls |-> IF HasPayloadInfo(part) THEN part.of.controls ELSE 0,
   data     |-> IF HasPayloadInfo(part) THEN part.of.data ELSE 0,
   parts    |-> {part}, last |-> now]

NewAssembly(part) ==
  AddPart([received |-> 0, events |-> 0, controls |-> 0, data |-> 0, parts |-> {},
           last |-> now], part)

IsCompleteOrMore(assembly) ==
  assembly.received >= assembly.data + assembly.events + assembly.controls

IsComplete(assembly) ==
  assembly.received = assembly.data + assembly.events + assembly.controls

VectorIODescending(parts) ==
  LET place(p) == Cardinality({q \in parts : q.offset >= p.offset})
  IN  [i \in 1 .. Cardinality(parts) |-> PartBytes(CHOOSE p \in parts : place(p) = i)]

(* The parts in the order of their offsets.                                *)
VectorIO(parts) ==
  LET place(p) == Cardinality({q \in parts : q.offset <= p.offset})
  IN  [i \in 1 .. Cardinality(parts) |-> PartBytes(CHOOSE p \in parts : place(p) = i)]

Without(store, keys) == [key \in DOMAIN store \ keys |-> store[key]]
With(store, key, assembly) ==
  [k \in DOMAIN store \cup {key} |-> IF k = key THEN assembly ELSE store[k]]

(* The end of process(): abandon what has had no part for too long.        *)
CheckIsDue == lastPartCheckTime < 0 \/ lastPartCheckTime + PartCheckThreshold <= now

StaleKeysStrictly(store) ==
  {key \in DOMAIN store : CheckIsDue /\ store[key].last + partTimeoutThreshold < now}

StaleKeys(store) ==
  {key \in DOMAIN store : CheckIsDue /\ store[key].last + partTimeoutThreshold <= now}

AbandonStale(store) ==
  /\ partStore' = Without(store, StaleKeys(store))
  /\ abandoned' = abandoned \cup StaleKeys(store)
  /\ lastPartCheckTime' = IF CheckIsDue THEN now ELSE lastPartCheckTime

(* handleOTAMessage, and the rest of process() if it returns.              *)
Extract(events, controls, data, m, vector, store) ==
  LET extracted ==
        HandleOTAMessage(events, controls, data, m.source, m.sequence, vector)
  IN  /\ status' = extracted.status
      /\ records' = records \o extracted.records
      /\ IF extracted.status = "ok" THEN AbandonStale(store)
         ELSE UNCHANGED <<partStore, abandoned, lastPartCheckTime>>

(* process(), called with a part.                                          *)
Process(part) ==
  LET m   == part.of
      key == PartKey(m)
  IN  /\ status = "ok"
      /\ processed' = processed \cup {part}
      /\ \/ /\ ~part.more /\ part.offset = 0
            /\ Extract(m.events, m.controls, m.data, m, << PartBytes(part) >>, partStore)
         \/ /\ part.more \/ part.offset > 0
            /\ key \notin DOMAIN partStore
            /\ AbandonStale(With(partStore, key, NewAssembly(part)))
            /\ UNCHANGED <<status, records>>
         \/ /\ part.more \/ part.offset > 0
            /\ key \in DOMAIN partStore
            /\ LET assembly == AddPart(partStore[key], part)
               IN  IF IsComplete(assembly)
                   THEN Extract(assembly.events, assembly.controls, assembly.data, m,
                                VectorIO(assembly.parts), Without(partStore, {key}))
                   ELSE /\ AbandonStale(With(partStore, key, assembly))
                        /\ UNCHANGED <<status, records>>

-----------------------------------------------------------------------------
(* The network delivers the parts in any order, and need not deliver them  *)
(* all.                                                                    *)
Deliver(part) ==
  /\ part \in wire
  /\ Process(part)
  /\ wire' = wire \ {part}
  /\ UNCHANGED <<now, duplicated, malformed, partTimeoutThreshold>>

Duplicate(part) ==
  /\ part \in wire
  /\ PartKey(part.of) \notin duplicated
  /\ Cardinality(duplicated) < MaxDuplicates
  /\ duplicated' = duplicated \cup {PartKey(part.of)}
  /\ Process(part)
  /\ UNCHANGED <<now, wire, malformed, partTimeoutThreshold>>

(* process(), called with a datagram it rejects.                           *)
Reject ==
  /\ status = "ok"
  /\ malformed < MaxMalformed
  /\ malformed' = malformed + 1
  /\ AbandonStale(partStore)
  /\ UNCHANGED <<now, wire, duplicated, partTimeoutThreshold, status, records,
                 processed>>

Tick ==
  /\ now < MaxTime
  /\ now' = now + 1
  /\ UNCHANGED <<wire, duplicated, malformed, partStore, lastPartCheckTime,
                 partTimeoutThreshold, status, records, processed, abandoned>>

Init ==
  /\ now = 0
  /\ wire = AllParts /\ duplicated = {} /\ malformed = 0
  /\ partStore = << >>
  /\ lastPartCheckTime = -1
  /\ partTimeoutThreshold \in PartTimeouts
  /\ status = "ok" /\ records = << >>
  /\ processed = {} /\ abandoned = {}

Next ==
  \/ \E part \in wire : Deliver(part)
  \/ \E part \in wire : Duplicate(part)
  \/ Reject
  \/ Tick

Spec == Init /\ [][Next]_vars

-----------------------------------------------------------------------------
(* The variables have their types; an assembly is neither empty nor whole. *)
TypeOK ==
  /\ now \in 0 .. MaxTime /\ duplicated \subseteq Keys
  /\ malformed \in 0 .. MaxMalformed
  /\ wire \subseteq AllParts /\ processed \subseteq AllParts
  /\ DOMAIN partStore \subseteq Keys /\ abandoned \subseteq Keys
  /\ \A key \in DOMAIN partStore :
        LET assembly == partStore[key]
        IN  /\ assembly.parts \subseteq AllParts /\ assembly.parts # {}
            /\ assembly.last \in 0 .. now
            /\ assembly.received \in Nat \ {0}
            /\ ~IsComplete(assembly)
  /\ lastPartCheckTime \in -1 .. now
  /\ partTimeoutThreshold \in PartTimeouts
  /\ status \in {"ok", "hang", "overrun", "garbled"}

(* Every record is of one message and has its fields, unless the network   *)
(* delivered a part of it twice: no header is read from another place of   *)
(* the message, nor from another message.                                  *)
IsRecordOf(record, m) ==
  \/ /\ record.type = "event"
     /\ record.event = Bytes(m, 0, m.events)
  \/ /\ record.type = "ota"
     /\ record.source = m.source /\ record.sequence = m.sequence
     /\ record.phy = Bytes(m, PhyPrefixAt(m) + PrefixSize, MacPrefixAt(m))
     /\ record.mac = Bytes(m, MacPrefixAt(m) + PrefixSize, MacPrefixAt(m) + PrefixSize + m.mac)

RecordKey(record) ==
  IF record.type = "event" THEN PartKey(record.event[1].of)
  ELSE <<record.source, record.sequence>>

RecordsFaithful ==
  /\ status \in {"garbled", "overrun"} => duplicated # {}
  /\ \A i \in 1 .. Len(records) :
        RecordKey(records[i]) \notin duplicated =>
           \E m \in Messages : IsRecordOf(records[i], m)

Recorded(m) == \E i \in 1 .. Len(records) : records[i].type = "ota" /\ IsRecordOf(records[i], m)

(* A message whose parts have all been received is recorded, unless one    *)
(* was delivered twice, its assembly was abandoned, or process() does not  *)
(* return.                                                                 *)
ReceivedIsRecorded ==
  \A m \in Messages :
     (/\ PartsOf(m) \subseteq processed
      /\ status = "ok"
      /\ PartKey(m) \notin abandoned \cup duplicated)
        => Recorded(m)

(* No assembly outlives its timeout by more than the time between checks   *)
(* while datagrams keep arriving: after a call of process(), every one is  *)
(* either younger than its timeout or was looked at less than              *)
(* partCheckThreshold_ ago.                                                *)
AbandonedInTime ==
  [][processed' # processed \/ malformed' # malformed =>
       \A key \in DOMAIN partStore' :
          \/ status' # "ok"
          \/ partStore'[key].last + partTimeoutThreshold > now
          \/ lastPartCheckTime >= 0 /\ now < lastPartCheckTime + PartCheckThreshold]_vars

(* Every over-the-air message received is recorded                         *)
(* (doc/emane-spectrum-tools-ota-record.md).                               *)
EachFrameRecorded == \A m \in Messages : PartsOf(m) \subseteq processed => Recorded(m)
=============================================================================
