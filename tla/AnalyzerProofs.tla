---------------------------- MODULE AnalyzerProofs ----------------------------
(***************************************************************************)
(* Proofs about EnergyStreamer and, on top of it, Analyzer, for every set  *)
(* of keys, powers and messages, every range and every bound.              *)
(*                                                                         *)
(* The streamer: its store loses nothing, results belong together, and the *)
(* two threads and their lock implement a max-hold buffer.  Every step of  *)
(* the analyzer is one of the streamer or leaves the streamer's variables  *)
(* alone, so that all this holds in the composition, whatever the view     *)
(* does with what data() returns.                                          *)
(*                                                                         *)
(* The view: no update fails, the waterfalls fit together, and what data() *)
(* returned is shown.                                                      *)
(***************************************************************************)
EXTENDS Analyzer, NumberInduction, FiniteSetTheorems, SequenceTheorems

-----------------------------------------------------------------------------
(* Who is inside the critical section, by where the threads are.           *)
LockDiscipline ==
  /\ lock = "receiver" <=> receiver \in {"merging", "updated", "failed"}
  /\ lock = "caller" <=> caller \in {"locked", "copied", "cleared"}

(* Keys are left to merge only inside update().                            *)
UnreadInside ==
  IF receiver \in {"merging", "failed"} THEN unread \subseteq KeysOf(message)
  ELSE unread = {}

(* A power in the store has its subid's bandwidth, or gets it from the     *)
(* message being merged before the lock is released.                       *)
StoreHasBandwidth ==
  \A k \in Keys :
     store[k] # Absent =>
        \/ bandwidth[SubidOf[k]] > 0
        \/ receiver \in {"merging", "failed"} /\ message.bandwidth[SubidOf[k]] > 0

ClearedIsEmpty == caller = "cleared" => store = Nothing

IInv ==
  /\ TypeOK
  /\ LockDiscipline
  /\ UnreadInside
  /\ StoreHasBandwidth
  /\ ClearedIsEmpty
  /\ NothingLost
  /\ ResultHasBandwidth

USE PowersAssumption, KeysAssumption, MessagesAssumption, BoundsAssumption

-----------------------------------------------------------------------------
LEMMA LargerProperties ==
  ASSUME NEW a \in Powers \cup {Absent}, NEW b \in Powers \cup {Absent}
  PROVE  /\ Larger(a, b) \in Powers \cup {Absent}
         /\ Larger(a, Absent) = a
         /\ a # Absent => Larger(a, b) # Absent
         /\ Larger(a, b) # Absent => a # Absent \/ b # Absent
  BY DEF Larger, Absent

LEMMA LargerAssociative ==
  \A a, b, c \in Powers \cup {Absent} : Larger(Larger(a, b), c) = Larger(a, Larger(b, c))
  BY DEF Larger, Absent

LEMMA MessageTypes ==
  ASSUME NEW m \in Messages, NEW k \in Keys
  PROVE  /\ m.energy[k] \in Powers \cup {Absent, NoBins}
         /\ m.bandwidth[SubidOf[k]] \in Nat
         /\ m.energy[k] # Absent => m.bandwidth[SubidOf[k]] > 0
         /\ m.bandwidth \in [Subids -> Nat]
  OBVIOUS

LEMMA NothingType == Nothing \in [Keys -> Powers \cup {Absent}]
  BY DEF Nothing

LEMMA TypeInvariance ==
  ASSUME TypeOK, [Next]_vars
  PROVE  TypeOK'
<1> USE DEF TypeOK, receiverVars, callerVars
<1>1. ASSUME NEW m \in Messages, Send(m)
      PROVE  TypeOK'
  BY <1>1 DEF Send
<1>2. CASE Stop
  BY <1>2 DEF Stop
<1>3. CASE Receive
  <2>1. message' \in Messages /\ queue' \in Seq(Messages)
    BY <1>3 DEF Receive
  <2> QED
    BY <1>3, <2>1 DEF Receive
<1>4. CASE ChecksCancel \/ PollTimesOut
  BY <1>4 DEF ChecksCancel, PollTimesOut
<1>5. CASE UpdateAcquires
  BY <1>5 DEF UpdateAcquires, KeysOf
<1>6. ASSUME NEW k \in Keys, UpdateMerges(k)
      PROVE  TypeOK'
  <2>1. message.energy[k] \in Powers \cup {Absent}
    BY <1>6, MessageTypes DEF UpdateMerges
  <2>2. store' \in [Keys -> Powers \cup {Absent}] /\ merged' \in [Keys -> Powers \cup {Absent}]
    BY <1>6, <2>1, LargerProperties DEF UpdateMerges
  <2>3. unread' \subseteq Keys
    BY <1>6 DEF UpdateMerges
  <2> QED
    BY <1>6, <2>2, <2>3 DEF UpdateMerges
<1>7. ASSUME NEW k \in Keys, UpdateRaises(k)
      PROVE  TypeOK'
  BY <1>7 DEF UpdateRaises
<1>8. CASE UpdateBandwidth
  <2>1. bandwidth' \in [Subids -> Nat]
    BY <1>8 DEF UpdateBandwidth
  <2> QED
    BY <1>8, <2>1 DEF UpdateBandwidth
<1>9. CASE UpdateReleases
  BY <1>9 DEF UpdateReleases
<1>10. CASE Call
  BY <1>10 DEF Call
<1>11. CASE DataAcquires
  BY <1>11 DEF DataAcquires
<1>12. CASE DataCopies
  <2>1. returned' \in [Keys -> Powers \cup {Absent}]
    BY <1>12, LargerProperties DEF DataCopies
  <2> QED
    BY <1>12, <2>1 DEF DataCopies
<1>13. CASE DataClears
  BY <1>13, NothingType DEF DataClears
<1>14. CASE DataReturns
  BY <1>14 DEF DataReturns
<1>15. CASE UNCHANGED vars
  BY <1>15 DEF vars
<1> QED
  BY <1>1, <1>2, <1>3, <1>4, <1>5, <1>6, <1>7, <1>8, <1>9, <1>10, <1>11, <1>12, <1>13,
     <1>14, <1>15 DEF Next, ReceiverStep, CallerStep

LEMMA InitTyped ==
  ASSUME Init
  PROVE  TypeOK
<1>1. store \in [Keys -> Powers \cup {Absent}] /\ merged \in [Keys -> Powers \cup {Absent}]
      /\ returned \in [Keys -> Powers \cup {Absent}]
  BY NothingType DEF Init
<1>2. bandwidth \in [Subids -> Nat]
  BY DEF Init
<1>3. result \in [energy : [Keys -> Powers \cup {Absent}], bandwidth : [Subids -> Nat]]
  BY <1>2, NothingType DEF Init
<1>4. cancelled \in BOOLEAN /\ message \in Messages
  BY DEF Init
<1>5. queue \in Seq(Messages) /\ sent \in Nat /\ calls \in Nat /\ unread \subseteq Keys
  BY DEF Init
<1>6. /\ receiver \in {"check", "poll", "update", "merging", "updated", "stopped", "failed"}
      /\ lock \in {"free", "receiver", "caller"}
      /\ caller \in {"idle", "waiting", "locked", "copied", "cleared"}
  BY DEF Init
<1> QED
  BY <1>1, <1>2, <1>3, <1>4, <1>5, <1>6 DEF TypeOK

(* The variables keep their types.                                         *)
THEOREM TypeCorrect == Spec => []TypeOK
  BY InitTyped, TypeInvariance, PTL DEF Spec

-----------------------------------------------------------------------------
LEMMA LockInvariance ==
  ASSUME TypeOK, LockDiscipline, UnreadInside, ClearedIsEmpty, [Next]_vars
  PROVE  LockDiscipline' /\ UnreadInside' /\ ClearedIsEmpty'
<1> USE DEF TypeOK, LockDiscipline, UnreadInside, ClearedIsEmpty, receiverVars, callerVars
<1>1. ASSUME NEW m \in Messages, Send(m)
      PROVE  LockDiscipline' /\ UnreadInside' /\ ClearedIsEmpty'
  BY <1>1 DEF Send, Nothing, KeysOf
<1>2. CASE Stop \/ UNCHANGED vars \/ Call
  BY <1>2 DEF Stop, vars, Call, Nothing, KeysOf
<1>3. CASE ChecksCancel \/ PollTimesOut \/ Receive
  BY <1>3 DEF ChecksCancel, PollTimesOut, Receive, Nothing
<1>4. CASE UpdateAcquires
  BY <1>4 DEF UpdateAcquires, Nothing
<1>5. ASSUME NEW k \in Keys, UpdateMerges(k)
      PROVE  LockDiscipline' /\ UnreadInside' /\ ClearedIsEmpty'
  BY <1>5 DEF UpdateMerges, KeysOf
<1>6. ASSUME NEW k \in Keys, UpdateRaises(k)
      PROVE  LockDiscipline' /\ UnreadInside' /\ ClearedIsEmpty'
  BY <1>6 DEF UpdateRaises, Nothing, KeysOf
<1>7. CASE UpdateBandwidth \/ UpdateReleases
  BY <1>7 DEF UpdateBandwidth, UpdateReleases, Nothing
<1>8. CASE DataAcquires \/ DataCopies \/ DataClears \/ DataReturns
  BY <1>8 DEF DataAcquires, DataCopies, DataClears, DataReturns, Nothing, KeysOf
<1> QED
  BY <1>1, <1>2, <1>3, <1>4, <1>5, <1>6, <1>7, <1>8 DEF Next, ReceiverStep, CallerStep

-----------------------------------------------------------------------------
(* Only UpdateMerges, DataCopies, DataClears and DataReturns touch what    *)
(* NothingLost relates.                                                    *)
LEMMA NothingLostInvariance ==
  ASSUME TypeOK, LockDiscipline, ClearedIsEmpty, NothingLost, [Next]_vars
  PROVE  NothingLost'
<1> USE DEF TypeOK, NothingLost, receiverVars, callerVars
<1>1. ASSUME UNCHANGED <<merged, returned, store>>, caller = "copied" <=> caller' = "copied"
      PROVE  NothingLost'
  BY <1>1
<1>2. ASSUME NEW m \in Messages, Send(m)
      PROVE  NothingLost'
  BY <1>1, <1>2 DEF Send
<1>3. CASE Stop \/ UNCHANGED vars \/ Call
  BY <1>1, <1>3 DEF Stop, vars, Call
<1>4. CASE ChecksCancel \/ PollTimesOut \/ Receive \/ UpdateAcquires
  BY <1>1, <1>4 DEF ChecksCancel, PollTimesOut, Receive, UpdateAcquires
<1>5. ASSUME NEW k \in Keys, UpdateMerges(k)
      PROVE  NothingLost'
  <2>1. caller # "copied" /\ caller' = caller
    BY <1>5 DEF UpdateMerges, LockDiscipline
  <2>2. message.energy[k] \in Powers \cup {Absent}
    BY <1>5, MessageTypes DEF UpdateMerges
  <2>3. ASSUME NEW j \in Keys
        PROVE  merged'[j] = Larger(returned'[j], store'[j])
    <3>1. CASE j = k
      <4>1. merged'[k] = Larger(merged[k], message.energy[k])
            /\ store'[k] = Larger(store[k], message.energy[k])
        BY <1>5 DEF UpdateMerges
      <4>2. merged[k] = Larger(returned[k], store[k])
        BY <2>1
      <4> QED
        <5>1. /\ merged[k] \in Powers \cup {Absent}
              /\ returned[k] \in Powers \cup {Absent}
              /\ store[k] \in Powers \cup {Absent}
          OBVIOUS
        <5>2. returned' = returned
          BY <1>5 DEF UpdateMerges
        <5>3. Larger(Larger(returned[k], store[k]), message.energy[k])
                = Larger(returned[k], Larger(store[k], message.energy[k]))
          <6> DEFINE a == returned[k] b == store[k] c == message.energy[k]
          <6>1. a \in Powers \cup {Absent}
            BY <5>1
          <6>2. b \in Powers \cup {Absent}
            BY <5>1
          <6>3. c \in Powers \cup {Absent}
            BY <2>2
          <6> HIDE DEF a, b, c, TypeOK, NothingLost
          <6>4. Larger(Larger(a, b), c) = Larger(a, Larger(b, c))
            BY <6>1, <6>2, <6>3, LargerAssociative
          <6> QED
            BY <6>4 DEF a, b, c
        <5>4. merged'[k] = Larger(returned'[k], store'[k])
          BY <4>1, <4>2, <5>2, <5>3
        <5> QED
          BY <3>1, <5>4
    <3>2. CASE j # k
      BY <1>5, <2>1, <3>2 DEF UpdateMerges
    <3> QED
      BY <3>1, <3>2
  <2> QED
    BY <2>1, <2>3
<1>6. ASSUME NEW k \in Keys, UpdateRaises(k)
      PROVE  NothingLost'
  BY <1>1, <1>6 DEF UpdateRaises
<1>7. CASE UpdateBandwidth \/ UpdateReleases \/ DataAcquires
  BY <1>1, <1>7 DEF UpdateBandwidth, UpdateReleases, DataAcquires
<1>8. CASE DataCopies
  BY <1>8 DEF DataCopies
<1>9. CASE DataClears
  BY <1>9, LargerProperties DEF DataClears, Nothing
<1>10. CASE DataReturns
  BY <1>1, <1>10 DEF DataReturns
<1> QED
  BY <1>2, <1>3, <1>4, <1>5, <1>6, <1>7, <1>8, <1>9, <1>10 DEF Next, ReceiverStep, CallerStep

-----------------------------------------------------------------------------
LEMMA BandwidthInvariance ==
  ASSUME TypeOK, LockDiscipline, UnreadInside, StoreHasBandwidth, ResultHasBandwidth,
         [Next]_vars
  PROVE  StoreHasBandwidth' /\ ResultHasBandwidth'
<1> USE DEF TypeOK, StoreHasBandwidth, ResultHasBandwidth, receiverVars, callerVars
<1>1. ASSUME UNCHANGED <<store, bandwidth, result, message>>,
             receiver \in {"merging", "failed"} => receiver' \in {"merging", "failed"}
      PROVE  StoreHasBandwidth' /\ ResultHasBandwidth'
  BY <1>1
<1>2. ASSUME NEW m \in Messages, Send(m)
      PROVE  StoreHasBandwidth' /\ ResultHasBandwidth'
  BY <1>1, <1>2 DEF Send
<1>3. CASE Stop \/ UNCHANGED vars \/ Call
  BY <1>1, <1>3 DEF Stop, vars, Call
<1>4. CASE ChecksCancel \/ PollTimesOut \/ UpdateAcquires
  BY <1>1, <1>4 DEF ChecksCancel, PollTimesOut, UpdateAcquires
<1>5. CASE Receive
  BY <1>5 DEF Receive
<1>6. ASSUME NEW k \in Keys, UpdateMerges(k)
      PROVE  StoreHasBandwidth' /\ ResultHasBandwidth'
  <2>1. message.bandwidth[SubidOf[k]] > 0
    BY <1>6, MessageTypes DEF UpdateMerges, UnreadInside, KeysOf
  <2>2. ASSUME NEW j \in Keys, j # k
        PROVE  store'[j] = store[j]
    BY <1>6, <2>2 DEF UpdateMerges
  <2> QED
    BY <1>6, <2>1, <2>2 DEF UpdateMerges
<1>7. ASSUME NEW k \in Keys, UpdateRaises(k)
      PROVE  StoreHasBandwidth' /\ ResultHasBandwidth'
  BY <1>1, <1>7 DEF UpdateRaises
<1>8. CASE UpdateBandwidth
  <2>1. ASSUME NEW k \in Keys, store[k] # Absent
        PROVE  bandwidth'[SubidOf[k]] > 0
    <3>1. message.bandwidth[SubidOf[k]] \in Nat /\ bandwidth[SubidOf[k]] \in Nat
      BY MessageTypes
    <3>2. bandwidth'[SubidOf[k]] = IF message.bandwidth[SubidOf[k]] # 0
             THEN message.bandwidth[SubidOf[k]] ELSE bandwidth[SubidOf[k]]
      BY <1>8 DEF UpdateBandwidth
    <3> QED
      BY <2>1, <3>1, <3>2
  <2> QED
    BY <1>8, <2>1 DEF UpdateBandwidth
<1>9. CASE UpdateReleases \/ DataAcquires \/ DataReturns
  BY <1>1, <1>9 DEF UpdateReleases, DataAcquires, DataReturns
<1>10. CASE DataCopies
  <2>1. receiver \notin {"merging", "failed"}
    BY <1>10 DEF DataCopies, LockDiscipline
  <2> QED
    BY <1>10, <2>1 DEF DataCopies
<1>11. CASE DataClears
  BY <1>11 DEF DataClears, Nothing
<1> QED
  BY <1>2, <1>3, <1>4, <1>5, <1>6, <1>7, <1>8, <1>9, <1>10, <1>11
     DEF Next, ReceiverStep, CallerStep

-----------------------------------------------------------------------------
LEMMA InitInvariant ==
  ASSUME Init
  PROVE  IInv
<1>1. store = Nothing /\ merged = Nothing /\ returned = Nothing /\ result.energy = Nothing
  BY DEF Init
<1>2. \A k \in Keys : Nothing[k] = Absent
  BY DEF Nothing
<1>3. NothingLost
  BY <1>1, <1>2 DEF Init, NothingLost, Larger, Absent
<1>4. StoreHasBandwidth /\ ResultHasBandwidth
  BY <1>1, <1>2 DEF StoreHasBandwidth, ResultHasBandwidth
<1>5. LockDiscipline /\ UnreadInside /\ ClearedIsEmpty
  BY DEF Init, LockDiscipline, UnreadInside, ClearedIsEmpty
<1> QED
  BY <1>3, <1>4, <1>5, InitTyped DEF IInv

THEOREM Inductive == Spec => []IInv
<1>1. Init => IInv
  BY InitInvariant
<1>2. IInv /\ [Next]_vars => IInv'
  BY TypeInvariance, LockInvariance, NothingLostInvariance, BandwidthInvariance DEF IInv
<1> QED
  BY <1>1, <1>2, PTL DEF Spec

(* data() and the receiver lose nothing between them.                      *)
THEOREM LosesNothing == Spec => []NothingLost
<1>1. IInv => NothingLost
  BY DEF IInv
<1> QED
  BY <1>1, Inductive, PTL

(* Every power data() returns comes with a bandwidth.                      *)
THEOREM ResultsBelongTogether == Spec => []ResultHasBandwidth
<1>1. IInv => ResultHasBandwidth
  BY DEF IInv
<1> QED
  BY <1>1, Inductive, PTL

-----------------------------------------------------------------------------
LEMMA PendingType ==
  ASSUME TypeOK, NEW k \in Keys
  PROVE  Pending(k) \in Powers \cup {Absent}
  BY MessageTypes DEF Pending, TypeOK

LEMMA HeldUnchanged ==
  ASSUME store' = store, caller = "copied" <=> caller' = "copied",
         \A k \in Keys : Pending(k)' = Pending(k), result' = result
  PROVE  UNCHANGED Hold!holdVars
<1>1. Held' = Held
  BY DEF Held, Nothing, Larger, Pending
<1> QED
  BY <1>1 DEF Hold!holdVars

(* Acquiring the lock absorbs the message; copying the store takes the     *)
(* buffer; every other step leaves the buffer as it is.                    *)
LEMMA StepRefines ==
  ASSUME IInv, IInv', [Next]_vars
  PROVE  [Hold!HoldNext]_(Hold!holdVars)
<1> USE DEF TypeOK, receiverVars, callerVars
<1>0. TypeOK /\ TypeOK' /\ LockDiscipline /\ LockDiscipline' /\ UnreadInside /\ ClearedIsEmpty
  BY DEF IInv
<1>1. ASSUME NEW m \in Messages, Send(m)
      PROVE  UNCHANGED Hold!holdVars
  BY <1>1, HeldUnchanged DEF Send, Pending
<1>2. CASE Stop \/ UNCHANGED vars \/ Call
  BY <1>2, HeldUnchanged DEF Stop, vars, Call, Pending
<1>3. CASE ChecksCancel \/ PollTimesOut \/ UpdateReleases \/ UpdateBandwidth
  BY <1>3, HeldUnchanged DEF ChecksCancel, PollTimesOut, UpdateReleases, UpdateBandwidth,
     Pending
<1>4. CASE Receive
  <2>1. unread = {} /\ unread' = {}
    BY <1>0, <1>4 DEF Receive, UnreadInside
  <2> QED
    BY <1>4, <2>1, HeldUnchanged DEF Receive, Pending
<1>5. CASE UpdateAcquires
  <2>1. caller # "copied" /\ caller' # "copied" /\ unread = {}
    BY <1>0, <1>5 DEF UpdateAcquires, LockDiscipline, UnreadInside
  <2> DEFINE energy == [k \in Keys |-> Pending(k)']
  <2>2. energy \in Hold!Energies
    <3>1. \A k \in Keys : Pending(k)' \in Powers \cup {Absent}
      BY <1>0, MessageTypes DEF Pending
    <3> QED
      BY <3>1 DEF Hold!Energies, Hold!Absent, Absent
  <2>3. ASSUME NEW k \in Keys
        PROVE  Larger(store'[k], Pending(k)') = Larger(Larger(store[k], Pending(k)), energy[k])
    <3>1. Pending(k) = Absent /\ store' = store
      BY <1>5, <2>1 DEF Pending, UpdateAcquires
    <3>2. store[k] \in Powers \cup {Absent}
      BY <1>0
    <3> QED
      BY <3>1, <3>2, LargerProperties
  <2>4. Held' = [k \in Keys |-> Hold!Larger(Held[k], energy[k])]
    <3>1. Held = [k \in Keys |-> Larger(store[k], Pending(k))]
      BY <2>1 DEF Held
    <3>2. Held' = [k \in Keys |-> Larger(store'[k], Pending(k)')]
      BY <2>1 DEF Held, Larger
    <3> QED
      BY <2>3, <3>1, <3>2 DEF Hold!Larger, Larger
  <2>5. Hold!Absorb(energy)
    BY <1>5, <2>4 DEF Hold!Absorb, UpdateAcquires
  <2> QED
    BY <2>2, <2>5 DEF Hold!HoldNext
<1>6. ASSUME NEW k \in Keys, UpdateMerges(k)
      PROVE  UNCHANGED Hold!holdVars
  <2>1. caller # "copied" /\ caller' # "copied"
    <3>1. LockDiscipline /\ receiver = "merging" /\ caller' = caller
      BY <1>0, <1>6 DEF UpdateMerges
    <3> QED
      BY <3>1 DEF LockDiscipline
  <2>2. message.energy[k] \in Powers \cup {Absent}
    BY <1>0, <1>6, MessageTypes DEF UpdateMerges
  <2>3. ASSUME NEW j \in Keys
        PROVE  Larger(store'[j], Pending(j)') = Larger(store[j], Pending(j))
    <3>1. CASE j = k
      <4>1. Pending(j) = message.energy[k] /\ Pending(j)' = Absent
        BY <1>6, <3>1 DEF UpdateMerges, Pending
      <4>2. store'[j] = Larger(store[k], message.energy[k])
        BY <1>0, <1>6, <3>1 DEF UpdateMerges
      <4>3. store[k] \in Powers \cup {Absent}
        BY <1>0
      <4>4. LET larger == Larger(store[k], message.energy[k])
            IN  larger \in Powers \cup {Absent} /\ Larger(larger, Absent) = larger
        <5>1. Larger(store[k], message.energy[k]) \in Powers \cup {Absent}
          BY <2>2, <4>3, LargerProperties
        <5> QED
          BY <5>1, LargerProperties
      <4> QED
        BY <3>1, <4>1, <4>2, <4>4
    <3>2. CASE j # k
      BY <1>6, <3>2 DEF UpdateMerges, Pending
    <3> QED
      BY <3>1, <3>2
  <2>4. Held' = Held
    <3>1. Held = [j \in Keys |-> Larger(store[j], Pending(j))]
      BY <2>1 DEF Held
    <3>2. Held' = [j \in Keys |-> Larger(store'[j], Pending(j)')]
      BY <2>1 DEF Held, Larger
    <3> QED
      BY <2>3, <3>1, <3>2
  <2> QED
    BY <1>6, <2>4 DEF Hold!holdVars, UpdateMerges
<1>7. ASSUME NEW k \in Keys, UpdateRaises(k)
      PROVE  UNCHANGED Hold!holdVars
  BY <1>7, HeldUnchanged DEF UpdateRaises, Pending
<1>8. CASE DataAcquires \/ DataReturns
  BY <1>8, HeldUnchanged DEF DataAcquires, DataReturns, Pending
<1>9. CASE DataCopies
  <2>1. unread = {}
    BY <1>0, <1>9 DEF DataCopies, LockDiscipline, UnreadInside
  <2>2. Held = store
    <3>0. store \in [Keys -> Powers \cup {Absent}]
      BY <1>0
    <3>1. \A k \in Keys : Larger(store[k], Pending(k)) = store[k]
      BY <2>1, <3>0, LargerProperties DEF Pending
    <3>2. Held = [k \in Keys |-> Larger(store[k], Pending(k))]
      BY <1>9 DEF Held, DataCopies
    <3> QED
      BY <3>0, <3>1, <3>2
  <2>3. Held' = Nothing /\ result'.energy = store
    BY <1>9 DEF Held, DataCopies, Nothing
  <2>4. Hold!Take
    BY <2>2, <2>3 DEF Hold!Take, Hold!Nothing, Nothing, Hold!Absent, Absent
  <2> QED
    BY <2>4 DEF Hold!HoldNext
<1>10. CASE DataClears
  <2>1. unread' = {} /\ store' = Nothing
    BY <1>0, <1>10 DEF DataClears, LockDiscipline, UnreadInside
  <2>2. Held = Nothing /\ Held' = Nothing
    BY <1>10, <2>1 DEF Held, DataClears, Pending, Larger, Nothing, Absent
  <2> QED
    BY <1>10, <2>2 DEF Hold!holdVars, DataClears
<1> QED
  BY <1>1, <1>2, <1>3, <1>4, <1>5, <1>6, <1>7, <1>8, <1>9, <1>10
     DEF Next, ReceiverStep, CallerStep

LEMMA InitRefines ==
  ASSUME Init
  PROVE  Hold!HoldInit
<1>1. \A k \in Keys : Larger(store[k], Pending(k)) = Absent
  BY DEF Init, Pending, Nothing, Larger, Absent
<1>2. Held = Nothing
  BY <1>1 DEF Held, Init, Nothing
<1> QED
  BY <1>2 DEF Init, Hold!HoldInit, Hold!Nothing, Nothing, Hold!Absent, Absent

(* The threads and their lock implement the max-hold buffer.               *)
THEOREM Refinement == Spec => ImplementsMaxHold
<1>1. Init => Hold!HoldInit
  BY InitRefines
<1>2. IInv /\ IInv' /\ [Next]_vars => [Hold!HoldNext]_(Hold!holdVars)
  BY StepRefines
<1> QED
  BY <1>1, <1>2, Inductive, PTL DEF Spec, ImplementsMaxHold, Hold!HoldSpec

-----------------------------------------------------------------------------
(* Each action of the analyzer contains one of the streamer, or is Press.  *)
LEMMA AnalyzerStep ==
  ASSUME [AnalyzerNext]_analyzerVars
  PROVE  [Next]_vars
<1>1. CASE \E m \in Messages : Send(m) /\ UNCHANGED viewVars
  BY <1>1 DEF Next
<1>2. CASE StreamerStep
  BY <1>2 DEF StreamerStep, Next
<1>3. CASE UpdateCalls
  BY <1>3 DEF UpdateCalls, Next
<1>4. CASE ViewerStep
  <2>1. CASE (DataAcquires \/ DataCopies \/ DataClears) /\ UNCHANGED viewVars
    BY <2>1 DEF Next, CallerStep
  <2>2. CASE Draw
    BY <2>2 DEF Draw, Next, CallerStep
  <2> QED
    BY <1>4, <2>1, <2>2 DEF ViewerStep
<1>5. CASE Press
  BY <1>5 DEF Press
<1>6. CASE Close
  BY <1>6 DEF Close, Next
<1>7. CASE UNCHANGED analyzerVars
  BY <1>7 DEF analyzerVars
<1> QED
  BY <1>1, <1>2, <1>3, <1>4, <1>5, <1>6, <1>7 DEF AnalyzerNext

(* The analyzer implements the streamer it is built on.                    *)
THEOREM ImplementsStreamer == AnalyzerSpec => Spec
<1>1. AnalyzerInit => Init
  BY DEF AnalyzerInit
<1>2. [AnalyzerNext]_analyzerVars => [Next]_vars
  BY AnalyzerStep
<1> QED
  BY <1>1, <1>2, PTL DEF AnalyzerSpec, Spec

(* No power that a message brought is lost between the updates of the      *)
(* analyzer.                                                               *)
THEOREM AnalyzerLosesNothing == AnalyzerSpec => []NothingLost
  BY ImplementsStreamer, LosesNothing, PTL

(* An update never meets a power whose waveform it has no bandwidth for.   *)
THEOREM AnalyzerHasBandwidths == AnalyzerSpec => []ResultHasBandwidth
  BY ImplementsStreamer, ResultsBelongTogether, PTL

(* What the analyzer reads is what a max-hold buffer returns.              *)
THEOREM AnalyzerReadsMaxHold == AnalyzerSpec => ImplementsMaxHold
  BY ImplementsStreamer, Refinement, PTL

-----------------------------------------------------------------------------
(* The cycle of waveforms.  A sequence of a set's elements, each once, has *)
(* all of them.                                                            *)
LEMMA Permutation ==
  ASSUME NEW S, IsFiniteSet(S), NEW q \in SetToSeqs(S)
  PROVE  /\ q \in Seq(S)
         /\ \A x \in S : \E i \in 1 .. Len(q) : q[i] = x
<1> DEFINE n == Cardinality(S)
<1>1. n \in Nat
  BY FS_CardinalityType
<1> HIDE DEF n
<1>2. q \in [1 .. n -> S] /\ \A i, j \in 1 .. n : i # j => q[i] # q[j]
  BY DEF SetToSeqs, n
<1>3. q \in Injection(1 .. n, S)
  BY <1>2 DEF Injection, IsInjective
<1>4. IsFiniteSet(1 .. n) /\ Cardinality(1 .. n) = n
  BY <1>1, FS_Interval
<1>5. q \in Surjection(1 .. n, S)
  BY <1>3, <1>4, FS_Injection DEF n
<1>6. q \in Seq(S) /\ Len(q) = n
  BY <1>1, <1>2
<1> QED
  BY <1>5, <1>6 DEF Surjection

(* A waveform the streamer knows the bandwidth of keeps one.               *)
BandwidthsKept == \A s \in Subids : result.bandwidth[s] > 0 => bandwidth[s] > 0

LEMMA StreamerKeepsBandwidths ==
  ASSUME TypeOK, BandwidthsKept, [Next]_vars
  PROVE  /\ BandwidthsKept'
         /\ \A s \in Subids : result.bandwidth[s] > 0 => result'.bandwidth[s] > 0
<1>1. ASSUME UNCHANGED <<bandwidth, result>>
      PROVE  /\ BandwidthsKept'
             /\ \A s \in Subids : result.bandwidth[s] > 0 => result'.bandwidth[s] > 0
  BY <1>1 DEF BandwidthsKept
<1>2. CASE UpdateBandwidth
  <2>1. /\ message \in Messages /\ bandwidth \in [Subids -> Nat]
        /\ bandwidth' = [s \in Subids |-> IF message.bandwidth[s] # 0
                                          THEN message.bandwidth[s] ELSE bandwidth[s]]
        /\ result' = result
    BY <1>2 DEF UpdateBandwidth, TypeOK, callerVars
  <2>2. message.bandwidth \in [Subids -> Nat]
    BY <2>1, MessagesAssumption
  <2>3. \A s \in Subids : bandwidth[s] > 0 => bandwidth'[s] > 0
    BY <2>1, <2>2
  <2> QED
    BY <2>1, <2>3 DEF BandwidthsKept
<1>3. CASE DataCopies
  BY <1>3 DEF DataCopies, BandwidthsKept, receiverVars
<1>4. CASE \/ \E m \in Messages : Send(m)
           \/ Stop \/ ChecksCancel \/ PollTimesOut \/ Receive \/ UpdateAcquires
           \/ \E k \in Keys : UpdateMerges(k)
           \/ \E k \in Keys : UpdateRaises(k)
           \/ UpdateReleases \/ Call \/ DataAcquires \/ DataClears \/ DataReturns
           \/ UNCHANGED vars
  <2>1. UNCHANGED <<bandwidth, result>>
    BY <1>4 DEF Send, Stop, ChecksCancel, PollTimesOut, Receive, UpdateAcquires, UpdateMerges,
                UpdateRaises, UpdateReleases, Call, DataAcquires, DataClears, DataReturns, vars,
                receiverVars, callerVars
  <2> QED
    BY <1>1, <2>1
<1> QED
  BY <1>2, <1>3, <1>4 DEF Next, ReceiverStep, CallerStep

(* The waveforms met are ones with a bandwidth, and so have a column in    *)
(* every row from now on.                                                  *)
KnownHaveBandwidth == known \subseteq {s \in Subids : result.bandwidth[s] > 0}

CycleInv ==
  /\ BandwidthsKept
  /\ KnownHaveBandwidth
  /\ cycle \in Seq(Subids \cup {None}) /\ turn \in Nat
  /\ UpdatesSucceed

LEMMA ShownAreKnownOnes ==
  ASSUME TypeOK, ResultHasBandwidth
  PROVE  ShownSubids = {s \in Subids : result.bandwidth[s] > 0}
<1>1. \A k \in InStore : SubidOf[k] \in Subids /\ result.bandwidth[SubidOf[k]] > 0
  BY KeysAssumption DEF InStore, ResultHasBandwidth
<1> QED
  BY <1>1 DEF ShownSubids

LEMMA DrawKeepsCycle ==
  ASSUME TypeOK, ResultHasBandwidth, CycleInv, Draw
  PROVE  CycleInv'
<1>2. UNCHANGED <<result, bandwidth, select>>
  BY DEF Draw, DataReturns, receiverVars, viewVars
<1>3. BandwidthsKept'
  BY <1>2 DEF CycleInv, BandwidthsKept
<1>4. CASE UNCHANGED <<known, cycle, turn, failed>>
  BY <1>2, <1>3, <1>4 DEF CycleInv, KnownHaveBandwidth, UpdatesSucceed
<1>5. CASE \E order : NewCycle(order) /\ failed' = (failed \/ select \notin ShownSubids \cup {None})
  <2>1. PICK order : NewCycle(order) /\ failed' = (failed \/ select \notin ShownSubids \cup {None})
    BY <1>5
  <2>2. known \subseteq ShownSubids
    BY ShownAreKnownOnes DEF CycleInv, KnownHaveBandwidth
  <2>3. ~failed' /\ select' \in known \cup {None}
    BY <1>2, <2>1, <2>2 DEF CycleInv, UpdatesSucceed
  <2>4. CASE ShownSubids \subseteq known
    <3>1. UNCHANGED <<known, cycle, turn>>
      BY <2>1, <2>4 DEF NewCycle
    <3> QED
      BY <1>2, <1>3, <2>3, <3>1 DEF CycleInv, KnownHaveBandwidth, UpdatesSucceed
  <2>5. CASE ~(ShownSubids \subseteq known)
    <3>1. /\ known' = known \cup ShownSubids
          /\ \E subids \in SetToSeqs(known') : cycle' = subids \o <<None>>
          /\ turn' = 0
      BY <2>1, <2>5 DEF NewCycle
    <3>2. known' \subseteq {s \in Subids : result'.bandwidth[s] > 0}
      BY <1>2, <2>2, <3>1, ShownAreKnownOnes
    <3>3. PICK subids \in SetToSeqs(known') : cycle' = subids \o <<None>>
      BY <3>1
    <3>4. IsFiniteSet(known')
      BY <3>2, FS_Subset, AnalyzerAssumption
    <3> DEFINE S == known'
    <3>5. /\ subids \in Seq(S) /\ \A x \in S : \E i \in 1 .. Len(subids) : subids[i] = x
      BY <3>3, <3>4, Permutation
    <3>6. S \subseteq Subids
      BY <3>2
    <3> HIDE DEF S
    <3> DEFINE T == S \cup {None}
               c == subids \o <<None>>
    <3>7. /\ c \in Seq(T) /\ Len(c) = Len(subids) + 1 /\ Len(subids) \in Nat
          /\ \A i \in 1 .. Len(subids) + 1 :
                c[i] = IF i <= Len(subids) THEN subids[i] ELSE None
      <4>1. subids \in Seq(T) /\ <<None>> \in Seq(T) /\ Len(<<None>>) = 1 /\ <<None>>[1] = None
        BY <3>5
      <4>2. Len(subids) \in Nat
        BY <3>5
      <4> HIDE DEF T
      <4>3. /\ c \in Seq(T) /\ Len(c) = Len(subids) + Len(<<None>>)
            /\ \A i \in 1 .. Len(subids) + Len(<<None>>) :
                  c[i] = IF i <= Len(subids) THEN subids[i] ELSE <<None>>[i - Len(subids)]
        BY <4>1, ConcatProperties
      <4>4. \A i \in 1 .. Len(subids) + 1 : ~(i <= Len(subids)) => i - Len(subids) = 1
        BY <4>2
      <4> QED
        BY <4>1, <4>2, <4>3, <4>4
    <3> HIDE DEF c
    <3>8. Range(c) = T
      <4>1. \A x \in S : \E i \in 1 .. Len(c) : c[i] = x
        <5> TAKE x \in S
        <5>1. PICK i \in 1 .. Len(subids) : subids[i] = x
          BY <3>5
        <5>2. i \in 1 .. Len(c) /\ c[i] = x
          BY <3>7, <5>1
        <5> QED
          BY <5>2
      <4>2. Len(c) \in 1 .. Len(c) /\ c[Len(c)] = None
        BY <3>7
      <4>3. DOMAIN c = 1 .. Len(c) /\ \A i \in 1 .. Len(c) : c[i] \in T
        BY <3>7
      <4> QED
        BY <4>1, <4>2, <4>3 DEF Range
    <3>9. c \in Seq(Subids \cup {None})
      BY <3>6, <3>7
    <3>10. cycle' = c
      BY <3>3 DEF c
    <3>11. Range(cycle') = known' \cup {None}
      BY <3>8, <3>10 DEF S
    <3>12. UpdatesSucceed'
      BY <2>3, <3>1, <3>11 DEF UpdatesSucceed
    <3> QED
      BY <1>3, <3>1, <3>2, <3>9, <3>10, <3>12 DEF CycleInv, KnownHaveBandwidth
  <2> QED
    BY <2>4, <2>5
<1> QED
  <2>1. UNCHANGED <<known, cycle, turn, failed>> \/
        \E order : NewCycle(order) /\ failed' = (failed \/ select \notin ShownSubids \cup {None})
    BY DEF Draw, viewVars
  <2> QED
    BY <1>4, <1>5, <2>1

LEMMA PressKeepsCycle ==
  ASSUME CycleInv, Press
  PROVE  CycleInv'
<1> DEFINE n == Len(cycle)
           i == (turn % n) + 1
<1>1. cycle \in Seq(Subids \cup {None}) /\ cycle # << >> /\ turn \in Nat
  BY DEF CycleInv, Press
<1>2. n \in Nat /\ n > 0
  BY <1>1
<1> HIDE DEF n
<1>3. i \in 1 .. n /\ (turn + 1) % n \in Nat
  BY <1>1, <1>2
<1>4. cycle[i] \in Range(cycle)
  BY <1>1, <1>3 DEF Range, n
<1>5. /\ select' = cycle[i] /\ turn' = (turn + 1) % n
      /\ UNCHANGED <<result, bandwidth, known, cycle, failed>>
  BY DEF Press, vars, callerVars, n
<1>6. UpdatesSucceed'
  BY <1>1, <1>4, <1>5 DEF CycleInv, UpdatesSucceed
<1> QED
  BY <1>3, <1>5, <1>6 DEF CycleInv, BandwidthsKept, KnownHaveBandwidth

LEMMA CycleInvariant == AnalyzerSpec => []CycleInv
<1>1. AnalyzerInit => CycleInv
  <2> SUFFICES ASSUME AnalyzerInit PROVE CycleInv
    OBVIOUS
  <2>1. /\ bandwidth = [s \in Subids |-> 0]
        /\ result = [energy |-> Nothing, bandwidth |-> bandwidth]
    BY DEF AnalyzerInit, Init
  <2>2. known = {} /\ cycle = << >> /\ turn = 0 /\ select = None /\ failed = FALSE
    BY DEF AnalyzerInit
  <2> QED
    BY <2>1, <2>2 DEF CycleInv, BandwidthsKept, KnownHaveBandwidth, UpdatesSucceed
<1>2. TypeOK /\ ResultHasBandwidth /\ CycleInv /\ [AnalyzerNext]_analyzerVars => CycleInv'
  <2> SUFFICES ASSUME TypeOK, ResultHasBandwidth, CycleInv, [AnalyzerNext]_analyzerVars
               PROVE  CycleInv'
    OBVIOUS
  <2>1. CASE Draw
    BY <2>1, DrawKeepsCycle
  <2>2. CASE Press
    BY <2>2, PressKeepsCycle
  <2>3. CASE UNCHANGED viewVars
    <3>1. /\ BandwidthsKept'
          /\ \A s \in Subids : result.bandwidth[s] > 0 => result'.bandwidth[s] > 0
      BY AnalyzerStep, StreamerKeepsBandwidths DEF CycleInv
    <3> QED
      BY <2>3, <3>1 DEF CycleInv, KnownHaveBandwidth, UpdatesSucceed, viewVars
  <2> QED
    BY <2>1, <2>2, <2>3
    DEF AnalyzerNext, StreamerStep, UpdateCalls, ViewerStep, Close, analyzerVars, viewVars
<1> QED
  BY <1>1, <1>2, ImplementsStreamer, TypeCorrect, ResultsBelongTogether, PTL DEF AnalyzerSpec

(* No update fails: however the key w and new waveforms interleave, the    *)
(* waveform selected has a column in every later update, and every         *)
(* waveform met can be selected (emane-spectrum-analyzer:191-203,          *)
(* 329-331).                                                               *)
THEOREM AnalyzerUpdatesSucceed == AnalyzerSpec => []UpdatesSucceed
<1>1. CycleInv => UpdatesSucceed
  BY DEF CycleInv
<1> QED
  BY <1>1, CycleInvariant, PTL

-----------------------------------------------------------------------------
(* Sums.  Induction over the subsets of a finite set, by their size.       *)
LEMMA SubsetInduction ==
  ASSUME NEW S, IsFiniteSet(S), NEW P, {} \in P,
         \A s \in SUBSET S : s # {} /\ (\A x \in s : s \ {x} \in P) => s \in P
  PROVE  \A s \in SUBSET S : s \in P
<1> DEFINE n == Cardinality(S)
           Done == {k \in 0 .. n : \A s \in SUBSET S : Cardinality(s) = k => s \in P}
<1>1. n \in Nat
  BY FS_CardinalityType
<1>2. \A s \in SUBSET S : IsFiniteSet(s) /\ Cardinality(s) \in 0 .. n
  <2> TAKE s \in SUBSET S
  <2>1. IsFiniteSet(s) /\ Cardinality(s) <= n
    BY FS_Subset
  <2> QED
    BY <1>1, <2>1, FS_CardinalityType
<1> HIDE DEF n
<1>3. 0 \in Done
  <2>1. \A s \in SUBSET S : Cardinality(s) = 0 => s \in P
    BY <1>2, FS_EmptySet
  <2>2. 0 \in 0 .. n
    BY <1>1
  <2> QED
    BY <2>1, <2>2
<1>4. ASSUME NEW k \in 0 .. n - 1, k \in Done PROVE k + 1 \in Done
  <2> SUFFICES ASSUME NEW s \in SUBSET S, Cardinality(s) = k + 1 PROVE s \in P
    BY <1>1
  <2>1. s # {}
    BY <1>2, FS_EmptySet
  <2>2. ASSUME NEW x \in s PROVE s \ {x} \in P
    <3>1. Cardinality(s \ {x}) = k
      BY <1>2, FS_RemoveElement
    <3> QED
      BY <1>4, <3>1
  <2> QED
    BY <2>1, <2>2
<1> HIDE DEF Done
<1>5. \A k \in 0 .. n : k \in Done
  BY <1>1, <1>3, <1>4, InductionUpTo
<1> QED
  BY <1>2, <1>5 DEF Done

(* One turn of the fold that SumFunction is, on what it gave for smaller   *)
(* sets, and that such a fold exists.                                      *)
Picked(s) == CHOOSE x \in s : TRUE

LEMMA PickedFrom ==
  ASSUME NEW s, s # {}
  PROVE  Picked(s) \in s
  BY DEF Picked

NextSum(f, sum, s) == IF s = {} THEN 0 ELSE f[Picked(s)] + sum[s \ {Picked(s)}]

IsSummingUpTo(k, S, f, sum) ==
  sum = [s \in {t \in SUBSET S : Cardinality(t) <= k} |-> NextSum(f, sum, s)]

LEMMA SummingUpTo ==
  ASSUME NEW S, IsFiniteSet(S), NEW f, NEW k \in 0 .. Cardinality(S)
  PROVE  \E sum : IsSummingUpTo(k, S, f, sum)
<1> DEFINE n == Cardinality(S)
           Small(j) == {t \in SUBSET S : Cardinality(t) <= j}
           IsSumming(sum, j) == IsSummingUpTo(j, S, f, sum)
           Done == {j \in 0 .. n : \E sum : IsSumming(sum, j)}
<1>1. n \in Nat
  BY FS_CardinalityType
<1>2. \A s \in SUBSET S : IsFiniteSet(s) /\ Cardinality(s) \in Nat
  BY FS_Subset, FS_CardinalityType
<1>3. 0 \in Done
  <2> DEFINE sum == [s \in Small(0) |-> 0]
  <2>1. \A s \in Small(0) : s = {}
    BY <1>2, FS_EmptySet
  <2>2. \A s \in Small(0) : NextSum(f, sum, s) = 0
    BY <2>1 DEF NextSum
  <2>3. IsSumming(sum, 0)
    BY <2>2 DEF IsSummingUpTo
  <2>4. \E g : IsSumming(g, 0)
    <3> HIDE DEF sum, IsSumming
    <3> QED
      BY <2>3
  <2>5. 0 \in 0 .. n
    BY <1>1
  <2> HIDE DEF IsSumming
  <2> QED
    BY <2>4, <2>5
<1> HIDE DEF n
<1>4. ASSUME NEW j \in 0 .. n - 1, j \in Done PROVE j + 1 \in Done
  <2>1. PICK g : IsSumming(g, j)
    BY <1>4
  <2> DEFINE h == [s \in Small(j + 1) |-> NextSum(f, g, s)]
  <2>2. ASSUME NEW s \in Small(j + 1)
        PROVE  NextSum(f, h, s) = NextSum(f, g, s)
    <3>1. CASE s = {}
      BY <3>1 DEF NextSum
    <3>2. CASE s # {}
      <4> DEFINE x == Picked(s)
                 t == s \ {x}
      <4>1. x \in s
        BY <3>2, PickedFrom
      <4> HIDE DEF x
      <4>2. Cardinality(t) = Cardinality(s) - 1 /\ t \in SUBSET S
        BY <1>2, <4>1, FS_RemoveElement
      <4>3. t \in Small(j) /\ t \in Small(j + 1)
        BY <1>2, <4>2
      <4>4. g[t] = NextSum(f, g, t) /\ h[t] = NextSum(f, g, t)
        BY <2>1, <4>3 DEF IsSummingUpTo
      <4> HIDE DEF t, h
      <4>5. h[t] = g[t]
        BY <4>4
      <4> QED
        BY <3>2, <4>5 DEF NextSum, x, t
    <3> QED
      BY <3>1, <3>2
  <2>3. IsSumming(h, j + 1)
    BY <2>2, Zenon DEF IsSummingUpTo
  <2>4. \E sum : IsSumming(sum, j + 1)
    <3> HIDE DEF h, IsSumming
    <3> QED
      BY <2>3
  <2> HIDE DEF IsSumming
  <2> QED
    BY <1>1, <2>4
<1> HIDE DEF Done
<1>5. \A j \in 0 .. n : j \in Done
  BY <1>1, <1>3, <1>4, InductionUpTo
<1> QED
  BY <1>5 DEF Done, n

IsSumOf(f, S, sum) ==
  /\ SumFunction(f) = sum[S]
  /\ sum[{}] = 0
  /\ \A s \in SUBSET S : s # {} => sum[s] = f[Picked(s)] + sum[s \ {Picked(s)}]

LEMMA SummingExists ==
  ASSUME NEW S, IsFiniteSet(S), NEW f, DOMAIN f = S
  PROVE  \E sum : IsSumOf(f, S, sum)
<1> DEFINE IsSumming(sum) == sum = [s \in SUBSET S |-> NextSum(f, sum, s)]
           sum == CHOOSE sum : IsSumming(sum)
<1>1. SumFunction(f) = sum[S]
  BY DEF SumFunction, SumFunctionOnSet, FoldFunctionOnSet, MapThenFoldSet, NextSum, Picked
<1>2. \E g : IsSumming(g)
  <2> DEFINE k == Cardinality(S)
  <2>1. k \in 0 .. k
    BY FS_CardinalityType
  <2>2. {t \in SUBSET S : Cardinality(t) <= k} = SUBSET S
    BY FS_Subset
  <2>3. PICK g : IsSummingUpTo(k, S, f, g)
    BY <2>1, SummingUpTo
  <2>4. IsSumming(g)
    BY <2>2, <2>3 DEF IsSummingUpTo
  <2> QED
    BY <2>4
<1> HIDE DEF IsSumming
<1>3. IsSumming(sum)
  BY <1>2
<1> HIDE DEF sum
<1>4. \A s \in SUBSET S : sum[s] = NextSum(f, sum, s)
  BY <1>3 DEF IsSumming
<1>5. sum[{}] = 0
  BY <1>4 DEF NextSum
<1>6. ASSUME NEW s \in SUBSET S, s # {} PROVE sum[s] = f[Picked(s)] + sum[s \ {Picked(s)}]
  BY <1>4, <1>6 DEF NextSum
<1>7. IsSumOf(f, S, sum)
  BY <1>1, <1>5, <1>6 DEF IsSumOf
<1> QED
  BY <1>7

(* A sum of natural numbers is one, not below any of them, and positive    *)
(* only if one of them is.                                                 *)
LEMMA SumProperties ==
  ASSUME NEW S, IsFiniteSet(S), NEW f \in [S -> Nat]
  PROVE  /\ SumFunction(f) \in Nat
         /\ \A x \in S : f[x] <= SumFunction(f)
         /\ SumFunction(f) > 0 => \E x \in S : f[x] > 0
<1>0. DOMAIN f = S
  OBVIOUS
<1>a. PICK sum : IsSumOf(f, S, sum)
  BY <1>0, SummingExists
<1>1. /\ SumFunction(f) = sum[S] /\ sum[{}] = 0
      /\ \A s \in SUBSET S : s # {} => sum[s] = f[Picked(s)] + sum[s \ {Picked(s)}]
  BY <1>a DEF IsSumOf
<1> DEFINE Holds(s) == /\ sum[s] \in Nat
                       /\ \A x \in s : f[x] <= sum[s]
                       /\ sum[s] > 0 => \E x \in s : f[x] > 0
           P == {s \in SUBSET S : Holds(s)}
<1>2. {} \in P
  BY <1>1
<1>3. ASSUME NEW s \in SUBSET S, s # {}, \A x \in s : s \ {x} \in P PROVE s \in P
  <2>1. PICK x \in s : sum[s] = f[x] + sum[s \ {x}]
    BY <1>1, <1>3, PickedFrom
  <2> DEFINE t == s \ {x}
  <2>2. Holds(t)
    BY <1>3
  <2>3. f[x] \in Nat /\ \A y \in t : f[y] \in Nat
    OBVIOUS
  <2>4. \A y \in s : y = x \/ y \in t
    OBVIOUS
  <2>5. sum[s] = f[x] + sum[t] /\ t \subseteq s
    BY <2>1
  <2> HIDE DEF t
  <2>6. sum[s] \in Nat /\ f[x] <= sum[s] /\ sum[t] <= sum[s]
    BY <2>2, <2>3, <2>5
  <2>7. \A y \in s : f[y] <= sum[s]
    BY <2>2, <2>3, <2>4, <2>6
  <2>8. sum[s] > 0 => \E y \in s : f[y] > 0
    <3>1. sum[s] > 0 => f[x] > 0 \/ sum[t] > 0
      BY <2>2, <2>3, <2>5
    <3> QED
      BY <2>2, <2>5, <3>1
  <2> QED
    BY <2>6, <2>7, <2>8
<1> HIDE DEF P
<1>4. \A s \in SUBSET S : s \in P
  BY <1>2, <1>3, SubsetInduction
<1>5. Holds(S)
  BY <1>4 DEF P
<1> QED
  BY <1>1, <1>5

LEMMA SumMonotone ==
  ASSUME NEW S, IsFiniteSet(S), NEW f \in [S -> Nat], NEW g \in [S -> Nat],
         \A x \in S : f[x] <= g[x]
  PROVE  SumFunction(f) <= SumFunction(g)
<1>0. DOMAIN f = S /\ DOMAIN g = S
  OBVIOUS
<1>a. PICK fs : IsSumOf(f, S, fs)
  BY <1>0, SummingExists
<1>1. /\ SumFunction(f) = fs[S] /\ fs[{}] = 0
      /\ \A s \in SUBSET S : s # {} => fs[s] = f[Picked(s)] + fs[s \ {Picked(s)}]
  BY <1>a DEF IsSumOf
<1>b. PICK gs : IsSumOf(g, S, gs)
  BY <1>0, SummingExists
<1>2. /\ SumFunction(g) = gs[S] /\ gs[{}] = 0
      /\ \A s \in SUBSET S : s # {} => gs[s] = g[Picked(s)] + gs[s \ {Picked(s)}]
  BY <1>b DEF IsSumOf
<1> DEFINE Holds(s) == fs[s] \in Nat /\ gs[s] \in Nat /\ fs[s] <= gs[s]
           P == {s \in SUBSET S : Holds(s)}
<1>3. {} \in P
  BY <1>1, <1>2
<1>4. ASSUME NEW s \in SUBSET S, s # {}, \A x \in s : s \ {x} \in P PROVE s \in P
  <2> DEFINE x == Picked(s)
             t == s \ {x}
  <2>1. x \in s
    BY <1>4, PickedFrom
  <2>2. fs[s] = f[x] + fs[t] /\ gs[s] = g[x] + gs[t]
    BY <1>1, <1>2, <1>4
  <2>3. Holds(t)
    BY <1>4, <2>1
  <2>4. f[x] \in Nat /\ g[x] \in Nat /\ f[x] <= g[x]
    BY <2>1
  <2> HIDE DEF x, t
  <2>5. Holds(s)
    BY <2>2, <2>3, <2>4
  <2> QED
    BY <2>5
<1> HIDE DEF P
<1>5. \A s \in SUBSET S : s \in P
  BY <1>3, <1>4, SubsetInduction
<1>6. Holds(S)
  BY <1>5 DEF P
<1> QED
  BY <1>1, <1>2, <1>6

-----------------------------------------------------------------------------
(* The powers of a row.  The frequencies of the store in the order of      *)
(* their arrival: each has a place.                                        *)
LEMMA Positions ==
  ASSUME NEW order \in SetToSeqs(StoreFreqs)
  PROVE  /\ Len(order) \in Nat
         /\ \A k \in InStore : Position(k, order) \in 1 .. Len(order)
<1> DEFINE freq == [k \in InStore |-> FreqOf[k]]
<1>1. IsFiniteSet(InStore)
  BY AnalyzerAssumption, FS_Subset DEF InStore
<1>2. freq \in Surjection(InStore, StoreFreqs)
  BY DEF Surjection, StoreFreqs
<1>3. IsFiniteSet(StoreFreqs)
  BY <1>1, <1>2, FS_Surjection
<1>4. /\ order \in Seq(StoreFreqs)
      /\ \A x \in StoreFreqs : \E i \in 1 .. Len(order) : order[i] = x
  BY <1>3, Permutation
<1>5. DOMAIN order = 1 .. Len(order) /\ Len(order) \in Nat
  BY <1>4
<1>6. ASSUME NEW k \in InStore PROVE Position(k, order) \in 1 .. Len(order)
  <2>1. \E i \in DOMAIN order : order[i] = FreqOf[k]
    BY <1>4, <1>5 DEF StoreFreqs
  <2> QED
    BY <1>5, <2>1 DEF Position
<1> QED
  BY <1>5, <1>6

LEMMA ModelOfCovering ==
  ASSUME TypeOK, NEW order \in SetToSeqs(StoreFreqs), NEW f, NEW s
  PROVE  /\ Model(f, s, order) \in Nat
         /\ Covering(f, s) = {} => Model(f, s, order) = 0
         /\ Covering(f, s) # {} =>
              \E k \in Covering(f, s) : Model(f, s, order) = result.energy[k]
<1>1. \A k \in InStore : result.energy[k] \in Nat
  BY PowersAssumption DEF InStore, TypeOK
<1>2. CASE Covering(f, s) = {}
  BY <1>2 DEF Model
<1>3. CASE Covering(f, s) # {}
  <2> DEFINE C == Covering(f, s)
             Places == {Position(k, order) : k \in C}
             last == CHOOSE k \in C : \A l \in C : Position(l, order) <= Position(k, order)
  <2>1. C # {} /\ C \subseteq InStore
    BY <1>3 DEF Covering
  <2>2. Model(f, s, order) = result.energy[last]
    BY <1>3 DEF Model
  <2> HIDE DEF C
  <2>4. Len(order) \in Nat
    BY Positions
  <2>5. /\ Places \in SUBSET Nat /\ Places # {}
        /\ \A i \in Places : i <= Len(order)
    BY <2>1, <2>4, Positions
  <2>6. PICK i \in Places : \A j \in Places : j <= i
    BY <2>4, <2>5, GreatestElement
  <2>7. \E k \in C : \A l \in C : Position(l, order) <= Position(k, order)
    BY <2>6
  <2>8. last \in C
    BY <2>7
  <2> HIDE DEF last
  <2> QED
    BY <1>1, <1>3, <2>1, <2>2, <2>8 DEF C
<1> QED
  BY <1>2, <1>3

(* Bins: a frequency of the range is in the bin that BinOf names.          *)
LEMMA Remainder ==
  ASSUME NEW n \in Nat \ {0}, NEW x \in Nat
  PROVE  /\ x \div n \in Nat /\ x % n \in 0 .. n - 1
         /\ x = n * (x \div n) + (x % n) /\ n * (x \div n) \in Nat
  OBVIOUS

LEMMA RangeTypes ==
  /\ MinFreq \in Nat /\ MaxFreq \in Nat
  /\ FreqValues \subseteq Nat
<1>1. HzStep \in Nat \ {0} /\ HzMin \in Nat /\ HzMax + HzStep - 1 \in Nat
  BY AnalyzerAssumption
<1>2. (HzMin \div HzStep) \in Nat /\ ((HzMax + HzStep - 1) \div HzStep) \in Nat
  BY <1>1, Remainder
<1>3. \A x \in Nat : x * HzStep \in Nat
  BY <1>1
<1>4. MinFreq \in Nat /\ MaxFreq \in Nat
  BY <1>2, <1>3 DEF MinFreq, MaxFreq
<1> QED
  BY <1>4 DEF FreqValues

(* The largest of the frequencies of a bin is the power of one of them,    *)
(* and no smaller than any.                                                *)
LEMMA BinIsLargest ==
  ASSUME TypeOK, NEW order \in SetToSeqs(StoreFreqs), NEW b \in FreqValues, NEW s
  PROVE  /\ BinEnergy(b, s, order) \in Nat
         /\ \A f \in InBin(b) : Model(f, s, order) <= BinEnergy(b, s, order)
         /\ \E f \in InBin(b) : BinEnergy(b, s, order) = Model(f, s, order)
<1> DEFINE high == IF b + HzStep - 1 <= MaxFreq THEN b + HzStep - 1 ELSE MaxFreq
           power == [f \in b .. high |-> Model(f, s, order)]
           Powers_ == {Model(f, s, order) : f \in InBin(b)}
<1>1. b \in Nat /\ MaxFreq \in Nat /\ b <= MaxFreq /\ HzStep \in Nat \ {0}
  BY AnalyzerAssumption, RangeTypes DEF FreqValues
<1>2. b <= high /\ high \in Int /\ b \in Int
  BY <1>1
<1>3. InBin(b) = b .. high
  BY <1>1 DEF InBin
<1> HIDE DEF high
<1>4. \A f \in b .. high : power[f] = Model(f, s, order) /\ power[f] \in Nat
  BY ModelOfCovering
<1> HIDE DEF power
<1>5. PICK k \in b .. high : \A l \in b .. high : power[l] <= power[k]
  BY <1>2, <1>4, GreatestValue
<1>6. \E x \in Powers_ : \A y \in Powers_ : x >= y
  <2>1. Model(k, s, order) \in Powers_
    BY <1>3
  <2>2. \A y \in Powers_ : Model(k, s, order) >= y
    BY <1>3, <1>4, <1>5
  <2> QED
    BY <2>1, <2>2
<1>7. BinEnergy(b, s, order) = Max(Powers_)
  BY DEF BinEnergy
<1>8. Max(Powers_) \in Powers_ /\ \A y \in Powers_ : Max(Powers_) >= y
  <2> HIDE DEF Powers_
  <2> QED
    BY <1>6 DEF Max
<1>9. \A y \in Powers_ : y \in Nat
  BY ModelOfCovering
<1>10. \E f \in InBin(b) : BinEnergy(b, s, order) = Model(f, s, order)
  BY <1>7, <1>8
<1>11. \A f \in InBin(b) : Model(f, s, order) \in Powers_
  OBVIOUS
<1>12. BinEnergy(b, s, order) \in Nat
  BY <1>7, <1>8, <1>9
<1> HIDE DEF Powers_
<1>13. \A f \in InBin(b) : Model(f, s, order) <= BinEnergy(b, s, order)
  BY <1>7, <1>8, <1>9, <1>11, <1>12
<1> QED
  BY <1>10, <1>12, <1>13

-----------------------------------------------------------------------------
(* Rows, and the deque they are added to: its first row is the new one,    *)
(* and those after it are the rows it had.                                 *)
Rows == [FreqValues -> Nat]

LEMMA AppendLeftProperties ==
  ASSUME NEW rows, NEW row, rows \in Seq(Rows), row \in Rows
  PROVE  /\ AppendLeft(rows, row) \in Seq(Rows)
         /\ Len(AppendLeft(rows, row)) = IF Len(rows) < Depth THEN Len(rows) + 1 ELSE Depth
         /\ 1 <= Len(AppendLeft(rows, row))
         /\ AppendLeft(rows, row)[1] = row
         /\ \A i \in 2 .. Len(AppendLeft(rows, row)) :
              i - 1 \in 1 .. Len(rows) /\ AppendLeft(rows, row)[i] = rows[i - 1]
<1> DEFINE all == <<row>> \o rows
           n == IF Len(rows) < Depth THEN Len(rows) + 1 ELSE Depth
           q == AppendLeft(rows, row)
<1>1. Len(rows) \in Nat /\ Depth \in Nat \ {0}
  BY AnalyzerAssumption
<1>2. n \in Nat /\ 1 <= n /\ n <= Len(rows) + 1
  BY <1>1
<1>3. <<row>> \in Seq(Rows) /\ Len(<<row>>) = 1 /\ <<row>>[1] = row
  OBVIOUS
<1>4. /\ all \in Seq(Rows) /\ Len(all) = Len(<<row>>) + Len(rows)
      /\ \A i \in 1 .. Len(<<row>>) + Len(rows) :
            all[i] = IF i <= Len(<<row>>) THEN <<row>>[i] ELSE rows[i - Len(<<row>>)]
  BY <1>3, ConcatProperties
<1>5. q = SubSeq(all, 1, n)
  BY DEF AppendLeft
<1> HIDE DEF all, n
<1>6. /\ \A i \in 1 .. n : all[i] = IF i <= 1 THEN row ELSE rows[i - 1]
      /\ \A i \in 1 .. n : all[i] \in Rows
  <2>1. \A i \in 1 .. n : i \in 1 .. 1 + Len(rows)
    BY <1>1, <1>2
  <2>2. \A i \in 1 .. 1 + Len(rows) : i <= 1 => i = 1
    OBVIOUS
  <2>3. \A i \in 1 .. 1 + Len(rows) : all[i] = IF i <= 1 THEN row ELSE rows[i - 1]
    BY <1>3, <1>4, <2>2
  <2>4. \A i \in 1 .. 1 + Len(rows) : ~(i <= 1) => i - 1 \in 1 .. Len(rows)
    BY <1>1
  <2>5. \A i \in 1 .. Len(rows) : rows[i] \in Rows
    OBVIOUS
  <2> QED
    BY <2>1, <2>3, <2>4, <2>5
<1>7. 1 \in Int /\ n \in Int
  BY <1>2
<1>8. /\ q \in Seq(Rows) /\ Len(q) = IF 1 <= n THEN n - 1 + 1 ELSE 0
      /\ \A i \in 1 .. n - 1 + 1 : q[i] = all[1 + i - 1]
  BY <1>5, <1>6, <1>7, SubSeqProperties
<1>9. Len(q) = n /\ \A i \in 1 .. n : q[i] = all[i]
  <2>1. n - 1 + 1 = n /\ \A i \in 1 .. n : 1 + i - 1 = i
    BY <1>2
  <2> QED
    BY <1>2, <1>8, <2>1
<1> HIDE DEF q
<1>10. q[1] = row
  BY <1>2, <1>6, <1>9
<1>11. \A i \in 2 .. n : i \in 1 .. n /\ ~(i <= 1) /\ i - 1 \in 1 .. Len(rows)
  BY <1>1, <1>2
<1>12. \A i \in 2 .. n : q[i] = rows[i - 1]
  BY <1>6, <1>9, <1>11
<1> QED
  BY <1>2, <1>8, <1>9, <1>10, <1>11, <1>12 DEF q, n

LEMMA ShownProperties ==
  ASSUME NEW a \in Nat, NEW b \in Nat
  PROVE  /\ Shown(a) \in Nat /\ a <= Shown(a) /\ NoiseFloor <= Shown(a)
         /\ Shown(a) > NoiseFloor => Shown(a) = a
         /\ a <= b => Shown(a) <= Shown(b)
         /\ a <= b /\ NoiseFloor <= b => Shown(a) <= b
  BY AnalyzerAssumption DEF Shown, Larger

(* The new rows: no waveform's is above the total's, which is not above    *)
(* what the waveforms' add up to.                                          *)
LEMMA NewRows ==
  ASSUME TypeOK, InStore # {}, NEW order \in SetToSeqs(StoreFreqs)
  PROVE  /\ TotalRow(order) \in Rows
         /\ \A s \in Subids : WaveformRow(s, order) \in Rows
         /\ \A b \in FreqValues :
              /\ \A s \in ShownSubids : WaveformRow(s, order)[b] <= TotalRow(order)[b]
              /\ TotalRow(order)[b] <=
                   SumFunction([s \in ShownSubids |-> WaveformRow(s, order)[b]])
<1>1. IsFiniteSet(ShownSubids) /\ ShownSubids # {} /\ ShownSubids \subseteq Subids
  <2>1. ShownSubids \subseteq Subids
    BY KeysAssumption DEF ShownSubids, InStore
  <2> QED
    BY <2>1, AnalyzerAssumption, FS_Subset DEF ShownSubids
<1>2. \A s \in Subids : \A b \in FreqValues :
         WaveformRow(s, order)[b] = Shown(BinEnergy(b, s, order))
  BY DEF WaveformRow
<1>3. \A s \in Subids : WaveformRow(s, order) \in Rows
  <2>1. \A s \in Subids : \A b \in FreqValues : Shown(BinEnergy(b, s, order)) \in Nat
    BY BinIsLargest, ShownProperties
  <2> QED
    BY <2>1 DEF WaveformRow, Rows
<1>4. ASSUME NEW b \in FreqValues
      PROVE  /\ TotalRow(order)[b] \in Nat
             /\ \A s \in ShownSubids : WaveformRow(s, order)[b] <= TotalRow(order)[b]
             /\ TotalRow(order)[b] <=
                  SumFunction([s \in ShownSubids |-> WaveformRow(s, order)[b]])
  <2> DEFINE S == ShownSubids
             f == [s \in S |-> BinEnergy(b, s, order)]
             g == [s \in S |-> WaveformRow(s, order)[b]]
  <2>1. TotalRow(order)[b] = Shown(SumFunction(f))
    BY DEF TotalRow
  <2>2. f \in [S -> Nat] /\ \A s \in S : f[s] = BinEnergy(b, s, order)
    BY BinIsLargest
  <2>3. \A s \in S : WaveformRow(s, order)[b] = Shown(f[s]) /\ g[s] = Shown(f[s])
    BY <1>1, <1>2, <2>2
  <2>4. DOMAIN g = S
    OBVIOUS
  <2>5. g \in [S -> Nat] /\ \A s \in S : f[s] <= g[s] /\ NoiseFloor <= g[s]
    <3>1. \A s \in S : f[s] \in Nat
      BY <2>2
    <3>2. \A s \in S : g[s] \in Nat /\ f[s] <= g[s] /\ NoiseFloor <= g[s]
      BY <2>3, <3>1, ShownProperties
    <3>3. g = [s \in S |-> g[s]]
      OBVIOUS
    <3> HIDE DEF f, g, S
    <3> QED
      BY <3>2, <3>3
  <2>6. IsFiniteSet(S) /\ S # {}
    BY <1>1
  <2> HIDE DEF f, g, S
  <2>7. /\ SumFunction(f) \in Nat /\ SumFunction(g) \in Nat
        /\ \A s \in S : f[s] <= SumFunction(f) /\ g[s] <= SumFunction(g)
    BY <2>2, <2>5, <2>6, SumProperties
  <2>8. SumFunction(f) <= SumFunction(g)
    BY <2>2, <2>5, <2>6, SumMonotone
  <2>9. NoiseFloor <= SumFunction(g)
    <3>1. PICK s \in S : TRUE
      BY <2>6
    <3>2. g[s] \in Nat /\ NoiseFloor <= g[s] /\ g[s] <= SumFunction(g) /\ NoiseFloor \in Nat
      BY <2>5, <2>7, AnalyzerAssumption
    <3> QED
      BY <2>7, <3>2
  <2>10. Shown(SumFunction(f)) <= SumFunction(g) /\ Shown(SumFunction(f)) \in Nat
    BY <2>7, <2>8, <2>9, ShownProperties
  <2>11. \A s \in S : Shown(f[s]) <= Shown(SumFunction(f))
    <3> TAKE s \in S
    <3>1. f[s] \in Nat /\ f[s] <= SumFunction(f)
      BY <2>2, <2>7
    <3> QED
      BY <2>7, <3>1, ShownProperties
  <2>12. TotalRow(order)[b] \in Nat
    BY <2>1, <2>10
  <2>13. \A s \in S : WaveformRow(s, order)[b] <= TotalRow(order)[b]
    BY <2>1, <2>3, <2>11
  <2>14. TotalRow(order)[b] <= SumFunction(g)
    BY <2>1, <2>10
  <2> QED
    BY <2>12, <2>13, <2>14 DEF S, g
<1>5. TotalRow(order) \in Rows
  <2>1. TotalRow(order) = [b \in FreqValues |-> TotalRow(order)[b]]
    BY DEF TotalRow
  <2> QED
    BY <1>4, <2>1 DEF Rows
<1> QED
  BY <1>3, <1>4, <1>5

-----------------------------------------------------------------------------
(* The waterfalls: a waveform that was not met has no row, and one that    *)
(* was met gets a row at each update that the total gets one at.           *)
Present(wf, r) == {s \in Subids : r <= Len(wf[s])}
Aligned(rows, wf, r) ==
  \A b \in FreqValues :
     /\ \A s \in Present(wf, r) : wf[s][r][b] <= rows[r][b]
     /\ rows[r][b] <= SumFunction([s \in Present(wf, r) |-> wf[s][r][b]])

WaterfallInv ==
  /\ total \in Seq(Rows) /\ waterfall \in [Subids -> Seq(Rows)]
  /\ \A s \in Subids \ known : waterfall[s] = << >>
  /\ WaterfallsAligned

LEMMA AlignedRows ==
  ASSUME WithWaveforms
  PROVE  WaterfallsAligned <=> \A r \in DOMAIN total : Aligned(total, waterfall, r)
  BY DEF WaterfallsAligned, Aligned, Present

LEMMA DrawAligns ==
  ASSUME TypeOK, ResultHasBandwidth, KnownHaveBandwidth, WaterfallInv,
         InStore # {}, WithWaveforms, NEW order \in SetToSeqs(StoreFreqs),
         NEW rows, rows = AppendLeft(total, TotalRow(order)),
         NEW wf, wf = WaveformRows(order)
  PROVE  /\ rows \in Seq(Rows) /\ wf \in [Subids -> Seq(Rows)]
         /\ \A s \in Subids \ ShownSubids : wf[s] = << >>
         /\ \A r \in DOMAIN rows : Aligned(rows, wf, r)
<1> DEFINE Row(s) == WaveformRow(s, order)
<1>1. /\ total \in Seq(Rows) /\ waterfall \in [Subids -> Seq(Rows)]
      /\ TotalRow(order) \in Rows /\ \A s \in Subids : Row(s) \in Rows
      /\ \A r \in DOMAIN total : Aligned(total, waterfall, r)
  BY NewRows, AlignedRows DEF WaterfallInv
<1>2. known \subseteq ShownSubids /\ ShownSubids \subseteq Subids
  BY ShownAreKnownOnes DEF KnownHaveBandwidth
<1>3. \A s \in Subids \ ShownSubids : waterfall[s] = << >>
  BY <1>2 DEF WaterfallInv
<1>4. \A b \in FreqValues :
         /\ \A s \in ShownSubids : Row(s)[b] <= TotalRow(order)[b]
         /\ TotalRow(order)[b] <= SumFunction([s \in ShownSubids |-> Row(s)[b]])
  BY NewRows
<1>5. wf = [s \in Subids |-> IF s \in ShownSubids THEN AppendLeft(waterfall[s], Row(s))
                             ELSE waterfall[s]]
  BY DEF WaveformRows
<1> HIDE DEF Row
<1>6. /\ \A s \in ShownSubids : wf[s] = AppendLeft(waterfall[s], Row(s))
      /\ \A s \in Subids \ ShownSubids : wf[s] = << >>
  BY <1>2, <1>3, <1>5
<1>7. /\ rows \in Seq(Rows)
      /\ Len(rows) = IF Len(total) < Depth THEN Len(total) + 1 ELSE Depth
      /\ rows[1] = TotalRow(order)
      /\ \A i \in 2 .. Len(rows) : i - 1 \in 1 .. Len(total) /\ rows[i] = total[i - 1]
  <2> DEFINE row == TotalRow(order)
  <2>1. total \in Seq(Rows) /\ row \in Rows /\ rows = AppendLeft(total, row)
    BY <1>1
  <2> HIDE DEF row
  <2> QED
    BY <2>1, AppendLeftProperties DEF row
<1>8. ASSUME NEW s \in ShownSubids
      PROVE  /\ waterfall[s] \in Seq(Rows) /\ wf[s] \in Seq(Rows)
             /\ Len(wf[s]) = IF Len(waterfall[s]) < Depth THEN Len(waterfall[s]) + 1 ELSE Depth
             /\ 1 <= Len(wf[s])
             /\ wf[s][1] = Row(s)
             /\ \A i \in 2 .. Len(wf[s]) : wf[s][i] = waterfall[s][i - 1]
  <2> DEFINE old == waterfall[s]
             row == Row(s)
  <2>1. old \in Seq(Rows) /\ row \in Rows /\ wf[s] = AppendLeft(old, row)
    BY <1>1, <1>2, <1>6
  <2> HIDE DEF old, row
  <2>2. /\ AppendLeft(old, row) \in Seq(Rows)
        /\ Len(AppendLeft(old, row)) = IF Len(old) < Depth THEN Len(old) + 1 ELSE Depth
        /\ 1 <= Len(AppendLeft(old, row))
        /\ AppendLeft(old, row)[1] = row
        /\ \A i \in 2 .. Len(AppendLeft(old, row)) :
             i - 1 \in 1 .. Len(old) /\ AppendLeft(old, row)[i] = old[i - 1]
    BY <2>1, AppendLeftProperties
  <2> QED
    BY <2>1, <2>2, Zenon DEF old, row
<1>9. wf \in [Subids -> Seq(Rows)]
  <2>1. \A s \in Subids : wf[s] \in Seq(Rows)
    <3> TAKE s \in Subids
    <3>1. CASE s \in ShownSubids
      BY <1>8, <3>1
    <3>2. CASE s \notin ShownSubids
      <4>1. wf[s] = << >>
        BY <1>6, <3>2
      <4>2. << >> \in Seq(Rows)
        BY EmptySeq
      <4> QED
        BY <4>1, <4>2
    <3> QED
      BY <3>1, <3>2
  <2>2. wf = [s \in Subids |-> wf[s]]
    BY <1>5
  <2> QED
    BY <2>1, <2>2
<1>10. \A s \in Subids \ ShownSubids : Len(wf[s]) = 0 /\ Len(waterfall[s]) = 0
  BY <1>3, <1>6
<1>11. Aligned(rows, wf, 1)
  <2>1. Present(wf, 1) = ShownSubids
    BY <1>2, <1>8, <1>10 DEF Present
  <2>2. \A b \in FreqValues : [s \in ShownSubids |-> wf[s][1][b]] = [s \in ShownSubids |-> Row(s)[b]]
    BY <1>8
  <2> QED
    BY <1>4, <1>7, <1>8, <2>1, <2>2 DEF Aligned
<1>12. ASSUME NEW r \in 2 .. Len(rows) PROVE Aligned(rows, wf, r)
  <2> DEFINE q == r - 1
  <2>1. q \in 1 .. Len(total) /\ rows[r] = total[q] /\ q >= 1
    BY <1>7
  <2>2. Aligned(total, waterfall, q)
    BY <1>1, <2>1
  <2>3. Len(rows) <= Depth /\ r <= Depth /\ Depth \in Nat
    BY <1>1, <1>7, AnalyzerAssumption
  <2>4. ASSUME NEW s \in Subids PROVE r <= Len(wf[s]) <=> q <= Len(waterfall[s])
    <3>1. CASE s \in ShownSubids
      <4>1. Len(waterfall[s]) \in Nat
        BY <1>8, <3>1
      <4> QED
        BY <1>8, <2>3, <3>1, <4>1
    <3>2. CASE s \notin ShownSubids
      BY <1>10, <2>1, <3>2
    <3> QED
      BY <3>1, <3>2
  <2>5. Present(wf, r) = Present(waterfall, q)
    BY <2>4 DEF Present
  <2>6. ASSUME NEW s \in Present(wf, r) PROVE wf[s][r] = waterfall[s][q]
    <3>1. s \in ShownSubids /\ r \in 2 .. Len(wf[s])
      <4>1. s \in Subids /\ r <= Len(wf[s])
        BY DEF Present
      <4>2. s \in ShownSubids
        BY <1>10, <4>1
      <4> QED
        BY <1>8, <4>1, <4>2
    <3> QED
      BY <1>8, <3>1
  <2> HIDE DEF q
  <2>7. \A b \in FreqValues : [s \in Present(wf, r) |-> wf[s][r][b]]
                               = [s \in Present(waterfall, q) |-> waterfall[s][q][b]]
    BY <2>5, <2>6
  <2> QED
    BY <2>1, <2>2, <2>5, <2>6, <2>7 DEF Aligned
<1>13. \A r \in DOMAIN rows : r = 1 \/ r \in 2 .. Len(rows)
  BY <1>7
<1> QED
  BY <1>6, <1>7, <1>9, <1>11, <1>12, <1>13

LEMMA WaterfallInvariant == AnalyzerSpec => []WaterfallInv
<1>1. AnalyzerInit => WaterfallInv
  <2> SUFFICES ASSUME AnalyzerInit PROVE WaterfallInv
    OBVIOUS
  <2>1. total = << >> /\ waterfall = [s \in Subids |-> << >>]
    BY DEF AnalyzerInit
  <2>2. DOMAIN total = {}
    BY <2>1
  <2> QED
    BY <2>1, <2>2 DEF WaterfallInv, WaterfallsAligned
<1>2. TypeOK /\ ResultHasBandwidth /\ CycleInv /\ WaterfallInv /\ [AnalyzerNext]_analyzerVars
      => WaterfallInv'
  <2> SUFFICES ASSUME TypeOK, ResultHasBandwidth, CycleInv, WaterfallInv,
                      [AnalyzerNext]_analyzerVars
               PROVE  WaterfallInv'
    OBVIOUS
  <2>1. CASE UNCHANGED <<total, waterfall, known>>
    <3>1. WaterfallsAligned' = WaterfallsAligned
      BY <2>1 DEF WaterfallsAligned
    <3> QED
      BY <2>1, <3>1 DEF WaterfallInv
  <2>2. CASE Draw
    <3>1. CASE InStore = {}
      BY <2>1, <2>2, <3>1 DEF Draw, viewVars
    <3>2. CASE InStore # {}
      <4>1. PICK order \in SetToSeqs(StoreFreqs) :
              /\ total' = AppendLeft(total, TotalRow(order))
              /\ IF WithWaveforms
                 THEN /\ waterfall' = WaveformRows(order)
                      /\ NewCycle(order)
                 ELSE UNCHANGED <<waterfall, known>>
        BY <2>2, <3>2 DEF Draw
      <4>2. CASE WithWaveforms
        <5>1. /\ total' \in Seq(Rows) /\ waterfall' \in [Subids -> Seq(Rows)]
              /\ \A s \in Subids \ ShownSubids : waterfall'[s] = << >>
              /\ \A r \in DOMAIN total' : Aligned(total', waterfall', r)
          BY <3>2, <4>1, <4>2, DrawAligns DEF CycleInv
        <5>2. ShownSubids \subseteq known'
          BY <4>1, <4>2 DEF NewCycle
        <5>3. WaterfallsAligned'
          BY <5>1 DEF WaterfallsAligned, Aligned, Present
        <5> QED
          BY <5>1, <5>2, <5>3 DEF WaterfallInv
      <4>3. CASE ~WithWaveforms
        <5>1. TotalRow(order) \in Rows
          BY <3>2, NewRows
        <5>2. total' \in Seq(Rows)
          BY <4>1, <5>1, AppendLeftProperties DEF WaterfallInv
        <5> QED
          BY <4>1, <4>3, <5>2 DEF WaterfallInv, WaterfallsAligned
      <4> QED
        BY <4>2, <4>3
    <3> QED
      BY <3>1, <3>2
  <2> QED
    BY <2>1, <2>2
    DEF AnalyzerNext, StreamerStep, UpdateCalls, ViewerStep, Close, Press, analyzerVars, viewVars
<1> QED
  BY <1>1, <1>2, ImplementsStreamer, TypeCorrect, ResultsBelongTogether, CycleInvariant, PTL
  DEF AnalyzerSpec

(* The waterfalls fit together, row by row and at each frequency: however  *)
(* late a waveform turned up and however long it was silent since, no      *)
(* waveform is above the total and the total not above what they add up to *)
(* (emane-spectrum-analyzer:166-215).                                      *)
THEOREM WaterfallsFit == AnalyzerSpec => []WaterfallsAligned
<1>1. WaterfallInv => WaterfallsAligned
  BY DEF WaterfallInv
<1> QED
  BY <1>1, WaterfallInvariant, PTL

-----------------------------------------------------------------------------
(* What data() returned is shown.  A frequency of the range is in the bin  *)
(* that BinOf names: MinFreq is a multiple of the step.                    *)
LEMMA Multiple ==
  ASSUME NEW n \in Nat \ {0}, NEW q \in Nat
  PROVE  (q * n) % n = 0
<1> DEFINE t == q * n
           p == t \div n
           r == t % n
<1>1. t \in Nat
  OBVIOUS
<1>2. p \in Nat /\ r \in 0 .. n - 1 /\ q * n = n * p + r /\ n * p \in Nat
  <2> HIDE DEF t
  <2>1. p \in Nat /\ r \in 0 .. n - 1 /\ t = n * p + r /\ n * p \in Nat
    BY <1>1, Remainder
  <2> QED
    BY <2>1 DEF t
<1>3. (q * n) % n = r
  OBVIOUS
<1> HIDE DEF p, r
<1>4. r = n * (q - p)
  <2>1. n * (q - p) = q * n - n * p
    BY <1>2
  <2> QED
    BY <1>2, <2>1
<1>5. r = 0
  <2>1. CASE q - p >= 1
    <3>1. n * (q - p) >= n
      BY <1>2, <2>1
    <3> QED
      BY <1>2, <1>4, <3>1
  <2>2. CASE q - p <= -1
    <3>1. n * (q - p) <= -n
      BY <1>2, <2>2
    <3> QED
      BY <1>2, <1>4, <3>1
  <2>3. CASE q - p = 0
    BY <1>2, <1>4, <2>3
  <2> QED
    BY <1>2, <2>1, <2>2, <2>3
<1> QED
  BY <1>3, <1>5

LEMMA BinOfFrequency ==
  ASSUME NEW f \in MinFreq .. MaxFreq
  PROVE  BinOf(f) \in FreqValues /\ f \in InBin(BinOf(f))
<1> DEFINE n == HzStep
           q == f \div n
           m == HzMin \div n
           r == f % n
<1>1. n \in Nat \ {0} /\ MinFreq \in Nat /\ MaxFreq \in Nat /\ f \in Nat /\ HzMin \in Nat
  BY AnalyzerAssumption, RangeTypes
<1>2. MinFreq = m * n /\ BinOf(f) = q * n
  BY DEF MinFreq, BinOf
<1>3. m \in Nat /\ q \in Nat /\ r \in 0 .. n - 1 /\ f = n * q + r
  BY <1>1, Remainder
<1>4. (q * n) % n = 0
  BY <1>1, <1>3, Multiple
<1>5. m * n <= f /\ f <= MaxFreq
  BY <1>1, <1>2
<1>6. \A b \in FreqValues : InBin(b) = {g \in b .. b + n - 1 : g <= MaxFreq}
  BY DEF InBin
<1>7. FreqValues = {g \in MinFreq .. MaxFreq : g % n = 0}
  BY DEF FreqValues
<1> HIDE DEF n, q, m, r
<1>8. m <= q
  <2> SUFFICES ASSUME q + 1 <= m PROVE FALSE
    BY <1>3
  <2>1. n * (q + 1) <= n * m
    BY <1>1, <1>3
  <2>2. n * (q + 1) = n * q + n /\ n * m = m * n
    BY <1>1, <1>3
  <2> QED
    BY <1>1, <1>3, <1>5, <2>1, <2>2
<1>9. m * n <= q * n /\ q * n \in Nat /\ m * n \in Nat /\ q * n = n * q
  BY <1>1, <1>3, <1>8
<1> DEFINE b == q * n
<1>10. b \in Nat /\ MinFreq <= b /\ f = b + r /\ b % n = 0
  BY <1>2, <1>3, <1>4, <1>9
<1> HIDE DEF b
<1>11. b <= MaxFreq /\ f \in b .. b + n - 1
  BY <1>1, <1>3, <1>5, <1>10
<1>12. b \in FreqValues
  BY <1>1, <1>7, <1>10, <1>11
<1>13. f \in InBin(b)
  BY <1>5, <1>6, <1>11, <1>12
<1> QED
  BY <1>2, <1>12, <1>13 DEF b

(* The band that _create_df counts out in steps is where a key is sent on. *)
LEMMA BandIsSentOn ==
  ASSUME TypeOK, NEW k \in Keys, NEW f \in MinFreq .. MaxFreq
  PROVE  f \in Band(k) <=> SentOn(k, f)
<1> DEFINE n == HzStep
           width == result.bandwidth[SubidOf[k]]
           low == FreqOf[k] - width \div 2
           w == width \div n
<1>1. n \in Nat \ {0} /\ width \in Nat /\ FreqOf[k] \in Nat /\ f \in Nat
  BY KeysAssumption, AnalyzerAssumption, RangeTypes DEF TypeOK
<1>2. f \in Band(k) <=> \E i \in 0 .. w : f = low + i * n
  BY DEF Band
<1>3. SentOn(k, f) <=> f \in low .. low + width /\ (f - low) % n = 0
  BY DEF SentOn
<1>4. low \in Int
  BY <1>1
<1>5. w \in Nat /\ width % n \in 0 .. n - 1 /\ width = n * w + (width % n)
  <2> HIDE DEF width
  <2> QED
    BY <1>1, Remainder
<1> DEFINE r == width % n
<1>6. r \in 0 .. n - 1 /\ width = n * w + r
  BY <1>5
<1> HIDE DEF n, width, low, w, r
<1>7. ASSUME NEW i \in 0 .. w, f = low + i * n
      PROVE  f \in low .. low + width /\ (f - low) % n = 0
  <2>1. i \in Nat /\ i <= w
    BY <1>5
  <2>2. n * i <= n * w /\ i * n \in Nat /\ i * n = n * i
    BY <1>1, <1>5, <2>1
  <2>3. (i * n) % n = 0
    BY <1>1, <2>1, Multiple
  <2> DEFINE t == i * n
             v == n * w
  <2>4. t \in Nat /\ t <= v /\ f = low + t /\ width = v + r /\ v \in Nat /\ t % n = 0
    BY <1>1, <1>5, <1>6, <1>7, <2>2, <2>3
  <2> HIDE DEF t, v
  <2>5. f - low = t /\ f \in low .. low + width
    BY <1>1, <1>4, <1>6, <2>4
  <2> QED
    BY <2>4, <2>5
<1>8. ASSUME f \in low .. low + width, (f - low) % n = 0
      PROVE  \E i \in 0 .. w : f = low + i * n
  <2> DEFINE t == f - low
             i == t \div n
  <2>1. t \in Nat /\ t <= width /\ t % n = 0 /\ f = low + t
    BY <1>1, <1>4, <1>8
  <2> HIDE DEF t
  <2>2. i \in Nat /\ t = n * i + (t % n) /\ n * i \in Nat
    BY <1>1, <2>1, Remainder
  <2> HIDE DEF i
  <2>3. t = n * i
    BY <2>1, <2>2
  <2>4. i <= w
    <3> SUFFICES ASSUME w + 1 <= i PROVE FALSE
      BY <1>5, <2>2
    <3>1. n * (w + 1) <= n * i /\ n * (w + 1) = n * w + n
      BY <1>1, <1>5, <2>2
    <3> DEFINE v == n * w
    <3>2. v + n <= t /\ v \in Nat /\ width = v + r
      BY <1>1, <1>5, <1>6, <2>3, <3>1
    <3> HIDE DEF v
    <3> QED
      BY <1>1, <1>6, <2>1, <3>2
  <2>5. i \in 0 .. w /\ n * i = i * n
    BY <1>1, <1>5, <2>2, <2>4
  <2>6. f = low + i * n
    BY <2>1, <2>3, <2>5
  <2> QED
    BY <2>5, <2>6
<1> QED
  BY <1>2, <1>3, <1>7, <1>8

(* The new row of the total shows what is in the store, and only that.     *)
LEMMA TotalShows ==
  ASSUME TypeOK, InStore # {}, NEW order \in SetToSeqs(StoreFreqs)
  PROVE  /\ \A k \in InStore : \A f \in MinFreq .. MaxFreq :
              /\ SentOn(k, f)
              /\ \A l \in InStore \ {k} : SubidOf[l] = SubidOf[k] => ~SentOn(l, f)
              => TotalRow(order)[BinOf(f)] >= result.energy[k]
         /\ \A b \in FreqValues :
              TotalRow(order)[b] > NoiseFloor =>
                \E k \in InStore : result.energy[k] > 0 /\ \E f \in InBin(b) : SentOn(k, f)
<1>1. IsFiniteSet(ShownSubids)
  <2>1. ShownSubids \subseteq Subids
    BY KeysAssumption DEF ShownSubids, InStore
  <2> QED
    BY <2>1, AnalyzerAssumption, FS_Subset
<1>2. ASSUME NEW b \in FreqValues
      PROVE  \E sum \in Nat :
               /\ TotalRow(order)[b] = Shown(sum)
               /\ \A s \in ShownSubids : BinEnergy(b, s, order) <= sum
               /\ sum > 0 => \E s \in ShownSubids : BinEnergy(b, s, order) > 0
  <2> DEFINE S == ShownSubids
             f == [s \in S |-> BinEnergy(b, s, order)]
  <2>1. TotalRow(order)[b] = Shown(SumFunction(f))
    BY DEF TotalRow
  <2>2. f \in [S -> Nat] /\ \A s \in S : f[s] = BinEnergy(b, s, order)
    BY BinIsLargest
  <2>3. IsFiniteSet(S)
    BY <1>1
  <2> HIDE DEF f, S
  <2>4. /\ SumFunction(f) \in Nat
        /\ \A s \in S : f[s] <= SumFunction(f)
        /\ SumFunction(f) > 0 => \E s \in S : f[s] > 0
    BY <2>2, <2>3, SumProperties
  <2> QED
    BY <2>1, <2>2, <2>4 DEF S
<1>3. ASSUME NEW k \in InStore, NEW f \in MinFreq .. MaxFreq, SentOn(k, f),
             \A l \in InStore \ {k} : SubidOf[l] = SubidOf[k] => ~SentOn(l, f)
      PROVE  TotalRow(order)[BinOf(f)] >= result.energy[k]
  <2> DEFINE b == BinOf(f)
             s == SubidOf[k]
  <2>1. b \in FreqValues /\ f \in InBin(b)
    BY BinOfFrequency
  <2>2. InStore \subseteq Keys /\ s \in ShownSubids
    BY DEF InStore, ShownSubids
  <2>3. Covering(f, s) = {k}
    BY <1>3, <2>2, BandIsSentOn DEF Covering
  <2>4. Model(f, s, order) = result.energy[k]
    BY <2>3, ModelOfCovering
  <2> HIDE DEF b, s
  <2>5. /\ BinEnergy(b, s, order) \in Nat
        /\ Model(f, s, order) \in Nat
        /\ Model(f, s, order) <= BinEnergy(b, s, order)
    BY <2>1, BinIsLargest, ModelOfCovering
  <2>6. PICK sum \in Nat : /\ TotalRow(order)[b] = Shown(sum)
                           /\ BinEnergy(b, s, order) <= sum
    BY <1>2, <2>1, <2>2
  <2>7. Shown(sum) \in Nat /\ sum <= Shown(sum)
    BY ShownProperties
  <2> QED
    BY <2>4, <2>5, <2>6, <2>7 DEF b
<1>4. ASSUME NEW b \in FreqValues, TotalRow(order)[b] > NoiseFloor
      PROVE  \E k \in InStore : result.energy[k] > 0 /\ \E f \in InBin(b) : SentOn(k, f)
  <2>1. PICK sum \in Nat :
          /\ TotalRow(order)[b] = Shown(sum)
          /\ sum > 0 => \E s \in ShownSubids : BinEnergy(b, s, order) > 0
    BY <1>2
  <2>2. sum > 0
    BY <1>4, <2>1, AnalyzerAssumption DEF Shown, Larger
  <2>3. PICK s \in ShownSubids : BinEnergy(b, s, order) > 0
    BY <2>1, <2>2
  <2>4. PICK f \in InBin(b) : BinEnergy(b, s, order) = Model(f, s, order)
    BY BinIsLargest
  <2>5. Model(f, s, order) > 0
    BY <2>3, <2>4
  <2>6. Covering(f, s) # {}
    BY <2>5, ModelOfCovering
  <2>7. PICK k \in Covering(f, s) : Model(f, s, order) = result.energy[k]
    BY <2>6, ModelOfCovering
  <2>8. k \in InStore /\ k \in Keys /\ f \in Band(k) /\ result.energy[k] > 0
    BY <2>5, <2>7 DEF Covering, InStore
  <2>9. f \in MinFreq .. MaxFreq
    BY <2>8 DEF Band
  <2> QED
    BY <2>8, <2>9, BandIsSentOn
<1> QED
  BY <1>3, <1>4

(* What data() returned is shown: a power on a frequency of the range that *)
(* no other signal of its waveform is sent on has a row that is at least   *)
(* as high there, and a row above the noise has a signal there             *)
(* (emane-spectrum-analyzer:64-160).                                       *)
THEOREM EnergyIsShown == AnalyzerSpec => []EnergyShown
<1>1. AnalyzerInit => EnergyShown
  <2> SUFFICES ASSUME AnalyzerInit PROVE InStore = {}
    BY DEF EnergyShown
  <2>1. result.energy = Nothing
    BY DEF AnalyzerInit, Init
  <2> QED
    BY <2>1 DEF InStore, Nothing
<1>2. TypeOK /\ WaterfallInv /\ EnergyShown /\ [AnalyzerNext]_analyzerVars => EnergyShown'
  <2> SUFFICES ASSUME TypeOK, WaterfallInv, EnergyShown, [AnalyzerNext]_analyzerVars
               PROVE  EnergyShown'
    OBVIOUS
  <2>1. CASE caller' = "idle" => caller = "idle" /\ UNCHANGED <<result, total>>
    BY <2>1 DEF EnergyShown, InStore, SentOn
  <2>2. CASE Draw
    <3>1. result' = result
      BY <2>2 DEF Draw, DataReturns
    <3>2. InStore' = InStore
      BY <3>1 DEF InStore
    <3>3. CASE InStore = {}
      BY <3>2, <3>3 DEF EnergyShown
    <3>4. CASE InStore # {}
      <4>1. PICK order \in SetToSeqs(StoreFreqs) : total' = AppendLeft(total, TotalRow(order))
        BY <2>2, <3>4 DEF Draw
      <4>2. TotalRow(order) \in Rows
        BY <3>4, NewRows
      <4>3. total'[1] = TotalRow(order)
        BY <4>1, <4>2, AppendLeftProperties DEF WaterfallInv
      <4> QED
        BY <3>1, <3>4, <4>3, TotalShows DEF EnergyShown, InStore, SentOn
    <3> QED
      BY <3>3, <3>4
  <2>3. CASE DataCopies \/ DataClears \/ DataAcquires \/ Call
    BY <2>3 DEF DataCopies, DataClears, DataAcquires, Call, EnergyShown
  <2>4. CASE UNCHANGED <<caller, result, total>>
    BY <2>1, <2>4
  <2>5. (\E m \in Messages : Send(m) /\ UNCHANGED viewVars) \/ StreamerStep \/ Press \/ Close
        => UNCHANGED <<caller, result, total>>
    BY DEF Send, StreamerStep, ReceiverStep, ChecksCancel, PollTimesOut, Receive, UpdateAcquires,
           UpdateMerges, UpdateRaises, UpdateBandwidth, UpdateReleases, Press, Close, Stop,
           vars, callerVars, viewVars
  <2> QED
    BY <2>2, <2>3, <2>4, <2>5
    DEF AnalyzerNext, UpdateCalls, ViewerStep, analyzerVars, vars
<1> QED
  BY <1>1, <1>2, ImplementsStreamer, TypeCorrect, WaterfallInvariant, PTL DEF AnalyzerSpec
===============================================================================
