--------------------------- MODULE EnergyStreamer ---------------------------
(***************************************************************************)
(* SpectrumEnergyStreamer (spectrumenergystreamer.py): a receiver thread   *)
(* merges the energy of the SpectrumEnergy messages it is sent into a      *)
(* store, and callers of data() take the store's contents.  A lock guards  *)
(* the store.  update() holds it across a call that raises when a          *)
(* frequency comes without a single energy measurement, and does not       *)
(* release it then.                                                        *)
(*                                                                         *)
(* A message maps each key, a (frequency, subid) pair, to the largest of   *)
(* its energy measurements: Absent when the message does not have the key, *)
(* NoBins when it has the key with no measurement.  A publisher sends a    *)
(* key at most once in a message.                                          *)
(***************************************************************************)
EXTENDS Integers, Sequences

CONSTANTS
  Keys,        \* (frequency, subid) pairs
  Subids,      \* subids
  SubidOf,     \* the subid of a key
  Powers,      \* powers, the largest of a key's measurements
  Messages,    \* the messages a publisher may send
  QueueLimit,  \* the subscriber socket's high-water mark
  MaxMessages, \* bound: messages sent in a behaviour
  MaxCalls     \* bound: calls of data() in a behaviour

Absent == -1
NoBins == -2
Nothing == [k \in Keys |-> Absent]

ASSUME PowersAssumption == Powers \subseteq Nat
ASSUME KeysAssumption == SubidOf \in [Keys -> Subids]
ASSUME MessagesAssumption ==
  /\ Messages \subseteq [energy : [Keys -> Powers \cup {Absent, NoBins}],
                         bandwidth : [Subids -> Nat]]
  /\ \A m \in Messages : \A k \in Keys :
        m.energy[k] # Absent => m.bandwidth[SubidOf[k]] > 0
ASSUME BoundsAssumption ==
  QueueLimit \in Nat /\ MaxMessages \in Nat /\ MaxCalls \in Nat

VARIABLES
  queue,     \* messages waiting in the subscriber socket
  sent,      \* messages sent so far
  cancelled, \* _cancel_event
  receiver,  \* where the receiver thread is
  message,   \* the message it is updating the store with
  unread,    \* keys of that message not merged yet
  lock,      \* who holds _lock
  store,     \* _store: per key, the largest power since the last data()
  bandwidth, \* _subid_info: per subid, its bandwidth; 0 before it is known
  caller,    \* where the caller of data() is
  calls,     \* calls of data() so far
  result,    \* what the last call copied
  merged,    \* history: per key, the largest power ever merged
  returned   \* history: per key, the largest power data() ever returned

vars == <<queue, sent, cancelled, receiver, message, unread, lock, store, bandwidth,
          caller, calls, result, merged, returned>>

receiverVars == <<receiver, message, unread, bandwidth, merged>>
callerVars == <<caller, calls, result, returned>>

LargerAsSum(a, b) == IF a = Absent THEN b ELSE IF b = Absent THEN a ELSE a + b
Larger(a, b) == IF a >= b THEN a ELSE b

KeysOf(m) == {k \in Keys : m.energy[k] # Absent}

-----------------------------------------------------------------------------
(* A publisher sends a message; the socket drops what exceeds its limit.   *)
Send(m) ==
  /\ sent < MaxMessages
  /\ sent' = sent + 1
  /\ queue' = IF Len(queue) < QueueLimit THEN Append(queue, m) ELSE queue
  /\ UNCHANGED <<cancelled, lock, store, receiverVars, callerVars>>

(* stop()                                                                  *)
Stop ==
  /\ ~cancelled
  /\ cancelled' = TRUE
  /\ UNCHANGED <<queue, sent, lock, store, receiverVars, callerVars>>

-----------------------------------------------------------------------------
(* _run: look at the cancel event, poll for 100 ms, receive one message    *)
(* and call update() with it.                                              *)
ChecksCancel ==
  /\ receiver = "check"
  /\ receiver' = IF cancelled THEN "stopped" ELSE "poll"
  /\ UNCHANGED <<queue, sent, cancelled, message, unread, lock, store, bandwidth,
                 merged, callerVars>>

PollTimesOut ==
  /\ receiver = "poll"
  /\ queue = << >>
  /\ receiver' = "check"
  /\ UNCHANGED <<queue, sent, cancelled, message, unread, lock, store, bandwidth,
                 merged, callerVars>>

Receive ==
  /\ receiver = "poll"
  /\ queue # << >>
  /\ message' = Head(queue)
  /\ queue' = Tail(queue)
  /\ receiver' = "update"
  /\ UNCHANGED <<sent, cancelled, unread, lock, store, bandwidth, merged, callerVars>>

(* update()                                                                *)
UpdateAcquiresUnguarded ==
  /\ receiver = "update"
  /\ lock' = "receiver"
  /\ unread' = KeysOf(message)
  /\ receiver' = "merging"
  /\ UNCHANGED <<queue, sent, cancelled, message, store, bandwidth, merged, callerVars>>

UpdateAcquires ==
  /\ receiver = "update"
  /\ lock = "free"
  /\ lock' = "receiver"
  /\ unread' = KeysOf(message)
  /\ receiver' = "merging"
  /\ UNCHANGED <<queue, sent, cancelled, message, store, bandwidth, merged, callerVars>>

UpdateOverwrites(k) ==
  /\ receiver = "merging"
  /\ k \in unread
  /\ message.energy[k] # NoBins
  /\ store' = [store EXCEPT ![k] = message.energy[k]]
  /\ merged' = [merged EXCEPT ![k] = Larger(@, message.energy[k])]
  /\ unread' = unread \ {k}
  /\ UNCHANGED <<queue, sent, cancelled, receiver, message, lock, bandwidth, callerVars>>

UpdateMerges(k) ==
  /\ receiver = "merging"
  /\ k \in unread
  /\ message.energy[k] # NoBins
  /\ store' = [store EXCEPT ![k] = Larger(@, message.energy[k])]
  /\ merged' = [merged EXCEPT ![k] = Larger(@, message.energy[k])]
  /\ unread' = unread \ {k}
  /\ UNCHANGED <<queue, sent, cancelled, receiver, message, lock, bandwidth, callerVars>>

(* max([]) raises: the thread ends, and the lock stays acquired.           *)
UpdateRaises(k) ==
  /\ receiver = "merging"
  /\ k \in unread
  /\ message.energy[k] = NoBins
  /\ receiver' = "failed"
  /\ UNCHANGED <<queue, sent, cancelled, message, unread, lock, store, bandwidth,
                 merged, callerVars>>

UpdateBandwidth ==
  /\ receiver = "merging"
  /\ unread = {}
  /\ bandwidth' = [s \in Subids |-> IF message.bandwidth[s] # 0
                                    THEN message.bandwidth[s] ELSE bandwidth[s]]
  /\ receiver' = "updated"
  /\ UNCHANGED <<queue, sent, cancelled, message, unread, lock, store, merged, callerVars>>

UpdateKeepsLock ==
  /\ receiver = "updated"
  /\ receiver' = "check"
  /\ UNCHANGED <<queue, sent, cancelled, message, unread, lock, store, bandwidth, merged,
                 callerVars>>

UpdateReleases ==
  /\ receiver = "updated"
  /\ lock' = "free"
  /\ receiver' = "check"
  /\ UNCHANGED <<queue, sent, cancelled, message, unread, store, bandwidth, merged,
                 callerVars>>

-----------------------------------------------------------------------------
(* data()                                                                  *)
Call ==
  /\ caller = "idle"
  /\ calls < MaxCalls
  /\ calls' = calls + 1
  /\ caller' = "waiting"
  /\ UNCHANGED <<queue, sent, cancelled, lock, store, receiverVars, result, returned>>

DataAcquiresUnguarded ==
  /\ caller = "waiting"
  /\ lock' = "caller"
  /\ caller' = "locked"
  /\ UNCHANGED <<queue, sent, cancelled, store, receiverVars, calls, result, returned>>

DataAcquires ==
  /\ caller = "waiting"
  /\ lock = "free"
  /\ lock' = "caller"
  /\ caller' = "locked"
  /\ UNCHANGED <<queue, sent, cancelled, store, receiverVars, calls, result, returned>>

DataCopies ==
  /\ caller = "locked"
  /\ result' = [energy |-> store, bandwidth |-> bandwidth]
  /\ returned' = [k \in Keys |-> Larger(returned[k], store[k])]
  /\ caller' = "copied"
  /\ UNCHANGED <<queue, sent, cancelled, lock, store, receiverVars, calls>>

DataClears ==
  /\ caller = "copied"
  /\ store' = Nothing
  /\ caller' = "cleared"
  /\ UNCHANGED <<queue, sent, cancelled, lock, receiverVars, calls, result, returned>>

DataReturns ==
  /\ caller = "cleared"
  /\ lock' = "free"
  /\ caller' = "idle"
  /\ UNCHANGED <<queue, sent, cancelled, store, receiverVars, calls, result, returned>>

-----------------------------------------------------------------------------
Init ==
  /\ queue = << >> /\ sent = 0 /\ cancelled = FALSE
  /\ receiver = "check" /\ message \in Messages /\ unread = {}
  /\ lock = "free" /\ store = Nothing
  /\ bandwidth = [s \in Subids |-> 0]
  /\ caller = "idle" /\ calls = 0
  /\ result = [energy |-> Nothing, bandwidth |-> bandwidth]
  /\ merged = Nothing /\ returned = Nothing

ReceiverStep ==
  \/ ChecksCancel
  \/ PollTimesOut
  \/ Receive
  \/ UpdateAcquires
  \/ \E k \in Keys : UpdateMerges(k)
  \/ \E k \in Keys : UpdateRaises(k)
  \/ UpdateBandwidth
  \/ UpdateReleases

CallerStep ==
  \/ DataAcquires
  \/ DataCopies
  \/ DataClears
  \/ DataReturns

Next ==
  \/ \E m \in Messages : Send(m)
  \/ Stop
  \/ ReceiverStep
  \/ Call
  \/ CallerStep

Spec == Init /\ [][Next]_vars

(* Both threads keep running; whoever waits for a lock that is released    *)
(* again and again gets it at some time.  Nobody has to call, send or stop.*)
Fairness ==
  /\ WF_vars(ReceiverStep) /\ SF_vars(UpdateAcquires)
  /\ WF_vars(CallerStep) /\ SF_vars(DataAcquires)

FairSpec == Spec /\ Fairness

-----------------------------------------------------------------------------
(* The variables have their types.                                         *)
TypeOK ==
  /\ queue \in Seq(Messages) /\ sent \in Nat /\ calls \in Nat
  /\ cancelled \in BOOLEAN
  /\ receiver \in {"check", "poll", "update", "merging", "updated", "stopped", "failed"}
  /\ message \in Messages
  /\ unread \subseteq Keys
  /\ lock \in {"free", "receiver", "caller"}
  /\ store \in [Keys -> Powers \cup {Absent}]
  /\ bandwidth \in [Subids -> Nat]
  /\ caller \in {"idle", "waiting", "locked", "copied", "cleared"}
  /\ result \in [energy : [Keys -> Powers \cup {Absent}], bandwidth : [Subids -> Nat]]
  /\ merged \in [Keys -> Powers \cup {Absent}]
  /\ returned \in [Keys -> Powers \cup {Absent}]

(* No power that was ever merged is lost between two calls of data(): it   *)
(* was returned by a call, or a larger one of its key was, or the store    *)
(* still has it; and nothing is returned that was not received.            *)
NothingLost ==
  \A k \in Keys :
     merged[k] = IF caller = "copied" THEN returned[k]
                 ELSE Larger(returned[k], store[k])

(* A result of data() belongs together: every power in it comes with the   *)
(* bandwidth of its subid.                                                 *)
ResultHasBandwidth ==
  \A k \in Keys : result.energy[k] # Absent => result.bandwidth[SubidOf[k]] > 0

(* data() returns, unless an exception in update() ended the receiver.     *)
DataReturnsUnlessFailed == caller = "waiting" ~> caller = "idle" \/ receiver = "failed"

(* The streamer is a max-hold buffer.  A message counts as absorbed when   *)
(* update() acquires the lock, the buffer as taken when data() has copied  *)
(* the store.                                                              *)
Pending(k) == IF k \in unread /\ message.energy[k] # NoBins
              THEN message.energy[k] ELSE Absent

Held == IF caller = "copied" THEN Nothing
        ELSE [k \in Keys |-> Larger(store[k], Pending(k))]

Hold == INSTANCE MaxHold WITH held <- Held, result <- result.energy

ImplementsMaxHold == Hold!HoldSpec
=============================================================================
