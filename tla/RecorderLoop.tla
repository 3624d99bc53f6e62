----------------------------- MODULE RecorderLoop -----------------------------
(***************************************************************************)
(* The main loop of emane-spectrum-ota-recorder (recorder.cc) and its      *)
(* record file.  The loop waits for its two multicast sockets and for an   *)
(* eventfd the signal handler writes to, collects the records of what is   *)
(* ready, one datagram from each socket, and writes them to the file, each *)
(* behind its length.  The file is buffered; the process may be killed at  *)
(* any instant and started again, which truncates the file.                *)
(*                                                                         *)
(* A datagram of the event socket is [socket, length, claimed]: its bytes, *)
(* and the bytes of event data it says it has.  One of the ota socket is   *)
(* [socket, yields, returns]: the records OTAExtractor makes of it, and    *)
(* whether process() returns (OtaReassembly shows when it does not).  A    *)
(* record is [type, size], size the bytes of its serialization.            *)
(***************************************************************************)
EXTENDS Integers, Sequences, FiniteSets, SequencesExt

CONSTANTS
  Datagrams,    \* what the multicast groups carry
  HeaderSize,   \* bytes of the length in front of a record
  MaxDatagrams, \* bound: datagrams in a behaviour
  MaxSignals,   \* bound: signals in a behaviour
  MaxRuns       \* bound: times the recorder is started

Sockets == {"event", "ota"}
Records == [type : {"event", "ota"}, size : Nat]

ASSUME DatagramsAssumption ==
  \A d \in Datagrams :
     \/ d.socket = "event" /\ d.length \in Nat \ {0} /\ d.claimed \in Nat
     \/ /\ d.socket = "ota"
        /\ d.returns \in BOOLEAN
        /\ d.yields \in Seq(Records)
ASSUME BoundsAssumption ==
  /\ HeaderSize \in Nat \ {0}
  /\ MaxDatagrams \in Nat /\ MaxSignals \in Nat /\ MaxRuns \in Nat

VARIABLES
  phase,     \* where main() is
  runs,      \* how often the recorder was started
  arrived,   \* datagrams so far
  signals,   \* signals so far
  sockets,   \* per socket, the datagrams waiting in it
  eventfd,   \* the eventfd's counter
  bRun,      \* bRun
  ready,     \* what epoll_wait returned and is not handled yet
  records,   \* records of this turn of the loop that are not written yet
  stream,    \* the bytes written to recorderFileStream
  flushed,   \* how many of them the file has
  collected  \* history: the records of this run, in the order of their datagrams

vars == <<phase, runs, arrived, signals, sockets, eventfd, bRun, ready, records, stream,
          flushed, collected>>
environment == <<runs, arrived, signals>>
file == <<stream, flushed>>

Phases == {"off", "opening", "waiting", "handling", "writing", "stuck", "closed"}
Alive == phase \notin {"off", "closed"}
Listening == phase \in {"waiting", "handling", "writing", "stuck"}

-----------------------------------------------------------------------------
(* main() up to the loop: the record file is truncated before the sockets  *)
(* and the signal handler are there.                                       *)
NewProcess ==
  /\ sockets' = [s \in Sockets |-> << >>]
  /\ eventfd' = 0 /\ bRun' = TRUE /\ ready' = << >> /\ records' = << >>

StartUntruncated ==
  /\ ~Alive
  /\ runs < MaxRuns
  /\ runs' = runs + 1
  /\ phase' = "opening"
  /\ stream' = << >>
  /\ collected' = << >>
  /\ NewProcess
  /\ UNCHANGED <<arrived, signals, flushed>>

Start ==
  /\ ~Alive
  /\ runs < MaxRuns
  /\ runs' = runs + 1
  /\ phase' = "opening"
  /\ stream' = << >> /\ flushed' = 0
  /\ collected' = << >>
  /\ NewProcess
  /\ UNCHANGED <<arrived, signals>>

(* Before that, main may end without a word in the file: no record file is *)
(* named, a daemon logs to stdout, daemon() or the scheduler refuses, the  *)
(* pid or the uuid file cannot be written.                                 *)
Refuses ==
  /\ ~Alive
  /\ runs < MaxRuns
  /\ runs' = runs + 1
  /\ phase' = "off"
  /\ UNCHANGED <<arrived, signals, sockets, eventfd, bRun, ready, records, file, collected>>

EntersLoop ==
  /\ phase = "opening"
  /\ phase' = "waiting"
  /\ UNCHANGED <<environment, sockets, eventfd, bRun, ready, records, file, collected>>

(* The file, a group's address, a socket or epoll fails: the process ends. *)
StartFails ==
  /\ phase = "opening"
  /\ phase' = "off"
  /\ UNCHANGED <<environment, sockets, eventfd, bRun, ready, records, file, collected>>

(* epoll_wait: what is ready, in whatever order.                           *)
ReadyNow ==
  {s \in Sockets : sockets[s] # << >>} \cup {fd \in {"eventfd"} : eventfd > 0}

EpollWaitReturns ==
  /\ phase = "waiting"
  /\ ReadyNow # {}
  /\ ready' \in SetToSeqs(ReadyNow)
  /\ phase' = "handling"
  /\ UNCHANGED <<environment, sockets, eventfd, bRun, records, file, collected>>

(* An error of epoll_wait that is not an interruption ends the loop.       *)
EpollWaitFails ==
  /\ phase = "waiting"
  /\ phase' = "closed" /\ flushed' = Len(stream)
  /\ UNCHANGED <<environment, sockets, eventfd, bRun, ready, records, stream, collected>>

(* A readable eventfd ends the turn: what else was ready stays unread.     *)
HandlesEventfdAtOnce ==
  /\ phase = "handling" /\ ready # << >>
  /\ Head(ready) = "eventfd"
  /\ eventfd' = 0
  /\ bRun' = FALSE
  /\ ready' = << >>
  /\ phase' = "closed"
  /\ flushed' = Len(stream)
  /\ UNCHANGED <<environment, sockets, records, stream, collected>>

HandlesEventfd ==
  /\ phase = "handling" /\ ready # << >>
  /\ Head(ready) = "eventfd"
  /\ eventfd' = 0
  /\ bRun' = FALSE
  /\ ready' = << >>
  /\ phase' = "writing"
  /\ UNCHANGED <<environment, sockets, records, file, collected>>

(* EventExtractor::process: the data of an event, if all of it is there    *)
(* and nothing else.                                                       *)
LengthSize == 2
EventRecords(d) ==
  IF d.length >= LengthSize /\ d.length - LengthSize = d.claimed
  THEN <<[type |-> "event", size |-> d.claimed]>> ELSE << >>

Returns(d) == d.socket = "event" \/ d.returns
Yields(d) == IF d.socket = "event" THEN EventRecords(d) ELSE d.yields

(* A readable socket: one datagram is received and handed to the socket's  *)
(* extractor.                                                              *)
HandlesSocketSplicedFirst(s) ==
  /\ phase = "handling" /\ ready # << >>
  /\ Head(ready) = s
  /\ LET d == Head(sockets[s])
     IN  IF Returns(d)
         THEN /\ records' = Yields(d) \o records
              /\ collected' = collected \o Yields(d)
              /\ ready' = Tail(ready)
              /\ UNCHANGED phase
         ELSE /\ phase' = "stuck"
              /\ UNCHANGED <<records, collected, ready>>
  /\ sockets' = [sockets EXCEPT ![s] = Tail(@)]
  /\ UNCHANGED <<environment, eventfd, bRun, file>>

HandlesSocket(s) ==
  /\ phase = "handling" /\ ready # << >>
  /\ Head(ready) = s
  /\ LET d == Head(sockets[s])
     IN  IF Returns(d)
         THEN /\ records' = records \o Yields(d)
              /\ collected' = collected \o Yields(d)
              /\ ready' = Tail(ready)
              /\ UNCHANGED phase
         ELSE /\ phase' = "stuck"
              /\ UNCHANGED <<records, collected, ready>>
  /\ sockets' = [sockets EXCEPT ![s] = Tail(@)]
  /\ UNCHANGED <<environment, eventfd, bRun, file>>

HandledAll ==
  /\ phase = "handling" /\ ready = << >>
  /\ phase' = "writing"
  /\ UNCHANGED <<environment, sockets, eventfd, bRun, ready, records, file, collected>>

(* The stream passes on any part of what it was written at any write, and  *)
(* all of it when it is closed.                                            *)
Frame(record) == [i \in 1 .. HeaderSize + record.size |-> [of |-> record, at |-> i]]

WritesRecord ==
  /\ phase = "writing" /\ records # << >>
  /\ records' = Tail(records)
  /\ stream' = stream \o Frame(Head(records))
  /\ flushed' \in flushed .. Len(stream) + HeaderSize + Head(records).size
  /\ UNCHANGED <<phase, environment, sockets, eventfd, bRun, ready, collected>>

LoopsForever ==
  /\ phase = "writing" /\ records = << >>
  /\ phase' = "waiting"
  /\ UNCHANGED <<environment, sockets, eventfd, bRun, ready, records, file, collected>>

Loops ==
  /\ phase = "writing" /\ records = << >>
  /\ IF bRun THEN phase' = "waiting" /\ UNCHANGED flushed
     ELSE phase' = "closed" /\ flushed' = Len(stream)
  /\ UNCHANGED <<environment, sockets, eventfd, bRun, ready, records, stream, collected>>

-----------------------------------------------------------------------------
(* A datagram reaches a socket that is open.                               *)
Arrives(d) ==
  /\ arrived < MaxDatagrams
  /\ Listening
  /\ arrived' = arrived + 1
  /\ sockets' = [sockets EXCEPT ![d.socket] = Append(@, d)]
  /\ UNCHANGED <<phase, runs, signals, eventfd, bRun, ready, records, file, collected>>

(* SIGINT or SIGQUIT.  Until the handler is installed the default action   *)
(* ends the process.  An epoll_wait it interrupts is called again.         *)
Signalled ==
  /\ Alive
  /\ signals < MaxSignals
  /\ signals' = signals + 1
  /\ IF phase = "opening" THEN phase' = "off" /\ UNCHANGED eventfd
     ELSE eventfd' = eventfd + 1 /\ UNCHANGED phase
  /\ UNCHANGED <<runs, arrived, sockets, bRun, ready, records, file, collected>>

(* The process is killed: the buffer of the stream is lost.                *)
Killed ==
  /\ Alive
  /\ phase' = "off"
  /\ UNCHANGED <<environment, sockets, eventfd, bRun, ready, records, file, collected>>

Init ==
  /\ phase = "off" /\ runs = 0 /\ arrived = 0 /\ signals = 0
  /\ sockets = [s \in Sockets |-> << >>]
  /\ eventfd = 0 /\ bRun = TRUE /\ ready = << >> /\ records = << >>
  /\ stream = << >> /\ flushed = 0 /\ collected = << >>

LoopStep ==
  \/ EntersLoop
  \/ EpollWaitReturns
  \/ HandlesEventfd
  \/ \E s \in Sockets : HandlesSocket(s)
  \/ HandledAll
  \/ WritesRecord
  \/ Loops

Next ==
  \/ Refuses
  \/ Start
  \/ LoopStep
  \/ \E d \in Datagrams : Arrives(d)
  \/ Signalled
  \/ Killed
  \/ StartFails
  \/ EpollWaitFails

Spec == Init /\ [][Next]_vars

(* The process runs as long as it can take a step; no call has to fail.    *)
FairSpec == Spec /\ WF_vars(LoopStep)

-----------------------------------------------------------------------------
(* What emane-spectrum-ota-record-tool reads from the file as it is: a     *)
(* length, then as many bytes, until either is cut off.                    *)
File == SubSeq(stream, 1, flushed)

ReadRecords(bytes) ==
  LET read[from \in 0 .. Len(bytes)] ==
        IF Len(bytes) - from < HeaderSize THEN << >>
        ELSE LET record == bytes[from + 1].of
                 to == from + HeaderSize + record.size
             IN  IF bytes[from + 1].at # 1 THEN << [type |-> "garbled", size |-> 0] >>
                 ELSE IF to > Len(bytes) THEN << >>
                 ELSE << record >> \o read[to]
  IN  read[0]

(* The variables have their types; the file has no more than the stream    *)
(* was written.                                                            *)
TypeOK ==
  /\ phase \in Phases
  /\ runs \in 0 .. MaxRuns /\ arrived \in 0 .. MaxDatagrams /\ signals \in 0 .. MaxSignals
  /\ sockets \in [Sockets -> Seq(Datagrams)]
  /\ eventfd \in 0 .. MaxSignals
  /\ bRun \in BOOLEAN
  /\ ready \in Seq(Sockets \cup {"eventfd"})
  /\ records \in Seq(Records) /\ collected \in Seq(Records)
  /\ stream \in Seq([of : Records, at : Nat])
  /\ flushed \in 0 .. Len(stream)

(* Whenever the file is read, whatever its writer was killed in the middle *)
(* of, its records are the first ones collected, whole and in the order of *)
(* their datagrams: a torn frame at the end is not taken for a record, and *)
(* no restart leaves the rest of an earlier recording behind.              *)
FileReadsAsPrefix == IsPrefix(ReadRecords(File), collected)

(* A recorder that was stopped by a signal has written every record of     *)
(* every datagram it received, those of the turn that saw the signal too.  *)
CleanStopKeepsAll == phase = "closed" => ReadRecords(File) = collected

(* A signal the handler got ends the loop, whenever it comes and however   *)
(* many datagrams keep the loop busy, unless an extractor does not return. *)
StopsWhenSignalled == eventfd > 0 ~> phase \in {"closed", "off", "stuck"}
=============================================================================
