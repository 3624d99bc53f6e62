--------------------------- MODULE MonitorPhyProofs ---------------------------
(***************************************************************************)
(* The wait of monitor.cc:530-541, the physical layer in the application,  *)
(* and which of the values given for a parameter or the id is used: for    *)
(* every configuration, command line and files, any signals and order of   *)
(* what happens while it runs.                                             *)
(***************************************************************************)
EXTENDS MonitorPhy, NumberInduction, FiniteSetTheorems

(* While main waits, the mutex is its own until the handler has run.       *)
WaitsOnItsLock ==
  /\ pc = "waiting" => mutex = "locked" \/ asked
  /\ pc = "stopping" => asked

(* The second lock is what a signal after the first one lets through, not  *)
(* a mutex that was free all along.                                        *)
LEMMA WaitInvariant == Spec => []WaitsOnItsLock
<1>1. Init => WaitsOnItsLock
  BY DEF Init, WaitsOnItsLock
<1>2. WaitsOnItsLock /\ [Next]_vars => WaitsOnItsLock'
  <2> SUFFICES ASSUME WaitsOnItsLock, [Next]_vars PROVE WaitsOnItsLock'
    OBVIOUS
  <2>1. CASE ParameterOption \/ ConfigOption \/ NemOption \/ FlagOption \/ LevelOption \/ ExtraWord
    BY <2>1 DEF ParameterOption, ConfigOption, NemOption, FlagOption, LevelOption, ExtraWord,
         NextOption, waiting, WaitsOnItsLock
  <2>2. CASE LastOption
    BY <2>2 DEF LastOption, NextOption, WaitsOnItsLock
  <2>3. CASE Prepare
    BY <2>3 DEF Prepare, WaitsOnItsLock
  <2>4. CASE Configure
    BY <2>4 DEF Configure, WaitsOnItsLock
  <2>5. CASE StartManager
    BY <2>5 DEF StartManager, WaitsOnItsLock
  <2>6. CASE InstallHandler
    BY <2>6 DEF InstallHandler, WaitsOnItsLock
  <2>7. CASE FirstLock
    BY <2>7 DEF FirstLock, WaitsOnItsLock
  <2>8. CASE SecondLock
    BY <2>8 DEF SecondLock, WaitsOnItsLock
  <2>9. CASE StopManager
    BY <2>9 DEF StopManager, WaitsOnItsLock
  <2>10. ASSUME NEW s \in Range(Signals), Signal(s) PROVE WaitsOnItsLock'
    BY <2>10 DEF Signal, Handle, WaitsOnItsLock
  <2>11. CASE UNCHANGED vars
    BY <2>11 DEF vars, WaitsOnItsLock
  <2> QED
    BY <2>1, <2>2, <2>3, <2>4, <2>5, <2>6, <2>7, <2>8, <2>9, <2>10, <2>11 DEF Next, Main
<1> QED
  BY <1>1, <1>2, PTL DEF Spec

(* The NEM manager is stopped only after a signal that came while main     *)
(* waited (monitor.cc:530-538).                                            *)
THEOREM StoppedBySignal == Spec => []StopsOnlyWhenSignalled
<1>1. WaitsOnItsLock => StopsOnlyWhenSignalled
  BY DEF WaitsOnItsLock, StopsOnlyWhenSignalled
<1> QED
  BY <1>1, WaitInvariant, PTL

-----------------------------------------------------------------------------
(* Each step of the composition is one of the application, or leaves its   *)
(* variables alone; where the layer refuses, main was free to fail.        *)
LEMMA PhyStep ==
  ASSUME [PhyNext]_monitorPhyVars
  PROVE  [Next]_vars
<1>1. CASE PhyMain
  <2>1. CASE PhyConfigure \/ StartFailsBefore \/ PhyStart \/ PhyStop
    BY <2>1 DEF PhyConfigure, StartFailsBefore, PhyStart, PhyStop, Next, Main
  <2>2. CASE ParameterOption \/ ConfigOption \/ NemOption \/ FlagOption \/ LevelOption
               \/ ExtraWord \/ LastOption \/ Prepare \/ InstallHandler \/ FirstLock
               \/ SecondLock
    BY <2>2 DEF Next, Main
  <2> QED
    BY <1>1, <2>1, <2>2 DEF PhyMain
<1>2. CASE \E s \in Range(Signals) : Signal(s) /\ UNCHANGED phyVars
  BY <1>2 DEF Next
<1>3. CASE \/ \E g \in Gains : ModifyGain(g)
           \/ (\E p \in Pointings : ProfileEvent(p)) \/ Receive \/ Report
  BY <1>3 DEF ModifyGain, ProfileEvent, Receive, Report
<1>4. CASE UNCHANGED monitorPhyVars
  BY <1>4 DEF monitorPhyVars
<1> QED
  BY <1>1, <1>2, <1>3, <1>4 DEF PhyNext

(* The application with its layer implements the application: what is      *)
(* proved of main holds with the layer too.                                *)
THEOREM ImplementsMonitor == PhySpec => Spec
<1>1. PhyInit => Init
  BY DEF PhyInit
<1>2. [PhyNext]_monitorPhyVars => [Next]_vars
  BY PhyStep
<1> QED
  BY <1>1, <1>2, PTL DEF PhySpec, Spec

(* No callback, event or modification of the layer makes main stop the     *)
(* manager without a signal.                                               *)
THEOREM PhyStoppedBySignal == PhySpec => []StopsOnlyWhenSignalled
  BY ImplementsMonitor, StoppedBySignal, PTL

-----------------------------------------------------------------------------
(* The layer's phase follows main's place until main is over.              *)
PhaseFollows ==
  /\ pc \in {"parsing", "prepared"} => phase = "initialized"
  /\ pc = "configured" => phase = "configured"

(* The antennas the manager may have: the one start made of the            *)
(* configuration, which profile events may have turned.                    *)
Made ==
  IF gain.enabled THEN {IdealOmni(gain.value)}
  ELSE {[kind |-> "profile", gain |-> 0, pointing |-> p] : p \in Pointings \cup {NoPointing}}

(* Nothing is received before start; then, with a fixed gain as it was, by *)
(* the manager's antenna or by one that was turned into it since the last  *)
(* report, and by one of a profile only once it has a pointing.            *)
UsedIsMade ==
  /\ phase \in {"initialized", "configured"} => used = {}
  /\ ~(gain.enabled /\ modified) =>
       /\ phase = "started" => antenna \in Made
       /\ used \subseteq {antenna} \cup former
       /\ phase = "started" /\ used # {} /\ ~gain.enabled => antenna.pointing # NoPointing

PhyIInv ==
  /\ PhaseFollows
  /\ UsedIsMade
  /\ FailedStartKeepsRecording

LEMMA PhyInitInvariant ==
  ASSUME PhyInit
  PROVE  PhyIInv
BY DEF PhyInit, Init, PhyIInv, PhaseFollows, UsedIsMade, FailedStartKeepsRecording

(* main before it configures the layer, and while it waits.                *)
LEMMA MainInvariance ==
  ASSUME PhyIInv, UNCHANGED phyVars,
         \/ ParameterOption \/ ConfigOption \/ NemOption \/ FlagOption \/ LevelOption
         \/ ExtraWord \/ LastOption
         \/ Prepare \/ InstallHandler \/ FirstLock \/ SecondLock
  PROVE  PhyIInv'
<1> USE DEF PhyIInv, PhaseFollows, UsedIsMade, Made, FailedStartKeepsRecording, RecorderFile, phyVars
<1>1. CASE \/ ParameterOption \/ ConfigOption \/ NemOption \/ FlagOption \/ LevelOption
           \/ ExtraWord \/ LastOption
  <2>1. pc = "parsing" /\ phase = "initialized"
    BY <1>1 DEF ParameterOption, ConfigOption, NemOption, FlagOption, LevelOption,
         ExtraWord, LastOption, NextOption
  <2>2. pc' \in {"parsing", "exited", "failed"}
    BY <1>1, <2>1 DEF ParameterOption, ConfigOption, NemOption, FlagOption, LevelOption,
         ExtraWord, LastOption, NextOption
  <2> QED
    BY <2>1, <2>2
<1>2. CASE Prepare
  <2>1. pc = "parsing" /\ pc' \in {"prepared", "failed"} /\ args' = args
    BY <1>2 DEF Prepare, Parsed
  <2> QED
    BY <2>1
<1>3. CASE InstallHandler \/ FirstLock \/ SecondLock
  <2>1. pc' \in {"started", "waiting", "stopping"} /\ args' = args
    BY <1>3 DEF InstallHandler, FirstLock, SecondLock, options
  <2> QED
    BY <2>1
<1> QED
  BY <1>1, <1>2, <1>3

(* configure, start and stop of the layer.                                 *)
LEMMA LayerInvariance ==
  ASSUME PhyIInv, PhyConfigure \/ StartFailsBefore \/ PhyStart \/ PhyStop
  PROVE  PhyIInv'
<1> USE DEF PhyIInv, PhaseFollows, UsedIsMade, Made, FailedStartKeepsRecording, RecorderFile
<1>1. CASE PhyConfigure
  <2>1. /\ pc = "prepared" /\ pc' \in {"configured", "failed"}
        /\ phase' \in {"configured", "failed"} /\ (phase' = "failed" => pc' = "failed")
        /\ UNCHANGED <<modified, antenna, recording, used, former>>
    BY <1>1 DEF PhyConfigure, Configure
  <2> QED
    BY <2>1
<1>2. CASE StartFailsBefore
  <2>1. pc' = "failed" /\ args' = args /\ UNCHANGED phyVars
    BY <1>2 DEF StartFailsBefore, StartManager, options
  <2> QED
    BY <2>1 DEF phyVars
<1>3. CASE PhyStart
  <2>1. pc = "configured" /\ pc' \in {"started", "failed"} /\ args' = args
    BY <1>3 DEF PhyStart, StartManager, options
  <2>2. used' = {} /\ UNCHANGED <<gain, modified, former>>
    BY <1>3, <2>1 DEF PhyStart
  <2>3. antenna' \in Made
    BY <1>3 DEF PhyStart, ProfileDefined
  <2>4. /\ phase' \in {"started", "failed"} /\ recording = "earlier"
        /\ phase' = "started" => recording' = IF RecorderFile THEN "own" ELSE recording
        /\ phase' = "failed" => pc' = "failed" /\ recording' = recording
    BY <1>3, <2>1 DEF PhyStart
  <2> QED
    BY <2>1, <2>2, <2>3, <2>4
<1>4. CASE PhyStop
  <2>1. pc' = "exited" /\ phase' = "destroyed"
    BY <1>4 DEF PhyStop, StopManager
  <2> QED
    BY <1>4, <2>1 DEF PhyStop
<1> QED
  BY <1>1, <1>2, <1>3, <1>4

(* What happens while the layer runs.                                      *)
LEMMA RunningInvariance ==
  ASSUME PhyIInv,
         \/ \E g \in Gains : ModifyGain(g)
         \/ \E p \in Pointings : ProfileEvent(p)
         \/ Receive \/ Report
  PROVE  PhyIInv'
<1> USE DEF PhyIInv, PhaseFollows, UsedIsMade, Made, FailedStartKeepsRecording, RecorderFile
<1>1. phase = "started" /\ UNCHANGED <<pc, args, phase, recording>>
  BY DEF ModifyGain, ProfileEvent, Receive, Report, Running, vars
<1>2. CASE \E g \in Gains : ModifyGain(g)
  <2>1. /\ modified' = TRUE /\ UNCHANGED <<antenna, used, former>>
        /\ gain'.enabled = gain.enabled
    BY <1>2 DEF ModifyGain
  <2> QED
    BY <1>1, <2>1
<1>3. ASSUME NEW p \in Pointings, ProfileEvent(p) PROVE PhyIInv'
  <2>1. /\ antenna.kind = "profile" /\ antenna' = [antenna EXCEPT !.pointing = p]
        /\ former' = former \cup {antenna}
        /\ UNCHANGED <<gain, modified, used>>
    BY <1>3 DEF ProfileEvent
  <2>2. p # NoPointing
    BY MonitorPhyAssumption DEF NoPointing
  <2>3. CASE gain.enabled
    <3>1. modified
      BY <1>1, <2>1, <2>3 DEF IdealOmni
    <3> QED
      BY <1>1, <2>1, <2>3, <3>1
  <2>4. CASE ~gain.enabled
    <3>1. /\ antenna' \in Made /\ antenna'.pointing = p
          /\ used \subseteq {antenna} \cup former
      BY <1>1, <2>1, <2>4
    <3> QED
      BY <1>1, <2>1, <2>2, <2>4, <3>1
  <2> QED
    BY <2>3, <2>4
<1>4. CASE Receive
  <2>1. ~gain.enabled => antenna.kind = "profile"
    BY <1>1
  <2>2. /\ antenna.kind = "profile" => antenna.pointing # NoPointing
        /\ used' = used \cup {antenna}
        /\ UNCHANGED <<gain, modified, antenna, former>>
    BY <1>4 DEF Receive
  <2> QED
    BY <1>1, <2>1, <2>2
<1>5. CASE Report
  <2>1. used' = {} /\ UNCHANGED <<gain, modified, antenna>>
    BY <1>5 DEF Report
  <2> QED
    BY <1>1, <2>1
<1> QED
  BY <1>2, <1>3, <1>4, <1>5

(* The invariant ties the recorder file and the antennas of receptions to  *)
(* the phase of the layer and to what start made of the configuration.     *)
THEOREM PhyInductive == PhySpec => []PhyIInv
<1>1. PhyInit => PhyIInv
  BY PhyInitInvariant
<1>2. PhyIInv /\ [PhyNext]_monitorPhyVars => PhyIInv'
  <2> SUFFICES ASSUME PhyIInv, [PhyNext]_monitorPhyVars PROVE PhyIInv'
    OBVIOUS
  <2>1. CASE PhyMain
    BY <2>1, MainInvariance, LayerInvariance DEF PhyMain
  <2>2. ASSUME NEW s \in Range(Signals), Signal(s), UNCHANGED phyVars PROVE PhyIInv'
    <3>1. pc' \in {pc, "killed"} /\ args' = args
      BY <2>2 DEF Signal, Handle, options
    <3> QED
      BY <2>2, <3>1 DEF PhyIInv, PhaseFollows, UsedIsMade, Made,
           FailedStartKeepsRecording, RecorderFile, phyVars
  <2>3. CASE \/ \E g \in Gains : ModifyGain(g)
             \/ \E p \in Pointings : ProfileEvent(p)
             \/ Receive \/ Report
    BY <2>3, RunningInvariance
  <2>4. CASE UNCHANGED monitorPhyVars
    BY <2>4 DEF monitorPhyVars, vars, phyVars, PhyIInv, PhaseFollows, UsedIsMade, Made,
         FailedStartKeepsRecording, RecorderFile
  <2> QED
    BY <2>1, <2>2, <2>3, <2>4 DEF PhyNext
<1> QED
  BY <1>1, <1>2, PTL DEF PhySpec

(* Whenever a report is made, everything it is about was received with the *)
(* antenna it names, or, in a profile's case, with one that a profile      *)
(* event has turned since the report before; with a fixed gain, unless     *)
(* fixedantennagain was modified (monitorphy.cc:538-544, 908-924 and       *)
(* 1082-1103).                                                             *)
THEOREM ReportsAgree == PhySpec => []ReportsAgreeUntilChanged
<1>1. PhyIInv => ReportsAgreeUntilChanged
  <2> SUFFICES ASSUME PhyIInv, Running, ~(gain.enabled /\ modified)
               PROVE  used \subseteq {ReportedAntenna} \cup former
    BY DEF ReportsAgreeUntilChanged
  <2>1. /\ phase = "started" /\ antenna \in Made
        /\ used \subseteq {antenna} \cup former
        /\ used # {} /\ ~gain.enabled => antenna.pointing # NoPointing
    BY DEF PhyIInv, UsedIsMade, Running
  <2>2. used # {} => ReportedAntenna = antenna
    BY <2>1 DEF ReportedAntenna, Made
  <2> QED
    BY <2>1, <2>2
<1> QED
  BY <1>1, PhyInductive, PTL

(* A start that fails, for whatever reason, has not touched an earlier     *)
(* recording (monitorphy.cc:546-582).                                      *)
THEOREM EarlierRecordingKept == PhySpec => []FailedStartKeepsRecording
<1>1. PhyIInv => FailedStartKeepsRecording
  BY DEF PhyIInv
<1> QED
  BY <1>1, PhyInductive, PTL

-----------------------------------------------------------------------------
(* The fold that InsertAll is: one turn of it, on what it gave for fewer   *)
(* places, and that such a fold exists.                                    *)
NextInsert(map, items, g, s) ==
  IF s = {} THEN map ELSE Insert(g[s \ {Max(s)}], items[Max(s)])

IsInsertingUpTo(k, map, items, g) ==
  g = [s \in {t \in SUBSET DOMAIN items : Cardinality(t) <= k} |-> NextInsert(map, items, g, s)]

LEMMA Places ==
  ASSUME NEW s, IsSequence(s)
  PROVE  /\ Len(s) \in Nat /\ DOMAIN s = 1 .. Len(s)
         /\ IsFiniteSet(DOMAIN s) /\ Cardinality(DOMAIN s) \in Nat
         /\ \A t \in SUBSET DOMAIN s : IsFiniteSet(t) /\ Cardinality(t) \in Nat
<1>1. Len(s) \in Nat /\ DOMAIN s = 1 .. Len(s)
  BY DEF IsSequence
<1>2. IsFiniteSet(DOMAIN s)
  BY <1>1, FS_Interval
<1> QED
  BY <1>1, <1>2, FS_Subset, FS_CardinalityType

LEMMA MaxIsGreatest ==
  ASSUME NEW S \in SUBSET Nat, S # {}, NEW b \in Nat, \A i \in S : i <= b
  PROVE  Max(S) \in S /\ \A i \in S : i <= Max(S)
<1>1. \E i \in S : \A j \in S : i >= j
  BY GreatestElement
<1> QED
  BY <1>1 DEF Max

LEMMA MinIsLeast ==
  ASSUME NEW S \in SUBSET Nat, S # {}
  PROVE  Min(S) \in S /\ \A i \in S : Min(S) <= i
<1>1. \E i \in S : \A j \in S : i <= j
  BY LeastElement
<1> QED
  BY <1>1 DEF Min

LEMMA InsertingUpTo ==
  ASSUME NEW map, NEW items, IsSequence(items), NEW k \in 0 .. Cardinality(DOMAIN items)
  PROVE  \E g : IsInsertingUpTo(k, map, items, g)
<1> DEFINE n == Cardinality(DOMAIN items)
           Small(j) == {t \in SUBSET DOMAIN items : Cardinality(t) <= j}
           IsInserting(g, j) == IsInsertingUpTo(j, map, items, g)
           Done == {j \in 0 .. n : \E g : IsInserting(g, j)}
<1>1. n \in Nat
  BY Places
<1>2. \A s \in SUBSET DOMAIN items : IsFiniteSet(s) /\ Cardinality(s) \in Nat
  BY Places
<1>3. 0 \in Done
  <2> DEFINE g == [s \in Small(0) |-> map]
  <2>1. \A s \in Small(0) : s = {}
    BY <1>2, FS_EmptySet
  <2>2. \A s \in Small(0) : NextInsert(map, items, g, s) = map
    BY <2>1 DEF NextInsert
  <2>3. IsInserting(g, 0)
    BY <2>2 DEF IsInsertingUpTo
  <2>4. \E h : IsInserting(h, 0)
    <3> HIDE DEF g, IsInserting
    <3> QED
      BY <2>3
  <2>5. 0 \in 0 .. n
    BY <1>1
  <2> HIDE DEF IsInserting
  <2> QED
    BY <2>4, <2>5
<1> HIDE DEF n
<1>4. ASSUME NEW j \in 0 .. n - 1, j \in Done PROVE j + 1 \in Done
  <2>1. PICK g : IsInserting(g, j)
    BY <1>4
  <2> DEFINE h == [s \in Small(j + 1) |-> NextInsert(map, items, g, s)]
  <2>2. ASSUME NEW s \in Small(j + 1)
        PROVE  NextInsert(map, items, h, s) = NextInsert(map, items, g, s)
    <3>1. CASE s = {}
      BY <3>1 DEF NextInsert
    <3>2. CASE s # {}
      <4> DEFINE x == Max(s)
                 t == s \ {x}
      <4>1. x \in s
        <5>1. s \in SUBSET Nat /\ Len(items) \in Nat /\ \A i \in s : i <= Len(items)
          BY Places
        <5> QED
          BY <3>2, <5>1, MaxIsGreatest
      <4> HIDE DEF x
      <4>2. Cardinality(t) = Cardinality(s) - 1 /\ t \in SUBSET DOMAIN items
        BY <1>2, <4>1, FS_RemoveElement
      <4>3. t \in Small(j) /\ t \in Small(j + 1)
        BY <1>2, <4>2
      <4>4. g[t] = NextInsert(map, items, g, t) /\ h[t] = NextInsert(map, items, g, t)
        BY <2>1, <4>3 DEF IsInsertingUpTo
      <4> HIDE DEF t, h
      <4>5. h[t] = g[t]
        BY <4>4
      <4> QED
        BY <3>2, <4>5 DEF NextInsert, x, t
    <3> QED
      BY <3>1, <3>2
  <2>3. IsInserting(h, j + 1)
    BY <2>2, Zenon DEF IsInsertingUpTo
  <2>4. \E f : IsInserting(f, j + 1)
    <3> HIDE DEF h, IsInserting
    <3> QED
      BY <2>3
  <2> HIDE DEF IsInserting
  <2> QED
    BY <1>1, <2>4
<1> HIDE DEF Done
<1>5. \A j \in 0 .. n : j \in Done
  BY <1>1, <1>3, <1>4, InductionUpTo
<1> QED
  BY <1>5 DEF Done, n

(* The map after each of the first places.                                 *)
IsInserted(map, items, f) ==
  /\ DOMAIN f = 0 .. Len(items)
  /\ f[0] = map
  /\ \A k \in 0 .. Len(items) - 1 : f[k + 1] = Insert(f[k], items[k + 1])
  /\ InsertAll(map, items) = f[Len(items)]

LEMMA InsertingExists ==
  ASSUME NEW map, NEW items, IsSequence(items)
  PROVE  \E f : IsInserted(map, items, f)
<1> DEFINE D == DOMAIN items
           n == Len(items)
           IsInserting(g) == g = [s \in SUBSET D |-> NextInsert(map, items, g, s)]
           g == CHOOSE g : IsInserting(g)
           f == [k \in 0 .. n |-> g[1 .. k]]
<1>1. InsertAll(map, items) = g[D]
  BY DEF InsertAll, FoldLeft, MapThenFoldSet, NextInsert
<1>2. \E h : IsInserting(h)
  <2> DEFINE k == Cardinality(D)
  <2>1. k \in 0 .. k
    BY Places
  <2>2. {t \in SUBSET D : Cardinality(t) <= k} = SUBSET D
    BY Places, FS_Subset
  <2>3. PICK h : IsInsertingUpTo(k, map, items, h)
    BY <2>1, InsertingUpTo
  <2>4. IsInserting(h)
    BY <2>2, <2>3 DEF IsInsertingUpTo
  <2> QED
    BY <2>4
<1> HIDE DEF IsInserting
<1>3. IsInserting(g)
  BY <1>2
<1> HIDE DEF g
<1>4. \A s \in SUBSET D : g[s] = NextInsert(map, items, g, s)
  BY <1>3 DEF IsInserting
<1>5. n \in Nat /\ D = 1 .. n
  BY Places
<1> HIDE DEF n, D
<1>6. f[0] = map
  <2>1. 1 .. 0 = {} /\ {} \in SUBSET D
    OBVIOUS
  <2>2. g[{}] = map
    BY <1>4, <2>1 DEF NextInsert
  <2> QED
    BY <1>5, <2>1, <2>2
<1>7. ASSUME NEW k \in 0 .. n - 1 PROVE f[k + 1] = Insert(f[k], items[k + 1])
  <2> DEFINE s == 1 .. k + 1
  <2>0. k \in Nat /\ k + 1 \in Nat /\ k + 1 <= n
    BY <1>5
  <2>1. s \in SUBSET D /\ s \in SUBSET Nat /\ s # {} /\ k + 1 \in Nat
        /\ k + 1 \in s /\ \A i \in s : i <= k + 1
    <3>1. k + 1 \in s /\ \A i \in s : i \in Nat /\ i <= k + 1
      BY <2>0
    <3>2. \A i \in s : i \in 1 .. n
      BY <1>5, <2>0
    <3> HIDE DEF s
    <3> QED
      BY <1>5, <2>0, <3>1, <3>2
  <2>2. s \ {k + 1} = 1 .. k
    BY <1>5
  <2> HIDE DEF s
  <2>3. Max(s) = k + 1
    <3>1. Max(s) \in s /\ k + 1 <= Max(s)
      BY <2>1, MaxIsGreatest
    <3>2. Max(s) \in Nat /\ Max(s) <= k + 1
      BY <2>1, <3>1
    <3> QED
      BY <2>0, <3>1, <3>2
  <2>4. g[s] = Insert(g[1 .. k], items[k + 1])
    BY <1>4, <2>1, <2>2, <2>3 DEF NextInsert
  <2>5. f[k] = g[1 .. k] /\ f[k + 1] = g[s]
    BY <1>5 DEF s
  <2> QED
    BY <2>4, <2>5
<1>8. f[n] = g[D]
  BY <1>5
<1>9. IsInserted(map, items, f)
  <2>1. DOMAIN f = 0 .. n
    OBVIOUS
  <2> HIDE DEF f
  <2> QED
    BY <1>1, <1>6, <1>7, <1>8, <2>1 DEF IsInserted, n
<1> HIDE DEF f
<1> QED
  BY <1>9


-----------------------------------------------------------------------------
(* What a loop of insertions leaves: of each name the value the map had, or *)
(* else the first one inserted.                                            *)
IsMap(m) == m = [name \in DOMAIN m |-> m[name]]

LEMMA OverProperties ==
  ASSUME NEW map, NEW below
  PROVE  /\ IsMap(Over(map, below))
         /\ DOMAIN Over(map, below) = DOMAIN map \union DOMAIN below
         /\ \A name \in DOMAIN map : Over(map, below)[name] = map[name]
         /\ \A name \in DOMAIN below \ DOMAIN map : Over(map, below)[name] = below[name]
  BY DEF Over, IsMap

LEMMA InsertProperties ==
  ASSUME NEW map, NEW item
  PROVE  /\ IsMap(Insert(map, item))
         /\ DOMAIN Insert(map, item) = DOMAIN map \union {item.name}
         /\ \A name \in DOMAIN map : Insert(map, item)[name] = map[name]
         /\ item.name \notin DOMAIN map => Insert(map, item)[item.name] = item.value
<1> DEFINE below == [name \in {item.name} |-> item.value]
<1>1. DOMAIN below = {item.name} /\ below[item.name] = item.value
  OBVIOUS
<1> DEFINE over == Over(map, below)
<1>2. Insert(map, item) = over
  BY DEF Insert
<1>3. /\ IsMap(over) /\ DOMAIN over = DOMAIN map \union DOMAIN below
      /\ \A name \in DOMAIN map : over[name] = map[name]
      /\ \A name \in DOMAIN below \ DOMAIN map : over[name] = below[name]
  <2> HIDE DEF below
  <2> QED
    BY OverProperties, Zenon
<1> HIDE DEF below, over
<1>4. DOMAIN over = DOMAIN map \union {item.name}
  BY <1>1, <1>3
<1>5. item.name \notin DOMAIN map => over[item.name] = item.value
  BY <1>1, <1>3
<1> QED
  BY <1>2, <1>3, <1>4, <1>5

LEMMA InsertAllProperties ==
  ASSUME NEW map, NEW items, IsMap(map), IsSequence(items)
  PROVE  InsertAll(map, items) =
           [name \in DOMAIN map \union Names(items) |->
              IF name \in DOMAIN map THEN map[name] ELSE FirstValue(items, name)]
<1> DEFINE n == Len(items)
<1>1. n \in Nat /\ DOMAIN items = 1 .. n
  BY Places
<1>2. PICK f : IsInserted(map, items, f)
  BY InsertingExists
<1>3. f[0] = map /\ InsertAll(map, items) = f[n]
  BY <1>2 DEF IsInserted
<1>4. \A k \in 0 .. n - 1 : f[k + 1] = Insert(f[k], items[k + 1])
  BY <1>2 DEF IsInserted
<1> HIDE DEF n
<1> DEFINE Holds(k) ==
             /\ IsMap(f[k])
             /\ DOMAIN f[k] = DOMAIN map \union {items[j].name : j \in 1 .. k}
             /\ \A name \in DOMAIN map : f[k][name] = map[name]
             /\ \A j \in 1 .. k :
                  /\ items[j].name \notin DOMAIN map
                  /\ \A i \in 1 .. j - 1 : items[i].name # items[j].name
                  => f[k][items[j].name] = items[j].value
           S == {k \in 0 .. n : Holds(k)}
<1>5. 0 \in S
  BY <1>1, <1>3
<1>6. ASSUME NEW k \in 0 .. n - 1, k \in S PROVE k + 1 \in S
  <2> DEFINE item == items[k + 1]
             m == f[k]
             r == f[k + 1]
  <2>1. k \in Nat /\ k + 1 \in 0 .. n
    BY <1>1
  <2>2. /\ IsMap(r) /\ DOMAIN r = DOMAIN m \union {item.name}
        /\ \A name \in DOMAIN m : r[name] = m[name]
        /\ item.name \notin DOMAIN m => r[item.name] = item.value
    <3>1. r = Insert(m, item)
      BY <1>4
    <3> HIDE DEF m, item, r
    <3> QED
      BY <3>1, InsertProperties
  <2>3. 1 .. k + 1 = (1 .. k) \union {k + 1}
    BY <2>1
  <2>4. DOMAIN m = DOMAIN map \union {items[j].name : j \in 1 .. k}
        /\ \A name \in DOMAIN map : m[name] = map[name]
    BY <1>6
  <2>5. DOMAIN r = DOMAIN map \union {items[j].name : j \in 1 .. k + 1}
    BY <2>2, <2>3, <2>4
  <2>6. ASSUME NEW j \in 1 .. k + 1, items[j].name \notin DOMAIN map,
               \A i \in 1 .. j - 1 : items[i].name # items[j].name
        PROVE  r[items[j].name] = items[j].value
    <3>1. CASE j \in 1 .. k
      <4>1. m[items[j].name] = items[j].value
        BY <1>6, <2>6, <3>1
      <4>2. items[j].name \in DOMAIN m
        BY <2>4, <3>1
      <4> QED
        BY <2>2, <4>1, <4>2
    <3>2. CASE j = k + 1
      <4>1. j - 1 = k
        BY <2>1, <3>2
      <4>2. item.name \notin DOMAIN m
        BY <2>4, <2>6, <3>2, <4>1
      <4> QED
        BY <2>2, <3>2, <4>2
    <3> QED
      BY <2>3, <3>1, <3>2
  <2>7. \A name \in DOMAIN map : r[name] = map[name]
    BY <2>2, <2>4
  <2> QED
    BY <2>1, <2>2, <2>5, <2>6, <2>7
<1> HIDE DEF S
<1>7. n \in S
  <2>1. \A k \in 0 .. n : k \in S
    BY <1>1, <1>5, <1>6, InductionUpTo
  <2> QED
    BY <1>1, <2>1
<1>8. Holds(n)
  BY <1>7 DEF S
<1>9. Names(items) = {items[j].name : j \in 1 .. n}
  BY <1>1 DEF Names
<1>10. ASSUME NEW name \in Names(items), name \notin DOMAIN map
       PROVE  f[n][name] = FirstValue(items, name)
  <2> DEFINE P == {k \in DOMAIN items : items[k].name = name}
             j == Min(P)
  <2>1. P \in SUBSET Nat /\ P # {}
    BY <1>1, <1>10 DEF Names
  <2>2. j \in P /\ \A i \in P : j <= i
    BY <2>1, MinIsLeast
  <2> HIDE DEF j
  <2>3. j \in 1 .. n /\ items[j].name = name
    BY <1>1, <2>2
  <2>4. \A i \in 1 .. j - 1 : i \in 1 .. n /\ ~(j <= i)
    BY <1>1, <2>3
  <2>5. \A i \in 1 .. j - 1 : items[i].name # items[j].name
    BY <1>1, <2>2, <2>3, <2>4
  <2>6. f[n][name] = items[j].value
    BY <1>8, <1>10, <2>3, <2>5
  <2> QED
    BY <2>6 DEF FirstValue, j
<1> QED
  BY <1>3, <1>8, <1>9, <1>10 DEF IsMap

-----------------------------------------------------------------------------
(* What the first options give, by the rules the properties state.         *)
UpTo(S, n) == {k \in S : k <= n}

LineTable(t, n) ==
  [name \in {argv[k].item.name : k \in UpTo(OptionsOf(t), n)} |->
     argv[Min(UpTo(OnLine(t, name), n))].item.value]
FileTable(t, n) ==
  [name \in UNION {Names(ItemsIn(k, t)) : k \in UpTo(OptionsOf("config"), n)} |->
     FirstValue(ItemsIn(Min(UpTo(InFiles(t, name), n)), t), name)]

LineId(n) ==
  LET nems == UpTo(OptionsOf("nem"), n) IN IF nems = {} THEN 0 ELSE argv[Max(nems)].id
FileId(n) ==
  LET configs == UpTo(OptionsOf("config"), n)
  IN  IF configs = {} THEN 0 ELSE argv[Max(configs)].document.id

(* One more place is the greatest of them and changes the least only where *)
(* there was none.                                                         *)
LEMMA OneMore ==
  ASSUME NEW S \in SUBSET Nat, NEW n \in Nat
  PROVE  /\ n + 1 \notin S => UpTo(S, n + 1) = UpTo(S, n)
         /\ n + 1 \in S => /\ UpTo(S, n + 1) = UpTo(S, n) \union {n + 1}
                           /\ Max(UpTo(S, n + 1)) = n + 1
                           /\ Min(UpTo(S, n + 1)) =
                                IF UpTo(S, n) = {} THEN n + 1 ELSE Min(UpTo(S, n))
<1> DEFINE old == UpTo(S, n)
           new == UpTo(S, n + 1)
<1>1. \A k \in S : k <= n + 1 <=> k <= n \/ k = n + 1
  OBVIOUS
<1>2. n + 1 \notin S => new = old
  BY <1>1 DEF UpTo
<1>3. n + 1 \in S => new = old \union {n + 1}
  BY <1>1 DEF UpTo
<1>4. old \in SUBSET Nat /\ \A k \in old : k <= n
  BY DEF UpTo
<1>5. ASSUME n + 1 \in S
      PROVE  Max(new) = n + 1 /\ Min(new) = IF old = {} THEN n + 1 ELSE Min(old)
  <2> HIDE DEF old, new
  <2>0. n + 1 \in new /\ n + 1 \in Nat /\ \A k \in new : k \in Nat /\ k <= n + 1
    <3>1. \A k \in old : k \in Nat /\ k <= n + 1
      BY <1>4
    <3>2. \A k \in new : k \in old \/ k = n + 1
      BY <1>3, <1>5
    <3>3. n + 1 \in new
      BY <1>3, <1>5
    <3> QED
      BY <3>1, <3>2, <3>3
  <2>1. new \in SUBSET Nat /\ new # {}
    BY <2>0
  <2>2. Max(new) \in new /\ n + 1 <= Max(new)
    BY <2>0, <2>1, MaxIsGreatest
  <2>3. Min(new) \in new /\ \A k \in new : Min(new) <= k
    BY <2>1, MinIsLeast
  <2>4. Max(new) = n + 1
    <3>1. Max(new) \in Nat /\ Max(new) <= n + 1
      BY <2>0, <2>2
    <3> QED
      BY <2>0, <2>2, <3>1
  <2>5. CASE old = {}
    <3>1. new = {n + 1}
      BY <1>3, <1>5, <2>5
    <3>2. Min(new) = n + 1
      BY <2>3, <3>1
    <3> QED
      BY <2>4, <2>5, <3>2
  <2>6. CASE old # {}
    <3>1. Min(old) \in old /\ \A k \in old : Min(old) <= k
      BY <1>4, <2>6, MinIsLeast
    <3>2. Min(old) \in new /\ Min(old) <= n /\ Min(new) <= Min(old) /\ Min(new) \in Nat
          /\ Min(old) \in Nat
      BY <1>3, <1>4, <1>5, <2>0, <2>3, <3>1
    <3>3. Min(new) # n + 1
      BY <3>2
    <3>4. Min(new) \in old
      BY <1>3, <1>5, <2>3, <3>3
    <3>5. Min(old) <= Min(new)
      BY <3>1, <3>4
    <3>6. Min(new) = Min(old)
      BY <3>2, <3>5
    <3> QED
      BY <2>4, <2>6, <3>6
  <2> QED
    BY <2>5, <2>6
<1> QED
  BY <1>2, <1>3, <1>5

(* Which options there are.                                                *)
LEMMA Options ==
  ASSUME argv \in CommandLines
  PROVE  /\ Len(argv) \in Nat /\ DOMAIN argv = 1 .. Len(argv)
         /\ \A k \in DOMAIN argv : IsOption(argv[k])
         /\ \A kind : OptionsOf(kind) \in SUBSET Nat
         /\ \A t, name : OnLine(t, name) \in SUBSET Nat /\ InFiles(t, name) \in SUBSET Nat
<1>1. IsSequence(argv) /\ \A k \in DOMAIN argv : IsOption(argv[k])
  BY MonitorAssumption
<1>2. Len(argv) \in Nat /\ DOMAIN argv = 1 .. Len(argv)
  BY <1>1, Places
<1> QED
  BY <1>1, <1>2 DEF OptionsOf, OnLine, InFiles

LEMMA OptionContents ==
  ASSUME argv \in CommandLines, NEW k \in DOMAIN argv
  PROVE  /\ argv[k].kind \in Tables => IsItem(argv[k].item)
         /\ argv[k].kind = "config" => IsDocument(argv[k].document)
         /\ argv[k].kind = "nem" => argv[k].id \in 1 .. MaxNemId
         /\ argv[k].kind = "loglevel" => argv[k].level \in 0 .. 4
         /\ argv[k].kind = "flag" =>
              argv[k].flag \in {"daemonize", "realtime", "logfile", "pidfile", "uuidfile"}
<1> DEFINE o == argv[k]
<1>1. \/ o.kind \in Tables /\ IsItem(o.item)
      \/ o.kind = "config" /\ IsDocument(o.document)
      \/ o.kind = "nem" /\ o.id \in 1 .. MaxNemId
      \/ o.kind = "flag" /\ o.flag \in {"daemonize", "realtime", "logfile", "pidfile", "uuidfile"}
      \/ o.kind = "loglevel" /\ o.level \in 0 .. 4
      \/ o.kind \in {"refused", "info", "extra"}
  BY Options DEF IsOption
<1> HIDE DEF o
<1>2. /\ o.kind \in Tables => IsItem(o.item)
      /\ o.kind = "config" => IsDocument(o.document)
      /\ o.kind = "nem" => o.id \in 1 .. MaxNemId
      /\ o.kind = "loglevel" => o.level \in 0 .. 4
      /\ o.kind = "flag" => o.flag \in {"daemonize", "realtime", "logfile", "pidfile", "uuidfile"}
  BY <1>1 DEF Tables
<1> QED
  BY <1>2 DEF o

(* The next option adds to what those before it give as the code does.     *)
LEMMA LineTableGrows ==
  ASSUME argv \in CommandLines, NEW t \in Tables, NEW n \in Nat, n + 1 \in DOMAIN argv
  PROVE  LineTable(t, n + 1) =
           IF argv[n + 1].kind = t THEN Insert(LineTable(t, n), argv[n + 1].item)
           ELSE LineTable(t, n)
<1> DEFINE S == OptionsOf(t)
           On(name) == OnLine(t, name)
           item == argv[n + 1].item
           old == LineTable(t, n)
           new == LineTable(t, n + 1)
<1>1. S \in SUBSET Nat /\ \A name : On(name) \in SUBSET Nat
  BY Options
<1>2. n + 1 \in S <=> argv[n + 1].kind = t
  BY DEF OptionsOf
<1>3. \A name : n + 1 \in On(name) <=> n + 1 \in S /\ item.name = name
  BY DEF OnLine
<1>4. CASE n + 1 \notin S
  <2>1. UpTo(S, n + 1) = UpTo(S, n)
    BY <1>1, <1>4, OneMore
  <2>2. \A name : UpTo(On(name), n + 1) = UpTo(On(name), n)
    BY <1>1, <1>3, <1>4, OneMore
  <2>3. new = old
    BY <2>1, <2>2 DEF LineTable
  <2> QED
    BY <1>2, <1>4, <2>3
<1>5. CASE n + 1 \in S
  <2>1. UpTo(S, n + 1) = UpTo(S, n) \union {n + 1}
    BY <1>1, <1>5, OneMore
  <2>2. \A name : name # item.name => UpTo(On(name), n + 1) = UpTo(On(name), n)
    BY <1>1, <1>3, OneMore
  <2>3. Min(UpTo(On(item.name), n + 1)) =
          IF UpTo(On(item.name), n) = {} THEN n + 1 ELSE Min(UpTo(On(item.name), n))
    BY <1>1, <1>3, <1>5, OneMore
  <2>4. DOMAIN old = {argv[k].item.name : k \in UpTo(S, n)}
        /\ \A name \in DOMAIN old : old[name] = argv[Min(UpTo(On(name), n))].item.value
    BY DEF LineTable
  <2>5. IsMap(new) /\ DOMAIN new = {argv[k].item.name : k \in UpTo(S, n + 1)}
        /\ \A name \in DOMAIN new : new[name] = argv[Min(UpTo(On(name), n + 1))].item.value
    BY DEF LineTable, IsMap
  <2>6. UpTo(On(item.name), n) = {} <=> item.name \notin DOMAIN old
    BY <2>4 DEF UpTo, OnLine
  <2> DEFINE made == Insert(old, item)
  <2>7. /\ IsMap(made) /\ DOMAIN made = DOMAIN old \union {item.name}
        /\ \A name \in DOMAIN old : made[name] = old[name]
        /\ item.name \notin DOMAIN old => made[item.name] = item.value
    <3> HIDE DEF old, item
    <3> QED
      BY InsertProperties
  <2>8. DOMAIN new = DOMAIN made
    <3> HIDE DEF old, new, made, S, On
    <3> QED
      BY <2>1, <2>4, <2>5, <2>7
  <2>9. ASSUME NEW name \in DOMAIN new PROVE new[name] = made[name]
    <3>1. CASE name = item.name
      <4> HIDE DEF old, new, made, S, On
      <4> QED
        BY <2>3, <2>4, <2>5, <2>6, <2>7, <2>9, <3>1 DEF item
    <3>2. CASE name # item.name
      <4>1. name \in DOMAIN old
        BY <2>7, <2>8, <2>9, <3>2
      <4> HIDE DEF old, new, made, S, On
      <4> QED
        BY <2>2, <2>4, <2>5, <2>7, <2>9, <3>2, <4>1
    <3> QED
      BY <3>1, <3>2
  <2>10. new = made
    <3> HIDE DEF new, made
    <3> QED
      BY <2>5, <2>7, <2>8, <2>9 DEF IsMap
  <2> QED
    BY <1>2, <1>5, <2>10
<1> QED
  BY <1>4, <1>5

LEMMA FirstOfLine ==
  ASSUME argv \in CommandLines, NEW n \in Nat, NEW t, NEW name,
         UpTo(OnLine(t, name), n) # {}
  PROVE  LET k == Min(UpTo(OnLine(t, name), n))
         IN  k \in DOMAIN argv /\ argv[k].kind = t /\ argv[k].item.name = name
<1> DEFINE P == UpTo(OnLine(t, name), n)
<1>1. P \in SUBSET Nat /\ \A k \in P : k \in OnLine(t, name)
  BY Options DEF UpTo
<1>2. Min(P) \in OnLine(t, name)
  <2> HIDE DEF P
  <2> QED
    BY <1>1, MinIsLeast DEF P
<1> QED
  BY <1>2 DEF OnLine, OptionsOf

LEMMA FirstOfFiles ==
  ASSUME argv \in CommandLines, NEW n \in Nat, NEW t, NEW name,
         UpTo(InFiles(t, name), n) # {}
  PROVE  LET k == Min(UpTo(InFiles(t, name), n))
         IN  k \in DOMAIN argv /\ argv[k].kind = "config" /\ name \in Names(ItemsIn(k, t))
<1> DEFINE P == UpTo(InFiles(t, name), n)
<1>1. P \in SUBSET Nat /\ \A k \in P : k \in InFiles(t, name)
  BY Options DEF UpTo
<1>2. Min(P) \in InFiles(t, name)
  <2> HIDE DEF P
  <2> QED
    BY <1>1, MinIsLeast DEF P
<1> QED
  BY <1>2 DEF InFiles, OptionsOf

LEMMA FileTableGrows ==
  ASSUME argv \in CommandLines, NEW t \in Tables, NEW n \in Nat, n + 1 \in DOMAIN argv
  PROVE  FileTable(t, n + 1) =
           IF argv[n + 1].kind = "config" THEN InsertAll(FileTable(t, n), ItemsIn(n + 1, t))
           ELSE FileTable(t, n)
<1> DEFINE S == OptionsOf("config")
           In(name) == InFiles(t, name)
           items == ItemsIn(n + 1, t)
           old == FileTable(t, n)
           new == FileTable(t, n + 1)
<1>1. S \in SUBSET Nat /\ \A name : In(name) \in SUBSET Nat
  BY Options
<1>2. n + 1 \in S <=> argv[n + 1].kind = "config"
  BY DEF OptionsOf
<1>3. \A name : n + 1 \in In(name) <=> n + 1 \in S /\ name \in Names(items)
  BY DEF InFiles
<1>4. CASE n + 1 \notin S
  <2>1. UpTo(S, n + 1) = UpTo(S, n)
    BY <1>1, <1>4, OneMore
  <2>2. \A name : UpTo(In(name), n + 1) = UpTo(In(name), n)
    BY <1>1, <1>3, <1>4, OneMore
  <2>3. new = old
    BY <2>1, <2>2 DEF FileTable
  <2> QED
    BY <1>2, <1>4, <2>3
<1>5. CASE n + 1 \in S
  <2>1. UpTo(S, n + 1) = UpTo(S, n) \union {n + 1}
    BY <1>1, <1>5, OneMore
  <2>2. ASSUME NEW name, name \notin Names(items)
        PROVE  UpTo(In(name), n + 1) = UpTo(In(name), n)
    BY <1>1, <1>3, <2>2, OneMore
  <2>3. ASSUME NEW name, name \in Names(items)
        PROVE  Min(UpTo(In(name), n + 1)) =
                 IF UpTo(In(name), n) = {} THEN n + 1 ELSE Min(UpTo(In(name), n))
    BY <1>1, <1>3, <1>5, <2>3, OneMore
  <2>4. IsMap(old) /\ DOMAIN old = UNION {Names(ItemsIn(k, t)) : k \in UpTo(S, n)}
        /\ \A name \in DOMAIN old :
             old[name] = FirstValue(ItemsIn(Min(UpTo(In(name), n)), t), name)
    BY DEF FileTable, IsMap
  <2>5. IsMap(new) /\ DOMAIN new = UNION {Names(ItemsIn(k, t)) : k \in UpTo(S, n + 1)}
        /\ \A name \in DOMAIN new :
             new[name] = FirstValue(ItemsIn(Min(UpTo(In(name), n + 1)), t), name)
    BY DEF FileTable, IsMap
  <2>6. ASSUME NEW name PROVE UpTo(In(name), n) = {} <=> name \notin DOMAIN old
    BY <2>4 DEF UpTo, InFiles
  <2> DEFINE made == InsertAll(old, items)
  <2>7. IsSequence(items)
    BY <1>2, <1>5, OptionContents DEF IsDocument, ItemsIn
  <2>8. made = [name \in DOMAIN old \union Names(items) |->
                  IF name \in DOMAIN old THEN old[name] ELSE FirstValue(items, name)]
    <3> HIDE DEF old, items
    <3> QED
      BY <2>4, <2>7, InsertAllProperties
  <2>9. DOMAIN new = DOMAIN old \union Names(items)
    <3> HIDE DEF old, new, made, S, In
    <3> QED
      BY <2>1, <2>4, <2>5 DEF items
  <2>10. ASSUME NEW name \in DOMAIN new
         PROVE  new[name] = IF name \in DOMAIN old THEN old[name] ELSE FirstValue(items, name)
    <3>1. CASE name \in Names(items)
      <4>1. Min(UpTo(In(name), n + 1)) =
              IF name \in DOMAIN old THEN Min(UpTo(In(name), n)) ELSE n + 1
        BY <2>3, <2>6, <3>1
      <4> HIDE DEF old, new, made, S, In
      <4> QED
        BY <2>4, <2>5, <2>10, <4>1 DEF items
    <3>2. CASE name \notin Names(items)
      <4>1. name \in DOMAIN old
        BY <2>9, <2>10, <3>2
      <4>2. UpTo(In(name), n + 1) = UpTo(In(name), n)
        BY <2>2, <3>2
      <4> HIDE DEF old, new, made, S, In
      <4> QED
        BY <2>4, <2>5, <2>10, <4>1, <4>2
    <3> QED
      BY <3>1, <3>2
  <2>11. new = made
    <3> HIDE DEF old, new, made, items
    <3> QED
      BY <2>5, <2>8, <2>9, <2>10 DEF IsMap
  <2> QED
    BY <1>2, <1>5, <2>11
<1> QED
  BY <1>4, <1>5

(* The ids are those of the last options that give one.                    *)
LEMMA IdsGrow ==
  ASSUME argv \in CommandLines, NEW n \in Nat, n + 1 \in DOMAIN argv
  PROVE  /\ LineId(n + 1) = IF argv[n + 1].kind = "nem" THEN argv[n + 1].id ELSE LineId(n)
         /\ FileId(n + 1) = IF argv[n + 1].kind = "config" THEN argv[n + 1].document.id
                            ELSE FileId(n)
<1> DEFINE N == OptionsOf("nem")
           C == OptionsOf("config")
<1>1. N \in SUBSET Nat /\ C \in SUBSET Nat
  BY Options
<1>2. (n + 1 \in N <=> argv[n + 1].kind = "nem") /\ (n + 1 \in C <=> argv[n + 1].kind = "config")
  BY DEF OptionsOf
<1>3. LineId(n + 1) = IF n + 1 \in N THEN argv[n + 1].id ELSE LineId(n)
  <2>1. CASE n + 1 \in N
    <3>1. UpTo(N, n + 1) # {} /\ Max(UpTo(N, n + 1)) = n + 1
      BY <1>1, <2>1, OneMore
    <3> QED
      BY <2>1, <3>1 DEF LineId
  <2>2. CASE n + 1 \notin N
    <3>1. UpTo(N, n + 1) = UpTo(N, n)
      BY <1>1, <2>2, OneMore
    <3> QED
      BY <2>2, <3>1 DEF LineId
  <2> QED
    BY <2>1, <2>2
<1>4. FileId(n + 1) = IF n + 1 \in C THEN argv[n + 1].document.id ELSE FileId(n)
  <2>1. CASE n + 1 \in C
    <3>1. UpTo(C, n + 1) # {} /\ Max(UpTo(C, n + 1)) = n + 1
      BY <1>1, <2>1, OneMore
    <3> QED
      BY <2>1, <3>1 DEF FileId
  <2>2. CASE n + 1 \notin C
    <3>1. UpTo(C, n + 1) = UpTo(C, n)
      BY <1>1, <2>2, OneMore
    <3> QED
      BY <2>2, <3>1 DEF FileId
  <2> QED
    BY <2>1, <2>2
<1> QED
  BY <1>2, <1>3, <1>4

(* With all options read and the defaults below them, the tables are what  *)
(* the precedence rules say.                                               *)
LEMMA TablesComplete ==
  ASSUME argv \in CommandLines, NEW t \in Tables
  PROVE  LET merged == Merge(LineTable(t, Len(argv)), FileTable(t, Len(argv)))
         IN  (IF t = "emu" THEN InsertAll(merged, Defaults) ELSE merged) =
               [name \in NamesGiven(t) |-> FirstGiven(t, name)]
<1> DEFINE n == Len(argv)
           line == LineTable(t, n)
           files == FileTable(t, n)
           merged == Merge(line, files)
           L == {argv[k].item.name : k \in OptionsOf(t)}
           F == UNION {Names(ItemsIn(k, t)) : k \in OptionsOf("config")}
           table == IF t = "emu" THEN InsertAll(merged, Defaults) ELSE merged
           given == [name \in NamesGiven(t) |-> FirstGiven(t, name)]
<1>1. n \in Nat /\ DOMAIN argv = 1 .. n
  BY Options
<1>2. ASSUME NEW S, S \subseteq DOMAIN argv PROVE UpTo(S, n) = S
  BY <1>1, <1>2 DEF UpTo
<1>3. /\ UpTo(OptionsOf(t), n) = OptionsOf(t)
      /\ UpTo(OptionsOf("config"), n) = OptionsOf("config")
      /\ \A name : UpTo(OnLine(t, name), n) = OnLine(t, name)
      /\ \A name : UpTo(InFiles(t, name), n) = InFiles(t, name)
  <2>1. OptionsOf(t) \subseteq DOMAIN argv /\ OptionsOf("config") \subseteq DOMAIN argv
    BY DEF OptionsOf
  <2>2. \A name : OnLine(t, name) \subseteq DOMAIN argv /\ InFiles(t, name) \subseteq DOMAIN argv
    BY <2>1 DEF OnLine, InFiles
  <2> QED
    BY <1>2, <2>1, <2>2
<1>4. DOMAIN line = L /\ \A name \in L : line[name] = argv[Min(OnLine(t, name))].item.value
  BY <1>3 DEF LineTable
<1>5. DOMAIN files = F /\ \A name \in F :
        files[name] = FirstValue(ItemsIn(Min(InFiles(t, name)), t), name)
  BY <1>3 DEF FileTable
<1>6. \A name : name \in L <=> OnLine(t, name) # {}
  BY DEF OnLine
<1>7. \A name : name \in F <=> InFiles(t, name) # {}
  BY DEF InFiles
<1>8. /\ IsMap(merged) /\ DOMAIN merged = L \union F
      /\ \A name \in L : merged[name] = line[name]
      /\ \A name \in F \ L : merged[name] = files[name]
  <2> HIDE DEF line, files
  <2>1. merged = Over(line, files)
    BY DEF Merge
  <2> HIDE DEF merged
  <2> DEFINE over == Over(line, files)
  <2>2. /\ IsMap(over) /\ DOMAIN over = DOMAIN line \union DOMAIN files
        /\ \A name \in DOMAIN line : over[name] = line[name]
        /\ \A name \in DOMAIN files \ DOMAIN line : over[name] = files[name]
    BY OverProperties
  <2>3. merged = over
    BY <2>1
  <2> HIDE DEF over, L, F
  <2> QED
    BY <1>4, <1>5, <2>2, <2>3
<1>9. NamesGiven(t) = L \union F \union (IF t = "emu" THEN Names(Defaults) ELSE {})
  BY DEF NamesGiven
<1>10. \A name : FirstGiven(t, name) =
         IF name \in L THEN line[name] ELSE IF name \in F THEN files[name]
         ELSE FirstValue(Defaults, name)
  <2> HIDE DEF L, F, line, files
  <2> QED
    BY <1>4, <1>5, <1>6, <1>7 DEF FirstGiven
<1>11. table = [name \in DOMAIN table |-> table[name]] /\ DOMAIN table = NamesGiven(t)
       /\ \A name \in NamesGiven(t) : table[name] = FirstGiven(t, name)
  <2> HIDE DEF L, F, line, files, merged
  <2>1. CASE t = "emu"
    <3> DEFINE all == InsertAll(merged, Defaults)
    <3>1. all = [name \in DOMAIN merged \union Names(Defaults) |->
                   IF name \in DOMAIN merged THEN merged[name] ELSE FirstValue(Defaults, name)]
      BY <1>8, InsertAllProperties, MonitorAssumption
    <3> HIDE DEF all
    <3>2. table = all
      BY <2>1 DEF all
    <3> HIDE DEF table
    <3>3. DOMAIN all = NamesGiven(t)
      BY <1>8, <1>9, <2>1, <3>1
    <3>4. ASSUME NEW name \in NamesGiven(t) PROVE all[name] = FirstGiven(t, name)
      <4>1. all[name] = IF name \in DOMAIN merged THEN merged[name]
                        ELSE FirstValue(Defaults, name)
        BY <1>8, <1>9, <2>1, <3>1
      <4>2. CASE name \in L
        BY <1>8, <1>10, <4>1, <4>2
      <4>3. CASE name \notin L /\ name \in F
        BY <1>8, <1>10, <4>1, <4>3
      <4>4. CASE name \notin L /\ name \notin F
        BY <1>8, <1>10, <4>1, <4>4
      <4> QED
        BY <4>2, <4>3, <4>4
    <3>5. all = [name \in DOMAIN all |-> all[name]]
      BY <3>1
    <3> QED
      BY <3>2, <3>3, <3>4, <3>5
  <2>2. CASE t # "emu"
    <3>1. table = merged
      BY <2>2
    <3> HIDE DEF table
    <3>2. DOMAIN merged = NamesGiven(t)
      BY <1>8, <1>9, <2>2
    <3>3. ASSUME NEW name \in NamesGiven(t) PROVE merged[name] = FirstGiven(t, name)
      <4>1. CASE name \in L
        BY <1>8, <1>10, <4>1
      <4>2. CASE name \notin L
        BY <1>8, <1>10, <3>2, <4>2
      <4> QED
        BY <4>1, <4>2
    <3> QED
      BY <1>8, <3>1, <3>2, <3>3 DEF IsMap
  <2> QED
    BY <2>1, <2>2
<1>12. table = given
  <2> HIDE DEF table
  <2> QED
    BY <1>11
<1> QED
  BY <1>12

(* What is given is a number.                                              *)
LEMMA FirstValueIsNumber ==
  ASSUME NEW items, IsSequence(items), \A k \in DOMAIN items : IsItem(items[k]),
         NEW name \in Names(items)
  PROVE  FirstValue(items, name) \in Int
<1> DEFINE P == {k \in DOMAIN items : items[k].name = name}
<1>1. P \in SUBSET Nat /\ P # {}
  BY Places DEF Names
<1>2. Min(P) \in P
  <2> HIDE DEF P
  <2> QED
    BY <1>1, MinIsLeast
<1>3. Min(P) \in DOMAIN items
  BY <1>2
<1> HIDE DEF P
<1>4. items[Min(P)].value \in Int
  BY <1>3 DEF IsItem
<1> QED
  BY <1>4 DEF FirstValue, P

LEMMA GivenIsNumber ==
  ASSUME argv \in CommandLines, NEW t \in Tables, NEW name \in NamesGiven(t)
  PROVE  FirstGiven(t, name) \in Int
<1> DEFINE n == Len(argv)
<1>1. n \in Nat /\ DOMAIN argv = 1 .. n
  BY Options
<1>2. UpTo(OnLine(t, name), n) = OnLine(t, name) /\ UpTo(InFiles(t, name), n) = InFiles(t, name)
  BY <1>1 DEF UpTo, OnLine, InFiles, OptionsOf
<1>3. CASE OnLine(t, name) # {}
  <2> DEFINE k == Min(OnLine(t, name))
  <2>1. k \in DOMAIN argv /\ argv[k].kind = t
    BY <1>1, <1>2, <1>3, FirstOfLine
  <2>2. argv[k].item.value \in Int
    BY <2>1, OptionContents DEF IsItem
  <2> QED
    BY <1>3, <2>2 DEF FirstGiven
<1>4. CASE OnLine(t, name) = {} /\ InFiles(t, name) # {}
  <2> DEFINE k == Min(InFiles(t, name))
             items == ItemsIn(k, t)
  <2>1. k \in DOMAIN argv /\ argv[k].kind = "config" /\ name \in Names(items)
    BY <1>1, <1>2, <1>4, FirstOfFiles
  <2>2. IsSequence(items) /\ \A j \in DOMAIN items : IsItem(items[j])
    BY <2>1, OptionContents DEF IsDocument, ItemsIn
  <2> HIDE DEF items
  <2>3. FirstValue(items, name) \in Int
    BY <2>1, <2>2, FirstValueIsNumber
  <2> QED
    BY <1>4, <2>3 DEF FirstGiven, items
<1>5. CASE OnLine(t, name) = {} /\ InFiles(t, name) = {}
  <2>1. name \in Names(Defaults)
    BY <1>5 DEF NamesGiven, OnLine, InFiles
  <2>2. FirstValue(Defaults, name) \in Int
    BY <2>1, FirstValueIsNumber, MonitorAssumption
  <2> QED
    BY <1>5, <2>2 DEF FirstGiven
<1> QED
  BY <1>3, <1>4, <1>5

-----------------------------------------------------------------------------
(* What main has made of the options it has read; of all of them once it   *)
(* is prepared.                                                            *)
TablesRead ==
  \A t \in Tables :
     args[t] = LineTable(t, optind - 1) /\ file.maps[t] = FileTable(t, optind - 1)
IdsRead == id = LineId(optind - 1) /\ file.id = FileId(optind - 1)

NemGiven ==
  LET nems == OptionsOf("nem")
      configs == OptionsOf("config")
  IN  /\ nems \union configs # {}
      /\ id = IF nems # {} THEN argv[Max(nems)].id ELSE argv[Max(configs)].document.id

OptionsRead ==
  /\ pc = "parsing" => TablesRead /\ IdsRead
  /\ pc = "prepared" => TablesRead /\ optind = Len(argv) + 1 /\ NemGiven

MInv ==
  /\ TypeOK
  /\ OptionsRead
  /\ ParameterPrecedence
  /\ NemIdPrecedence

(* The command line does not change, nor what it gives.                    *)
LEMMA SameLine ==
  ASSUME argv' = argv
  PROVE  /\ \A t, n : LineTable(t, n)' = LineTable(t, n) /\ FileTable(t, n)' = FileTable(t, n)
         /\ \A n : LineId(n)' = LineId(n) /\ FileId(n)' = FileId(n)
         /\ \A t : NamesGiven(t)' = NamesGiven(t)
         /\ \A t, name : FirstGiven(t, name)' = FirstGiven(t, name)
         /\ \A kind : OptionsOf(kind)' = OptionsOf(kind)
BY DEF LineTable, FileTable, LineId, FileId, NamesGiven, FirstGiven, OptionsOf, OnLine,
     InFiles, ItemsIn, UpTo

LEMMA MonitorInitInvariant ==
  ASSUME Init
  PROVE  MInv
<1>1. argv \in CommandLines /\ optind = 1 /\ optind - 1 = 0 /\ pc = "parsing"
  BY DEF Init
<1>2. Len(argv) \in Nat
  BY <1>1, Options
<1>3. TypeOK
  <2>1. MaxNemId \in Nat
    BY DEF MaxNemId
  <2>2. optind \in 1 .. Len(argv) + 1
    BY <1>1, <1>2
  <2>3. id \in 0 .. MaxNemId /\ file.id \in 0 .. MaxNemId /\ level \in 0 .. 4
        /\ DOMAIN args = Tables /\ DOMAIN file.maps = Tables
    BY <2>1 DEF Init
  <2>4. sent \in 0 .. MaxSignals
    BY MonitorAssumption DEF Init
  <2> QED
    BY <2>2, <2>3, <2>4 DEF Init, TypeOK
<1>4. ASSUME NEW S \in SUBSET Nat, \A k \in S : k # 0 PROVE UpTo(S, 0) = {}
  <2>1. \A k \in S : k \in Nat /\ k # 0
    BY <1>4
  <2>2. \A k \in S : ~(k <= 0)
    BY <2>1
  <2> QED
    BY <2>2 DEF UpTo
<1>5. \A kind : UpTo(OptionsOf(kind), 0) = {}
  <2>1. \A kind : OptionsOf(kind) \in SUBSET Nat /\ \A k \in OptionsOf(kind) : k # 0
    BY <1>1, Options DEF OptionsOf
  <2> QED
    BY <1>4, <2>1
<1>6. \A t : LineTable(t, 0) = NoItems /\ FileTable(t, 0) = NoItems
  BY <1>5 DEF LineTable, FileTable, NoItems
<1>7. LineId(0) = 0 /\ FileId(0) = 0
  BY <1>5 DEF LineId, FileId
<1>8. TablesRead /\ IdsRead
  BY <1>1, <1>6, <1>7 DEF Init, TablesRead, IdsRead
<1> QED
  BY <1>1, <1>3, <1>8 DEF MInv, OptionsRead, ParameterPrecedence, NemIdPrecedence, Configured

(* One turn of the loop over the options.                                  *)
LEMMA ReadInvariance ==
  ASSUME MInv,
         \/ ParameterOption \/ ConfigOption \/ NemOption \/ FlagOption \/ LevelOption
         \/ ExtraWord \/ LastOption
  PROVE  MInv'
<1> DEFINE n == optind - 1
           o == argv[optind]
<1>1. /\ pc = "parsing" /\ optind <= Len(argv) /\ optind' = optind + 1 /\ argv' = argv
      /\ UNCHANGED <<handled, mutex, sent, asked>>
  BY DEF ParameterOption, ConfigOption, NemOption, FlagOption, LevelOption, ExtraWord,
       LastOption, NextOption, waiting
<1>2. TypeOK /\ TablesRead /\ IdsRead
  BY <1>1 DEF MInv, OptionsRead
<1>3. Len(argv) \in Nat /\ DOMAIN argv = 1 .. Len(argv) /\ argv \in CommandLines
  BY <1>2, Options DEF TypeOK
<1>4. optind \in DOMAIN argv /\ n \in Nat /\ n + 1 = optind /\ optind' - 1 = optind
      /\ optind' \in 1 .. Len(argv) + 1
  BY <1>1, <1>2, <1>3 DEF TypeOK
<1>5. \A t \in Tables :
        /\ LineTable(t, optind) = IF o.kind = t THEN Insert(args[t], o.item) ELSE args[t]
        /\ FileTable(t, optind) =
             IF o.kind = "config" THEN InsertAll(file.maps[t], o.document.items[t])
             ELSE file.maps[t]
  <2> TAKE t \in Tables
  <2>1. args[t] = LineTable(t, n) /\ file.maps[t] = FileTable(t, n)
    BY <1>2 DEF TablesRead
  <2>2. LineTable(t, n + 1) =
          IF argv[n + 1].kind = t THEN Insert(LineTable(t, n), argv[n + 1].item)
          ELSE LineTable(t, n)
    BY <1>3, <1>4, LineTableGrows
  <2>3. FileTable(t, n + 1) =
          IF argv[n + 1].kind = "config" THEN InsertAll(FileTable(t, n), ItemsIn(n + 1, t))
          ELSE FileTable(t, n)
    BY <1>3, <1>4, FileTableGrows
  <2> HIDE DEF n
  <2> QED
    BY <1>4, <2>1, <2>2, <2>3 DEF ItemsIn
<1>6. /\ LineId(optind) = IF o.kind = "nem" THEN o.id ELSE id
      /\ FileId(optind) = IF o.kind = "config" THEN o.document.id ELSE file.id
  <2>1. id = LineId(n) /\ file.id = FileId(n)
    BY <1>2 DEF IdsRead
  <2>2. /\ LineId(n + 1) = IF argv[n + 1].kind = "nem" THEN argv[n + 1].id ELSE LineId(n)
        /\ FileId(n + 1) = IF argv[n + 1].kind = "config" THEN argv[n + 1].document.id
                           ELSE FileId(n)
    BY <1>3, <1>4, IdsGrow
  <2> HIDE DEF n
  <2> QED
    BY <1>4, <2>1, <2>2
<1>7. /\ o.kind \in Tables => IsItem(o.item)
      /\ o.kind = "config" => IsDocument(o.document)
      /\ o.kind = "nem" => o.id \in 1 .. MaxNemId
      /\ o.kind = "loglevel" => o.level \in 0 .. 4
      /\ o.kind = "flag" => o.flag \in {"daemonize", "realtime", "logfile", "pidfile", "uuidfile"}
  BY <1>3, <1>4, OptionContents
<1>8. MaxNemId \in Nat
  BY DEF MaxNemId
<1> HIDE DEF n, o
<1>9. /\ TypeOK' 
      /\ pc' = "parsing" =>
           /\ \A t \in Tables : args'[t] = LineTable(t, optind) /\ file'.maps[t] = FileTable(t, optind)
           /\ id' = LineId(optind) /\ file'.id = FileId(optind)
      /\ pc' \in {"parsing", "exited", "failed"}
  <2>1. CASE ParameterOption
    <3>1. o.kind \in Tables /\ args' = [args EXCEPT ![o.kind] = Insert(@, o.item)]
          /\ UNCHANGED <<id, file, flags, level, pc>>
      BY <2>1 DEF ParameterOption, NextOption, o
    <3>2. o.kind # "config" /\ o.kind # "nem"
      BY <3>1 DEF Tables
    <3>3. DOMAIN args' = Tables
          /\ \A t \in Tables : args'[t] = IF o.kind = t THEN Insert(args[t], o.item) ELSE args[t]
      BY <1>2, <3>1 DEF TypeOK
    <3> QED
      BY <1>1, <1>2, <1>4, <1>5, <1>6, <3>1, <3>2, <3>3 DEF TypeOK
  <2>2. CASE ConfigOption
    <3>1. o.kind = "config" /\ UNCHANGED <<id, args, flags, level, pc>>
          /\ file' = [id |-> o.document.id,
                      maps |-> [t \in Tables |-> InsertAll(file.maps[t], o.document.items[t])]]
      BY <2>2 DEF ConfigOption, NextOption, Load, o
    <3>2. o.kind \notin Tables /\ o.kind # "nem"
      BY <3>1 DEF Tables
    <3>3. file'.id = o.document.id /\ file'.id \in 0 .. MaxNemId /\ DOMAIN file'.maps = Tables
          /\ \A t \in Tables : file'.maps[t] = InsertAll(file.maps[t], o.document.items[t])
      BY <1>7, <1>8, <3>1 DEF IsDocument
    <3> QED
      BY <1>1, <1>2, <1>4, <1>5, <1>6, <3>1, <3>2, <3>3 DEF TypeOK
  <2>3. CASE NemOption
    <3>1. o.kind = "nem" /\ id' = o.id /\ UNCHANGED <<args, file, flags, level, pc>>
      BY <2>3 DEF NemOption, NextOption, o
    <3>2. o.kind \notin Tables /\ o.kind # "config" /\ id' \in 0 .. MaxNemId
      BY <1>7, <1>8, <3>1 DEF Tables
    <3> QED
      BY <1>1, <1>2, <1>4, <1>5, <1>6, <3>1, <3>2 DEF TypeOK
  <2>4. CASE FlagOption \/ LevelOption \/ ExtraWord
    <3>1. /\ o.kind \in {"flag", "loglevel", "extra"} /\ UNCHANGED <<id, args, file, pc>>
          /\ \/ o.kind = "flag" /\ flags' = flags \union {o.flag} /\ level' = level
             \/ o.kind = "loglevel" /\ level' = o.level /\ flags' = flags
             \/ UNCHANGED <<flags, level>>
      BY <2>4 DEF FlagOption, LevelOption, ExtraWord, NextOption, o
    <3>2. o.kind \notin Tables /\ o.kind # "config" /\ o.kind # "nem"
      BY <3>1 DEF Tables
    <3>3. level' \in 0 .. 4
          /\ flags' \subseteq {"daemonize", "realtime", "logfile", "pidfile", "uuidfile"}
      BY <1>2, <1>7, <3>1 DEF TypeOK
    <3> QED
      BY <1>1, <1>2, <1>4, <1>5, <1>6, <3>1, <3>2, <3>3 DEF TypeOK
  <2>5. CASE LastOption
    <3>1. pc' \in {"exited", "failed"} /\ UNCHANGED <<id, args, file, flags, level>>
      BY <2>5 DEF LastOption
    <3> QED
      BY <1>1, <1>2, <1>4, <3>1 DEF TypeOK
  <2> QED
    BY <2>1, <2>2, <2>3, <2>4, <2>5
<1>10. pc' = "parsing" => TablesRead' /\ IdsRead'
  BY <1>1, <1>4, <1>9, SameLine DEF TablesRead, IdsRead
<1> QED
  BY <1>9, <1>10 DEF MInv, OptionsRead, ParameterPrecedence, NemIdPrecedence, Configured

(* An id is 0 just as long as no option gave one.                          *)
LEMMA NemIdIsGiven ==
  ASSUME argv \in CommandLines, id = LineId(Len(argv)), file.id = FileId(Len(argv)),
         NemId # 0
  PROVE  LET nems == OptionsOf("nem")
             configs == OptionsOf("config")
         IN  /\ nems \union configs # {}
             /\ NemId = IF nems # {} THEN argv[Max(nems)].id ELSE argv[Max(configs)].document.id
<1> DEFINE n == Len(argv)
           nems == OptionsOf("nem")
           configs == OptionsOf("config")
<1>1. n \in Nat /\ DOMAIN argv = 1 .. n
  BY Options
<1>2. UpTo(nems, n) = nems /\ UpTo(configs, n) = configs
  BY <1>1 DEF UpTo, OptionsOf
<1>3. nems \in SUBSET Nat /\ \A k \in nems : k <= n
  BY <1>1 DEF OptionsOf
<1>4. id = IF nems = {} THEN 0 ELSE argv[Max(nems)].id
  BY <1>2 DEF LineId
<1>5. file.id = IF configs = {} THEN 0 ELSE argv[Max(configs)].document.id
  BY <1>2 DEF FileId
<1>6. CASE nems # {}
  <2>1. Max(nems) \in nems
    <3> HIDE DEF nems
    <3> QED
      BY <1>1, <1>3, <1>6, MaxIsGreatest
  <2>2. Max(nems) \in DOMAIN argv /\ argv[Max(nems)].kind = "nem"
    BY <2>1 DEF OptionsOf
  <2>3. argv[Max(nems)].id \in 1 .. MaxNemId
    <3> HIDE DEF nems
    <3> QED
      BY <2>2, OptionContents
  <2>4. MaxNemId \in Nat
    BY DEF MaxNemId
  <2> HIDE DEF nems
  <2>5. id = argv[Max(nems)].id /\ id # 0
    BY <1>4, <1>6, <2>3, <2>4
  <2> QED
    BY <1>6, <2>5 DEF NemId, nems
<1>7. CASE nems = {}
  <2>1. id = 0
    BY <1>4, <1>7
  <2>2. NemId = file.id /\ configs # {}
    BY <1>5, <2>1 DEF NemId
  <2> HIDE DEF nems, configs
  <2> QED
    BY <1>5, <1>7, <2>2 DEF nems, configs
<1> QED
  BY <1>6, <1>7

LEMMA PrepareInvariance ==
  ASSUME MInv, Prepare
  PROVE  MInv'
<1>1. pc = "parsing" /\ optind > Len(argv) /\ UNCHANGED <<argv, optind, args, file, flags, level>>
      /\ UNCHANGED waiting /\ pc' \in {"prepared", "failed"}
  BY DEF Prepare, Parsed
<1>2. TypeOK /\ TablesRead /\ IdsRead
  BY <1>1 DEF MInv, OptionsRead
<1>3. argv \in CommandLines /\ Len(argv) \in Nat /\ optind = Len(argv) + 1 /\ optind - 1 = Len(argv)
  <2>1. argv \in CommandLines /\ optind \in 1 .. Len(argv) + 1
    BY <1>2 DEF TypeOK
  <2>2. Len(argv) \in Nat
    BY <2>1, Options
  <2> QED
    BY <1>1, <2>1, <2>2
<1>4. id' \in {id, NemId}
  BY DEF Prepare
<1>5. TypeOK'
  BY <1>1, <1>2, <1>4 DEF TypeOK, NemId, waiting
<1>6. ASSUME pc' = "prepared" PROVE NemGiven'
  <2>1. id' = NemId /\ NemId # 0
    BY <1>6 DEF Prepare
  <2>2. id = LineId(Len(argv)) /\ file.id = FileId(Len(argv))
    BY <1>2, <1>3 DEF IdsRead
  <2>3. LET nems == OptionsOf("nem")
            configs == OptionsOf("config")
        IN  /\ nems \union configs # {}
            /\ NemId = IF nems # {} THEN argv[Max(nems)].id ELSE argv[Max(configs)].document.id
    BY <1>3, <2>1, <2>2, NemIdIsGiven
  <2> QED
    BY <1>1, <2>1, <2>3, SameLine DEF NemGiven
<1>7. TablesRead'
  BY <1>1, <1>2, SameLine DEF TablesRead
<1>8. optind' = Len(argv') + 1
  BY <1>1, <1>3
<1> QED
  BY <1>1, <1>5, <1>6, <1>7, <1>8 DEF MInv, OptionsRead, ParameterPrecedence, NemIdPrecedence,
       Configured

LEMMA ConfiguredTables ==
  ASSUME MInv, Configure
  PROVE  args' = [t \in Tables |-> [name \in NamesGiven(t) |-> FirstGiven(t, name)]]
<1>1. argv \in CommandLines /\ TablesRead /\ optind - 1 = Len(argv)
  <2>1. argv \in CommandLines /\ TablesRead /\ optind = Len(argv) + 1
    BY DEF MInv, OptionsRead, Configure, TypeOK
  <2>2. Len(argv) \in Nat
    BY <2>1, Options
  <2> QED
    BY <2>1, <2>2
<1>2. \A t \in Tables :
        args[t] = LineTable(t, Len(argv)) /\ file.maps[t] = FileTable(t, Len(argv))
  BY <1>1 DEF TablesRead
<1>3. \A t \in Tables :
        LET merged == Merge(LineTable(t, Len(argv)), FileTable(t, Len(argv)))
        IN  (IF t = "emu" THEN InsertAll(merged, Defaults) ELSE merged) =
              [name \in NamesGiven(t) |-> FirstGiven(t, name)]
  BY <1>1, TablesComplete
<1>4. \A t \in Tables :
        (LET merged == Merge(args[t], file.maps[t])
         IN  IF t = "emu" THEN InsertAll(merged, Defaults) ELSE merged) =
           [name \in NamesGiven(t) |-> FirstGiven(t, name)]
  BY <1>2, <1>3
<1>5. args' = [t \in Tables |->
                 LET merged == Merge(args[t], file.maps[t])
                 IN  IF t = "emu" THEN InsertAll(merged, Defaults) ELSE merged]
  BY DEF Configure
<1> QED
  BY <1>4, <1>5

LEMMA ConfigureInvariance ==
  ASSUME MInv, Configure
  PROVE  MInv'
<1>1. pc = "prepared" /\ pc' \in {"configured", "failed"}
      /\ UNCHANGED <<argv, optind, id, file, flags, level, waiting>>
  BY DEF Configure
<1>2. args' = [t \in Tables |-> [name \in NamesGiven(t) |-> FirstGiven(t, name)]]
  BY ConfiguredTables
<1>3. TypeOK'
  BY <1>1, <1>2 DEF MInv, TypeOK, waiting
<1>4. ParameterPrecedence'
  BY <1>1, <1>2, SameLine DEF ParameterPrecedence
<1>5. NemGiven
  BY <1>1 DEF MInv, OptionsRead
<1>6. NemIdPrecedence'
  BY <1>1, <1>5, SameLine DEF NemGiven, NemIdPrecedence
<1> QED
  BY <1>1, <1>3, <1>4, <1>6 DEF MInv, OptionsRead

(* Nothing after that changes the options, the tables or the id.           *)
LEMMA RunInvariance ==
  ASSUME MInv, UNCHANGED <<argv, options>>,
         \/ UNCHANGED pc
         \/ Configured
         \/ pc' \in {"exited", "failed", "killed"},
         pc' \in {pc, "started", "waiting", "stopping", "exited", "failed", "killed"},
         handled' \subseteq Range(Signals), mutex' \in {"free", "locked"},
         sent' \in 0 .. MaxSignals, asked' \in BOOLEAN
  PROVE  MInv'
<1>1. TypeOK'
  BY DEF MInv, TypeOK, options
<1>2. ParameterPrecedence'
  BY SameLine DEF MInv, ParameterPrecedence, options, Configured
<1>3. NemIdPrecedence'
  BY SameLine DEF MInv, NemIdPrecedence, options, Configured
<1>4. OptionsRead'
  <2>1. TablesRead => TablesRead'
    BY SameLine DEF TablesRead, options
  <2>2. IdsRead => IdsRead'
    BY SameLine DEF IdsRead, options
  <2>3. NemGiven => NemGiven'
    BY SameLine DEF NemGiven, options
  <2> QED
    BY <2>1, <2>2, <2>3 DEF MInv, OptionsRead, options
<1> QED
  BY <1>1, <1>2, <1>3, <1>4 DEF MInv

(* There is a signal for each turn of the loop that installs the handlers. *)
LEMMA NextSignal ==
  ASSUME handled \subseteq Range(Signals), Cardinality(handled) < Len(Signals)
  PROVE  Signals[Cardinality(handled) + 1] \in Range(Signals)
<1>1. Len(Signals) \in Nat /\ DOMAIN Signals = 1 .. Len(Signals) /\ IsFiniteSet(DOMAIN Signals)
  BY MonitorAssumption, Places
<1>2. IsFiniteSet(Range(Signals))
  <2> DEFINE f == [k \in DOMAIN Signals |-> Signals[k]]
  <2>1. Range(Signals) = {Signals[k] : k \in DOMAIN Signals}
    BY DEF Range
  <2>2. f \in Surjection(DOMAIN Signals, Range(Signals))
    BY <2>1 DEF Surjection
  <2> QED
    BY <1>1, <2>2, FS_Surjection
<1>3. Cardinality(handled) \in Nat
  BY <1>2, FS_Subset, FS_CardinalityType
<1>4. Cardinality(handled) + 1 \in DOMAIN Signals
  BY <1>1, <1>3
<1> QED
  BY <1>4 DEF Range

THEOREM MonitorInductive == Spec => []MInv
<1>1. Init => MInv
  BY MonitorInitInvariant
<1>2. MInv /\ [Next]_vars => MInv'
  <2> SUFFICES ASSUME MInv, [Next]_vars PROVE MInv'
    OBVIOUS
  <2>0. TypeOK
    BY DEF MInv
  <2>1. CASE \/ ParameterOption \/ ConfigOption \/ NemOption \/ FlagOption \/ LevelOption
             \/ ExtraWord \/ LastOption
    BY <2>1, ReadInvariance
  <2>2. CASE Prepare
    BY <2>2, PrepareInvariance
  <2>3. CASE Configure
    BY <2>3, ConfigureInvariance
  <2>4. CASE StartManager
    BY <2>0, <2>4, RunInvariance DEF StartManager, Configured, TypeOK, waiting
  <2>5. CASE InstallHandler
    <3>1. handled' \subseteq Range(Signals)
      BY <2>0, <2>5, NextSignal DEF InstallHandler, TypeOK
    <3> QED
      BY <2>0, <2>5, <3>1, RunInvariance DEF InstallHandler, TypeOK
  <2>6. CASE FirstLock
    BY <2>0, <2>6, RunInvariance DEF FirstLock, Configured, TypeOK
  <2>7. CASE SecondLock
    BY <2>0, <2>7, RunInvariance DEF SecondLock, Configured, TypeOK
  <2>8. CASE StopManager
    BY <2>0, <2>8, RunInvariance DEF StopManager, Configured, TypeOK, waiting
  <2>9. ASSUME NEW s \in Range(Signals), Signal(s) PROVE MInv'
    <3>1. sent' \in 0 .. MaxSignals
      BY <2>0, <2>9, MonitorAssumption DEF Signal, TypeOK
    <3>2. asked' \in BOOLEAN /\ mutex' \in {"free", "locked"} /\ pc' \in {pc, "killed"}
          /\ handled' = handled /\ UNCHANGED <<argv, options>>
      BY <2>0, <2>9 DEF Signal, Handle, TypeOK
    <3> QED
      BY <2>0, <3>1, <3>2, RunInvariance DEF TypeOK
  <2>10. CASE UNCHANGED vars
    BY <2>0, <2>10, RunInvariance DEF vars, options, TypeOK
  <2> QED
    BY <2>1, <2>2, <2>3, <2>4, <2>5, <2>6, <2>7, <2>8, <2>9, <2>10 DEF Next, Main
<1> QED
  BY <1>1, <1>2, PTL DEF Spec

(* Each parameter gets the first value the command line has for it, else   *)
(* the first of the files in the order they were loaded, else the default  *)
(* (monitor.cc:422-476), with the physical layer too.                      *)
THEOREM CommandLineFirst == PhySpec => []ParameterPrecedence
<1>1. MInv => ParameterPrecedence
  BY DEF MInv
<1> QED
  BY <1>1, ImplementsMonitor, MonitorInductive, PTL

(* The NEM has the id of the last -n, else of the last file, and never     *)
(* starts without one (monitor.cc:293-304, 328-331).                           *)
THEOREM LastNemIdUsed == PhySpec => []NemIdPrecedence
<1>1. MInv => NemIdPrecedence
  BY DEF MInv
<1> QED
  BY <1>1, ImplementsMonitor, MonitorInductive, PTL

-----------------------------------------------------------------------------
(* The layer's own types, and that it is started while main waits.         *)
LayerTypes ==
  /\ phase \in {"initialized", "configured", "started", "destroyed", "failed"}
  /\ gain.value \in Int /\ gain.enabled \in BOOLEAN
  /\ modified \in BOOLEAN
  /\ antenna \in [kind : {"none", "omni", "profile"}, gain : Int,
                  pointing : Pointings \cup {NoPointing}]
  /\ recording \in {"earlier", "own"}
  /\ pc \in {"started", "waiting", "stopping"} => phase = "started"

LEMMA ConfiguredGain ==
  ASSUME MInv, Configure
  PROVE  GainOf(Parameters(args'["phy"])).value \in Int
<1> DEFINE table == args'["phy"]
           name == "fixedantennagain"
<1>1. args' = [t \in Tables |-> [n \in NamesGiven(t) |-> FirstGiven(t, n)]] /\ "phy" \in Tables
  BY ConfiguredTables DEF Tables
<1>2. table = [n \in NamesGiven("phy") |-> FirstGiven("phy", n)]
  BY <1>1
<1>3. argv \in CommandLines
  BY DEF MInv, TypeOK
<1>4. \A n \in DOMAIN table : table[n] \in Int
  BY <1>1, <1>2, <1>3, GivenIsNumber
<1> HIDE DEF table
<1>5. name \in DOMAIN PhyDefaults /\ PhyDefaults[name] \in Int
  BY MonitorPhyAssumption
<1>6. Parameters(table)[name] = IF name \in DOMAIN table THEN table[name] ELSE PhyDefaults[name]
  BY <1>5 DEF Parameters, Over
<1>7. Parameters(table)[name] \in Int
  BY <1>4, <1>5, <1>6
<1> QED
  BY <1>7 DEF GainOf, table

LEMMA LayerTypesInvariance ==
  ASSUME LayerTypes, MInv, [PhyNext]_monitorPhyVars
  PROVE  LayerTypes'
<1>1. CASE /\ \/ ParameterOption \/ ConfigOption \/ NemOption \/ FlagOption \/ LevelOption
              \/ ExtraWord \/ LastOption \/ Prepare
           /\ UNCHANGED phyVars
  <2>1. pc' \in {"parsing", "prepared", "exited", "failed"}
    BY <1>1 DEF ParameterOption, ConfigOption, NemOption, FlagOption, LevelOption,
         ExtraWord, LastOption, NextOption, Prepare
  <2> QED
    BY <1>1, <2>1 DEF LayerTypes, phyVars
<1>2. CASE /\ InstallHandler \/ FirstLock \/ SecondLock
           /\ UNCHANGED phyVars
  <2>1. pc \in {"started", "waiting"}
    BY <1>2 DEF InstallHandler, FirstLock, SecondLock
  <2> QED
    BY <1>2, <2>1 DEF LayerTypes, phyVars
<1>3. CASE PhyConfigure
  <2>1. Configure /\ pc' \in {"configured", "failed"}
        /\ UNCHANGED <<modified, antenna, recording, used, former>>
    BY <1>3 DEF PhyConfigure, Configure
  <2>2. \/ gain' = GainOf(Parameters(args'["phy"])) /\ phase' = "configured"
        \/ gain' = gain /\ phase' = "failed"
    BY <1>3 DEF PhyConfigure
  <2>3. gain'.value \in Int
    <3>1. GainOf(Parameters(args'["phy"])).value \in Int
      BY <2>1, ConfiguredGain
    <3> QED
      BY <2>2, <3>1 DEF LayerTypes
  <2>4. gain'.enabled \in BOOLEAN
    <3>1. ASSUME NEW p PROVE GainOf(p).enabled \in BOOLEAN
      BY Zenon DEF GainOf
    <3> QED
      BY <2>2, <3>1, Zenon DEF LayerTypes
  <2> QED
    BY <2>1, <2>2, <2>3, <2>4 DEF LayerTypes
<1>4. CASE StartFailsBefore
  BY <1>4 DEF StartFailsBefore, LayerTypes, phyVars
<1>5. CASE PhyStart
  <2>1. antenna' \in [kind : {"none", "omni", "profile"}, gain : Int,
                     pointing : Pointings \cup {NoPointing}]
    BY <1>5 DEF PhyStart, LayerTypes, IdealOmni, ProfileDefined
  <2> QED
    BY <1>5, <2>1 DEF PhyStart, StartManager, LayerTypes
<1>6. CASE PhyStop
  BY <1>6 DEF PhyStop, StopManager, LayerTypes
<1>7. ASSUME NEW s \in Range(Signals), Signal(s), UNCHANGED phyVars PROVE LayerTypes'
  <2>1. pc' \in {pc, "killed"}
    BY <1>7 DEF Signal, Handle
  <2> QED
    BY <1>7, <2>1 DEF LayerTypes, phyVars
<1>8. ASSUME NEW g \in Gains, ModifyGain(g) PROVE LayerTypes'
  <2>1. g \in Int
    BY MonitorPhyAssumption
  <2> QED
    BY <1>8, <2>1 DEF ModifyGain, LayerTypes, vars
<1>9. ASSUME NEW p \in Pointings, ProfileEvent(p) PROVE LayerTypes'
  <2>1. antenna' \in [kind : {"none", "omni", "profile"}, gain : Int,
                     pointing : Pointings \cup {NoPointing}]
    BY <1>9 DEF ProfileEvent, LayerTypes
  <2> QED
    BY <1>9, <2>1 DEF ProfileEvent, LayerTypes, vars
<1>11. CASE Receive \/ Report
  BY <1>11 DEF Receive, Report, LayerTypes, vars
<1>10. CASE UNCHANGED monitorPhyVars
  BY <1>10 DEF monitorPhyVars, vars, phyVars, LayerTypes
<1> QED
  BY <1>1, <1>2, <1>3, <1>4, <1>5, <1>6, <1>7, <1>8, <1>9, <1>10, <1>11 DEF PhyNext, PhyMain

(* The variables of the application and the layer have the code's types,   *)
(* the gain is a number whatever gave it, and the layer runs whenever main *)
(* waits for a signal (monitor.cc:512-538).                                *)
THEOREM MonitorTypesKept == PhySpec => []PhyTypeOK
<1>1. PhyInit => LayerTypes
  <2> SUFFICES ASSUME PhyInit PROVE LayerTypes
    OBVIOUS
  <2>1. gain.value = 0 /\ gain.enabled = FALSE
    BY DEF PhyInit
  <2>2. gain.enabled \in BOOLEAN
    BY <2>1, Zenon
  <2>3. gain.value \in Int
    BY <2>1
  <2>4. /\ phase = "initialized" /\ pc = "parsing" /\ recording = "earlier"
        /\ modified = FALSE /\ antenna = NoAntenna
    BY DEF PhyInit, Init
  <2>5. modified \in BOOLEAN
    BY <2>4, Zenon
  <2>6. antenna \in [kind : {"none", "omni", "profile"}, gain : Int,
                    pointing : Pointings \cup {NoPointing}]
    BY <2>4 DEF NoAntenna
  <2> QED
    BY <2>2, <2>3, <2>4, <2>5, <2>6 DEF LayerTypes
<1>2. LayerTypes /\ MInv /\ [PhyNext]_monitorPhyVars => LayerTypes'
  BY LayerTypesInvariance
<1>3. LayerTypes /\ MInv => PhyTypeOK
  BY DEF LayerTypes, MInv, PhyTypeOK
<1> QED
  BY <1>1, <1>2, <1>3, ImplementsMonitor, MonitorInductive, PTL DEF PhySpec
===============================================================================
