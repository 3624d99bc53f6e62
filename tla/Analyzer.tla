------------------------------- MODULE Analyzer -------------------------------
(***************************************************************************)
(* emane-spectrum-analyzer on top of the streamer: matplotlib's thread     *)
(* calls _update every 10 ms, which takes the streamer's energy with       *)
(* data() and adds a row to the waterfalls: one of the total energy, one   *)
(* for every waveform (subid).  The key w selects the next waveform of a   *)
(* cycle that _update makes anew when it meets a waveform.  An exception   *)
(* in _update is printed and otherwise ignored.                            *)
(*                                                                         *)
(* What a waveform sends on a frequency is shown over its bandwidth, in    *)
(* steps of HzStep.  Powers are linear; instead of a conversion to dBm     *)
(* there is a least power, that of the thermal noise.  Lines, axes and     *)
(* colours are left out.                                                   *)
(***************************************************************************)
EXTENDS EnergyStreamer, SequencesExt

CONSTANTS
  FreqOf,        \* the frequency of a key
  HzStep,        \* --hz-step
  HzMin, HzMax,  \* --hz-min, --hz-max
  NoiseFloor,    \* the thermal noise
  WithWaveforms, \* --with-waveforms
  Depth,         \* rows of a waterfall: 100 in the code
  None           \* no waveform is selected

ASSUME AnalyzerAssumption ==
  /\ FreqOf \in [Keys -> Nat] /\ HzStep \in Nat \ {0} /\ HzMin \in Nat /\ HzMax \in Nat
  /\ NoiseFloor \in Nat /\ WithWaveforms \in BOOLEAN /\ Depth \in Nat \ {0}
  /\ IsFiniteSet(Keys) /\ IsFiniteSet(Subids) /\ None \notin Subids
  /\ \A k, l \in Keys : FreqOf[k] = FreqOf[l] /\ SubidOf[k] = SubidOf[l] => k = l

VARIABLES
  total,     \* _waterfall_total: rows, the newest first
  waterfall, \* _waterfall_subid_wf: the same per waveform
  known,     \* _subids
  cycle,     \* _cycle_subid: the waveforms and None in some order
  turn,      \* how often the cycle was asked
  select,    \* _subid_wf_select
  failed     \* an _update raised an exception

analyzerVars == <<vars, total, waterfall, known, cycle, turn, select, failed>>
viewVars == <<total, waterfall, known, cycle, turn, select, failed>>

-----------------------------------------------------------------------------
(* _create_df                                                              *)
MinFreq == (HzMin \div HzStep) * HzStep
MaxFreq == ((HzMax + HzStep - 1) \div HzStep) * HzStep
FreqValues == {f \in MinFreq .. MaxFreq : f % HzStep = 0}

(* The frequencies a key is shown at.                                      *)
BandWithoutEnd(k) ==
  LET width == result.bandwidth[SubidOf[k]]
  IN  {f \in MinFreq .. MaxFreq :
         \E i \in 0 .. width \div HzStep - 1 : f = FreqOf[k] - width \div 2 + i * HzStep}

Band(k) ==
  LET width == result.bandwidth[SubidOf[k]]
  IN  {f \in MinFreq .. MaxFreq :
         \E i \in 0 .. width \div HzStep : f = FreqOf[k] - width \div 2 + i * HzStep}

InStore == {k \in Keys : result.energy[k] # Absent}
StoreFreqs == {FreqOf[k] : k \in InStore}

(* The subids with columns: those of the store, and all seen before.       *)
SubidsOfStore == {SubidOf[k] : k \in InStore}
ShownSubids == {SubidOf[k] : k \in InStore} \cup {s \in Subids : result.bandwidth[s] > 0}

(* model[f][s]: where the bands of two frequencies of a subid overlap, the *)
(* one that comes later in the store, whose order is that of its frequen-  *)
(* cies' arrival, overwrites the other.                                    *)
Covering(f, s) == {k \in InStore : SubidOf[k] = s /\ f \in Band(k)}
Position(k, order) == CHOOSE i \in DOMAIN order : order[i] = FreqOf[k]
Model(f, s, order) ==
  IF Covering(f, s) = {} THEN 0
  ELSE LET last == CHOOSE k \in Covering(f, s) : \A l \in Covering(f, s) :
                      Position(l, order) <= Position(k, order)
       IN  result.energy[last]

(* freq_bins: the largest of the frequencies of a bin.                     *)
InBin(b) == {f \in b .. b + HzStep - 1 : f <= MaxFreq}
BinEnergy(b, s, order) == Max({Model(f, s, order) : f \in InBin(b)})

Shown(power) == Larger(power, NoiseFloor)
WaveformRow(s, order) == [b \in FreqValues |-> Shown(BinEnergy(b, s, order))]
TotalRow(order) ==
  [b \in FreqValues |-> Shown(SumFunction([s \in ShownSubids |-> BinEnergy(b, s, order)]))]

(* appendleft on a deque of Depth                                          *)
AppendLeftOfSeen(rows, row, seen) ==
  IF seen THEN SubSeq(<<row>> \o rows, 1, IF Len(rows) < Depth THEN Len(rows) + 1 ELSE Depth)
  ELSE rows
AppendLeft(rows, row) ==
  SubSeq(<<row>> \o rows, 1, IF Len(rows) < Depth THEN Len(rows) + 1 ELSE Depth)

RowsOfStoreOnly(order) ==
  [s \in Subids |-> AppendLeftOfSeen(waterfall[s], WaveformRow(s, order), s \in SubidsOfStore)]
WaveformRows(order) ==
  [s \in Subids |-> IF s \in ShownSubids THEN AppendLeft(waterfall[s], WaveformRow(s, order))
                    ELSE waterfall[s]]

-----------------------------------------------------------------------------
(* _update: it calls data(), and with what it gets it draws.               *)
UpdateCalls ==
  /\ ~cancelled
  /\ Call
  /\ UNCHANGED viewVars

NewCycleKept(order) ==
  IF ShownSubids \subseteq known THEN UNCHANGED <<known, cycle, turn>>
  ELSE /\ known' = known \cup ShownSubids
       /\ cycle' = IF cycle = << >> THEN SetToSeq(known') \o <<None>> ELSE cycle
       /\ UNCHANGED turn

NewCycle(order) ==
  IF ShownSubids \subseteq known THEN UNCHANGED <<known, cycle, turn>>
  ELSE /\ known' = known \cup ShownSubids
       /\ \E subids \in SetToSeqs(known') : cycle' = subids \o <<None>>
       /\ turn' = 0

Draw ==
  /\ DataReturns
  /\ IF InStore = {} THEN UNCHANGED viewVars
     ELSE \E order \in SetToSeqs(StoreFreqs) :
            /\ total' = AppendLeft(total, TotalRow(order))
            /\ IF WithWaveforms
               THEN /\ waterfall' = WaveformRows(order)
                    /\ NewCycle(order)
                    /\ failed' = (failed \/ select \notin ShownSubids \cup {None})
               ELSE UNCHANGED <<waterfall, known, cycle, turn, failed>>
            /\ UNCHANGED select

(* press: next() of an empty cycle raises.                                 *)
Press ==
  /\ WithWaveforms /\ ~cancelled
  /\ caller = "idle"
  /\ cycle # << >>
  /\ select' = cycle[(turn % Len(cycle)) + 1]
  /\ turn' = (turn + 1) % Len(cycle)
  /\ UNCHANGED <<vars, total, waterfall, known, cycle, failed>>

(* The window is closed: run() returns and the streamer is stopped.        *)
Close ==
  /\ caller = "idle"
  /\ Stop
  /\ UNCHANGED viewVars

AnalyzerInit ==
  /\ Init
  /\ total = << >> /\ waterfall = [s \in Subids |-> << >>]
  /\ known = {} /\ cycle = << >> /\ turn = 0
  /\ select = None /\ failed = FALSE

StreamerStep == ReceiverStep /\ UNCHANGED viewVars

ViewerStep ==
  \/ (DataAcquires \/ DataCopies \/ DataClears) /\ UNCHANGED viewVars
  \/ Draw

AnalyzerNext ==
  \/ \E m \in Messages : Send(m) /\ UNCHANGED viewVars
  \/ StreamerStep
  \/ UpdateCalls
  \/ ViewerStep
  \/ Press
  \/ Close

AnalyzerSpec == AnalyzerInit /\ [][AnalyzerNext]_analyzerVars

(* The fairness of the streamer's two threads.                             *)
AnalyzerFairness ==
  /\ WF_analyzerVars(StreamerStep) /\ SF_analyzerVars(UpdateAcquires /\ UNCHANGED viewVars)
  /\ WF_analyzerVars(ViewerStep) /\ SF_analyzerVars(DataAcquires /\ UNCHANGED viewVars)

FairAnalyzerSpec == AnalyzerSpec /\ AnalyzerFairness

-----------------------------------------------------------------------------
(* The waterfalls fit together, row by row and at each frequency: however  *)
(* late a waveform turned up and however long it was silent since, the row *)
(* of an instant has no waveform above the total and no total above what   *)
(* its waveforms add up to.                                                *)
WaterfallsAligned ==
  WithWaveforms =>
    \A r \in DOMAIN total : \A b \in FreqValues :
      LET present == {s \in Subids : r <= Len(waterfall[s])}
      IN  /\ \A s \in present : waterfall[s][r][b] <= total[r][b]
          /\ total[r][b] <= SumFunction([s \in present |-> waterfall[s][r][b]])

(* What data() returned is shown: a power on a frequency of the range that *)
(* no other signal of its waveform is sent on has a row that is at least   *)
(* as high there, and a row above the noise has a signal there.            *)
BinOf(f) == (f \div HzStep) * HzStep
SentOn(k, f) ==
  LET width == result.bandwidth[SubidOf[k]]
      low == FreqOf[k] - width \div 2
  IN  f \in low .. low + width /\ (f - low) % HzStep = 0

EnergyShown ==
  caller = "idle" /\ InStore # {} =>
    /\ \A k \in InStore : \A f \in MinFreq .. MaxFreq :
         /\ SentOn(k, f)
         /\ \A l \in InStore \ {k} : SubidOf[l] = SubidOf[k] => ~SentOn(l, f)
         => total[1][BinOf(f)] >= result.energy[k]
    /\ \A b \in FreqValues :
         total[1][b] > NoiseFloor =>
           \E k \in InStore : result.energy[k] > 0 /\ \E f \in InBin(b) : SentOn(k, f)

(* No update fails: the waveform selected, whenever it was, has a column   *)
(* in every later one, and each waveform met can be selected.              *)
UpdatesSucceed ==
  /\ ~failed
  /\ select \in known \cup {None}
  /\ cycle # << >> => Range(cycle) = known \cup {None}
=============================================================================
