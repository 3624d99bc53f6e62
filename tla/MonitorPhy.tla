------------------------------ MODULE MonitorPhy ------------------------------
(***************************************************************************)
(* The life of the monitor's physical layer, MonitorPhy (monitorphy.cc),   *)
(* in the application that owns it, Monitor: main configures it with the   *)
(* merged parameters, starts it, and stops and destroys it with the NEM    *)
(* manager.  Between start and stop messages are received, queries report, *)
(* and fixedantennagain may be modified.  What receptions record is        *)
(* ReceivePath's and what queries report of it SpectrumQuery's; here it is *)
(* the antenna that the two are about.                                     *)
(*                                                                         *)
(* The antenna is kept twice: start gives the antenna manager, which       *)
(* receptions ask for their gain, one made of the configuration; reports   *)
(* read the configuration first, and the manager's antenna only where that *)
(* has no fixed gain.  Antenna profile events turn the antenna of a        *)
(* profile, and a report reads it as it is then, not as it was when the    *)
(* energy came.  The recorder file is opened last, truncating what an      *)
(* earlier monitor recorded.                                               *)
(***************************************************************************)
EXTENDS Monitor

CONSTANTS
  PhyDefaults, \* the parameters MonitorPhy registers, with their defaults
  Gains,       \* values fixedantennagain is modified to
  Pointings    \* what a profile event may tell: profile id, azimuth and elevation

(* Times and gains are numbers, and so are switches and files: 0 is off,   *)
(* and no file.                                                            *)
ASSUME MonitorPhyAssumption ==
  /\ {"fixedantennagain", "fixedantennagainenable", "noisebinsize",
      "noisemaxsegmentoffset", "noisemaxmessagepropagation", "noisemaxsegmentduration",
      "spectrumquery.recorderfile"} \subseteq DOMAIN PhyDefaults
  /\ PhyDefaults \in [DOMAIN PhyDefaults -> Int] /\ PhyDefaults["noisebinsize"] > 0
  /\ Gains \subseteq Int
  /\ "none" \notin Pointings

VARIABLES
  phase,     \* of the layer
  gain,      \* optionalFixedAntennaGaindBi_: [value, enabled]
  modified,  \* history: the gain was modified since start
  antenna,   \* the default antenna of antennaManager_
  recording, \* whose the recorder file is: "earlier" or "own"
  used,      \* history: the antennas of the receptions since the last report
  former     \* history: the antennas profile events turned since the last report

phyVars == <<phase, gain, modified, antenna, recording, used, former>>
monitorPhyVars == <<vars, phyVars>>

NoPointing == "none"
NoAntenna == [kind |-> "none", gain |-> 0, pointing |-> NoPointing]
IdealOmni(g) == [kind |-> "omni", gain |-> g, pointing |-> NoPointing]
ProfileDefined == [kind |-> "profile", gain |-> 0, pointing |-> NoPointing]

-----------------------------------------------------------------------------
(* initialize registers the parameters: the framework refuses others, and  *)
(* hands configure the given values and the defaults.                      *)
Registered == DOMAIN PhyDefaults
Parameters(table) == Over(table, PhyDefaults)

(* configure refuses windows that together are no multiple of the noise    *)
(* bin; of the query's rate and bins it tests nothing.                     *)
Windows(parameters) ==
  parameters["noisemaxsegmentoffset"] + parameters["noisemaxmessagepropagation"]
    + 2 * parameters["noisemaxsegmentduration"]

Accepts(table) ==
  /\ DOMAIN table \subseteq Registered
  /\ Windows(Parameters(table)) % Parameters(table)["noisebinsize"] = 0

GainOf(parameters) ==
  [value |-> parameters["fixedantennagain"],
   enabled |-> parameters["fixedantennagainenable"] # 0]

(* main configures the layer, then the manager, which may refuse too.      *)
PhyConfigure ==
  /\ Configure
  /\ IF Accepts(args'["phy"])
     THEN phase' = "configured" /\ gain' = GainOf(Parameters(args'["phy"]))
     ELSE pc' = "failed" /\ phase' = "failed" /\ UNCHANGED gain
  /\ UNCHANGED <<modified, antenna, recording, used, former>>

-----------------------------------------------------------------------------
(* start: the antenna, the socket, the recorder file.  main may fail       *)
(* before it, and the manager after it.                                    *)
RecorderFile == Parameters(args["phy"])["spectrumquery.recorderfile"] # 0

PhyStartIgnoresSwitch ==
  /\ StartManager
  /\ antenna' = IdealOmni(gain.value)
  /\ \/ phase' = "started" /\ recording' = IF RecorderFile THEN "own" ELSE recording
     \/ phase' = "failed" /\ pc' = "failed" /\ UNCHANGED recording
  /\ UNCHANGED <<gain, modified, used, former>>

PhyStartOpensFirst ==
  /\ StartManager
  /\ antenna' = IF gain.enabled THEN IdealOmni(gain.value) ELSE ProfileDefined
  /\ recording' = IF RecorderFile THEN "own" ELSE recording
  /\ phase' \in {"started", "failed"} /\ (phase' = "failed" => pc' = "failed")
  /\ UNCHANGED <<gain, modified, used, former>>

PhyStart ==
  /\ StartManager
  /\ antenna' = IF gain.enabled THEN IdealOmni(gain.value) ELSE ProfileDefined
  /\ \/ phase' = "started" /\ recording' = IF RecorderFile THEN "own" ELSE recording
     \/ phase' = "failed" /\ pc' = "failed" /\ UNCHANGED recording
  /\ UNCHANGED <<gain, modified, used, former>>

StartFailsBefore ==
  /\ StartManager /\ pc' = "failed"
  /\ UNCHANGED phyVars

(* stop and destroy of the layer log and do nothing else.                  *)
PhyStop ==
  /\ StopManager
  /\ phase' = "destroyed"
  /\ UNCHANGED <<gain, modified, antenna, recording, used, former>>

-----------------------------------------------------------------------------
Running == phase = "started" /\ ~Ended

(* processConfiguration: of what may be modified, the gain.                *)
ModifyGain(g) ==
  /\ Running
  /\ gain' = [gain EXCEPT !.value = g]
  /\ modified' = TRUE
  /\ UNCHANGED <<vars, phase, antenna, recording, used, former>>

(* An antenna profile event about this node: the manager turns its antenna *)
(* if a profile defines it; one with a fixed gain has nothing to turn.     *)
ProfileEvent(p) ==
  /\ Running
  /\ antenna.kind = "profile"
  /\ antenna' = [antenna EXCEPT !.pointing = p]
  /\ former' = former \cup {antenna}
  /\ UNCHANGED <<vars, phase, gain, modified, recording, used>>

(* A message whose energy is recorded: the manager knew the gain.          *)
Receive ==
  /\ Running
  /\ antenna.kind = "profile" => antenna.pointing # NoPointing
  /\ used' = used \cup {antenna}
  /\ UNCHANGED <<vars, phase, gain, modified, antenna, recording, former>>

(* The antenna of a report, and the report, which is about the energy      *)
(* received since the one before.                                          *)
ReportedAntenna ==
  IF gain.enabled THEN IdealOmni(gain.value)
  ELSE IF antenna.pointing # NoPointing THEN antenna ELSE NoAntenna

Report ==
  /\ Running
  /\ used' = {} /\ former' = {}
  /\ UNCHANGED <<vars, phase, gain, modified, antenna, recording>>

PhyInit ==
  /\ Init
  /\ phase = "initialized"
  /\ gain = [value |-> 0, enabled |-> FALSE] /\ modified = FALSE
  /\ antenna = NoAntenna /\ recording = "earlier"
  /\ used = {} /\ former = {}

PhyMain ==
  \/ /\ \/ ParameterOption \/ ConfigOption \/ NemOption \/ FlagOption \/ LevelOption
        \/ ExtraWord \/ LastOption
        \/ Prepare \/ InstallHandler \/ FirstLock \/ SecondLock
     /\ UNCHANGED phyVars
  \/ PhyConfigure \/ StartFailsBefore \/ PhyStart \/ PhyStop

PhyNext ==
  \/ PhyMain
  \/ \E s \in Range(Signals) : Signal(s) /\ UNCHANGED phyVars
  \/ \E g \in Gains : ModifyGain(g)
  \/ \E p \in Pointings : ProfileEvent(p)
  \/ Receive
  \/ Report

PhySpec == PhyInit /\ [][PhyNext]_monitorPhyVars

(* main's thread, as in Monitor; the layer's has nothing it must do here.  *)
FairPhySpec == PhySpec /\ WF_monitorPhyVars(PhyMain)

-----------------------------------------------------------------------------
(* The types of the application and the layer, which is started whenever   *)
(* main waits for a signal.                                                *)
PhyTypeOK ==
  /\ TypeOK
  /\ phase \in {"initialized", "configured", "started", "destroyed", "failed"}
  /\ gain.value \in Int /\ gain.enabled \in BOOLEAN
  /\ modified \in BOOLEAN
  /\ antenna \in [kind : {"none", "omni", "profile"}, gain : Int,
                  pointing : Pointings \cup {NoPointing}]
  /\ recording \in {"earlier", "own"}
  /\ pc \in {"started", "waiting", "stopping"} => phase = "started"

(* Whenever a report is made, its antenna is the one that all energy it is *)
(* about was received with, or one that profile events have turned into it *)
(* since the report before; with a fixed gain, unless the gain was         *)
(* modified.                                                               *)
ReportsAgreeUntilChanged ==
  Running /\ ~(gain.enabled /\ modified) => used \subseteq {ReportedAntenna} \cup former

(* A layer that fails to start leaves an earlier recording as it is, and   *)
(* one that runs with a recorder file has begun its own.                   *)
FailedStartKeepsRecording ==
  /\ phase \in {"initialized", "configured", "failed"} => recording = "earlier"
  /\ phase = "started" /\ RecorderFile => recording = "own"
===============================================================================
