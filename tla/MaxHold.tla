------------------------------- MODULE MaxHold -------------------------------
(***************************************************************************)
(* What SpectrumEnergyStreamer promises its callers: a max-hold buffer.    *)
(* Each message is absorbed as a whole, taking the buffer's contents       *)
(* returns them as a whole, and the next interval starts from nothing.     *)
(* The streamer's threads and its lock are absent.                         *)
(***************************************************************************)
EXTENDS Integers

CONSTANTS
  Keys,   \* (frequency, subid) pairs
  Powers  \* received powers

VARIABLES
  held,   \* per key, the largest power since the buffer was taken
  result  \* what the last caller took

holdVars == <<held, result>>

(* A key the buffer does not hold.                                         *)
Absent == -1
Nothing == [k \in Keys |-> Absent]
Energies == [Keys -> Powers \cup {Absent}]

Larger(a, b) == IF a >= b THEN a ELSE b

Absorb(energy) ==
  /\ held' = [k \in Keys |-> Larger(held[k], energy[k])]
  /\ UNCHANGED result

Take ==
  /\ result' = held
  /\ held' = Nothing

HoldInit == held = Nothing /\ result = Nothing

HoldNext == (\E energy \in Energies : Absorb(energy)) \/ Take

HoldSpec == HoldInit /\ [][HoldNext]_holdVars
=============================================================================
