---------------------------- MODULE NoiseRecorders ----------------------------
(***************************************************************************)
(* What the receive path and the query of MonitorPhy share: the noise      *)
(* recorders of its spectrum monitors (spectrummonitoralt.cc).  One is     *)
(* created when its first energy arrives, and queried from then on.        *)
(***************************************************************************)

CONSTANT MaxDuration \* noisemaxsegmentduration

VARIABLE recorders   \* the (subid, frequency) pairs with a noise recorder
=============================================================================
