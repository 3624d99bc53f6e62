------------------------------ MODULE NoiseBins ------------------------------
(***************************************************************************)
(* The noise-bin arithmetic of a spectrum query: which bins of a window    *)
(* cover an interval and what the largest power among them is              *)
(* (maxnoisebin.h).  Instants are natural numbers (microseconds); a window *)
(* is the record [start, bin, data]: the instant the window was requested  *)
(* from, the size of a bin and the powers of the window's bins, a function *)
(* of 0 .. n - 1.                                                          *)
(***************************************************************************)
EXTENDS Integers, FiniteSetsExt

(* EMANE::Utils::timepointToAbsoluteBin: the bin an instant falls in; with *)
(* adjust, an instant on a bin boundary belongs to the bin it ends.        *)
AbsoluteBin(t, size, adjust) ==
  t \div size - IF adjust /\ t % size = 0 THEN 1 ELSE 0

(* NoiseRecorder::get: the bins that intersect [start, start + duration).  *)
RecorderWindow(power, bin, start, duration) ==
  LET first == AbsoluteBin(start, bin, FALSE)
      last  == AbsoluteBin(start + duration, bin, TRUE)
  IN  [start |-> start, bin |-> bin,
       data  |-> [k \in 0 .. last - first |-> power[first + k]]]

StartIndex(window, startTime) ==
  AbsoluteBin(startTime, window.bin, FALSE) - AbsoluteBin(window.start, window.bin, FALSE)

EndIndex(window, endTime) ==
  AbsoluteBin(endTime, window.bin, TRUE) - AbsoluteBin(window.start, window.bin, FALSE)

(* The conditions under which maxNoiseBin throws SpectrumServiceException. *)
MaxNoiseBinThrows(window, startTime, endTime) ==
  \/ startTime < window.start
  \/ endTime < startTime
  \/ EndIndex(window, endTime) < StartIndex(window, startTime)
  \/ EndIndex(window, endTime) \notin DOMAIN window.data
  \/ StartIndex(window, startTime) \notin DOMAIN window.data

(* Its result otherwise: std::max_element over the two indices' range.     *)
MinNoiseBin(window, startTime, endTime) ==
  Min({window.data[k] : k \in StartIndex(window, startTime) .. EndIndex(window, endTime)})

MaxNoiseBin(window, startTime, endTime) ==
  Max({window.data[k] : k \in StartIndex(window, startTime) .. EndIndex(window, endTime)})
=============================================================================
