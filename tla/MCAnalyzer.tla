------------------------------ MODULE MCAnalyzer ------------------------------
(* Analyzer on a waveform with two frequencies, whose bands overlap and    *)
(* reach over the end of the range, and one whose band does not begin at a *)
(* bin; powers that rise and fall, several keys in a message, and a        *)
(* frequency without a measurement.                                        *)
EXTENDS Analyzer, TLC

MCKeys == {"f1s1", "f2s1", "f1s2"}
MCSubids == {"s1", "s2"}
MCSubidOf == [k \in MCKeys |-> IF k = "f1s2" THEN "s2" ELSE "s1"]
MCFreqOf == [k \in MCKeys |-> IF k = "f2s1" THEN 8 ELSE 6]

Msg(f1s1, f2s1, f1s2) ==
  [energy    |-> ("f1s1" :> f1s1 @@ "f2s1" :> f2s1 @@ "f1s2" :> f1s2),
   bandwidth |-> ("s1" :> (IF f1s1 = -1 /\ f2s1 = -1 THEN 0 ELSE 4)
                  @@ "s2" :> (IF f1s2 = -1 THEN 0 ELSE 2))]

MCMessages == {Msg(2, -1, -1), Msg(1, 2, 1), Msg(-1, -1, 0), Msg(-1, -2, 2)}
===============================================================================
