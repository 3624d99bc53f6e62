----------------------------- MODULE MCMonitorPhy -----------------------------
(* MonitorPhy with command lines of up to MaxOptions options: values of    *)
(* parameters, two files that disagree with them and with each other, and  *)
(* one of everything else main looks at.                                   *)
EXTENDS MonitorPhy

CONSTANT MaxOptions

Item(name, value) == [name |-> name, value |-> value]
Document(valid, nemId, phy, emu) ==
  [valid |-> valid, id |-> nemId, items |-> [phy |-> phy, emu |-> emu]]

(* The windows add up to eight noise bins; 3 does not divide them.         *)
MCPhyDefaults ==
  [fixedantennagain |-> 0, fixedantennagainenable |-> 1, noisebinsize |-> 1,
   noisemaxsegmentoffset |-> 3, noisemaxmessagepropagation |-> 1,
   noisemaxsegmentduration |-> 2]
    @@ ("spectrumquery.rate" :> 2) @@ ("spectrumquery.recorderfile" :> 0)

(* "bandwidth" is no parameter of the layer.                               *)
MCOptions ==
  {[kind |-> "phy", item |-> i] : i \in
     {Item("noisebinsize", 3), Item("noisebinsize", 2), Item("fixedantennagain", 1)}}
    \union {[kind |-> "emu", item |-> Item("controlportendpoint", 1)]}
    \union {[kind |-> "config", document |-> d] : d \in
      {Document(TRUE, 1, <<Item("spectrumquery.recorderfile", 1), Item("noisebinsize", 4),
                           Item("noisebinsize", 3)>>, << >>),
       Document(TRUE, 2, <<Item("fixedantennagainenable", 0), Item("noisebinsize", 8)>>,
                <<Item("controlportendpoint", 5)>>),
       Document(FALSE, 3, <<Item("bandwidth", 1)>>, << >>)}}
    \union {[kind |-> "nem", id |-> n] : n \in 3..4}
    \union {[kind |-> "flag", flag |-> f] : f \in {"daemonize", "logfile"}}
    \union {[kind |-> "loglevel", level |-> 0]}
    \union {[kind |-> k] : k \in {"refused", "info", "extra"}}
    \union {[kind |-> "phy", item |-> Item("bandwidth", 1)]}

MCCommandLines == UNION {[1..n -> MCOptions] : n \in 0..MaxOptions}
MCDefaults == <<Item("controlportendpoint", 0), Item("otamanagergroup", 0)>>
MCSignals == <<"SIGINT", "SIGQUIT">>
================================================================================
