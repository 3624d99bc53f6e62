------------------------------- MODULE Monitor -------------------------------
(***************************************************************************)
(* The monitor application, monitor.cc, with the configuration files it    *)
(* loads, monitorconfigurationfile.cc.  It reads its options one at a time *)
(* into maps that keep the first value inserted, adds what the files and   *)
(* the defaults give, starts the NEM manager and then waits on a mutex     *)
(* that it locks twice and that its signal handler unlocks.                *)
(*                                                                         *)
(* Two parameter tables are filled the same way: "phy", the monitor and    *)
(* its physical layer, and "emu", the emulator.                            *)
(***************************************************************************)
EXTENDS Integers, SequencesExt

CONSTANTS
  CommandLines,   \* sequences of options, as getopt_long returns them
  Defaults,       \* items main inserts into the emulator's table, in order
  Signals,        \* the signals main handles, in the order it does
  MaxSignals      \* bound on the signals sent

MaxNemId == 65534  \* "NEM id of node.[1,65534]"

Tables == {"phy", "emu"}
IsSequence(s) == s \in Seq(Range(s))
IsItem(i) == DOMAIN i = {"name", "value"} /\ i.value \in Int
IsDocument(d) ==
  /\ d.valid \in BOOLEAN
  /\ d.id \in 1..MaxNemId
  /\ \A t \in Tables : IsSequence(d.items[t]) /\ \A k \in DOMAIN d.items[t] : IsItem(d.items[t][k])

(* What an option may be.  A "flag" is one of the settings main looks at   *)
(* once all options are read; "refused" stands for an unknown option, a    *)
(* missing argument and a value out of range, and "info" for --help and    *)
(* --version.  An "extra" word is no option: getopt_long moves it behind.  *)
IsOption(o) ==
  \/ o.kind \in Tables /\ IsItem(o.item)
  \/ o.kind = "config" /\ IsDocument(o.document)
  \/ o.kind = "nem" /\ o.id \in 1..MaxNemId
  \/ o.kind = "flag" /\ o.flag \in {"daemonize", "realtime", "logfile", "pidfile", "uuidfile"}
  \/ o.kind = "loglevel" /\ o.level \in 0..4
  \/ o.kind \in {"refused", "info", "extra"}

ASSUME MonitorAssumption ==
  /\ \A line \in CommandLines : IsSequence(line) /\ \A k \in DOMAIN line : IsOption(line[k])
  /\ IsSequence(Defaults) /\ \A k \in DOMAIN Defaults : IsItem(Defaults[k])
  /\ IsSequence(Signals) /\ IsInjective(Signals)
  /\ MaxSignals \in Nat

VARIABLES
  argv,     \* the command line of this run
  optind,   \* the next option
  id,       \* the NEM id, 0 when none is given
  args,     \* phyConfigArgs and emuConfigArgs, by table
  file,     \* MonitorConfigurationFile: id_ and its two maps
  flags,    \* the settings given
  level,    \* iLogLevel
  pc,       \* where main is
  handled,  \* the signals sigaction has been called for
  mutex,    \* "free" or "locked"
  sent,     \* signals sent so far
  asked     \* history: the handler ran after main's first lock, before its second

vars == <<argv, optind, id, args, file, flags, level, pc, handled, mutex, sent, asked>>
options == <<optind, id, args, file, flags, level>>
waiting == <<handled, mutex, sent, asked>>

NoItems == << >>

(* A map with the entries of another that it does not have itself.          *)
Over(map, below) ==
  [name \in DOMAIN map \union DOMAIN below |-> IF name \in DOMAIN map THEN map[name] ELSE below[name]]

(* std::map::insert: an entry that is there stays. *)
Insert(map, item) == Over(map, [name \in {item.name} |-> item.value])
InsertAll(map, items) == FoldLeft(Insert, map, items)

Init ==
  /\ argv \in CommandLines
  /\ optind = 1 /\ id = 0
  /\ args = [t \in Tables |-> NoItems]
  /\ file = [id |-> 0, maps |-> [t \in Tables |-> NoItems]]
  /\ flags = {} /\ level = 3
  /\ pc = "parsing"
  /\ handled = {} /\ mutex = "free" /\ sent = 0 /\ asked = FALSE

-----------------------------------------------------------------------------
(* The loop over the options.                                               *)

(* Mutant: a flag is declared to have an argument and swallows what follows. *)
NextOptionSwallowing(kinds) ==
  /\ pc = "parsing" /\ optind <= Len(argv)
  /\ argv[optind].kind \in kinds
  /\ optind' = optind + (IF argv[optind].kind = "flag" THEN 2 ELSE 1)
  /\ UNCHANGED <<argv, waiting>>

(* getopt_long hands out the next option and moves past it. *)
NextOption(kinds) ==
  /\ pc = "parsing" /\ optind <= Len(argv)
  /\ argv[optind].kind \in kinds
  /\ optind' = optind + 1
  /\ UNCHANGED <<argv, waiting>>

ParameterOption ==
  /\ NextOption(Tables)
  /\ LET o == argv[optind] IN args' = [args EXCEPT ![o.kind] = Insert(@, o.item)]
  /\ UNCHANGED <<id, file, flags, level, pc>>

(* load replaces the id and adds to the maps; an invalid file is an        *)
(* exception that ends main before anything is changed.                    *)
Load(document) ==
  file' = [id |-> document.id,
           maps |-> [t \in Tables |-> InsertAll(file.maps[t], document.items[t])]]

ConfigOption ==
  /\ NextOption({"config"})
  /\ argv[optind].document.valid
  /\ Load(argv[optind].document)
  /\ UNCHANGED <<id, args, flags, level, pc>>

NemOption ==
  /\ NextOption({"nem"})
  /\ id' = argv[optind].id
  /\ UNCHANGED <<args, file, flags, level, pc>>

FlagOption ==
  /\ NextOption({"flag"})
  /\ flags' = flags \union {argv[optind].flag}
  /\ UNCHANGED <<id, args, file, level, pc>>

LevelOption ==
  /\ NextOption({"loglevel"})
  /\ level' = argv[optind].level
  /\ UNCHANGED <<id, args, file, flags, pc>>

ExtraWord ==
  /\ NextOption({"extra"})
  /\ UNCHANGED <<id, args, file, flags, level, pc>>

(* --help and --version return from main with success, what is refused and *)
(* an invalid configuration file with failure.                             *)
LastOption ==
  /\ \/ NextOption({"info"}) /\ pc' = "exited"
     \/ NextOption({"refused"}) /\ pc' = "failed"
     \/ /\ NextOption({"config"})
        /\ ~argv[optind].document.valid
        /\ pc' = "failed"
  /\ UNCHANGED <<id, args, file, flags, level>>

-----------------------------------------------------------------------------
(* From the options to a running NEM manager.                               *)

Parsed == pc = "parsing" /\ optind > Len(argv)
HasExtraWord == \E k \in DOMAIN argv : argv[k].kind = "extra"

(* Mutant: the file's id is used whenever there is one. *)
NemIdOfFile == IF file.id # 0 THEN file.id ELSE id

(* The id of the command line, else that of the last file loaded. *)
NemId == IF id = 0 THEN file.id ELSE id

(* A daemon has no stdout: without a log file its log level must be 0. *)
MayDaemonize == "daemonize" \in flags => "logfile" \in flags \/ level = 0

(* The checks behind the loop; daemon and the scheduler may then refuse.   *)
Prepare ==
  /\ Parsed
  /\ id' = IF HasExtraWord THEN id ELSE NemId
  /\ \/ ~HasExtraWord /\ NemId # 0 /\ MayDaemonize /\ pc' = "prepared"
     \/ /\ \/ HasExtraWord \/ NemId = 0 \/ ~MayDaemonize
           \/ flags \intersect {"daemonize", "realtime"} # {}
        /\ pc' = "failed"
  /\ UNCHANGED <<argv, optind, args, file, flags, level, waiting>>

(* Mutant: the files' values are assigned, not inserted. *)
MergeAssigning(given, fromFiles) == Over(fromFiles, given)

(* What is not on the command line comes from the files. *)
Merge(given, fromFiles) == Over(given, fromFiles)

(* The physical layer is built with its table, then the NEM manager with   *)
(* the emulator's; either throws when it refuses a parameter, here as if   *)
(* after both tables are complete.                                         *)
Configure ==
  /\ pc = "prepared"
  /\ args' = [t \in Tables |->
                LET merged == Merge(args[t], file.maps[t])
                IN  IF t = "emu" THEN InsertAll(merged, Defaults) ELSE merged]
  /\ pc' \in {"configured", "failed"}
  /\ UNCHANGED <<argv, optind, id, file, flags, level, waiting>>

(* The pid and uuid files, then start and postStart. *)
StartManager ==
  /\ pc = "configured"
  /\ pc' \in {"started", "failed"}
  /\ UNCHANGED <<argv, options, waiting>>

-----------------------------------------------------------------------------
(* Waiting for a signal.                                                    *)

InstallHandler ==
  /\ pc = "started" /\ Cardinality(handled) < Len(Signals)
  /\ handled' = handled \union {Signals[Cardinality(handled) + 1]}
  /\ UNCHANGED <<argv, options, pc, mutex, sent, asked>>

(* Mutant: main relies on a mutex that is created locked. *)
FirstLockForgotten ==
  /\ pc = "started" /\ Cardinality(handled) = Len(Signals)
  /\ pc' = "waiting"
  /\ UNCHANGED <<argv, options, handled, mutex, sent, asked>>

FirstLock ==
  /\ pc = "started" /\ Cardinality(handled) = Len(Signals)
  /\ mutex = "free"
  /\ mutex' = "locked" /\ pc' = "waiting"
  /\ UNCHANGED <<argv, options, handled, sent, asked>>

SecondLock ==
  /\ pc = "waiting" /\ mutex = "free"
  /\ mutex' = "locked" /\ pc' = "stopping"
  /\ UNCHANGED <<argv, options, handled, sent, asked>>

(* stop, destroy and the return of main. *)
StopManager ==
  /\ pc = "stopping"
  /\ pc' = "exited"
  /\ UNCHANGED <<argv, options, waiting>>

Ended == pc \in {"exited", "failed", "killed"}

(* Mutant: the handler only releases a mutex nobody waits for yet. *)
HandleOnlyBefore ==
  /\ mutex' = IF pc = "waiting" THEN mutex ELSE "free"
  /\ asked' = (asked \/ pc = "waiting")
  /\ UNCHANGED pc

(* The handler unlocks the mutex, whichever thread it runs on.  Unlocking  *)
(* a free one is undefined: in the builds this project supports it stays   *)
(* free.  A second signal may free it again after main has its lock.       *)
Handle ==
  /\ mutex' = "free"
  /\ asked' = (asked \/ pc = "waiting")
  /\ UNCHANGED pc

(* A signal before its handler is there ends the process. *)
Signal(s) ==
  /\ ~Ended /\ sent < MaxSignals
  /\ sent' = sent + 1
  /\ \/ s \in handled /\ Handle
     \/ s \notin handled /\ pc' = "killed" /\ UNCHANGED <<mutex, asked>>
  /\ UNCHANGED <<argv, options, handled>>

Main ==
  \/ ParameterOption \/ ConfigOption \/ NemOption \/ FlagOption \/ LevelOption
  \/ ExtraWord \/ LastOption
  \/ Prepare \/ Configure \/ StartManager
  \/ InstallHandler \/ FirstLock \/ SecondLock \/ StopManager

Next == Main \/ \E s \in Range(Signals) : Signal(s)

Spec == Init /\ [][Next]_vars

(* main is a thread the operating system runs whenever it can. *)
FairSpec == Spec /\ WF_vars(Main)

-----------------------------------------------------------------------------
(* Properties.                                                              *)

Configured == pc \in {"configured", "started", "waiting", "stopping"}

(* The variables have the code's types and optind never overruns the        *)
(* options (monitor.cc:130-153).                                            *)
TypeOK ==
  /\ argv \in CommandLines /\ optind \in 1..(Len(argv) + 1)
  /\ id \in 0..MaxNemId /\ file.id \in 0..MaxNemId
  /\ DOMAIN args = Tables /\ DOMAIN file.maps = Tables
  /\ flags \subseteq {"daemonize", "realtime", "logfile", "pidfile", "uuidfile"}
  /\ level \in 0..4
  /\ pc \in {"parsing", "prepared", "configured", "started", "waiting", "stopping",
             "exited", "failed", "killed"}
  /\ handled \subseteq Range(Signals) /\ mutex \in {"free", "locked"}
  /\ sent \in 0..MaxSignals /\ asked \in BOOLEAN

(* The places of the options of a kind; of those that give a parameter of a *)
(* table, and of the files that do.                                         *)
OptionsOf(kind) == {k \in DOMAIN argv : argv[k].kind = kind}
Names(items) == {items[k].name : k \in DOMAIN items}
ItemsIn(k, t) == argv[k].document.items[t]
OnLine(t, name) == {k \in OptionsOf(t) : argv[k].item.name = name}
InFiles(t, name) == {k \in OptionsOf("config") : name \in Names(ItemsIn(k, t))}

FirstValue(items, name) == items[Min({k \in DOMAIN items : items[k].name = name})].value

FirstGiven(t, name) ==
  IF OnLine(t, name) # {} THEN argv[Min(OnLine(t, name))].item.value
  ELSE IF InFiles(t, name) # {} THEN FirstValue(ItemsIn(Min(InFiles(t, name)), t), name)
  ELSE FirstValue(Defaults, name)

NamesGiven(t) ==
  {argv[k].item.name : k \in OptionsOf(t)}
    \union (IF t = "emu" THEN Names(Defaults) ELSE {})
    \union UNION {Names(ItemsIn(k, t)) : k \in OptionsOf("config")}

(* "command line takes precedence over file contents" (monitor.cc:422, 460):*)
(* wherever --config stands among the options, each parameter gets the first*)
(* value the command line has for it, else the first one of the files in the*)
(* order they were loaded, else the default, and no other parameter is set. *)
ParameterPrecedence ==
  Configured => args = [t \in Tables |-> [name \in NamesGiven(t) |-> FirstGiven(t, name)]]

(* The id, unlike the parameters, is the last one given: the NEM starts with*)
(* that of the last -n, else that of the last file, and never without one.  *)
NemIdPrecedence ==
  Configured =>
    LET nems == OptionsOf("nem")
        configs == OptionsOf("config")
    IN  /\ nems \union configs # {}
        /\ id = IF nems # {} THEN argv[Max(nems)].id ELSE argv[Max(configs)].document.id

(* The NEM manager is not stopped unless a signal came while main waited:   *)
(* the signals before that, which unlock a free mutex, do not count.        *)
StopsOnlyWhenSignalled == pc = "stopping" => asked

(* A signal that comes while main waits stops the manager and ends main,    *)
(* whatever signals came before or come after it (monitor.cc:530-541).      *)
StopsWhenSignalled == asked ~> pc = "exited"
=============================================================================
