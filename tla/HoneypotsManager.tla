--------------------------- MODULE HoneypotsManager ---------------------------
(***************************************************************************)
(* honeypots/__main__.py: HoneypotsManager, the script behind              *)
(* "python3 -m honeypots", with --setup or --chameleon, --sniffer, --test. *)
(*                                                                         *)
(* It starts one BaseServer after the other, reports which ones run, waits *)
(* to be told to end, kills all of them and leaves the interpreter, whose  *)
(* exit handlers run last.  In chameleon mode it writes statistics instead *)
(* and is never told.  With --test servers are built and called, but not   *)
(* run.  Server s is entry s of --setup (or of the config's honeypots).    *)
(* --list and --kill start nothing and are not in this module.             *)
(***************************************************************************)
EXTENDS BaseServer, Naturals, Sequences, Functions

CONSTANTS
    CommandLines,   \* what the manager may be started with
    Sniffer         \* the sniffer, among the honeypots

ASSUME SnifferAssumption == Sniffer \notin Servers

Entry == [kind : {"known", "unknown", "malformed"}, port : Ports \union {NoPort}]

IsCommandLine(a) ==
    /\ a.mode \in {"all", "configured", "chameleon"}   \* --setup all or a list; --chameleon
    /\ a.setup \in Seq(Entry)             \* the entries and the ports after a colon
    /\ a.mode = "all" => \A i \in DOMAIN a.setup :
          a.setup[i] = [kind |-> "known", port |-> NoPort]
    /\ DOMAIN a.setup \subseteq Servers
    /\ a.port \in Ports \union {NoPort}   \* --port
    /\ a.auto \in BOOLEAN                 \* --auto, by a user who is not root
    /\ a.strategy \in {"input", "signal"} \* --termination-strategy
    /\ a.sniffer \in BOOLEAN /\ a.test \in BOOLEAN
    \* a config with ports after colons, or of another form, is unusable as a whole
    /\ a.mode = "chameleon" => \A i \in DOMAIN a.setup :
          a.setup[i].port = NoPort /\ (a.setup[i].kind = "malformed" => i = 1)

ASSUME CommandLinesAssumption == \A a \in CommandLines : IsCommandLine(a)

VARIABLES
    args,       \* the command line
    pc,         \* where main() is
    next,       \* the entry of Setup that is being started
    argPort,    \* server_args["port"], options.port
    honeypots,  \* self.honeypots: the servers whose run_server returned
    pending,    \* the honeypots _stop_servers has still to kill
    fence,      \* SignalFence: "none" before it is built, then "up" or "down"
    ending,     \* how main() was left
    sniffer,    \* the sniffer's process
    sniffs,     \* its status among the honeypots
    unkilled    \* the honeypots whose kill_server() raised

Setup == args.setup
otherVars == <<sniffer, sniffs, unkilled>>
mainVars == <<pc, next, argPort, honeypots, pending, fence, ending, otherVars>>
vars == <<args, baseVars, mainVars>>

Starting == {"loop", "run", "running"}
Gone == {"exited", "killed"}

ManagerTypeOK ==
    /\ TypeOK
    /\ args \in CommandLines
    /\ pc \in Starting \union Gone \union
             {"sniffer", "raise", "report", "await", "fence", "stats", "stop", "stopping",
              "atexit", "joining"}
    /\ next \in 1 .. Len(Setup) + 1
    /\ argPort \in Ports \union {NoPort}
    /\ honeypots \in Seq(Servers \union {Sniffer})
    /\ pending \in Seq(Servers \union {Sniffer})
    /\ fence \in {"none", "up", "down"}
    /\ ending \in {"none", "stop", "empty", "uncaught", "interrupt"}
    /\ sniffer \in {"none", "alive", "dead"}
    /\ sniffs \in BOOLEAN
    /\ unkilled \subseteq Servers \union {Sniffer}

\* --setup sets the sniffer up before the honeypots, --chameleon after them.
SnifferIsFirst == args.sniffer /\ args.mode # "chameleon"

Init ==
    /\ BaseInit
    /\ args \in CommandLines
    /\ pc = IF SnifferIsFirst THEN "sniffer" ELSE "loop"
    /\ next = 1
    /\ argPort = args.port
    /\ honeypots = <<>>
    /\ pending = <<>>
    /\ fence = "none"
    /\ ending = "none"
    /\ sniffer = "none"
    /\ sniffs = FALSE
    /\ unkilled = {}

-------------------------------------------------------------------------------
(* _start_all_servers, _start_configured_servers, _start_server *)

\* "service:port" replaces the port for this and for all later entries.
PortArgument(entry) == IF entry.port # NoPort THEN entry.port ELSE argPort

\* configured: auto unless some port has been given so far; otherwise self.auto.
Random == IF args.mode = "configured" THEN argPort = NoPort ELSE args.auto

\* A configured service without any port is not tested.
IsSkipped(entry) == args.test /\ args.mode = "configured" /\ PortArgument(entry) = NoPort

\* The next entry is read; its class is looked up and instantiated.
NextEntry ==
    /\ pc = "loop"
    /\ next <= Len(Setup)
    /\ LET entry == Setup[next] IN
       \/ /\ entry.kind = "malformed"        \* split(":"), int() or sys.exit() raises
          /\ pc' = "raise"
          /\ UNCHANGED <<baseVars, next, argPort>>
       \/ /\ entry.kind = "unknown" \/ (entry.kind = "known" /\ IsSkipped(entry))
          /\ argPort' = PortArgument(entry)
          /\ next' = next + 1
          /\ UNCHANGED <<baseVars, pc>>
       \/ /\ entry.kind = "known" /\ ~IsSkipped(entry)
          /\ argPort' = PortArgument(entry)
          /\ \/ Construct(next, PortArgument(entry)) /\ pc' = "run"
             \/ pc' = "raise" /\ UNCHANGED baseVars   \* the constructor raises
          /\ UNCHANGED next
    /\ UNCHANGED <<honeypots, pending, fence, ending, otherVars>>

\* --test: server_timeout() calls the server's client, which returns within five seconds or
\* gets the alarm, and kill_server() has nothing to kill.
Test ==
    /\ pc = "run" /\ args.test
    /\ KillServer(next)
    /\ pc' = "running"
    /\ UNCHANGED <<next, argPort, honeypots, pending, fence, ending, otherVars>>

\* The client raises, or the alarm comes when the client has just returned.
TestRaises ==
    /\ pc = "run" /\ args.test
    /\ pc' = "raise"
    /\ UNCHANGED <<baseVars, next, argPort, honeypots, pending, fence, ending, otherVars>>

Run ==
    /\ pc = "run" /\ ~args.test
    /\ RunServer(next, Random)
    /\ pc' = "running"
    /\ UNCHANGED <<next, argPort, honeypots, pending, fence, ending, otherVars>>

\* A method of the server executes.
InMethod ==
    /\ pc \in {"running", "stopping"}
    /\ ParentStep
    /\ UNCHANGED mainVars

\* MUTANT of Started: a failed honeypot is not recorded.
StartedOnlyGood ==
    /\ pc = "running" /\ at = "idle"
    /\ result[next] # "raised"
    /\ honeypots' = IF result[next] = "success" THEN Append(honeypots, next) ELSE honeypots
    /\ next' = next + 1
    /\ pc' = "loop"
    /\ UNCHANGED <<baseVars, argPort, pending, fence, ending, otherVars>>

\* run_server returned: the honeypot is recorded with its status.
Started ==
    /\ pc = "running" /\ at = "idle"
    /\ result[next] # "raised"
    /\ honeypots' = Append(honeypots, next)
    /\ next' = next + 1
    /\ pc' = "loop"
    /\ UNCHANGED <<baseVars, argPort, pending, fence, ending, otherVars>>

\* run_server raised.
StartRaised ==
    /\ pc = "running" /\ at = "idle"
    /\ result[next] = "raised"
    /\ pc' = "raise"
    /\ UNCHANGED <<baseVars, next, argPort, honeypots, pending, fence, ending, otherVars>>

\* MUTANT of StartAborted: the status of the run is taken for the reason to end.
StartAbortedStatus ==
    /\ pc = "raise"
    /\ pc' = IF args.mode = "all" THEN "report" ELSE "atexit"
    /\ ending' = result[next]
    /\ UNCHANGED <<baseVars, next, argPort, honeypots, pending, fence, otherVars>>

\* _start_all_servers catches the exception around its whole loop; nobody
\* catches one of _start_configured_servers or of _start_chameleon_mode, so main() is
\* left; the chameleon mode has not registered the exit handler.
StartAborted ==
    /\ pc = "raise"
    /\ \/ args.mode = "all" /\ pc' = "report" /\ UNCHANGED ending
       \/ args.mode = "configured" /\ pc' = "atexit" /\ ending' = "uncaught"
       \/ args.mode = "chameleon" /\ pc' = "joining" /\ ending' = "uncaught"
    /\ UNCHANGED <<baseVars, next, argPort, honeypots, pending, fence, otherVars>>

StartFinished ==
    /\ pc = "loop" /\ args.mode # "chameleon"
    /\ next > Len(Setup)
    /\ pc' = "report"
    /\ UNCHANGED <<baseVars, next, argPort, honeypots, pending, fence, ending, otherVars>>

\* Without --test the chameleon mode never comes to _stop_servers.
ChameleonStarted ==
    /\ pc = "loop" /\ args.mode = "chameleon" /\ ~args.sniffer
    /\ next > Len(Setup)
    /\ \/ ~args.test /\ pc' = "stats" /\ UNCHANGED pending
       \/ args.test /\ pc' = "stop" /\ pending' = honeypots
    /\ UNCHANGED <<baseVars, next, argPort, honeypots, fence, ending, otherVars>>

-------------------------------------------------------------------------------
(* _set_up_sniffer *)

ChameleonSniffs ==
    /\ pc = "loop" /\ args.mode = "chameleon" /\ args.sniffer
    /\ next > Len(Setup)
    /\ pc' = "sniffer"
    /\ UNCHANGED <<baseVars, next, argPort, honeypots, pending, fence, ending, otherVars>>

\* The interface is not configured or not there, or a constructor raises.  The exit handler
\* is not registered yet (or never).
SnifferRefused ==
    /\ pc = "sniffer"
    /\ pc' = "joining" /\ ending' = "uncaught"
    /\ UNCHANGED <<baseVars, next, argPort, honeypots, pending, fence, otherVars>>

\* The process is started and looked at a tenth of a second later.
StartSniffer ==
    /\ pc = "sniffer"
    /\ \/ sniffer' = "alive" /\ sniffs' = TRUE
       \/ sniffer' = "dead" /\ sniffs' = FALSE
    /\ honeypots' = Append(honeypots, Sniffer)
    /\ \/ args.mode # "chameleon" /\ pc' = "loop" /\ UNCHANGED pending
       \/ args.mode = "chameleon" /\ ~args.test /\ pc' = "stats" /\ UNCHANGED pending
       \/ args.mode = "chameleon" /\ args.test /\ pc' = "stop" /\ pending' = honeypots'
    /\ UNCHANGED <<baseVars, next, argPort, fence, ending, unkilled>>

\* It may end by itself at any time (it needs privileges).
SnifferEnds ==
    /\ sniffer = "alive"
    /\ sniffer' = "dead"
    /\ UNCHANGED <<baseVars, pc, next, argPort, honeypots, pending, fence, ending, sniffs, unkilled>>

-------------------------------------------------------------------------------
(* _set_up_honeypots after the start, Termination, SignalFence *)

\* running_honeypots["good"]
Good ==
    {s \in Range(honeypots) \ {Sniffer} : result[s] = "success"}
    \union {s \in Range(honeypots) \intersect {Sniffer} : sniffs}

\* MUTANT of Report: it waits for honeypots that run, with --test too.
ReportAwaitsTests ==
    /\ pc = "report"
    /\ \/ honeypots = <<>> /\ pc' = "atexit" /\ ending' = "empty" /\ UNCHANGED pending
       \/ Good # {} /\ pc' = "await" /\ UNCHANGED <<ending, pending>>
       \/ /\ honeypots # <<>> /\ Good = {}
          /\ pc' = "stop" /\ pending' = honeypots /\ UNCHANGED ending
    /\ UNCHANGED <<baseVars, next, argPort, honeypots, fence, otherVars>>

Report ==
    /\ pc = "report"
    /\ \/ honeypots = <<>> /\ pc' = "atexit" /\ ending' = "empty" /\ UNCHANGED pending
       \/ Good # {} /\ ~args.test /\ pc' = "await" /\ UNCHANGED <<ending, pending>>
       \/ /\ honeypots # <<>> /\ (Good = {} \/ args.test)
          /\ pc' = "stop" /\ pending' = honeypots /\ UNCHANGED ending
    /\ UNCHANGED <<baseVars, next, argPort, honeypots, fence, otherVars>>

\* SignalFence.__init__ installs its handlers.
BuildFence ==
    /\ pc = "await" /\ args.strategy = "signal"
    /\ fence' = "up"
    /\ pc' = "fence"
    /\ UNCHANGED <<baseVars, next, argPort, honeypots, pending, ending, otherVars>>

\* MUTANT of FenceIsDown: the condition of the loop is inverted.
FenceInverted ==
    /\ pc = "fence" /\ fence = "up"
    /\ pc' = "stop"
    /\ pending' = honeypots
    /\ UNCHANGED <<baseVars, next, argPort, honeypots, fence, ending, otherVars>>

FenceIsDown ==
    /\ pc = "fence" /\ fence = "down"
    /\ pc' = "stop"
    /\ pending' = honeypots
    /\ UNCHANGED <<baseVars, next, argPort, honeypots, fence, ending, otherVars>>

Enter ==
    /\ pc = "await" /\ args.strategy = "input"
    /\ pc' = "stop"
    /\ pending' = honeypots
    /\ UNCHANGED <<baseVars, next, argPort, honeypots, fence, ending, otherVars>>

\* Ctrl-C at the prompt: the KeyboardInterrupt of input() leaves main(), as it does
\* the statistics, whose loop catches only what is an Exception.
Interrupt ==
    /\ \/ pc = "await" /\ args.strategy = "input" /\ pc' = "atexit"
       \/ pc = "stats" /\ pc' = "joining"
    /\ ending' = "interrupt"
    /\ UNCHANGED <<baseVars, next, argPort, honeypots, pending, fence, otherVars>>

\* SIGTERM to the manager: the fence's handler, or the default action.
Terminate ==
    /\ pc \notin Gone
    /\ IF fence = "none"
       THEN pc' = "killed" /\ UNCHANGED fence
       ELSE fence' = "down" /\ UNCHANGED pc
    /\ UNCHANGED <<baseVars, next, argPort, honeypots, pending, ending, otherVars>>

-------------------------------------------------------------------------------
(* _stop_servers and the interpreter's exit *)

\* The sniffer's kill_server(): nothing in its process delays a SIGTERM.
StopSniffer ==
    /\ pc = "stop" /\ pending # <<>> /\ Head(pending) = Sniffer
    /\ pending' = Tail(pending)
    /\ sniffer' = "dead"
    /\ UNCHANGED <<baseVars, pc, next, argPort, honeypots, fence, ending, sniffs, unkilled>>

StopNext ==
    /\ pc = "stop" /\ pending # <<>> /\ Head(pending) # Sniffer
    /\ KillServer(Head(pending))
    /\ pending' = Tail(pending)
    /\ pc' = "stopping"
    /\ UNCHANGED <<next, argPort, honeypots, fence, ending, otherVars>>

\* The process of a honeypot exists, so that its kill_server() has something to do.
IsUp(h) == IF h = Sniffer THEN sniffer = "alive" ELSE proc[h] \in Live

\* MUTANT of StopFails: an exception in one kill_server() ends the loop.
StopGivesUp ==
    /\ pc = "stop" /\ pending # <<>> /\ IsUp(Head(pending))
    /\ unkilled' = unkilled \union {Head(pending)}
    /\ pending' = <<>>
    /\ UNCHANGED <<baseVars, pc, next, argPort, honeypots, fence, ending, sniffer, sniffs>>

\* kill_server() raises in terminate(): the error is logged, the loop goes on with the next.
StopFails ==
    /\ pc = "stop" /\ pending # <<>> /\ IsUp(Head(pending))
    /\ unkilled' = unkilled \union {Head(pending)}
    /\ pending' = Tail(pending)
    /\ UNCHANGED <<baseVars, pc, next, argPort, honeypots, fence, ending, sniffer, sniffs>>

Stopped ==
    /\ pc = "stopping" /\ at = "idle"
    /\ pc' = "stop"
    /\ UNCHANGED <<baseVars, next, argPort, honeypots, pending, fence, ending, otherVars>>

AllStopped ==
    /\ pc = "stop" /\ pending = <<>>
    /\ pc' = IF args.mode = "chameleon" THEN "joining" ELSE "atexit"
    /\ ending' = "stop"
    /\ UNCHANGED <<baseVars, next, argPort, honeypots, pending, fence, otherVars>>

\* _exit_handler: clean_all() looks for processes started with --custom, which
\* the forked children are not.
ExitHandler ==
    /\ pc = "atexit"
    /\ pc' = "joining"
    /\ UNCHANGED <<baseVars, next, argPort, honeypots, pending, fence, ending, otherVars>>

\* multiprocessing's own exit handler joins every child, without a timeout.
ChildrenJoined ==
    /\ pc = "joining"
    /\ \A s \in Servers : proc[s] \notin Live
    /\ sniffer # "alive"
    /\ pc' = "exited"
    /\ UNCHANGED <<baseVars, next, argPort, honeypots, pending, fence, ending, otherVars>>

-------------------------------------------------------------------------------
Main ==
    \/ NextEntry \/ Run \/ InMethod \/ Started \/ StartRaised \/ StartAborted
    \/ Test \/ TestRaises \/ StartFinished \/ ChameleonStarted \/ ChameleonSniffs
    \/ SnifferRefused \/ StartSniffer \/ Report \/ BuildFence \/ FenceIsDown
    \/ StopSniffer \/ StopNext \/ StopFails \/ Stopped \/ AllStopped \/ ExitHandler \/ ChildrenJoined

User == Enter \/ Interrupt \/ Terminate

Next == (Main \/ User \/ SnifferEnds \/ (Environment /\ UNCHANGED mainVars)) /\ UNCHANGED args

Spec == Init /\ [][Next]_vars

\* The manager's thread runs on (it never waits without a bound except for the
\* user and at ChildrenJoined), and a child that was told to stop finishes its
\* shutdown: the reactor's, or the default action of the signal.
Fairness ==
    /\ WF_vars(Main /\ UNCHANGED args)
    /\ \A s \in Servers : WF_vars(Exit(s) /\ UNCHANGED <<args, mainVars>>)

FairSpec == Spec /\ Fairness

-------------------------------------------------------------------------------
(* Properties *)

\* _stop_servers (__main__.py:273) kills every honeypot that was started, also the ones whose
\* start failed, whatever happened to the others: when the manager is past it, neither the
\* sniffer is left nor a child that serves or may still come up -- except those whose own
\* kill_server() raised (:279) and one whose run_server was left by an exception, which is in
\* no list.
StopReachesAll ==
    ending = "stop" =>
        /\ \A s \in Servers \ unkilled :
              result[s] # "raised" => proc[s] \notin {"starting", "serving"}
        /\ Sniffer \notin unkilled => sniffer # "alive"

\* Before the manager stops its servers, a honeypot that was reported as running
\* is shut down only by the start of another one on the same port
\* (__main__.py:240-247 with base_server.py:63-75).
TakeoverNeedsSharedPort ==
    pc \in Starting \union {"sniffer", "raise", "report", "await", "fence", "stats"} =>
        \A s \in Servers : result[s] = "success" /\ proc[s] = "stopping" =>
            \E r \in Servers \ {s} : port[r] = port[s]

\* The list of honeypots is the list of entries that were run, in that order,
\* each once, with the sniffer in front or, in chameleon mode, at the end if it was
\* started (__main__.py:257-271, 354-364): what is reported and what is killed later is
\* exactly what was forked; with --test, what was tested.
HoneypotsAreTheEntriesRun ==
    /\ \A i, j \in DOMAIN honeypots :
          i < j /\ honeypots[i] # Sniffer /\ honeypots[j] # Sniffer => honeypots[i] < honeypots[j]
    /\ \A i \in DOMAIN honeypots :
          honeypots[i] = Sniffer => i = IF SnifferIsFirst THEN 1 ELSE Len(honeypots)
    /\ sniffer # "none" <=> Sniffer \in Range(honeypots)
    /\ pc \notin Starting \union Gone =>
          Range(honeypots) \ {Sniffer} =
              {s \in Servers : IF args.test THEN port[s] # NoPort /\ s < next
                               ELSE result[s] \in {"success", "error"}}

\* Once the fence has seen a signal, the manager stops its servers and leaves --
\* whatever the occupants of ports and the children do, as long as a child told
\* to stop does stop and none was left behind by an exception of its start or its end.
SignalEndsManager ==
    fence = "down" /\ (\A s \in Servers : result[s] # "raised")
        ~> pc = "exited" \/ unkilled # {}

\* A test of honeypots ends by itself (__main__.py:123-150, 265-284): servers that hang in
\* their client, clients that raise and sniffers that run on do not keep it, but one sniffer
\* does: one that was not told to stop, as an exception of a test has left the manager or its
\* own kill_server() has raised, and that the interpreter's exit joins.
TestEnds ==
    args.test ~>
        pc \in Gone \/ (sniffer = "alive" /\ (ending = "uncaught" \/ Sniffer \in unkilled))

\* README.md:65 "Use as honeypot:port or multiple honeypots as honeypot:port,
\* honeypot:port": the port after a colon is that honeypot's.  A honeypot given
\* without one is built with the port of the command line, its config or class.
PortIsPerHoneypot ==
    pc = "run" => port[next] = InitPort(next,
        IF Setup[next].port # NoPort THEN Setup[next].port ELSE args.port)

\* README.md:44-53: without --auto ("Setup the honeypot with random port") a
\* honeypot without a port runs on the default port.
DefaultPortUnlessAuto ==
    \A s \in Servers :
        /\ ~args.auto /\ args.port = NoPort /\ ConfigPort[s] = NoPort
        /\ \A i \in DOMAIN Setup : Setup[i].port = NoPort
        /\ result[s] = "success"
        => port[s] = DefaultPort[s]
===============================================================================
