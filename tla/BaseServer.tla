------------------------------ MODULE BaseServer ------------------------------
(***************************************************************************)
(* honeypots/base_server.py: the life of a honeypot server.                *)
(*                                                                         *)
(* A script (one thread of one Python process, the "parent") builds server *)
(* objects, calls run_server(process=True, auto=...) on each and may call  *)
(* kill_server() on any of them.  run_server forks a child that executes   *)
(* server_main and binds the port; the parent only sees the child through  *)
(* the operating system: signals, exit, and the table of bound sockets.    *)
(* Children and foreign processes run concurrently with the parent, so a   *)
(* parent's method is one action per observation it makes of that table.   *)
(*                                                                         *)
(* Sockets are kept per transport and port.  Addresses are left out: all   *)
(* servers listen on the one address self.ip.  Time is left out: a wait    *)
(* with a timeout may end by its condition or, while the condition is      *)
(* false, by the timeout.                                                  *)
(***************************************************************************)
EXTENDS FiniteSets

CONSTANTS
    Servers,       \* the server objects of the script
    Foreign,       \* processes of the host that are not the script's
    Ports,         \* port numbers
    NoPort,        \* a port that was not given ("" or None)
    Free,          \* the owner of an unbound socket
    Nobody,        \* no server, no process
    Transports,    \* what server_main of a server binds: "tcp", "udp" or both
    DefaultPort,   \* DEFAULT_PORT of the server's class
    ConfigPort,    \* "port" of the server in the config file, or NoPort
    Bindable,      \* the ports the user of the script may bind
    Killable       \* the foreign processes that user may inspect and signal

Transport == {"tcp", "udp"}
Procs == Servers \union Foreign
Sockets == Transport \X Ports

ASSUME ServersAssumption ==
    /\ Servers \intersect Foreign = {}
    /\ Free \notin Procs /\ Nobody \notin Procs
    /\ NoPort \notin Ports
    /\ Transports \in [Servers -> (SUBSET Transport) \ {{}}]
    /\ DefaultPort \in [Servers -> Ports]
    /\ ConfigPort \in [Servers -> Ports \union {NoPort}]
    /\ Bindable \subseteq Ports
    /\ Killable \subseteq Foreign

VARIABLES
    port,      \* self.port of every server; NoPort before __init__
    proc,      \* the processes; "none" before the first start
    sock,      \* the operating system's table: owner of every socket
    current,   \* the server whose method the parent executes
    at,        \* where in that method the parent is
    conn,      \* close_port's own socket: "closed", "refused" or "open"
    todo,      \* close_port: processes process_iter() has still to yield
    victim,    \* close_port: the process it waits for
    result     \* what run_server has done on every server

parentVars == <<current, at, conn, todo, victim, result>>
baseVars == <<port, proc, sock, parentVars>>

Live == {"starting", "serving", "stopping"}
Phases == {"idle", "connect", "scan", "reap", "bind", "fork", "poll", "cleanup", "join"}

TypeOK ==
    /\ port \in [Servers -> Ports \union {NoPort}]
    /\ proc \in [Procs -> Live \union {"none", "dead"}]
    /\ sock \in [Sockets -> Procs \union {Free}]
    /\ current \in Servers \union {Nobody}
    /\ at \in Phases
    /\ (at = "idle") <=> (current = Nobody)
    /\ conn \in {"closed", "refused", "open"}
    /\ todo \subseteq Procs
    /\ victim \in Procs \union {Nobody}
    /\ (at = "reap") <=> (victim # Nobody)
    /\ result \in [Servers -> {"none", "success", "error", "raised"}]

BaseInit ==
    /\ port = [s \in Servers |-> NoPort]
    /\ proc = [q \in Procs |-> "none"]
    /\ sock = [x \in Sockets |-> Free]
    /\ current = Nobody
    /\ at = "idle"
    /\ conn = "closed"
    /\ todo = {}
    /\ victim = Nobody
    /\ result = [s \in Servers |-> "none"]

-------------------------------------------------------------------------------
(* The host: processes and the table of bound sockets. *)

\* The processes psutil lists with a socket whose local port is p.
Holders(p) == {sock[<<t, p>>] : t \in Transport} \ {Free}

\* The sockets server_main binds: the transports of the protocol on self.port.
Needs(s) == {<<t, port[s]>> : t \in Transports[s]}

Release(q) == [x \in Sockets |-> IF sock[x] = q THEN Free ELSE sock[x]]

\* A process ends and the system closes its sockets.
Die(q) ==
    /\ proc' = [proc EXCEPT ![q] = "dead"]
    /\ sock' = Release(q)

\* SIGTERM: the default action until a reactor has installed its handlers (it
\* does that after listenTCP), afterwards an orderly shutdown that takes time.
Sigterm(q) ==
    IF proc[q] = "starting"
    THEN Die(q)
    ELSE /\ proc' = [proc EXCEPT ![q] = IF @ = "serving" THEN "stopping" ELSE @]
         /\ UNCHANGED sock

\* server_main in the child binds one socket after the other: listenUDP, then listenTCP.
NextSocket(s) ==
    IF "udp" \in Transports[s] /\ sock[<<"udp", port[s]>>] # s
    THEN <<"udp", port[s]>> ELSE <<"tcp", port[s]>>

\* One of them is bound; after the last the reactor runs.
ChildBind(s) ==
    LET x == NextSocket(s)
    IN  /\ proc[s] = "starting"
        /\ port[s] \in Bindable
        /\ sock[x] = Free
        /\ sock' = [sock EXCEPT ![x] = s]
        /\ proc' = [proc EXCEPT ![s] = IF \A y \in Needs(s) \ {x} : sock[y] = s
                                     THEN "serving" ELSE @]
        /\ UNCHANGED <<port, parentVars>>

\* MUTANT of ChildBindFails: the error is swallowed and the reactor runs with what is bound.
ChildBindFailsQuietly(s) ==
    /\ proc[s] = "starting"
    /\ port[s] \notin Bindable \/ sock[NextSocket(s)] # Free
    /\ proc' = [proc EXCEPT ![s] = "serving"]
    /\ UNCHANGED <<sock, port, parentVars>>

\* A bind raises (address in use, permission) and the child exits, with what it has bound.
ChildBindFails(s) ==
    /\ proc[s] = "starting"
    /\ port[s] \notin Bindable \/ sock[NextSocket(s)] # Free
    /\ Die(s)
    /\ UNCHANGED <<port, parentVars>>

\* A process ends by itself, or by a signal that is not the script's.
Crash(q) ==
    /\ proc[q] \in Live \ {"stopping"}
    /\ Die(q)
    /\ UNCHANGED <<port, parentVars>>

\* A process that was asked to terminate has finished its shutdown.
Exit(q) ==
    /\ proc[q] = "stopping"
    /\ Die(q)
    /\ UNCHANGED <<port, parentVars>>

\* Another program starts (or is restarted by its supervisor) on a free socket.
ForeignBind(f, x) ==
    /\ proc[f] \in {"none", "dead"}
    /\ sock[x] = Free
    /\ proc' = [proc EXCEPT ![f] = "serving"]
    /\ sock' = [sock EXCEPT ![x] = f]
    /\ UNCHANGED <<port, parentVars>>

Environment ==
    \/ \E s \in Servers : ChildBind(s) \/ ChildBindFails(s)
    \/ \E q \in Procs : Crash(q) \/ Exit(q)
    \/ \E f \in Foreign, x \in Sockets : ForeignBind(f, x)

-------------------------------------------------------------------------------
(* The script's calls. *)

\* __init__: the port argument wins over the config file, that over the class.
InitPort(s, arg) ==
    IF arg # NoPort THEN arg
    ELSE IF ConfigPort[s] # NoPort THEN ConfigPort[s] ELSE DefaultPort[s]

Construct(s, arg) ==
    /\ at = "idle"
    /\ port[s] = NoPort
    /\ port' = [port EXCEPT ![s] = InitPort(s, arg)]
    /\ UNCHANGED <<proc, sock, parentVars>>

\* The method returns to the script.
Return ==
    /\ at' = "idle"
    /\ current' = Nobody

\* MUTANT of Fail: run_server returns False without kill_server().
FailWithoutCleanup ==
    /\ result' = [result EXCEPT ![current] = "error"]
    /\ Return

\* run_server logs status "error" and goes on to kill_server().
Fail ==
    /\ result' = [result EXCEPT ![current] = "error"]
    /\ at' = "cleanup"
    /\ UNCHANGED current

\* get_free_port: a port that is free now, or 0 when the probe raised.
GetFreePort(s) ==
    \/ /\ \E p \in Bindable :
              /\ sock[<<"tcp", p>>] = Free
              /\ port' = [port EXCEPT ![s] = p]
       /\ at' = "fork"
       /\ UNCHANGED result
    \/ /\ result' = [result EXCEPT ![s] = "error"]
       /\ at' = "cleanup"
       /\ UNCHANGED port

\* run_server(process=True, auto): a port in the config disables auto.
RunServer(s, auto) ==
    /\ at = "idle"
    /\ port[s] # NoPort
    /\ result[s] = "none"
    /\ current' = s
    /\ IF auto /\ ConfigPort[s] = NoPort
       THEN GetFreePort(s)
       ELSE at' = "connect" /\ UNCHANGED <<port, result>>
    /\ UNCHANGED <<proc, sock, conn, todo, victim>>

\* kill_server() called by the script.
KillServer(s) ==
    /\ at = "idle"
    /\ port[s] # NoPort
    /\ current' = s
    /\ at' = "cleanup"
    /\ UNCHANGED <<port, proc, sock, conn, todo, victim, result>>

-------------------------------------------------------------------------------
(* close_port *)

\* connect_ex: an occupant is reached, or nobody answers within two seconds
\* (which a listener with a full backlog does not either).
ClosePortConnect ==
    /\ at = "connect"
    /\ \/ /\ sock[<<"tcp", port[current]>>] # Free
          /\ conn' = "open"
          /\ todo' = {q \in Procs : proc[q] \in Live}
          /\ at' = "scan"
       \/ /\ conn' = "refused"
          /\ at' = "bind"
          /\ UNCHANGED todo
    /\ UNCHANGED <<port, proc, sock, current, victim, result>>

\* MUTANT of ClosePortVisit: the port of the connection is not compared.
ClosePortVisitAnyPort(q) ==
    /\ at = "scan"
    /\ q \in todo
    /\ todo' = todo \ {q}
    /\ IF (\E x \in Sockets : sock[x] = q) /\ q \in Servers \union Killable
       THEN Sigterm(q) /\ victim' = q /\ at' = "reap"
       ELSE UNCHANGED <<proc, sock, victim, at>>
    /\ UNCHANGED <<port, current, conn, result>>

\* One process of process_iter(): terminated if it has a socket on the port.
\* A process that may not be inspected or signalled is passed over.
ClosePortVisit(q) ==
    /\ at = "scan"
    /\ q \in todo
    /\ todo' = todo \ {q}
    /\ IF q \in Holders(port[current]) /\ q \in Servers \union Killable
       THEN /\ Sigterm(q)
            /\ victim' = q
            /\ at' = "reap"
       ELSE UNCHANGED <<proc, sock, victim, at>>
    /\ UNCHANGED <<port, current, conn, result>>

\* MUTANT of ClosePortReap: the scan goes on with a victim still set.
ClosePortReapKeepsVictim ==
    /\ at = "reap"
    /\ proc[victim] # "stopping"
    /\ at' = "scan"
    /\ UNCHANGED <<port, proc, sock, current, conn, todo, victim, result>>

\* process.wait(timeout=5) returned; a restart under the name is a new process.
ClosePortReap ==
    /\ at = "reap"
    /\ proc[victim] # "stopping"
    /\ at' = "scan"
    /\ victim' = Nobody
    /\ UNCHANGED <<port, proc, sock, current, conn, todo, result>>

\* MUTANT of ClosePortKill: wait() without a timeout.
ClosePortWaitsForever == FALSE

\* process.wait raised TimeoutExpired: kill().
ClosePortKill ==
    /\ at = "reap"
    /\ proc[victim] = "stopping"
    /\ Die(victim)
    /\ at' = "scan"
    /\ victim' = Nobody
    /\ UNCHANGED <<port, current, conn, todo, result>>

ClosePortScanned ==
    /\ at = "scan"
    /\ todo = {}
    /\ at' = "bind"
    /\ UNCHANGED <<port, proc, sock, current, conn, todo, victim, result>>

\* MUTANT of ClosePortBind: the outcome of bind is ignored.
ClosePortIgnoresBind ==
    /\ at = "bind"
    /\ conn' = "closed"
    /\ at' = "fork"
    /\ UNCHANGED <<port, proc, sock, current, todo, victim, result>>

\* bind and the second connect_ex on the socket of the first one.  A socket
\* whose connection an occupant had accepted cannot be bound any more, one
\* whose connection was reset can; a connection of an earlier process that
\* lingers on the port makes bind fail as well.
ClosePortBind ==
    /\ at = "bind"
    /\ conn' = "closed"
    /\ \/ /\ port[current] \in Bindable
          /\ sock[<<"tcp", port[current]>>] = Free
          /\ at' = "fork"
          /\ UNCHANGED <<current, result>>
       \/ Fail
    /\ UNCHANGED <<port, proc, sock, todo, victim>>

-------------------------------------------------------------------------------
(* _start_server, the rest of run_server, and kill_server *)

StartProcess ==
    /\ at = "fork"
    /\ proc' = [proc EXCEPT ![current] = "starting"]
    /\ at' = "poll"
    /\ UNCHANGED <<port, sock, current, conn, todo, victim, result>>

\* _service_runs: some process has a socket on the port, whichever it is.
ServiceHasStarted ==
    /\ at = "poll"
    /\ Holders(port[current]) # {}
    /\ result' = [result EXCEPT ![current] = "success"]
    /\ Return
    /\ UNCHANGED <<port, proc, sock, conn, todo, victim>>

\* wait_for_service gave up after five seconds without seeing the port.
ServiceTimeout ==
    /\ at = "poll"
    /\ Holders(port[current]) = {}
    /\ Fail
    /\ UNCHANGED <<port, proc, sock, conn, todo, victim>>

\* psutil.net_connections raised: only TimeoutError is caught, so run_server
\* is left by the exception, without kill_server().
ServicePollRaises ==
    /\ at = "poll"
    /\ result' = [result EXCEPT ![current] = "raised"]
    /\ Return
    /\ UNCHANGED <<port, proc, sock, conn, todo, victim>>

\* kill_server: nothing to do before the first start, else terminate().
KillServerTerminate ==
    /\ at = "cleanup"
    /\ IF proc[current] = "none"
       THEN Return /\ UNCHANGED <<proc, sock>>
       ELSE Sigterm(current) /\ at' = "join" /\ UNCHANGED current
    /\ UNCHANGED <<port, conn, todo, victim, result>>

\* join(timeout=5) returns, with the child gone or not: it never raises
\* TimeoutError, so the kill() of the handler is not reached.
KillServerJoin ==
    /\ at = "join"
    /\ Return
    /\ UNCHANGED <<port, proc, sock, conn, todo, victim, result>>

ParentStep ==
    \/ ClosePortConnect
    \/ \E q \in Procs : ClosePortVisit(q)
    \/ ClosePortReap \/ ClosePortKill \/ ClosePortScanned \/ ClosePortBind
    \/ StartProcess \/ ServiceHasStarted \/ ServiceTimeout \/ ServicePollRaises
    \/ KillServerTerminate \/ KillServerJoin

ScriptCall ==
    \E s \in Servers :
        \/ \E arg \in Ports \union {NoPort} : Construct(s, arg)
        \/ \E auto \in BOOLEAN : RunServer(s, auto)
        \/ KillServer(s)

BaseNext == Environment \/ ParentStep \/ ScriptCall

BaseSpec == BaseInit /\ [][BaseNext]_baseVars

\* A method of the parent goes on until it returns: every wait of it is bounded.
FairBaseSpec == BaseSpec /\ WF_baseVars(ParentStep)
-------------------------------------------------------------------------------
(* Properties *)

\* Whoever owns a socket is a live process, and a server owns only sockets of its own port;
\* one that serves (or is shutting down) owns all it needs, and one that is still starting at
\* most the UDP half of two.  So a child whose second bind fails, or that is killed between the
\* two (dns_server.py:69-70), keeps nothing, and a connection that close_port opens never
\* reaches a server that is half bound (base_server.py:63-89).
SocketsOwned ==
    /\ \A x \in Sockets : sock[x] # Free =>
          /\ proc[sock[x]] \in Live
          /\ sock[x] \in Servers => x \in Needs(sock[x])
          /\ proc[sock[x]] = "starting" => x[1] = "udp" /\ Transports[sock[x]] = Transport
    /\ \A s \in Servers : proc[s] \in {"serving", "stopping"} =>
          \A x \in Needs(s) : sock[x] = s

\* When run_server has returned False (base_server.py:123-126), no child of that
\* server is left that serves or may still come up: it never started, is gone,
\* or has been told to stop.
FailedRunLeavesNothing ==
    \A s \in Servers :
        result[s] = "error" /\ ~(current = s /\ at \in {"cleanup", "join"})
            => proc[s] \in {"none", "stopping", "dead"}

\* A step of the parent takes a server down only in that server's own cleanup,
\* or for a server that is about to be started on the very same port (close_port
\* selects its victims by port): a honeypot on another port never suffers.
OnlyOccupantsTerminated ==
    [][\A q \in Servers :
          /\ proc[q] \in {"starting", "serving"}
          /\ proc'[q] = "stopping" \/ (proc'[q] = "dead" /\ at' # at)
          => \/ current = q /\ at = "cleanup"
             \/ current \in Servers \ {q} /\ port[current] = port[q] /\ at = "scan"
      ]_baseVars

\* No process of the host but the script's children binds ports, and every
\* service is a TCP one.
TrustedHost ==
    /\ Foreign = {}
    /\ \A s \in Servers : Transports[s] = {"tcp"}

\* On such a host a run reports success only when its own child owns the port
\* (service_has_started, helper.py:527-546, accepts any process on it), as long
\* as no earlier run was left by an exception: such a run leaves a child behind
\* that may still come up on the port of a later one.
SuccessMeansBound ==
    [][\A s \in Servers :
          /\ \A r \in Servers : result[r] # "raised"
          /\ result[s] = "none" /\ result'[s] = "success"
          => s \in Holders(port[s])
      ]_baseVars

\* Where the parent is in a method agrees with the server's process: run_server
\* executes once per server, and until it forks (base_server.py:128-134) there is
\* no process; after terminate() (:85) the process cannot come up any more.
MethodConsistent ==
    /\ current # Nobody => port[current] # NoPort
    /\ at \in {"connect", "scan", "reap", "bind", "fork", "poll"} => result[current] = "none"
    /\ \A s \in Servers : result[s] = "none" /\ ~(current = s /\ at = "poll")
          => proc[s] = "none"
    /\ \A s \in Servers : port[s] = NoPort => proc[s] = "none"
    /\ at = "join" => proc[current] \notin {"starting", "serving"}

\* On a trusted host, as long as no run was left by an exception, the only child
\* that may still bind is the one whose start is being waited for (or cleaned up
\* after), and nobody takes its port between the probe and the bind
\* (base_server.py:98-126).
StartExclusive ==
    TrustedHost /\ (\A s \in Servers : result[s] # "raised") =>
        /\ at = "fork" => sock[<<"tcp", port[current]>>] = Free
        /\ at = "poll" => sock[<<"tcp", port[current]>>] \in {Free, current}
        /\ \A s \in Servers : proc[s] = "starting" =>
              current = s /\ at \in {"poll", "cleanup"}

\* run_server and kill_server always return, also when an occupant of the port
\* or the child itself never reacts to SIGTERM.
CallsReturn == (at # "idle") ~> (at = "idle")
===============================================================================
