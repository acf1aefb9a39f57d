--------------------------- MODULE LifeCycleProofs ---------------------------
(***************************************************************************)
(* Theorems about BaseServer, for any servers, ports and foreign           *)
(* processes, and about HoneypotsManager, for any command lines: it uses   *)
(* its servers as BaseServer says a script does, so what is proved there   *)
(* holds of every honeypot of the manager; it stops all of them; its list  *)
(* is the one of the entries that were run, and a honeypot in it is shut   *)
(* down only by another one on its port.                                   *)
(***************************************************************************)
EXTENDS HoneypotsManager, TLAPS

USE DEF Transport, Procs, Sockets, Live, Phases

-------------------------------------------------------------------------------
(* Type correctness *)

\* A process that ends keeps the process table and the socket table well-typed.
LEMMA DieType ==
    ASSUME NEW q \in Procs, TypeOK, Die(q)
    PROVE  /\ proc' \in [Procs -> Live \union {"none", "dead"}]
           /\ sock' \in [Sockets -> Procs \union {Free}]
  BY DEF TypeOK, Die, Release

LEMMA SigtermType ==
    ASSUME NEW q \in Procs, TypeOK, Sigterm(q)
    PROVE  /\ proc' \in [Procs -> Live \union {"none", "dead"}]
           /\ sock' \in [Sockets -> Procs \union {Free}]
  <1>1. CASE proc[q] = "starting"
    BY <1>1, DieType DEF Sigterm
  <1>2. CASE proc[q] # "starting"
    BY <1>2 DEF Sigterm, TypeOK
  <1> QED BY <1>1, <1>2

LEMMA TypeInit == BaseInit => TypeOK
  BY ServersAssumption DEF BaseInit, TypeOK

LEMMA TypeEnvironment == TypeOK /\ Environment => TypeOK'
  <1> SUFFICES ASSUME TypeOK, Environment PROVE TypeOK'
    OBVIOUS
  <1>1. ASSUME NEW s \in Servers, ChildBind(s) PROVE TypeOK'
    <2>1. proc' \in [Procs -> Live \union {"none", "dead"}]
      <3>1. proc' = [proc EXCEPT ![s] = "serving"] \/ proc' = proc
        <4>1. \/ proc' = [proc EXCEPT ![s] = "serving"]
              \/ proc' = [proc EXCEPT ![s] = proc[s]]
          BY <1>1 DEF ChildBind
        <4> QED BY <4>1 DEF TypeOK
      <3> QED BY <3>1 DEF TypeOK, Live
    <2>2. sock' \in [Sockets -> Procs \union {Free}]
      BY <1>1 DEF TypeOK, ChildBind
    <2> QED BY <1>1, <2>1, <2>2 DEF TypeOK, ChildBind, parentVars
  <1>2. ASSUME NEW s \in Servers, ChildBindFails(s) PROVE TypeOK'
    BY <1>2, DieType DEF TypeOK, ChildBindFails, parentVars
  <1>3. ASSUME NEW q \in Procs, Crash(q) PROVE TypeOK'
    BY <1>3, DieType DEF TypeOK, Crash, parentVars
  <1>4. ASSUME NEW q \in Procs, Exit(q) PROVE TypeOK'
    BY <1>4, DieType DEF TypeOK, Exit, parentVars
  <1>5. ASSUME NEW f \in Foreign, NEW x \in Sockets, ForeignBind(f, x) PROVE TypeOK'
    BY <1>5 DEF TypeOK, ForeignBind, parentVars
  <1> QED BY <1>1, <1>2, <1>3, <1>4, <1>5 DEF Environment

LEMMA TypeScriptCall == TypeOK /\ ScriptCall => TypeOK'
  <1> SUFFICES ASSUME TypeOK, NEW s \in Servers,
                      \/ \E arg \in Ports \union {NoPort} : Construct(s, arg)
                      \/ \E auto \in BOOLEAN : RunServer(s, auto)
                      \/ KillServer(s)
               PROVE  TypeOK'
    BY DEF ScriptCall
  <1>1. ASSUME NEW arg \in Ports \union {NoPort}, Construct(s, arg) PROVE TypeOK'
    <2>1. InitPort(s, arg) \in Ports
      BY ServersAssumption DEF InitPort
    <2> QED BY <1>1, <2>1 DEF TypeOK, Construct, parentVars
  <1>2. ASSUME NEW auto \in BOOLEAN, RunServer(s, auto) PROVE TypeOK'
    <2>1. CASE auto /\ ConfigPort[s] = NoPort
      <3>1. GetFreePort(s) /\ at = "idle" /\ current' = s
              /\ UNCHANGED <<proc, sock, conn, todo, victim>>
        BY <1>2, <2>1 DEF RunServer
      <3>2. /\ port' \in [Servers -> Ports \union {NoPort}]
            /\ result' \in [Servers -> {"none", "success", "error", "raised"}]
            /\ at' \in {"fork", "cleanup"}
        <4>1. CASE result' = [result EXCEPT ![s] = "error"]
                   /\ at' = "cleanup" /\ UNCHANGED port
          BY <4>1 DEF TypeOK
        <4>2. ASSUME NEW p \in Bindable, port' = [port EXCEPT ![s] = p],
                     at' = "fork", UNCHANGED result
              PROVE  <3>2!:
          BY <4>2, ServersAssumption DEF TypeOK
        <4> QED BY <3>1, <4>1, <4>2 DEF GetFreePort
      <3> QED BY <3>1, <3>2, ServersAssumption DEF TypeOK
    <2>2. CASE ~(auto /\ ConfigPort[s] = NoPort)
      BY <1>2, <2>2, ServersAssumption DEF TypeOK, RunServer
    <2> QED BY <2>1, <2>2
  <1>3. ASSUME KillServer(s) PROVE TypeOK'
    BY <1>3, ServersAssumption DEF TypeOK, KillServer
  <1> QED BY <1>1, <1>2, <1>3

LEMMA TypeParentStep == TypeOK /\ ParentStep => TypeOK'
  <1> SUFFICES ASSUME TypeOK, ParentStep PROVE TypeOK'
    OBVIOUS
  <1> USE ServersAssumption
  <1>1. ASSUME ClosePortConnect PROVE TypeOK'
    BY <1>1 DEF TypeOK, ClosePortConnect
  <1>2. ASSUME NEW q \in Procs, ClosePortVisit(q) PROVE TypeOK'
    BY <1>2, SigtermType DEF TypeOK, ClosePortVisit
  <1>3. ASSUME ClosePortReap PROVE TypeOK'
    BY <1>3 DEF TypeOK, ClosePortReap
  <1>4. ASSUME ClosePortKill PROVE TypeOK'
    BY <1>4, DieType DEF TypeOK, ClosePortKill
  <1>5. ASSUME ClosePortScanned PROVE TypeOK'
    BY <1>5 DEF TypeOK, ClosePortScanned
  <1>6. ASSUME ClosePortBind PROVE TypeOK'
    BY <1>6 DEF TypeOK, ClosePortBind, Fail
  <1>7. ASSUME StartProcess PROVE TypeOK'
    BY <1>7 DEF TypeOK, StartProcess
  <1>8. ASSUME ServiceHasStarted PROVE TypeOK'
    BY <1>8 DEF TypeOK, ServiceHasStarted, Return
  <1>9. ASSUME ServiceTimeout PROVE TypeOK'
    BY <1>9 DEF TypeOK, ServiceTimeout, Fail
  <1>10. ASSUME ServicePollRaises PROVE TypeOK'
    BY <1>10 DEF TypeOK, ServicePollRaises, Return
  <1>11. ASSUME KillServerTerminate PROVE TypeOK'
    <2>1. current \in Servers
      BY <1>11 DEF TypeOK, KillServerTerminate
    <2>2. CASE proc[current] = "none"
      BY <1>11, <2>2 DEF TypeOK, KillServerTerminate, Return
    <2>3. CASE proc[current] # "none"
      BY <1>11, <2>1, <2>3, SigtermType DEF TypeOK, KillServerTerminate
    <2> QED BY <2>2, <2>3
  <1>12. ASSUME KillServerJoin PROVE TypeOK'
    BY <1>12 DEF TypeOK, KillServerJoin, Return
  <1> QED BY <1>1, <1>2, <1>3, <1>4, <1>5, <1>6, <1>7, <1>8, <1>9, <1>10, <1>11, <1>12
          DEF ParentStep

\* Every behaviour of the host and the script is well-typed: in particular the
\* parent waits for a victim exactly while it reaps one (base_server.py:63-81).
THEOREM TypeCorrect == BaseSpec => []TypeOK
  <1>1. TypeOK /\ [BaseNext]_baseVars => TypeOK'
    <2>1. TypeOK /\ BaseNext => TypeOK'
      BY TypeEnvironment, TypeScriptCall, TypeParentStep DEF BaseNext
    <2>2. TypeOK /\ UNCHANGED baseVars => TypeOK'
      BY DEF TypeOK, baseVars, parentVars
    <2> QED BY <2>1, <2>2
  <1> QED BY <1>1, TypeInit, PTL DEF BaseSpec

-------------------------------------------------------------------------------
(* Where the parent is and what its server's process does *)

\* What a signal or the end of a process changes in the process table.
LEMMA DieProc ==
    ASSUME NEW q \in Procs, TypeOK, Die(q)
    PROVE  \A r \in Procs : proc'[r] = IF r = q THEN "dead" ELSE proc[r]
  BY DEF TypeOK, Die

LEMMA SigtermProc ==
    ASSUME NEW q \in Procs, TypeOK, Sigterm(q)
    PROVE  /\ \A r \in Procs \ {q} : proc'[r] = proc[r]
           /\ proc[q] = "starting" => proc'[q] = "dead" /\ sock' = Release(q)
           /\ proc[q] = "serving" => proc'[q] = "stopping"
           /\ proc[q] \notin {"starting", "serving"} => proc'[q] = proc[q]
           /\ proc[q] # "starting" => sock' = sock
  BY DEF TypeOK, Sigterm, Die

LEMMA MethodInit == BaseInit => MethodConsistent
  BY ServersAssumption DEF BaseInit, MethodConsistent

LEMMA MethodEnvironment ==
    TypeOK /\ MethodConsistent /\ Environment => MethodConsistent'
  <1> SUFFICES ASSUME TypeOK, MethodConsistent, Environment PROVE MethodConsistent'
    OBVIOUS
  <1>1. ASSUME NEW s \in Servers, ChildBind(s) PROVE MethodConsistent'
    BY <1>1 DEF TypeOK, MethodConsistent, ChildBind, parentVars
  <1>2. ASSUME NEW q \in Procs, Die(q), proc[q] \in Live, UNCHANGED <<port, parentVars>>
        PROVE  MethodConsistent'
    BY <1>2, DieProc DEF TypeOK, MethodConsistent, parentVars
  <1>3. ASSUME NEW f \in Foreign, NEW x \in Sockets, ForeignBind(f, x)
        PROVE  MethodConsistent'
    BY <1>3, ServersAssumption DEF TypeOK, MethodConsistent, ForeignBind, parentVars
  <1> QED BY <1>1, <1>2, <1>3 DEF Environment, ChildBindFails, Crash, Exit

LEMMA MethodScriptCall ==
    TypeOK /\ MethodConsistent /\ ScriptCall => MethodConsistent'
  <1> SUFFICES ASSUME TypeOK, MethodConsistent, NEW s \in Servers,
                      \/ \E arg \in Ports \union {NoPort} : Construct(s, arg)
                      \/ \E auto \in BOOLEAN : RunServer(s, auto)
                      \/ KillServer(s)
               PROVE  MethodConsistent'
    BY DEF ScriptCall
  <1> USE ServersAssumption
  <1>1. ASSUME NEW arg \in Ports \union {NoPort}, Construct(s, arg)
        PROVE  MethodConsistent'
    BY <1>1 DEF TypeOK, MethodConsistent, Construct, parentVars
  <1>2. ASSUME NEW auto \in BOOLEAN, RunServer(s, auto) PROVE MethodConsistent'
    <2>1. CASE at' = "connect" /\ UNCHANGED <<port, result>>
      BY <1>2, <2>1 DEF TypeOK, MethodConsistent, RunServer
    <2>2. CASE GetFreePort(s)
      <3>1. CASE result' = [result EXCEPT ![s] = "error"]
                 /\ at' = "cleanup" /\ UNCHANGED port
        BY <1>2, <3>1 DEF TypeOK, MethodConsistent, RunServer
      <3>2. ASSUME NEW p \in Bindable, port' = [port EXCEPT ![s] = p],
                   at' = "fork", UNCHANGED result
            PROVE  MethodConsistent'
        BY <1>2, <3>2 DEF TypeOK, MethodConsistent, RunServer
      <3> QED BY <2>2, <3>1, <3>2 DEF GetFreePort
    <2> QED BY <1>2, <2>1, <2>2 DEF RunServer
  <1>3. ASSUME KillServer(s) PROVE MethodConsistent'
    BY <1>3 DEF TypeOK, MethodConsistent, KillServer
  <1> QED BY <1>1, <1>2, <1>3

LEMMA MethodParentStep ==
    TypeOK /\ MethodConsistent /\ ParentStep => MethodConsistent'
  <1> SUFFICES ASSUME TypeOK, MethodConsistent, ParentStep PROVE MethodConsistent'
    OBVIOUS
  <1> USE ServersAssumption
  <1>1. ASSUME ClosePortConnect PROVE MethodConsistent'
    BY <1>1 DEF TypeOK, MethodConsistent, ClosePortConnect
  <1>2. ASSUME NEW q \in Procs, ClosePortVisit(q) PROVE MethodConsistent'
    <2>1. CASE Sigterm(q) /\ q \in Holders(port[current])
      BY <1>2, <2>1, SigtermProc DEF TypeOK, MethodConsistent, ClosePortVisit
    <2>2. CASE UNCHANGED <<proc, sock, victim, at>>
      BY <1>2, <2>2 DEF TypeOK, MethodConsistent, ClosePortVisit
    <2> QED BY <1>2, <2>1, <2>2 DEF ClosePortVisit
  <1>3. ASSUME ClosePortReap PROVE MethodConsistent'
    BY <1>3 DEF TypeOK, MethodConsistent, ClosePortReap
  <1>4. ASSUME ClosePortKill PROVE MethodConsistent'
    BY <1>4, DieProc DEF TypeOK, MethodConsistent, ClosePortKill
  <1>5. ASSUME ClosePortScanned PROVE MethodConsistent'
    BY <1>5 DEF TypeOK, MethodConsistent, ClosePortScanned
  <1>6. ASSUME ClosePortBind PROVE MethodConsistent'
    BY <1>6 DEF TypeOK, MethodConsistent, ClosePortBind, Fail
  <1>7. ASSUME StartProcess PROVE MethodConsistent'
    BY <1>7 DEF TypeOK, MethodConsistent, StartProcess
  <1>8. ASSUME ServiceHasStarted PROVE MethodConsistent'
    BY <1>8 DEF TypeOK, MethodConsistent, ServiceHasStarted, Return
  <1>9. ASSUME ServiceTimeout PROVE MethodConsistent'
    BY <1>9 DEF TypeOK, MethodConsistent, ServiceTimeout, Fail
  <1>10. ASSUME ServicePollRaises PROVE MethodConsistent'
    BY <1>10 DEF TypeOK, MethodConsistent, ServicePollRaises, Return
  <1>11. ASSUME KillServerTerminate PROVE MethodConsistent'
    <2>1. CASE proc[current] = "none"
      BY <1>11, <2>1 DEF TypeOK, MethodConsistent, KillServerTerminate, Return
    <2>2. CASE proc[current] # "none"
      BY <1>11, <2>2, SigtermProc DEF TypeOK, MethodConsistent, KillServerTerminate
    <2> QED BY <2>1, <2>2
  <1>12. ASSUME KillServerJoin PROVE MethodConsistent'
    BY <1>12 DEF TypeOK, MethodConsistent, KillServerJoin, Return
  <1> QED BY <1>1, <1>2, <1>3, <1>4, <1>5, <1>6, <1>7, <1>8, <1>9, <1>10, <1>11, <1>12
          DEF ParentStep

\* In every behaviour a method of the parent agrees with its server's process:
\* nothing is forked twice, nothing is up that run_server has not forked.
THEOREM MethodAlwaysConsistent == BaseSpec => []MethodConsistent
  <1>1. TypeOK /\ MethodConsistent /\ [BaseNext]_baseVars => MethodConsistent'
    <2>1. TypeOK /\ MethodConsistent /\ BaseNext => MethodConsistent'
      BY MethodEnvironment, MethodScriptCall, MethodParentStep DEF BaseNext
    <2>2. MethodConsistent /\ UNCHANGED baseVars => MethodConsistent'
      BY DEF MethodConsistent, baseVars, parentVars
    <2> QED BY <2>1, <2>2
  <1> QED BY <1>1, MethodInit, TypeCorrect, PTL DEF BaseSpec

-------------------------------------------------------------------------------
(* Sockets and their owners *)

\* The sockets of a server that has been constructed are sockets of the host.
LEMMA NeedsAreSockets ==
    ASSUME NEW s \in Servers, TypeOK, port[s] # NoPort
    PROVE  Needs(s) \subseteq Sockets
  BY ServersAssumption DEF TypeOK, Needs

\* The two halves of SocketsOwned, with names.
OwnersLive == \A x \in Sockets, q \in Procs : sock[x] = q =>
    /\ proc[q] \in Live
    /\ q \in Servers => x \in Needs(q)
    /\ proc[q] = "starting" => x[1] = "udp" /\ Transports[q] = Transport

ServersOwn == \A s \in Servers : proc[s] \in {"serving", "stopping"} =>
    \A x \in Needs(s) : sock[x] = s

LEMMA SocketsOwnedParts == TypeOK => (SocketsOwned <=> OwnersLive /\ ServersOwn)
  <1> SUFFICES ASSUME TypeOK PROVE SocketsOwned <=> OwnersLive /\ ServersOwn
    OBVIOUS
  <1>1. Free \notin Procs /\ sock \in [Sockets -> Procs \union {Free}]
    BY ServersAssumption DEF TypeOK
  <1>2. ASSUME SocketsOwned PROVE OwnersLive
    <2>1. SUFFICES ASSUME NEW x \in Sockets, NEW q \in Procs, sock[x] = q
                   PROVE  /\ proc[q] \in Live
                          /\ q \in Servers => x \in Needs(q)
                          /\ proc[q] = "starting" => x[1] = "udp" /\ Transports[q] = Transport
      BY DEF OwnersLive
    <2>2. sock[x] # Free
      BY <1>1, <2>1
    <2> QED BY <1>2, <2>1, <2>2 DEF SocketsOwned
  <1>3. ASSUME OwnersLive, ServersOwn PROVE SocketsOwned
    <2>1. ASSUME NEW x \in Sockets, sock[x] # Free
          PROVE  /\ proc[sock[x]] \in Live
                 /\ sock[x] \in Servers => x \in Needs(sock[x])
                 /\ proc[sock[x]] = "starting" => x[1] = "udp" /\ Transports[sock[x]] = Transport
      <3>1. sock[x] \in Procs
        BY <1>1, <2>1
      <3> QED BY <1>3, <3>1 DEF OwnersLive
    <2> QED BY <1>3, <2>1 DEF SocketsOwned, ServersOwn
  <1>4. SocketsOwned => ServersOwn
    BY DEF SocketsOwned, ServersOwn
  <1> QED BY <1>2, <1>3, <1>4

LEMMA DieOwned ==
    ASSUME NEW q \in Procs, TypeOK, MethodConsistent, OwnersLive, ServersOwn,
           Die(q), UNCHANGED port
    PROVE  OwnersLive' /\ ServersOwn'
  <1>1. \A x \in Sockets : sock'[x] = IF sock[x] = q THEN Free ELSE sock[x]
    BY DEF Die, Release
  <1>2. \A s \in Servers : Needs(s)' = Needs(s)
    BY DEF Needs
  <1>3. OwnersLive'
    BY <1>1, <1>2, DieProc, ServersAssumption DEF OwnersLive
  <1>4. ASSUME NEW s \in Servers, proc'[s] \in {"serving", "stopping"},
               NEW x \in Needs(s)
        PROVE  sock'[x] = s
    <2>1. s # q /\ proc[s] \in {"serving", "stopping"}
      BY <1>4, DieProc
    <2>2. sock[x] = s
      BY <2>1 DEF ServersOwn
    <2>3. x \in Sockets
      BY <2>1, <1>4, NeedsAreSockets DEF MethodConsistent
    <2> QED BY <1>1, <2>1, <2>2, <2>3
  <1>5. ServersOwn'
    BY <1>2, <1>4 DEF ServersOwn
  <1> QED BY <1>3, <1>5

\* A step that changes neither sockets nor ports, and in which a process that serves may be
\* told to stop, and one that is not there may start.
LEMMA SameOwned ==
    ASSUME OwnersLive, ServersOwn, UNCHANGED <<port, sock>>,
           \A q \in Procs : \/ proc'[q] = proc[q]
                            \/ proc[q] = "serving" /\ proc'[q] = "stopping"
                            \/ proc[q] \notin Live /\ proc'[q] = "starting"
    PROVE  OwnersLive' /\ ServersOwn'
  <1>1. \A s \in Servers : Needs(s)' = Needs(s)
    BY DEF Needs
  <1>2. OwnersLive'
    BY <1>1 DEF OwnersLive, Live
  <1>3. ASSUME NEW s \in Servers, proc'[s] \in {"serving", "stopping"} PROVE proc[s] \in {"serving", "stopping"}
    BY <1>3 DEF Procs
  <1> QED BY <1>1, <1>2, <1>3 DEF ServersOwn

LEMMA SigtermOwned ==
    ASSUME NEW q \in Procs, TypeOK, MethodConsistent, OwnersLive, ServersOwn,
           Sigterm(q), UNCHANGED port
    PROVE  OwnersLive' /\ ServersOwn'
  <1>1. CASE proc[q] = "starting"
    BY <1>1, DieOwned DEF Sigterm
  <1>2. CASE proc[q] # "starting"
    BY <1>2, SigtermProc, SameOwned
  <1> QED BY <1>1, <1>2

LEMMA OwnedInit == BaseInit => OwnersLive /\ ServersOwn
  BY ServersAssumption DEF BaseInit, OwnersLive, ServersOwn

LEMMA OwnedEnvironment ==
    ASSUME TypeOK, MethodConsistent, OwnersLive, ServersOwn, Environment
    PROVE  OwnersLive' /\ ServersOwn'
  <1>1. ASSUME NEW s \in Servers, ChildBind(s) PROVE OwnersLive' /\ ServersOwn'
    <2> DEFINE y == NextSocket(s)
    <2>0. /\ port[s] \in Ports /\ Needs(s) \subseteq Sockets /\ y \in Needs(s)
      <3>1. port[s] \in Ports
        BY <1>1, ServersAssumption DEF ChildBind
      <3>2. Needs(s) \subseteq Sockets
        BY <3>1, NeedsAreSockets, ServersAssumption
      <3>3. y \in Needs(s)
        <4>1. Transports[s] \subseteq {"tcp", "udp"} /\ Transports[s] # {}
          BY ServersAssumption DEF Transport
        <4>2. CASE "udp" \in Transports[s] /\ sock[<<"udp", port[s]>>] # s
          BY <4>2 DEF NextSocket, Needs
        <4>3. CASE "udp" \in Transports[s] /\ sock[<<"udp", port[s]>>] = s
          <5>1. <<"udp", port[s]>> \in Needs(s)
            BY <4>3 DEF Needs
          <5>2. Transports[s] = Transport
            BY <1>1, <3>2, <4>3, <5>1 DEF OwnersLive, ChildBind, Procs
          <5> QED BY <4>3, <5>2 DEF NextSocket, Needs, Transport
        <4>4. CASE "udp" \notin Transports[s]
          <5>1. "tcp" \in Transports[s]
            BY <4>1, <4>4
          <5> QED BY <4>4, <5>1 DEF NextSocket, Needs
        <4> QED BY <4>2, <4>3, <4>4
      <3> QED BY <3>1, <3>2, <3>3
    <2>1. \A x \in Sockets : sock'[x] = IF x = y THEN s ELSE sock[x]
      BY <1>1 DEF ChildBind, TypeOK
    <2>2. \A q \in Procs \ {s} : proc'[q] = proc[q]
      BY <1>1 DEF ChildBind, TypeOK
    <2>3. sock[y] = Free /\ s \in Procs
      BY <1>1 DEF ChildBind, Procs
    <2>4. \A r \in Servers : Needs(r)' = Needs(r)
      BY <1>1 DEF ChildBind, Needs
    <2>5. /\ proc[s] = "starting"
          /\ proc'[s] = IF \A x \in Needs(s) \ {y} : sock[x] = s THEN "serving" ELSE "starting"
      BY <1>1, <2>3 DEF ChildBind, TypeOK
    <2>8. ASSUME proc'[s] = "starting" PROVE y[1] = "udp" /\ Transports[s] = Transport
      <3>1. PICK x \in Needs(s) \ {y} : sock[x] # s
        BY <2>5, <2>8
      <3>2. PICK t \in Transports[s] : x = <<t, port[s]>>
        BY DEF Needs
      <3>3. Transports[s] \subseteq {"tcp", "udp"}
        BY ServersAssumption DEF Transport
      <3>4. CASE y = <<"udp", port[s]>>
        <4>1. t = "tcp"
          BY <3>1, <3>2, <3>3, <3>4
        <4>2. "udp" \in Transports[s]
          BY <2>0, <3>4 DEF Needs
        <4> QED BY <3>3, <3>4, <4>1, <4>2 DEF Transport
      <3>5. CASE y = <<"tcp", port[s]>>
        <4>1. t = "udp"
          BY <3>1, <3>2, <3>3, <3>5
        <4>2. y = <<"udp", port[s]>>
          BY <3>1, <3>2, <4>1 DEF NextSocket
        <4> QED BY <3>5, <4>2
      <3> QED BY <3>4, <3>5 DEF NextSocket
    <2> HIDE DEF y
    <2>6. OwnersLive'
      <3> SUFFICES ASSUME NEW x \in Sockets, NEW q \in Procs, sock'[x] = q
                   PROVE  /\ proc'[q] \in Live
                          /\ q \in Servers => x \in Needs(q)'
                          /\ proc'[q] = "starting" => x[1] = "udp" /\ Transports[q] = Transport
        BY DEF OwnersLive
      <3>1. CASE x = y
        BY <2>0, <2>1, <2>4, <2>5, <2>8, <3>1 DEF Live
      <3>2. CASE x # y
        <4>1. sock[x] = q
          BY <2>1, <3>2
        <4>2. /\ proc[q] \in Live /\ (q \in Servers => x \in Needs(q))
              /\ proc[q] = "starting" => x[1] = "udp" /\ Transports[q] = Transport
          BY <4>1 DEF OwnersLive
        <4> QED BY <2>2, <2>4, <2>5, <4>2 DEF Live
      <3> QED BY <3>1, <3>2
    <2>7. ASSUME NEW r \in Servers, proc'[r] \in {"serving", "stopping"},
                 NEW x \in Needs(r)
          PROVE  sock'[x] = r
      <3>1. CASE r = s
        <4>1. \A z \in Needs(s) \ {y} : sock[z] = s
          BY <2>5, <2>7, <3>1
        <4> QED BY <2>0, <2>1, <2>7, <3>1, <4>1
      <3>2. CASE r # s
        <4>0. proc[r] \in {"serving", "stopping"}
          BY <3>2, <2>2, <2>7 DEF Procs
        <4>1. sock[x] = r
          BY <2>7, <4>0 DEF ServersOwn
        <4>2. x \in Sockets
          BY <2>7, <4>0, NeedsAreSockets DEF MethodConsistent
        <4> QED BY <4>1, <4>2, <2>1, <2>3, ServersAssumption
      <3> QED BY <3>1, <3>2
    <2> QED BY <2>4, <2>6, <2>7 DEF ServersOwn
  <1>2. ASSUME NEW q \in Procs, Die(q), UNCHANGED port
        PROVE  OwnersLive' /\ ServersOwn'
    BY <1>2, DieOwned
  <1>3. ASSUME NEW f \in Foreign, NEW x \in Sockets, ForeignBind(f, x)
        PROVE  OwnersLive' /\ ServersOwn'
    <2>1. \A y \in Sockets : sock'[y] = IF y = x THEN f ELSE sock[y]
      BY <1>3 DEF ForeignBind, TypeOK
    <2>2. \A q \in Procs : proc'[q] = IF q = f THEN "serving" ELSE proc[q]
      BY <1>3 DEF ForeignBind, TypeOK
    <2>3. sock[x] = Free /\ f \notin Servers /\ UNCHANGED port
      BY <1>3, ServersAssumption DEF ForeignBind
    <2>4. \A r \in Servers : Needs(r)' = Needs(r)
      BY <2>3 DEF Needs
    <2>5. OwnersLive'
      BY <2>1, <2>2, <2>3, <2>4 DEF OwnersLive
    <2>6. ASSUME NEW r \in Servers, proc'[r] \in {"serving", "stopping"},
                 NEW y \in Needs(r)
          PROVE  sock'[y] = r
      <3>1. sock[y] = r
        BY <2>2, <2>3, <2>6 DEF ServersOwn
      <3>2. y \in Sockets
        BY <2>2, <2>3, <2>6, NeedsAreSockets DEF MethodConsistent
      <3> QED BY <3>1, <3>2, <2>1, <2>3, ServersAssumption
    <2> QED BY <2>4, <2>5, <2>6 DEF ServersOwn
  <1> QED BY <1>1, <1>2, <1>3 DEF Environment, ChildBindFails, Crash, Exit

\* A server whose port is (re)assigned has no process yet.
LEMMA PortOwned ==
    ASSUME NEW s \in Servers, NEW p \in Ports, TypeOK, OwnersLive, ServersOwn,
           proc[s] = "none", port' = [port EXCEPT ![s] = p], UNCHANGED <<proc, sock>>
    PROVE  OwnersLive' /\ ServersOwn'
  <1>1. \A r \in Servers \ {s} : Needs(r)' = Needs(r)
    BY DEF TypeOK, Needs
  <1> QED BY <1>1 DEF OwnersLive, ServersOwn

LEMMA OwnedScriptCall ==
    ASSUME TypeOK, MethodConsistent, OwnersLive, ServersOwn, ScriptCall
    PROVE  OwnersLive' /\ ServersOwn'
  <1> SUFFICES ASSUME NEW s \in Servers,
                      \/ \E arg \in Ports \union {NoPort} : Construct(s, arg)
                      \/ \E auto \in BOOLEAN : RunServer(s, auto)
                      \/ KillServer(s)
               PROVE  OwnersLive' /\ ServersOwn'
    BY DEF ScriptCall
  <1>1. ASSUME NEW arg \in Ports \union {NoPort}, Construct(s, arg)
        PROVE  OwnersLive' /\ ServersOwn'
    <2>1. InitPort(s, arg) \in Ports
      BY ServersAssumption DEF InitPort
    <2>2. proc[s] = "none"
      BY <1>1 DEF Construct, MethodConsistent
    <2> QED BY <1>1, <2>1, <2>2, PortOwned DEF Construct
  <1>2. ASSUME NEW auto \in BOOLEAN, RunServer(s, auto)
        PROVE  OwnersLive' /\ ServersOwn'
    <2>1. proc[s] = "none"
      BY <1>2 DEF RunServer, MethodConsistent
    <2>2. CASE UNCHANGED port
      BY <1>2, <2>2, SameOwned DEF RunServer
    <2>3. ASSUME NEW p \in Bindable, port' = [port EXCEPT ![s] = p]
          PROVE  OwnersLive' /\ ServersOwn'
      BY <1>2, <2>1, <2>3, PortOwned, ServersAssumption DEF RunServer
    <2>4. UNCHANGED port \/ \E p \in Bindable : port' = [port EXCEPT ![s] = p]
      <3>1. CASE GetFreePort(s)
        BY <3>1 DEF GetFreePort
      <3> QED BY <1>2, <3>1 DEF RunServer
    <2> QED BY <2>2, <2>3, <2>4
  <1>3. CASE KillServer(s)
    BY <1>3, SameOwned DEF KillServer
  <1> QED BY <1>1, <1>2, <1>3

LEMMA OwnedParentStep ==
    ASSUME TypeOK, MethodConsistent, OwnersLive, ServersOwn, ParentStep
    PROVE  OwnersLive' /\ ServersOwn'
  <1>1. CASE UNCHANGED <<port, proc, sock>>
    BY <1>1, SameOwned
  <1>2. ASSUME NEW q \in Procs, ClosePortVisit(q) PROVE OwnersLive' /\ ServersOwn'
    BY <1>2, <1>1, SigtermOwned DEF ClosePortVisit
  <1>3. CASE ClosePortKill
    BY <1>3, DieOwned DEF ClosePortKill, TypeOK
  <1>4. CASE StartProcess
    <2>1. current \in Servers /\ proc[current] = "none"
      BY <1>4, ServersAssumption DEF StartProcess, TypeOK, MethodConsistent
    <2> QED BY <1>4, <2>1, SameOwned DEF StartProcess, TypeOK
  <1>5. CASE KillServerTerminate
    <2>1. current \in Procs
      BY <1>5 DEF KillServerTerminate, TypeOK
    <2> QED BY <1>5, <1>1, <2>1, SigtermOwned DEF KillServerTerminate
  <1> QED BY <1>1, <1>2, <1>3, <1>4, <1>5
          DEF ParentStep, ClosePortConnect, ClosePortReap, ClosePortScanned,
              ClosePortBind, ServiceHasStarted, ServiceTimeout, ServicePollRaises,
              KillServerJoin

\* In every interleaving of binds, crashes, kills and timeouts a socket has a live owner, a
\* server that serves owns all its sockets, and one that starts at most the UDP half of two.
THEOREM SocketsAlwaysOwned == BaseSpec => []SocketsOwned
  <1>1. TypeOK /\ MethodConsistent /\ OwnersLive /\ ServersOwn
          /\ [BaseNext]_baseVars => OwnersLive' /\ ServersOwn'
    <2>1. CASE UNCHANGED baseVars
      BY <2>1, SameOwned DEF baseVars
    <2> QED BY <2>1, OwnedEnvironment, OwnedScriptCall, OwnedParentStep DEF BaseNext
  <1>2. BaseSpec => [](OwnersLive /\ ServersOwn)
    BY <1>1, OwnedInit, TypeCorrect, MethodAlwaysConsistent, PTL DEF BaseSpec
  <1> QED BY <1>2, SocketsOwnedParts, TypeCorrect, PTL

-------------------------------------------------------------------------------
(* A failed run *)

\* No step revives the process of a server whose run has failed.
LEMMA FailedStep ==
    ASSUME TypeOK, MethodConsistent, FailedRunLeavesNothing, BaseNext
    PROVE  FailedRunLeavesNothing'
  <1> USE ServersAssumption
  <1>1. ASSUME UNCHANGED <<current, at, result>>,
               \A s \in Servers :
                  \/ proc'[s] = proc[s]
                  \/ proc'[s] \in {"stopping", "dead"}
                  \/ proc[s] = "starting"
        PROVE  FailedRunLeavesNothing'
    BY <1>1 DEF FailedRunLeavesNothing
  <1>2. CASE Environment
    <2>1. ASSUME NEW s \in Servers, ChildBind(s) PROVE FailedRunLeavesNothing'
      BY <2>1, <1>1 DEF ChildBind, TypeOK, parentVars
    <2>2. ASSUME NEW q \in Procs, Die(q), proc[q] \in Live, UNCHANGED parentVars
          PROVE  FailedRunLeavesNothing'
      BY <2>2, <1>1, DieProc DEF parentVars
    <2>3. ASSUME NEW f \in Foreign, NEW x \in Sockets, ForeignBind(f, x)
          PROVE  FailedRunLeavesNothing'
      BY <2>3, <1>1 DEF ForeignBind, TypeOK, parentVars
    <2> QED BY <1>2, <2>1, <2>2, <2>3 DEF Environment, ChildBindFails, Crash, Exit
  <1>3. CASE ScriptCall
    <2>1. \/ at' = at /\ UNCHANGED <<current, result, proc>>
          \/ \E s \in Servers :
                /\ at = "idle" /\ UNCHANGED proc /\ current' = s
                /\ \/ at' = "cleanup" /\ result' \in {result, [result EXCEPT ![s] = "error"]}
                   \/ result[s] = "none" /\ UNCHANGED result
      BY <1>3 DEF ScriptCall, Construct, RunServer, GetFreePort, KillServer, parentVars
    <2> QED BY <2>1 DEF FailedRunLeavesNothing, TypeOK
  <1>4. CASE ParentStep
    <2>1. ASSUME NEW q \in Procs, ClosePortVisit(q) PROVE FailedRunLeavesNothing'
      <3>1. \A s \in Servers : proc'[s] = proc[s] \/ proc'[s] \in {"stopping", "dead"}
        BY <2>1, SigtermProc DEF ClosePortVisit, TypeOK
      <3> QED BY <2>1, <3>1 DEF ClosePortVisit, FailedRunLeavesNothing, TypeOK
    <2>2. CASE ClosePortKill
      <3>1. \A s \in Servers : proc'[s] = proc[s] \/ proc'[s] = "dead"
        BY <2>2, DieProc DEF ClosePortKill, TypeOK
      <3> QED BY <2>2, <3>1 DEF ClosePortKill, FailedRunLeavesNothing
    <2>3. CASE ClosePortConnect \/ ClosePortReap \/ ClosePortScanned
      BY <2>3 DEF ClosePortConnect, ClosePortReap, ClosePortScanned,
                  FailedRunLeavesNothing
    <2>4. CASE ClosePortBind \/ ServiceTimeout
      BY <2>4 DEF ClosePortBind, ServiceTimeout, Fail, FailedRunLeavesNothing, TypeOK
    <2>5. CASE StartProcess
      BY <2>5 DEF StartProcess, FailedRunLeavesNothing, MethodConsistent, TypeOK
    <2>6. CASE ServiceHasStarted \/ ServicePollRaises
      BY <2>6 DEF ServiceHasStarted, ServicePollRaises, Return,
                  FailedRunLeavesNothing, TypeOK
    <2>7. CASE KillServerTerminate
      <3>1. CASE proc[current] = "none"
        BY <2>7, <3>1 DEF KillServerTerminate, Return, FailedRunLeavesNothing
      <3>2. CASE proc[current] # "none"
        BY <2>7, <3>2, SigtermProc
           DEF KillServerTerminate, FailedRunLeavesNothing, TypeOK
      <3> QED BY <3>1, <3>2
    <2>8. CASE KillServerJoin
      BY <2>8 DEF KillServerJoin, Return, FailedRunLeavesNothing, MethodConsistent, TypeOK
    <2> QED BY <1>4, <2>1, <2>2, <2>3, <2>4, <2>5, <2>6, <2>7, <2>8 DEF ParentStep
  <1> QED BY <1>2, <1>3, <1>4 DEF BaseNext

\* When run_server has returned False no child of that server serves or may still
\* come up.
THEOREM FailedRunsLeaveNothing == BaseSpec => []FailedRunLeavesNothing
  <1>1. BaseInit => FailedRunLeavesNothing
    BY DEF BaseInit, FailedRunLeavesNothing
  <1>2. FailedRunLeavesNothing /\ UNCHANGED baseVars => FailedRunLeavesNothing'
    BY DEF FailedRunLeavesNothing, baseVars, parentVars
  <1>3. TypeOK /\ MethodConsistent /\ FailedRunLeavesNothing /\ [BaseNext]_baseVars
          => FailedRunLeavesNothing'
    BY <1>2, FailedStep
  <1> QED BY <1>1, <1>3, TypeCorrect, MethodAlwaysConsistent, PTL DEF BaseSpec

-------------------------------------------------------------------------------
(* Who is taken down *)

\* The step of OnlyOccupantsTerminated, for one process.
TakenDown(q) ==
    /\ proc[q] \in {"starting", "serving"}
    /\ proc'[q] = "stopping" \/ (proc'[q] = "dead" /\ at' # at)

TakenDownRightly(q) ==
    \/ current = q /\ at = "cleanup"
    \/ current \in Servers \ {q} /\ port[current] = port[q] /\ at = "scan"

LEMMA OccupantStep ==
    ASSUME TypeOK, MethodConsistent, OwnersLive, BaseNext,
           NEW q \in Servers, TakenDown(q)
    PROVE  TakenDownRightly(q)
  <1> USE ServersAssumption DEF TakenDown, TakenDownRightly
  <1>1. CASE UNCHANGED proc
    BY <1>1
  <1>2. CASE Environment
    <2>1. ASSUME NEW r \in Procs, Die(r), UNCHANGED at PROVE FALSE
      BY <2>1, DieProc
    <2>2. ASSUME NEW s \in Servers, ChildBind(s) PROVE FALSE
      BY <2>2 DEF ChildBind, TypeOK, parentVars
    <2>3. ASSUME NEW f \in Foreign, NEW x \in Sockets, ForeignBind(f, x) PROVE FALSE
      BY <2>3 DEF ForeignBind, TypeOK, parentVars
    <2> QED BY <1>2, <2>1, <2>2, <2>3
            DEF Environment, ChildBindFails, Crash, Exit, parentVars
  <1>3. ASSUME NEW r \in Procs, ClosePortVisit(r) PROVE TakenDownRightly(q)
    <2>1. r = q /\ q \in Holders(port[current])
      BY <1>3, <1>1, SigtermProc DEF ClosePortVisit
    <2>2. PICK t \in Transport : sock[<<t, port[current]>>] = q
      BY <2>1 DEF Holders
    <2>3. current \in Servers /\ port[current] \in Ports
      BY <1>3 DEF ClosePortVisit, TypeOK, MethodConsistent
    <2>4. <<t, port[current]>> \in Needs(q)
      BY <2>2, <2>3 DEF OwnersLive
    <2>5. port[current] = port[q]
      BY <2>4 DEF Needs
    <2>6. current # q
      BY <1>3 DEF ClosePortVisit, MethodConsistent
    <2> QED BY <1>3, <2>3, <2>5, <2>6 DEF ClosePortVisit
  <1>4. CASE ClosePortKill
    <2>1. victim \in Procs /\ proc[victim] = "stopping"
      BY <1>4 DEF ClosePortKill, TypeOK
    <2> QED BY <1>4, <2>1, DieProc DEF ClosePortKill
  <1>5. CASE StartProcess
    BY <1>5 DEF StartProcess, TypeOK, MethodConsistent
  <1>6. CASE KillServerTerminate
    <2>1. current \in Procs
      BY <1>6 DEF KillServerTerminate, TypeOK
    <2>2. proc[current] # "none" => Sigterm(current)
      BY <1>6 DEF KillServerTerminate
    <2>3. proc[current] = "none" => UNCHANGED proc
      BY <1>6 DEF KillServerTerminate
    <2> QED BY <1>6, <1>1, <2>1, <2>2, <2>3, SigtermProc DEF KillServerTerminate
  <1> QED BY <1>1, <1>2, <1>3, <1>4, <1>5, <1>6
          DEF BaseNext, ParentStep, ScriptCall, ClosePortConnect, ClosePortReap,
              ClosePortScanned, ClosePortBind, ServiceHasStarted, ServiceTimeout,
              ServicePollRaises, KillServerJoin, Construct, RunServer, KillServer,
              parentVars

\* The parent takes down a server only in that server's cleanup or to start another
\* one on the very same port.
THEOREM OnlyOccupantsAreTerminated == BaseSpec => OnlyOccupantsTerminated
  <1>1. TypeOK /\ SocketsOwned => OwnersLive
    BY SocketsOwnedParts
  <1>2. TypeOK /\ MethodConsistent /\ OwnersLive /\ [BaseNext]_baseVars
          => [\A q \in Servers : TakenDown(q) => TakenDownRightly(q)]_baseVars
    BY OccupantStep
  <1>3. BaseSpec => [][\A q \in Servers : TakenDown(q) => TakenDownRightly(q)]_baseVars
    BY <1>1, <1>2, TypeCorrect, MethodAlwaysConsistent, SocketsAlwaysOwned, PTL
       DEF BaseSpec
  <1> QED BY <1>3 DEF OnlyOccupantsTerminated, TakenDown, TakenDownRightly

-------------------------------------------------------------------------------
(* A host of its own *)

NoneRaised == \A s \in Servers : result[s] # "raised"

\* StartExclusive without its condition.
Exclusive ==
    /\ at = "fork" => sock[<<"tcp", port[current]>>] = Free
    /\ at = "poll" => sock[<<"tcp", port[current]>>] \in {Free, current}
    /\ \A s \in Servers : proc[s] = "starting" =>
          current = s /\ at \in {"poll", "cleanup"}

\* A step that neither starts a process nor moves the parent nor lets anybody but
\* the current server take a socket.
LEMMA QuietStep ==
    ASSUME Exclusive, UNCHANGED <<port, current, at>>, TypeOK, current \in Servers,
           \A x \in Sockets : sock'[x] \in {Free, sock[x]},
           \A s \in Servers : proc'[s] = "starting" => proc[s] = "starting",
           port[current] # NoPort
    PROVE  Exclusive'
  BY DEF Exclusive, TypeOK

LEMMA ExclusiveEnvironment ==
    ASSUME TrustedHost, TypeOK, MethodConsistent, Exclusive, Environment
    PROVE  Exclusive'
  <1> USE ServersAssumption
  <1>1. Foreign = {} /\ Procs = Servers
    BY DEF TrustedHost
  <1>2. UNCHANGED <<port, current, at>>
    BY DEF Environment, ChildBind, ChildBindFails, Crash, Exit, ForeignBind,
           parentVars, Die
  <1>3. ASSUME NEW s \in Servers, ChildBind(s) PROVE Exclusive'
    <2>1. current = s /\ at \in {"poll", "cleanup"}
      BY <1>3 DEF ChildBind, Exclusive
    <2>2. \A r \in Servers : proc'[r] = "starting" => proc[r] = "starting"
      BY <1>3 DEF ChildBind, TypeOK
    <2>3. port[s] \in Ports
      BY <1>3 DEF ChildBind
    <2>4. sock'[<<"tcp", port[s]>>] \in {s, sock[<<"tcp", port[s]>>]}
      BY <1>3, <2>3 DEF ChildBind
    <2> QED BY <1>2, <2>1, <2>2, <2>4 DEF Exclusive
  <1>4. ASSUME NEW q \in Procs, Die(q) PROVE Exclusive'
    <2>1. \A x \in Sockets : sock'[x] \in {Free, sock[x]}
      BY <1>4 DEF Die, Release
    <2>2. \A s \in Servers : proc'[s] = "starting" => proc[s] = "starting"
      BY <1>4, DieProc
    <2>3. CASE current \in Servers
      BY <1>2, <2>1, <2>2, <2>3, QuietStep DEF MethodConsistent, TypeOK
    <2>4. CASE current \notin Servers
      BY <1>2, <2>2, <2>4 DEF Exclusive, TypeOK
    <2> QED BY <2>3, <2>4
  <1> QED BY <1>1, <1>3, <1>4 DEF Environment, ChildBindFails, Crash, Exit

LEMMA ExclusiveScriptCall ==
    ASSUME TrustedHost, TypeOK, Exclusive, ScriptCall
    PROVE  Exclusive'
  <1> SUFFICES ASSUME NEW s \in Servers,
                      \/ \E arg \in Ports \union {NoPort} : Construct(s, arg)
                      \/ \E auto \in BOOLEAN : RunServer(s, auto)
                      \/ KillServer(s)
               PROVE  Exclusive'
    BY DEF ScriptCall
  <1>1. at = "idle" /\ UNCHANGED <<proc, sock>>
    BY DEF Construct, RunServer, KillServer
  <1>2. \A r \in Servers : proc'[r] # "starting"
    BY <1>1 DEF Exclusive
  <1>3. ASSUME NEW auto \in BOOLEAN, RunServer(s, auto) PROVE Exclusive'
    <2>1. ASSUME NEW p \in Bindable, sock[<<"tcp", p>>] = Free,
                 port' = [port EXCEPT ![s] = p], at' = "fork"
          PROVE  Exclusive'
      BY <1>1, <1>2, <1>3, <2>1 DEF RunServer, Exclusive, TypeOK
    <2>2. CASE at' \in {"connect", "cleanup"}
      BY <1>2, <2>2 DEF Exclusive
    <2>3. CASE GetFreePort(s)
      BY <2>1, <2>2, <2>3 DEF GetFreePort
    <2> QED BY <1>3, <2>2, <2>3 DEF RunServer
  <1>4. CASE at' \in {"idle", "cleanup"}
    BY <1>2, <1>4 DEF Exclusive
  <1> QED BY <1>3, <1>4 DEF Construct, KillServer, parentVars

LEMMA ExclusiveParentStep ==
    ASSUME TrustedHost, TypeOK, MethodConsistent, OwnersLive, Exclusive, ParentStep,
           NoneRaised'
    PROVE  Exclusive'
  <1> USE ServersAssumption
  <1>1. ASSUME at \notin {"poll", "cleanup"}, at' \notin {"fork", "poll"},
               \A s \in Servers : proc'[s] = "starting" => proc[s] = "starting"
        PROVE  Exclusive'
    BY <1>1 DEF Exclusive
  <1>2. ASSUME NEW q \in Procs, ClosePortVisit(q) PROVE Exclusive'
    <2>1. \A s \in Servers : proc'[s] = "starting" => proc[s] = "starting"
      BY <1>2, SigtermProc DEF ClosePortVisit
    <2> QED BY <1>1, <1>2, <2>1 DEF ClosePortVisit
  <1>3. CASE ClosePortConnect \/ ClosePortReap \/ ClosePortScanned
    BY <1>1, <1>3 DEF ClosePortConnect, ClosePortReap, ClosePortScanned
  <1>4. CASE ClosePortKill
    <2>1. \A s \in Servers : proc'[s] = "starting" => proc[s] = "starting"
      BY <1>4, DieProc DEF ClosePortKill, TypeOK
    <2> QED BY <1>1, <1>4, <2>1 DEF ClosePortKill
  <1>5. CASE ClosePortBind
    BY <1>5 DEF ClosePortBind, Fail, Exclusive
  <1>6. CASE StartProcess
    BY <1>6 DEF StartProcess, Exclusive, TypeOK
  <1>7. CASE ServiceHasStarted
    <2>1. current \in Servers /\ port[current] \in Ports
      BY <1>7 DEF ServiceHasStarted, TypeOK, MethodConsistent
    <2>2. PICK t \in Transport : sock[<<t, port[current]>>] # Free
      BY <1>7 DEF ServiceHasStarted, Holders
    <2>3. PICK r \in Servers : sock[<<t, port[current]>>] = r
      BY <2>1, <2>2 DEF TypeOK, TrustedHost
    <2>4. <<t, port[current]>> \in Needs(r) /\ proc[r] # "starting"
      <3>1. <<t, port[current]>> \in Sockets /\ r \in Procs
        BY <2>1, <2>2 DEF Sockets, Procs
      <3>2. Transports[r] # Transport
        BY <2>3 DEF TrustedHost, Transport
      <3> QED BY <2>3, <3>1, <3>2 DEF OwnersLive
    <2>5. t = "tcp"
      BY <2>4 DEF Needs, TrustedHost
    <2>6. r = current
      BY <1>7, <2>3, <2>5 DEF ServiceHasStarted, Exclusive
    <2> QED BY <1>7, <2>4, <2>6 DEF ServiceHasStarted, Return, Exclusive
  <1>8. CASE ServiceTimeout
    BY <1>8 DEF ServiceTimeout, Fail, Exclusive
  <1>9. CASE ServicePollRaises
    <2>1. current \in Servers /\ result'[current] = "raised"
      BY <1>9 DEF ServicePollRaises, TypeOK
    <2> QED BY <2>1 DEF NoneRaised
  <1>10. CASE KillServerTerminate
    <2>1. current \in Procs
      BY <1>10 DEF KillServerTerminate, TypeOK
    <2>2. \A s \in Servers : proc'[s] # "starting"
      <3>1. CASE proc[current] = "none"
        BY <1>10, <3>1 DEF KillServerTerminate, Exclusive
      <3>2. CASE proc[current] # "none"
        BY <1>10, <2>1, <3>2, SigtermProc DEF KillServerTerminate, Exclusive
      <3> QED BY <3>1, <3>2
    <2> QED BY <1>10, <2>2 DEF KillServerTerminate, Return, Exclusive
  <1>11. CASE KillServerJoin
    BY <1>11 DEF KillServerJoin, Return, Exclusive
  <1> QED BY <1>2, <1>3, <1>4, <1>5, <1>6, <1>7, <1>8, <1>9, <1>10, <1>11
          DEF ParentStep

\* A run that was left by an exception stays so.
LEMMA RaisedStays ==
    ASSUME TypeOK, MethodConsistent, [BaseNext]_baseVars, NoneRaised'
    PROVE  NoneRaised
  <1>1. ASSUME NEW s \in Servers, NEW v \in {"none", "success", "error", "raised"},
               result[s] = "none", result' = [result EXCEPT ![s] = v]
        PROVE  NoneRaised
    BY <1>1 DEF NoneRaised, TypeOK
  <1>2. CASE UNCHANGED result
    BY <1>2 DEF NoneRaised
  <1>3. CASE ParentStep
    <2>1. CASE at \in {"bind", "poll"}
      BY <1>1, <1>2, <1>3, <2>1
         DEF ParentStep, ClosePortConnect, ClosePortVisit, ClosePortReap,
             ClosePortKill, ClosePortScanned, ClosePortBind, StartProcess,
             ServiceHasStarted, ServiceTimeout, ServicePollRaises, Fail,
             KillServerTerminate, KillServerJoin, TypeOK, MethodConsistent
    <2>2. CASE at \notin {"bind", "poll"}
      BY <1>2, <1>3, <2>2
         DEF ParentStep, ClosePortConnect, ClosePortVisit, ClosePortReap,
             ClosePortKill, ClosePortScanned, ClosePortBind, StartProcess,
             ServiceHasStarted, ServiceTimeout, ServicePollRaises,
             KillServerTerminate, KillServerJoin
    <2> QED BY <2>1, <2>2
  <1>4. CASE ScriptCall
    <2>1. \/ UNCHANGED result
          \/ \E s \in Servers : result[s] = "none"
                                /\ result' = [result EXCEPT ![s] = "error"]
      BY <1>4 DEF ScriptCall, Construct, RunServer, GetFreePort, KillServer, parentVars
    <2> QED BY <1>1, <1>2, <2>1
  <1>5. CASE Environment
    BY <1>2, <1>5 DEF Environment, ChildBind, ChildBindFails, Crash, Exit, ForeignBind,
                      parentVars
  <1> QED BY <1>2, <1>3, <1>4, <1>5 DEF BaseNext, baseVars, parentVars

\* The invariant of a trusted host: as long as nothing was raised, the child whose
\* start is awaited is the only one that may still bind, and its port is its own.
THEOREM StartsExclusive == BaseSpec => []StartExclusive
  <1> DEFINE Inv == TrustedHost /\ NoneRaised => Exclusive
  <1>1. StartExclusive <=> Inv
    BY DEF StartExclusive, NoneRaised, Exclusive
  <1>2. BaseInit => Inv
    BY DEF BaseInit, Exclusive
  <1>3. TypeOK /\ MethodConsistent /\ OwnersLive /\ Inv /\ [BaseNext]_baseVars => Inv'
    <2> SUFFICES ASSUME TypeOK, MethodConsistent, OwnersLive, Inv, [BaseNext]_baseVars,
                        TrustedHost, NoneRaised'
                 PROVE  Exclusive'
      BY DEF TrustedHost
    <2>1. Exclusive
      BY RaisedStays
    <2>2. CASE UNCHANGED baseVars
      BY <2>1, <2>2 DEF Exclusive, baseVars, parentVars
    <2> QED BY <2>1, <2>2, ExclusiveEnvironment, ExclusiveScriptCall,
               ExclusiveParentStep DEF BaseNext
  <1>4. TypeOK /\ SocketsOwned => OwnersLive
    BY SocketsOwnedParts
  <1> QED BY <1>1, <1>2, <1>3, <1>4, TypeCorrect, MethodAlwaysConsistent,
             SocketsAlwaysOwned, PTL DEF BaseSpec

\* The step of SuccessMeansBound, for one server.
Succeeds(s) ==
    /\ \A r \in Servers : result[r] # "raised"
    /\ result[s] = "none" /\ result'[s] = "success"

\* Only the poll of service_has_started reports success.
LEMMA SuccessIsPolled ==
    ASSUME TypeOK, BaseNext, NEW s \in Servers, Succeeds(s)
    PROVE  ServiceHasStarted /\ current = s
  <1> USE DEF Succeeds
  <1>1. result' # result
    OBVIOUS
  <1>2. ASSUME NEW r \in Servers, NEW v \in {"error", "raised"},
               result' = [result EXCEPT ![r] = v]
        PROVE  FALSE
    BY <1>2 DEF TypeOK
  <1>3. CASE ServiceHasStarted
    BY <1>3 DEF ServiceHasStarted, TypeOK
  <1>4. CASE Environment
    BY <1>1, <1>4 DEF Environment, ChildBind, ChildBindFails, Crash, Exit,
                      ForeignBind, parentVars
  <1>5. CASE ScriptCall
    <2>1. \/ UNCHANGED result
          \/ \E r \in Servers : result' = [result EXCEPT ![r] = "error"]
      BY <1>5 DEF ScriptCall, Construct, RunServer, GetFreePort, KillServer, parentVars
    <2> QED BY <1>1, <1>2, <2>1
  <1>6. CASE ParentStep /\ ~ServiceHasStarted
    <2>1. \/ UNCHANGED result
          \/ at # "idle" /\ \E v \in {"error", "raised"} :
                                result' = [result EXCEPT ![current] = v]
      BY <1>6 DEF ParentStep, ClosePortConnect, ClosePortVisit, ClosePortReap,
                  ClosePortKill, ClosePortScanned, ClosePortBind, StartProcess,
                  ServiceTimeout, ServicePollRaises, Fail, KillServerTerminate,
                  KillServerJoin
    <2> QED BY <1>1, <1>2, <2>1 DEF TypeOK
  <1> QED BY <1>3, <1>4, <1>5, <1>6 DEF BaseNext

LEMMA SuccessStep ==
    ASSUME TrustedHost, TypeOK, MethodConsistent, OwnersLive, StartExclusive,
           BaseNext, NEW s \in Servers, Succeeds(s)
    PROVE  s \in Holders(port[s])
  <1>1. ServiceHasStarted /\ current = s
    BY SuccessIsPolled
  <1>2. port[s] \in Ports
    BY <1>1, ServersAssumption DEF TypeOK, MethodConsistent
  <1>3. PICK t \in Transport : sock[<<t, port[s]>>] # Free
    BY <1>1 DEF ServiceHasStarted, Holders
  <1>4. PICK r \in Servers : sock[<<t, port[s]>>] = r
    BY <1>2, <1>3 DEF TypeOK, TrustedHost
  <1>5. t = "tcp"
    BY <1>2, <1>4 DEF OwnersLive, Needs, TrustedHost
  <1>6. r = s
    BY <1>1, <1>3, <1>4, <1>5 DEF ServiceHasStarted, StartExclusive, Succeeds
  <1> QED BY <1>4, <1>6, ServersAssumption DEF Holders

\* On a trusted host run_server reports success only for a child that owns its
\* port, as long as no earlier run was left by an exception.
THEOREM SuccessAlwaysMeansBound == TrustedHost => (BaseSpec => SuccessMeansBound)
  <1> SUFFICES ASSUME TrustedHost PROVE BaseSpec => SuccessMeansBound
    OBVIOUS
  <1>1. TypeOK /\ SocketsOwned => OwnersLive
    BY SocketsOwnedParts
  <1>2. TypeOK /\ MethodConsistent /\ OwnersLive /\ StartExclusive /\ [BaseNext]_baseVars
          => [\A s \in Servers : Succeeds(s) => s \in Holders(port[s])]_baseVars
    BY SuccessStep
  <1>3. BaseSpec => [][\A s \in Servers : Succeeds(s) => s \in Holders(port[s])]_baseVars
    BY <1>1, <1>2, TypeCorrect, MethodAlwaysConsistent, SocketsAlwaysOwned,
       StartsExclusive, PTL DEF BaseSpec
  <1> QED BY <1>3 DEF SuccessMeansBound, Succeeds

-------------------------------------------------------------------------------
(* The manager's own state *)

\* ManagerTypeOK without the servers, and where `next' is while an entry is run.
OwnTypeOK ==
    /\ args \in CommandLines
    /\ pc \in Starting \union Gone \union
             {"sniffer", "raise", "report", "await", "fence", "stats", "stop", "stopping",
              "atexit", "joining"}
    /\ next \in 1 .. Len(Setup) + 1
    /\ pc \in {"run", "running"} => next \in DOMAIN Setup
    /\ argPort \in Ports \union {NoPort}
    /\ honeypots \in Seq(Servers \union {Sniffer})
    /\ pending \in Seq(Servers \union {Sniffer})
    /\ fence \in {"none", "up", "down"}
    /\ ending \in {"none", "stop", "empty", "uncaught", "interrupt"}
    /\ sniffer \in {"none", "alive", "dead"}
    /\ sniffs \in BOOLEAN
    /\ unkilled \subseteq Servers \union {Sniffer}

\* What is known of a command line.
LEMMA CommandLineFacts ==
    ASSUME args \in CommandLines
    PROVE  /\ Setup \in Seq(Entry)
           /\ Len(Setup) \in Nat /\ DOMAIN Setup = 1 .. Len(Setup)
           /\ DOMAIN Setup \subseteq Servers
           /\ args.port \in Ports \union {NoPort}
           /\ args.auto \in BOOLEAN
           /\ \A i \in DOMAIN Setup : Setup[i].port \in Ports \union {NoPort}
  <1>1. IsCommandLine(args)
    BY CommandLinesAssumption
  <1>2. Setup \in Seq(Entry) /\ DOMAIN Setup \subseteq Servers
    BY <1>1 DEF IsCommandLine, Setup
  <1>3. Len(Setup) \in Nat /\ DOMAIN Setup = 1 .. Len(Setup)
    BY <1>2
  <1>4. args.port \in Ports \union {NoPort} /\ args.auto \in BOOLEAN
    BY <1>1 DEF IsCommandLine
  <1>5. \A i \in DOMAIN Setup : Setup[i].port \in Ports \union {NoPort}
    <2> TAKE i \in DOMAIN Setup
    <2>1. Setup[i] \in Entry
      BY <1>2
    <2> QED BY <2>1 DEF Entry
  <1> QED BY <1>2, <1>3, <1>4, <1>5

LEMMA OwnInit == Init => OwnTypeOK
  <1> SUFFICES ASSUME Init PROVE OwnTypeOK
    OBVIOUS
  <1>1. <<>> \in Seq(Servers \union {Sniffer})
    OBVIOUS
  <1>2. pc \in {"sniffer", "loop"} /\ next = 1 /\ 1 \in 1 .. Len(Setup) + 1
    BY CommandLineFacts DEF Init
  <1> QED BY <1>1, <1>2, CommandLineFacts DEF Init, OwnTypeOK, Starting

LEMMA OwnStep == OwnTypeOK /\ [Next]_vars => OwnTypeOK'
  <1> SUFFICES ASSUME OwnTypeOK, [Next]_vars PROVE OwnTypeOK'
    OBVIOUS
  <1> USE DEF OwnTypeOK, Starting, Gone
  <1>0. UNCHANGED args /\ UNCHANGED Setup
    BY DEF Next, vars, Setup
  <1>1. CASE NextEntry
    <2>1. next \in DOMAIN Setup
      BY <1>1, CommandLineFacts DEF NextEntry
    <2>2. PortArgument(Setup[next]) \in Ports \union {NoPort}
      BY <2>1, CommandLineFacts DEF PortArgument
    <2>3. argPort' \in Ports \union {NoPort}
      BY <1>1, <2>2 DEF NextEntry
    <2>4. next' = next \/ next' = next + 1
      BY <1>1 DEF NextEntry
    <2>5. pc' \in {"loop", "run", "raise"}
      BY <1>1 DEF NextEntry
    <2>6. next' \in 1 .. Len(Setup) + 1
      BY <2>1, <2>4, CommandLineFacts
    <2>7. pc' = "run" => next' = next
      BY <1>1 DEF NextEntry
    <2>8. UNCHANGED <<honeypots, pending, fence, ending, sniffer, sniffs, unkilled>>
      BY <1>1 DEF NextEntry, otherVars
    <2> QED BY <1>0, <2>1, <2>3, <2>5, <2>6, <2>7, <2>8
  <1>2. CASE Run \/ Test \/ TestRaises
    BY <1>0, <1>2 DEF Run, Test, TestRaises, otherVars
  <1>3. CASE InMethod
    BY <1>0, <1>3 DEF InMethod, mainVars, otherVars
  <1>4. CASE Started
    BY <1>0, <1>4, CommandLineFacts DEF Started, otherVars
  <1>5. CASE StartRaised \/ StartAborted \/ StartFinished \/ ChameleonStarted
    BY <1>0, <1>5 DEF StartRaised, StartAborted, StartFinished, ChameleonStarted, otherVars
  <1>6. CASE Report
    BY <1>0, <1>6 DEF Report, otherVars
  <1>7. CASE BuildFence \/ FenceIsDown
    BY <1>0, <1>7 DEF BuildFence, FenceIsDown, otherVars
  <1>8. CASE StopNext \/ StopSniffer \/ StopFails
    <2>1. pending # <<>> /\ pending' = Tail(pending)
      BY <1>8 DEF StopNext, StopSniffer, StopFails
    <2>2. Tail(pending) \in Seq(Servers \union {Sniffer}) /\ Head(pending) \in Servers \union {Sniffer}
      BY <2>1
    <2>4. unkilled' \in {unkilled, unkilled \union {Head(pending)}}
      BY <1>8 DEF StopNext, StopSniffer, StopFails, otherVars
    <2>3. UNCHANGED <<next, argPort, honeypots, fence, ending, sniffs>>
          /\ pc' \in {"stop", "stopping"} /\ sniffer' \in {sniffer, "dead"}
      BY <1>8 DEF StopNext, StopSniffer, StopFails, otherVars
    <2> QED BY <1>0, <2>1, <2>2, <2>3, <2>4
  <1>9. CASE Stopped \/ AllStopped \/ ExitHandler \/ ChildrenJoined
    BY <1>0, <1>9 DEF Stopped, AllStopped, ExitHandler, ChildrenJoined, otherVars
  <1>10. CASE User
    BY <1>0, <1>10 DEF User, Enter, Interrupt, Terminate, otherVars
  <1>11. CASE ChameleonSniffs \/ SnifferRefused \/ StartSniffer \/ SnifferEnds
    <2>1. CASE StartSniffer
      <3>1. Append(honeypots, Sniffer) \in Seq(Servers \union {Sniffer})
        OBVIOUS
      <3>2. sniffer' \in {"alive", "dead"} /\ sniffs' \in BOOLEAN
        BY <2>1 DEF StartSniffer
      <3> QED BY <1>0, <2>1, <3>1, <3>2 DEF StartSniffer
    <2> QED BY <1>0, <1>11, <2>1 DEF ChameleonSniffs, SnifferRefused, SnifferEnds, otherVars
  <1>12. CASE UNCHANGED mainVars
    BY <1>0, <1>12 DEF mainVars, otherVars
  <1> QED BY <1>1, <1>2, <1>3, <1>4, <1>5, <1>6, <1>7, <1>8, <1>9, <1>10, <1>11, <1>12
          DEF Next, Main, vars

-------------------------------------------------------------------------------
(* The manager is a script in the sense of BaseServer *)

LEMMA ManagerStep == OwnTypeOK /\ [Next]_vars => [BaseNext]_baseVars
  <1> SUFFICES ASSUME OwnTypeOK, [Next]_vars PROVE [BaseNext]_baseVars
    OBVIOUS
  <1>1. CASE NextEntry
    <2>1. next \in DOMAIN Setup /\ next \in Servers
      BY <1>1, CommandLineFacts DEF NextEntry, OwnTypeOK
    <2>2. PortArgument(Setup[next]) \in Ports \union {NoPort}
      BY <2>1, CommandLineFacts DEF PortArgument, OwnTypeOK
    <2>3. Construct(next, PortArgument(Setup[next])) \/ UNCHANGED baseVars
      BY <1>1 DEF NextEntry
    <2> QED BY <2>1, <2>2, <2>3 DEF BaseNext, ScriptCall
  <1>2. CASE Run
    <2>1. next \in Servers /\ Random \in BOOLEAN
      BY <1>2, CommandLineFacts DEF Run, Random, OwnTypeOK
    <2>2. RunServer(next, Random)
      BY <1>2 DEF Run
    <2>3. \E auto \in BOOLEAN : RunServer(next, auto)
      BY <2>1, <2>2, Zenon
    <2> QED BY <2>1, <2>3 DEF BaseNext, ScriptCall
  <1>3. CASE InMethod
    BY <1>3 DEF InMethod, BaseNext
  <1>4. CASE StopNext
    <2>1. Head(pending) \in Servers \union {Sniffer} /\ Head(pending) # Sniffer
      BY <1>4 DEF StopNext, OwnTypeOK
    <2> QED BY <1>4, <2>1 DEF StopNext, BaseNext, ScriptCall
  <1>5. CASE Environment
    BY <1>5 DEF BaseNext
  <1>6. CASE Test
    <2>1. next \in Servers
      BY <1>6, CommandLineFacts DEF Test, OwnTypeOK
    <2> QED BY <1>6, <2>1 DEF Test, BaseNext, ScriptCall
  <1>7. CASE UNCHANGED baseVars
    BY <1>7
  <1> QED BY <1>1, <1>2, <1>3, <1>4, <1>5, <1>6, <1>7
          DEF Next, Main, User, vars, Started, StartRaised, StartAborted, StartFinished, Report,
              TestRaises, ChameleonStarted, ChameleonSniffs, SnifferRefused, StartSniffer,
              SnifferEnds, StopSniffer, StopFails,
              BuildFence, FenceIsDown, Stopped, AllStopped, ExitHandler, ChildrenJoined,
              Enter, Interrupt, Terminate

LEMMA OwnTypeCorrect == Spec => []OwnTypeOK
  BY OwnInit, OwnStep, PTL DEF Spec

\* Every behaviour of the manager is a behaviour of BaseServer: whatever is proved of
\* servers there holds of the honeypots of any command line (__main__.py:231-279).
THEOREM ManagerIsAScript == Spec => BaseSpec
  <1>1. Init => BaseInit
    BY DEF Init
  <1> QED BY <1>1, OwnTypeCorrect, ManagerStep, PTL DEF Spec, BaseSpec

\* The manager's state and that of its servers are well-typed.
THEOREM ManagerTypeCorrect == Spec => []ManagerTypeOK
  <1>1. TypeOK /\ OwnTypeOK => ManagerTypeOK
    BY DEF OwnTypeOK, ManagerTypeOK
  <1> QED BY <1>1, OwnTypeCorrect, ManagerIsAScript, TypeCorrect, PTL

-------------------------------------------------------------------------------
(* What has been started, and what has still to be stopped *)

LEMMA RangeAppend ==
    ASSUME NEW S, NEW q \in Seq(S), NEW e \in S
    PROVE  Range(Append(q, e)) = Range(q) \union {e}
  <1>1. DOMAIN q = 1 .. Len(q) /\ DOMAIN Append(q, e) = 1 .. Len(q) + 1 /\ Len(q) \in Nat
    OBVIOUS
  <1>2. Append(q, e)[Len(q) + 1] = e /\ \A i \in 1 .. Len(q) : Append(q, e)[i] = q[i]
    OBVIOUS
  <1>3. Range(q) \union {e} \subseteq Range(Append(q, e))
    BY <1>1, <1>2 DEF Range
  <1>4. Range(Append(q, e)) \subseteq Range(q) \union {e}
    BY <1>1, <1>2 DEF Range
  <1> QED BY <1>3, <1>4

LEMMA RangeTail ==
    ASSUME NEW S, NEW q \in Seq(S), q # <<>>
    PROVE  Range(q) \subseteq {Head(q)} \union Range(Tail(q))
  <1>1. DOMAIN q = 1 .. Len(q) /\ DOMAIN Tail(q) = 1 .. Len(q) - 1 /\ Len(q) \in Nat
    OBVIOUS
  <1>2. Head(q) = q[1] /\ \A i \in 1 .. Len(q) - 1 : Tail(q)[i] = q[i + 1]
    OBVIOUS
  <1> SUFFICES ASSUME NEW i \in DOMAIN q PROVE q[i] \in {Head(q)} \union Range(Tail(q))
    BY DEF Range
  <1>3. i = 1 \/ (i - 1 \in 1 .. Len(q) - 1 /\ Tail(q)[i - 1] = q[i])
    BY <1>1, <1>2
  <1> QED BY <1>1, <1>2, <1>3 DEF Range

\* A child that serves or may come up, and whose start did not end by an exception.
Awake(s) == proc[s] \in {"starting", "serving"} /\ result[s] # "raised"

\* Which method of which server the manager is in.
InCall ==
    /\ pc \notin {"running", "stopping", "killed"} => at = "idle"
    /\ pc = "running" => at = "idle" \/ current = next
    /\ pc = "stopping" => at \in {"idle", "cleanup", "join"}

\* A child that is awake is one of the honeypots, or the one being started (SIGTERM
\* may end the manager in the middle of a start).
AwakeKnown == pc # "killed" =>
    \A s \in Servers : Awake(s) => s \in Range(honeypots) \/ (pc = "running" /\ s = next)

\* While the manager stops its servers, a child that is awake is still pending or could not
\* be killed.
AwakePending ==
    /\ pc \in {"stop", "stopping"} \/ ending = "stop" =>
          \A s \in Servers : Awake(s) =>
              s \in Range(pending) \union unkilled \/ (pc = "stopping" /\ at = "cleanup" /\ current = s)
    /\ ending = "stop" => pending = <<>> /\ pc \in Gone \union {"atexit", "joining"}

\* The same of the sniffer.
SnifferPending ==
    /\ sniffer = "alive" => Sniffer \in Range(honeypots)
    /\ (pc \in {"stop", "stopping"} \/ ending = "stop") /\ sniffer = "alive" =>
          Sniffer \in Range(pending) \union unkilled

StopInv == InCall /\ AwakeKnown /\ AwakePending

\* What a step of the host, and one of a method of the server `current', does to
\* the children.
LEMMA AwakeEnvironment ==
    ASSUME TypeOK, Environment
    PROVE  /\ UNCHANGED <<at, current, result>>
           /\ \A s \in Servers : Awake(s)' => Awake(s)
  <1> USE ServersAssumption DEF Procs, Live
  <1>1. UNCHANGED <<at, current, result>>
    BY DEF Environment, ChildBind, ChildBindFails, Crash, Exit, ForeignBind, parentVars
  <1>2. ASSUME NEW q \in Procs, Die(q) PROVE \A s \in Servers : Awake(s)' => Awake(s)
    BY <1>1, <1>2, DieProc DEF Awake
  <1>3. ASSUME NEW r \in Servers, ChildBind(r)
        PROVE  \A s \in Servers : Awake(s)' => Awake(s)
    BY <1>1, <1>3 DEF ChildBind, Awake, TypeOK
  <1>4. ASSUME NEW f \in Foreign, NEW x \in Sockets, ForeignBind(f, x)
        PROVE  \A s \in Servers : Awake(s)' => Awake(s)
    BY <1>1, <1>4 DEF ForeignBind, Awake, TypeOK
  <1> QED BY <1>1, <1>2, <1>3, <1>4 DEF Environment, ChildBindFails, Crash, Exit

LEMMA AwakeParentStep ==
    ASSUME TypeOK, ParentStep
    PROVE  /\ at # "idle"
           /\ UNCHANGED current \/ at' = "idle"
           /\ \A s \in Servers \ {current} : Awake(s)' => Awake(s)
           /\ at = "cleanup" => at' \in {"idle", "join"} /\ \A s \in Servers : Awake(s)' => Awake(s) /\ s # current
           /\ at = "join" => at' = "idle" /\ \A s \in Servers : Awake(s)' => Awake(s)
  <1> USE ServersAssumption DEF Procs, Live
  <1>1. ASSUME NEW q \in Procs, ClosePortVisit(q)
        PROVE  /\ at = "scan" /\ UNCHANGED <<current, result>>
               /\ \A s \in Servers : Awake(s)' => Awake(s)
    BY <1>1, SigtermProc DEF ClosePortVisit, Awake
  <1>2. CASE ClosePortKill
    <2>1. victim \in Procs /\ Die(victim)
      BY <1>2 DEF ClosePortKill, TypeOK
    <2> QED BY <1>2, <2>1, DieProc DEF ClosePortKill, Awake
  <1>3. CASE KillServerTerminate
    <2>1. at = "cleanup" /\ at' \in {"idle", "join"} /\ UNCHANGED result
          /\ (UNCHANGED current \/ at' = "idle") /\ current \in Servers
      BY <1>3 DEF KillServerTerminate, Return, TypeOK
    <2>2. CASE proc[current] = "none"
      BY <1>3, <2>1, <2>2 DEF KillServerTerminate, Awake
    <2>3. CASE proc[current] # "none"
      <3>1. Sigterm(current)
        BY <1>3, <2>3 DEF KillServerTerminate
      <3>2. proc'[current] \notin {"starting", "serving"}
        BY <2>1, <3>1, SigtermProc
      <3> QED BY <2>1, <3>1, <3>2, SigtermProc DEF Awake
    <2> QED BY <2>2, <2>3
  <1>4. CASE StartProcess
    BY <1>4 DEF StartProcess, Awake, TypeOK
  <1>5. CASE ServiceHasStarted \/ ServiceTimeout \/ ServicePollRaises \/ ClosePortBind
    BY <1>5 DEF ServiceHasStarted, ServiceTimeout, ServicePollRaises, ClosePortBind, Fail,
                Return, Awake, TypeOK
  <1>6. CASE ClosePortConnect \/ ClosePortReap \/ ClosePortScanned \/ KillServerJoin
    BY <1>6 DEF ClosePortConnect, ClosePortReap, ClosePortScanned, KillServerJoin, Return,
                Awake
  <1> QED BY <1>1, <1>2, <1>3, <1>4, <1>5, <1>6 DEF ParentStep

LEMMA StopInit == Init => StopInv
  BY DEF Init, BaseInit, StopInv, InCall, AwakeKnown, AwakePending, Awake, Procs

LEMMA StopStep ==
    ASSUME TypeOK, OwnTypeOK, StopInv, [Next]_vars
    PROVE  StopInv'
  <1> USE ServersAssumption DEF StopInv, Gone
  <1>1. CASE NextEntry
    <2>1. pc = "loop" /\ pc' \in {"loop", "run", "raise"} /\ at' = "idle"
          /\ UNCHANGED <<proc, result, honeypots, pending, ending, unkilled>>
      BY <1>1 DEF NextEntry, Construct, baseVars, parentVars, InCall, otherVars
    <2> QED BY <2>1 DEF InCall, AwakeKnown, AwakePending, Awake
  <1>2. CASE Run
    <2>1. pc = "run" /\ pc' = "running" /\ current' = next'
          /\ UNCHANGED <<proc, next, honeypots, pending, ending, unkilled>>
      BY <1>2 DEF Run, RunServer, otherVars
    <2>2. \A s \in Servers : Awake(s)' => Awake(s) \/ s = next
      BY <1>2 DEF Run, RunServer, GetFreePort, Awake, TypeOK
    <2> QED BY <2>1, <2>2 DEF InCall, AwakeKnown, AwakePending
  <1>3. CASE InMethod /\ pc = "running"
    <2>1. UNCHANGED <<pc, next, honeypots, pending, ending, unkilled>> /\ ParentStep
      BY <1>3 DEF InMethod, mainVars, otherVars
    <2>2. current = next
      BY <1>3, <2>1, AwakeParentStep DEF InCall
    <2> QED BY <1>3, <2>1, <2>2, AwakeParentStep DEF InCall, AwakeKnown, AwakePending
  <1>4. CASE InMethod /\ pc = "stopping"
    <2>1. UNCHANGED <<pc, next, honeypots, pending, ending, unkilled>> /\ ParentStep
      BY <1>4 DEF InMethod, mainVars, otherVars
    <2>2. at \in {"cleanup", "join"} /\ at' \in {"idle", "join"}
      BY <1>4, <2>1, AwakeParentStep DEF InCall
    <2>3. \A s \in Servers : Awake(s)' => Awake(s) /\ (at = "cleanup" => s # current)
      BY <2>1, <2>2, AwakeParentStep
    <2> QED BY <1>4, <2>1, <2>2, <2>3 DEF InCall, AwakeKnown, AwakePending
  <1>5. CASE Started
    <2>1. next \in Servers
      BY <1>5, CommandLineFacts DEF Started, OwnTypeOK
    <2>2. Range(honeypots') = Range(honeypots) \union {next}
      BY <1>5, <2>1, RangeAppend DEF Started, OwnTypeOK
    <2> QED BY <1>5, <2>2 DEF Started, InCall, AwakeKnown, AwakePending, Awake, otherVars, baseVars,
                              parentVars
  <1>6. CASE StartRaised
    BY <1>6 DEF StartRaised, InCall, AwakeKnown, AwakePending, Awake, otherVars, baseVars, parentVars
  <1>7. CASE StartAborted \/ StartFinished \/ BuildFence \/ ChameleonSniffs \/ SnifferRefused
    BY <1>7 DEF StartAborted, StartFinished, BuildFence, ChameleonSniffs, SnifferRefused, InCall,
                AwakeKnown, AwakePending, Awake, otherVars, baseVars, parentVars
  <1>8. CASE Report \/ FenceIsDown \/ Enter \/ ChameleonStarted
    <2>1. /\ pc' \in {"atexit", "await", "stats", "stop"} /\ (pc' = "stop" => pending' = honeypots)
          /\ UNCHANGED <<proc, result, at, current, honeypots, unkilled>>
      BY <1>8 DEF Report, FenceIsDown, Enter, ChameleonStarted, otherVars, baseVars, parentVars
    <2>2. ending' # "stop" /\ pc \notin {"running", "stop", "stopping", "killed"}
      BY <1>8 DEF Report, FenceIsDown, Enter, ChameleonStarted, AwakePending
    <2> QED BY <2>1, <2>2 DEF InCall, AwakeKnown, AwakePending, Awake
  <1>9. CASE StopNext
    <2>1. pc = "stop" /\ pc' = "stopping" /\ at' = "cleanup" /\ current' = Head(pending)
          /\ UNCHANGED <<proc, result, honeypots, ending, unkilled>>
          /\ pending # <<>> /\ pending' = Tail(pending)
      BY <1>9 DEF StopNext, KillServer, otherVars
    <2>2. Range(pending) \subseteq {current'} \union Range(pending')
      BY <2>1, RangeTail DEF OwnTypeOK
    <2> QED BY <2>1, <2>2 DEF InCall, AwakeKnown, AwakePending, Awake
  <1>10. CASE Stopped \/ TestRaises
    BY <1>10 DEF Stopped, TestRaises, InCall, AwakeKnown, AwakePending, Awake, otherVars, baseVars, parentVars
  <1>11. CASE AllStopped
    <2>1. Range(<<>>) = {}
      BY DEF Range
    <2> QED BY <1>11, <2>1 DEF AllStopped, InCall, AwakeKnown, AwakePending, Awake,
                               otherVars, baseVars, parentVars
  <1>12. CASE ExitHandler \/ ChildrenJoined \/ Interrupt \/ Terminate
    BY <1>12 DEF ExitHandler, ChildrenJoined, Interrupt, Terminate, InCall, AwakeKnown,
                 AwakePending, Awake, otherVars, baseVars, parentVars
  <1>13. CASE Environment /\ UNCHANGED mainVars
    BY <1>13, AwakeEnvironment DEF mainVars, otherVars, InCall, AwakeKnown, AwakePending
  <1>14. CASE UNCHANGED vars \/ SnifferEnds
    BY <1>14 DEF vars, mainVars, otherVars, baseVars, parentVars, SnifferEnds, InCall, AwakeKnown,
                 AwakePending, Awake, otherVars
  <1>15. CASE Test
    <2>1. pc = "run" /\ pc' = "running" /\ current' = next'
          /\ UNCHANGED <<proc, result, next, honeypots, pending, ending, unkilled>>
      BY <1>15 DEF Test, KillServer, otherVars
    <2> QED BY <2>1 DEF InCall, AwakeKnown, AwakePending, Awake
  <1>16. CASE StartSniffer
    <2>1. pc = "sniffer" /\ pc' \in {"loop", "stats", "stop"} /\ (pc' = "stop" => pending' = honeypots')
          /\ honeypots' = Append(honeypots, Sniffer)
          /\ UNCHANGED <<proc, result, at, current, ending, unkilled>>
          /\ (pc' # "stop" => UNCHANGED pending)
      BY <1>16 DEF StartSniffer, baseVars, parentVars
    <2>2. Range(honeypots') = Range(honeypots) \union {Sniffer}
      BY <2>1, RangeAppend DEF OwnTypeOK
    <2> QED BY <2>1, <2>2 DEF InCall, AwakeKnown, AwakePending, Awake
  <1>17. CASE StopSniffer
    <2>1. pc = "stop" /\ pending # <<>> /\ Head(pending) = Sniffer /\ pending' = Tail(pending)
          /\ UNCHANGED <<pc, proc, result, at, current, honeypots, ending, unkilled>>
      BY <1>17 DEF StopSniffer, baseVars, parentVars
    <2>2. Range(pending) \subseteq {Sniffer} \union Range(pending')
      BY <2>1, RangeTail DEF OwnTypeOK
    <2> QED BY <2>1, <2>2, SnifferAssumption DEF InCall, AwakeKnown, AwakePending, Awake
  <1>18. CASE StopFails
    <2>1. pc = "stop" /\ pending # <<>> /\ pending' = Tail(pending)
          /\ unkilled' = unkilled \union {Head(pending)}
          /\ UNCHANGED <<pc, proc, result, at, current, honeypots, ending>>
      BY <1>18 DEF StopFails, baseVars, parentVars
    <2>2. Range(pending) \subseteq {Head(pending)} \union Range(pending')
      BY <2>1, RangeTail DEF OwnTypeOK
    <2> QED BY <2>1, <2>2 DEF InCall, AwakeKnown, AwakePending, Awake
  <1> QED BY <1>1, <1>2, <1>3, <1>4, <1>5, <1>6, <1>7, <1>8, <1>9, <1>10, <1>11, <1>12,
             <1>13, <1>14, <1>15, <1>16, <1>17, <1>18 DEF Next, Main, User, InMethod

\* The steps that touch the sniffer, its place in the lists, or the point from which it
\* has to be among those still to be stopped.
LEMMA SnifferStep ==
    ASSUME OwnTypeOK, AwakePending, SnifferPending, [Next]_vars
    PROVE  SnifferPending'
  <1> USE DEF SnifferPending, Gone
  <1>1. CASE Started
    <2>1. next \in Servers
      BY <1>1, CommandLineFacts DEF Started, OwnTypeOK
    <2>2. Range(honeypots') = Range(honeypots) \union {next}
      BY <1>1, <2>1, RangeAppend DEF Started, OwnTypeOK
    <2> QED BY <1>1, <2>2 DEF Started, otherVars, AwakePending
  <1>2. CASE StartSniffer
    <2>1. Range(honeypots') = Range(honeypots) \union {Sniffer}
      BY <1>2, RangeAppend DEF StartSniffer, OwnTypeOK
    <2> QED BY <1>2, <2>1 DEF StartSniffer, AwakePending
  <1>3. CASE Report \/ FenceIsDown \/ Enter \/ ChameleonStarted
    BY <1>3 DEF Report, FenceIsDown, Enter, ChameleonStarted, otherVars, AwakePending
  <1>4. CASE StopNext \/ StopFails
    <2>1. Range(pending) \subseteq {Head(pending)} \union Range(pending')
      BY <1>4, RangeTail DEF StopNext, StopFails, OwnTypeOK
    <2> QED BY <1>4, <2>1 DEF StopNext, StopFails, otherVars
  <1>5. CASE AllStopped
    <2>1. Range(<<>>) = {}
      BY DEF Range
    <2> QED BY <1>5, <2>1 DEF AllStopped, otherVars
  <1>6. CASE StopSniffer \/ SnifferEnds \/ SnifferRefused \/ ChameleonSniffs
    BY <1>6 DEF StopSniffer, SnifferEnds, SnifferRefused, ChameleonSniffs, otherVars
  <1>7. CASE NextEntry \/ Run \/ Test \/ TestRaises \/ StartRaised \/ StartAborted
             \/ StartFinished \/ BuildFence
    BY <1>7 DEF NextEntry, Run, Test, TestRaises, StartRaised, StartAborted, StartFinished,
                BuildFence, otherVars
  <1>8. CASE Stopped \/ ExitHandler \/ ChildrenJoined \/ Interrupt \/ Terminate
    BY <1>8 DEF Stopped, ExitHandler, ChildrenJoined, Interrupt, Terminate, otherVars, AwakePending
  <1>9. CASE UNCHANGED mainVars
    BY <1>9 DEF mainVars, otherVars
  <1> QED BY <1>1, <1>2, <1>3, <1>4, <1>5, <1>6, <1>7, <1>8, <1>9
          DEF Next, Main, User, InMethod, vars

\* Whatever the command line and whatever the host does, _stop_servers reaches every
\* honeypot whose start was not left by an exception, and the sniffer (__main__.py:273-284).
THEOREM StopAlwaysReachesAll == Spec => []StopReachesAll
  <1>1. Spec => []TypeOK
    BY ManagerIsAScript, TypeCorrect, PTL
  <1>2. Spec => []StopInv
    BY <1>1, StopInit, StopStep, OwnTypeCorrect, PTL DEF Spec
  <1>3. Init => SnifferPending
    BY DEF Init, SnifferPending
  <1>4. StopInv => AwakePending
    BY DEF StopInv
  <1>5. Spec => []SnifferPending
    BY <1>2, <1>3, <1>4, SnifferStep, OwnTypeCorrect, PTL DEF Spec
  <1>6. StopInv /\ SnifferPending => StopReachesAll
    <2>1. Range(<<>>) = {}
      BY DEF Range
    <2> QED BY <2>1 DEF StopInv, AwakePending, SnifferPending, StopReachesAll, Awake, Gone
  <1> QED BY <1>2, <1>5, <1>6, PTL

-------------------------------------------------------------------------------
(* What a method does to results and ports *)

LEMMA ResultParentStep ==
    ASSUME TypeOK, ParentStep
    PROVE  /\ at # "idle" /\ current \in Servers
           /\ UNCHANGED port
           /\ UNCHANGED current \/ at' = "idle"
           /\ \A s \in Servers \ {current} : result'[s] = result[s]
           /\ at \in {"cleanup", "join"} => UNCHANGED result /\ at' \in {"join", "idle"}
           /\ at \notin {"cleanup", "join"} /\ at' \in {"cleanup", "join"} => result'[current] = "error"
           /\ at \notin {"cleanup", "join"} /\ at' = "idle" =>
                 result'[current] \in {"success", "raised"}
  <1> USE DEF TypeOK
  <1>1. CASE ClosePortConnect \/ ClosePortReap \/ ClosePortKill \/ ClosePortScanned \/ StartProcess
    BY <1>1 DEF ClosePortConnect, ClosePortReap, ClosePortKill, ClosePortScanned, StartProcess
  <1>2. ASSUME NEW q \in Procs, ClosePortVisit(q)
        PROVE  at = "scan" /\ at' \in {"scan", "reap"} /\ UNCHANGED <<port, result, current>>
    BY <1>2 DEF ClosePortVisit
  <1>3. CASE ClosePortBind \/ ServiceHasStarted \/ ServiceTimeout \/ ServicePollRaises
    BY <1>3 DEF ClosePortBind, ServiceHasStarted, ServiceTimeout, ServicePollRaises, Fail, Return
  <1>4. CASE KillServerTerminate \/ KillServerJoin
    BY <1>4 DEF KillServerTerminate, KillServerJoin, Return
  <1> QED BY <1>1, <1>2, <1>3, <1>4 DEF ParentStep

\* Only the poll for the service ends in success.
LEMMA SuccessInPoll ==
    ASSUME TypeOK, MethodConsistent, ParentStep, result'[current] = "success", at \notin {"cleanup", "join"}
    PROVE  at = "poll"
  <1>1. result[current] = "none" /\ current \in Servers
    BY ResultParentStep DEF TypeOK, Phases, MethodConsistent
  <1>2. CASE ClosePortConnect \/ ClosePortReap \/ ClosePortKill \/ ClosePortScanned \/ StartProcess
    BY <1>1, <1>2 DEF ClosePortConnect, ClosePortReap, ClosePortKill, ClosePortScanned, StartProcess
  <1>3. ASSUME NEW q \in Procs, ClosePortVisit(q) PROVE UNCHANGED result
    BY <1>3 DEF ClosePortVisit
  <1>4. CASE ClosePortBind
    BY <1>1, <1>4 DEF ClosePortBind, Fail, TypeOK
  <1>5. CASE ServiceHasStarted \/ ServiceTimeout \/ ServicePollRaises
    BY <1>5 DEF ServiceHasStarted, ServiceTimeout, ServicePollRaises
  <1> QED BY <1>1, <1>2, <1>3, <1>4, <1>5 DEF ParentStep, KillServerTerminate, KillServerJoin

LEMMA ResultEnvironment == Environment => UNCHANGED <<port, at, current, result>>
  BY DEF Environment, ChildBind, ChildBindFails, Crash, Exit, ForeignBind, parentVars

-------------------------------------------------------------------------------
(* The entries that were run *)

\* What has a port or a result is an entry up to the one being started.
EntriesUpToNext ==
    \A s \in Servers : port[s] # NoPort \/ result[s] # "none" =>
        /\ s \in DOMAIN Setup /\ s <= next
        /\ pc \in {"loop", "sniffer"} => s < next
        /\ port[s] # NoPort

\* The result of the entry being started.
ResultOfNext ==
    /\ args.test => \A s \in Servers : result[s] = "none"
    /\ pc = "running" /\ args.test => at \in {"idle", "cleanup", "join"}
    /\ pc = "run" => result[next] = "none" /\ port[next] # NoPort
    /\ pc = "running" => port[next] # NoPort
    /\ pc = "running" /\ ~args.test =>
          /\ at \in {"cleanup", "join"} => result[next] = "error"
          /\ at = "idle" => result[next] \in {"success", "error", "raised"}

\* The list holds entries before the next one, in order.
ListIsSorted ==
    /\ \A i \in DOMAIN honeypots :
          honeypots[i] # Sniffer => honeypots[i] \in DOMAIN Setup /\ honeypots[i] < next
    /\ \A i, j \in DOMAIN honeypots :
          i < j /\ honeypots[i] # Sniffer /\ honeypots[j] # Sniffer => honeypots[i] < honeypots[j]

\* The sniffer is in the list from its start on, at its place.
SnifferIsListed ==
    /\ pc = "sniffer" =>
          sniffer = "none" /\ args.sniffer /\ (args.mode # "chameleon" => honeypots = <<>>)
    /\ pc \in {"sniffer"} \union Starting /\ ~SnifferIsFirst => sniffer = "none"
    /\ \A i \in DOMAIN honeypots :
          honeypots[i] = Sniffer => i = IF SnifferIsFirst THEN 1 ELSE Len(honeypots)
    /\ sniffer # "none" <=> Sniffer \in Range(honeypots)
    /\ Range(pending) \subseteq Range(honeypots)

\* What is in the list was run (or tested), and the other way round.
WasRun(s) ==
    IF args.test THEN port[s] # NoPort /\ s < next
    ELSE result[s] \in {"success", "error"} /\ ~(pc = "running" /\ s = next)
ListIsComplete ==
    pc # "killed" => \A s \in Servers : s \in Range(honeypots) <=> WasRun(s)

EntriesInv == EntriesUpToNext /\ ResultOfNext /\ ListIsSorted /\ SnifferIsListed /\ ListIsComplete

LEMMA RangeOfTail ==
    ASSUME NEW S, NEW q \in Seq(S), q # <<>>
    PROVE  Head(q) \in Range(q) /\ Range(Tail(q)) \subseteq Range(q)
  <1>1. DOMAIN q = 1 .. Len(q) /\ DOMAIN Tail(q) = 1 .. Len(q) - 1 /\ Len(q) \in Nat \ {0}
    OBVIOUS
  <1>2. Head(q) = q[1] /\ \A i \in 1 .. Len(q) - 1 : Tail(q)[i] = q[i + 1]
    OBVIOUS
  <1> QED BY <1>1, <1>2 DEF Range

LEMMA EntriesInit == Init => EntriesInv
  <1> SUFFICES ASSUME Init PROVE EntriesInv
    OBVIOUS
  <1>1. Range(<<>>) = {} /\ DOMAIN <<>> = {}
    BY DEF Range
  <1>2. honeypots = <<>> /\ pending = <<>> /\ sniffer = "none" /\ \A s \in Servers : port[s] = NoPort /\ result[s] = "none"
    BY DEF Init, BaseInit
  <1>3. pc \in {"sniffer", "loop"} /\ (pc = "sniffer" => SnifferIsFirst)
    BY DEF Init
  <1> QED BY <1>1, <1>2, <1>3
          DEF EntriesInv, EntriesUpToNext, ResultOfNext, ListIsSorted, SnifferIsListed, ListIsComplete,
              WasRun, SnifferIsFirst

\* Steps that leave the start of the honeypots behind, or have done so.
LEMMA EntriesLeft ==
    ASSUME OwnTypeOK, EntriesInv, UNCHANGED <<args, port, result, next, honeypots>>,
           sniffer' = sniffer \/ (sniffer = "alive" /\ sniffer' = "dead"),
           pc' \notin Starting \union {"sniffer"},
           pc = "running" => pc' = "killed" \/ result[next] = "raised",
           pc = "killed" => pc' = "killed",
           Range(pending') \subseteq Range(pending) \union Range(honeypots)
    PROVE  EntriesInv'
  <1>1. UNCHANGED <<Setup, SnifferIsFirst>>
    BY DEF Setup, SnifferIsFirst
  <1>2. EntriesUpToNext' /\ ResultOfNext' /\ ListIsSorted'
    BY <1>1 DEF EntriesInv, EntriesUpToNext, ResultOfNext, ListIsSorted, Starting
  <1>3. SnifferIsListed'
    BY <1>1 DEF EntriesInv, SnifferIsListed
  <1>4. ListIsComplete'
    BY <1>1 DEF EntriesInv, ListIsComplete, WasRun, Starting
  <1> QED BY <1>2, <1>3, <1>4 DEF EntriesInv

\* Steps that stay where they are in main().
LEMMA EntriesStay ==
    ASSUME OwnTypeOK, EntriesInv, UNCHANGED <<args, pc, next, honeypots, pending>>,
           sniffer' = sniffer \/ (sniffer = "alive" /\ sniffer' = "dead"),
           UNCHANGED <<port, at, result>>
    PROVE  EntriesInv'
  <1>1. UNCHANGED <<Setup, SnifferIsFirst>>
    BY DEF Setup, SnifferIsFirst
  <1>2. EntriesUpToNext' /\ ResultOfNext' /\ ListIsSorted'
    BY <1>1 DEF EntriesInv, EntriesUpToNext, ResultOfNext, ListIsSorted
  <1>3. SnifferIsListed'
    BY <1>1 DEF EntriesInv, SnifferIsListed
  <1>4. ListIsComplete'
    BY <1>1 DEF EntriesInv, ListIsComplete, WasRun
  <1> QED BY <1>2, <1>3, <1>4 DEF EntriesInv

\* The next entry is skipped, unusable, or gets its server.
LEMMA EntriesNextEntry ==
    ASSUME TypeOK, OwnTypeOK, EntriesInv, NextEntry, UNCHANGED args
    PROVE  EntriesInv'
  <1>1. UNCHANGED <<Setup, SnifferIsFirst, result, honeypots, pending, sniffer>>
    BY DEF NextEntry, Construct, baseVars, parentVars, otherVars, Setup, SnifferIsFirst
  <1>2. pc = "loop" /\ next \in DOMAIN Setup /\ next \in Servers /\ next \in Nat
    BY CommandLineFacts DEF NextEntry, OwnTypeOK
  <1>3. \A s \in Servers : port[s] # NoPort \/ result[s] # "none" =>
            s \in DOMAIN Setup /\ s \in Nat /\ s < next /\ s <= next /\ port[s] # NoPort
    <2>1. DOMAIN Setup \subseteq Nat
      BY CommandLineFacts DEF OwnTypeOK
    <2> QED BY <1>2, <2>1 DEF EntriesInv, EntriesUpToNext
  <1>4. result[next] = "none" /\ port[next] = NoPort
    BY <1>2, <1>3
  <1>5. CASE pc' \in {"loop", "raise"} /\ UNCHANGED port /\ next' \in {next, next + 1}
    <2>1. DOMAIN Setup = 1 .. Len(Setup) /\ Len(Setup) \in Nat
      BY CommandLineFacts DEF OwnTypeOK
    <2>2. \A s \in Servers : port[s] # NoPort \/ result[s] # "none" => s < next' /\ s <= next'
      BY <1>2, <1>3, <1>5, <2>1
    <2>3. EntriesUpToNext'
      BY <1>1, <1>3, <1>5, <2>1, <2>2 DEF EntriesUpToNext
    <2>4. ResultOfNext'
      BY <1>1, <1>5 DEF EntriesInv, ResultOfNext
    <2>5. ListIsSorted'
      BY <1>1, <1>2, <1>5, <2>1 DEF EntriesInv, ListIsSorted
    <2>6. SnifferIsListed'
      BY <1>1, <1>2, <1>5 DEF EntriesInv, SnifferIsListed, Starting
    <2>7. \A s \in Servers : WasRun(s)' <=> WasRun(s)
      BY <1>1, <1>2, <1>3, <1>4, <1>5, <2>1, <2>2 DEF WasRun
    <2>8. ListIsComplete'
      BY <1>1, <1>2, <1>5, <2>7 DEF EntriesInv, ListIsComplete
    <2> QED BY <2>3, <2>4, <2>5, <2>6, <2>8 DEF EntriesInv
  <1>6. CASE pc' = "run" /\ next' = next /\ Construct(next, PortArgument(Setup[next]))
    <2> DEFINE p == InitPort(next, PortArgument(Setup[next]))
    <2>1. p # NoPort
      <3>1. PortArgument(Setup[next]) \in Ports \union {NoPort}
        BY <1>2, CommandLineFacts DEF PortArgument, OwnTypeOK
      <3> QED BY <1>2, <3>1, ServersAssumption DEF InitPort
    <2>2. port' = [port EXCEPT ![next] = p]
      BY <1>6 DEF Construct
    <2> HIDE DEF p
    <2>3. port'[next] # NoPort /\ \A s \in Servers \ {next} : port'[s] = port[s]
      BY <1>2, <2>1, <2>2 DEF TypeOK
    <2>4. EntriesUpToNext'
      BY <1>1, <1>2, <1>3, <1>4, <1>6, <2>3 DEF EntriesUpToNext
    <2>5. ResultOfNext'
      BY <1>1, <1>4, <1>6, <2>3 DEF EntriesInv, ResultOfNext
    <2>6. ListIsSorted'
      BY <1>1, <1>6 DEF EntriesInv, ListIsSorted
    <2>7. SnifferIsListed'
      BY <1>1, <1>2, <1>6 DEF EntriesInv, SnifferIsListed, Starting
    <2>8. \A s \in Servers : WasRun(s)' <=> WasRun(s)
      BY <1>1, <1>2, <1>4, <1>6, <2>3 DEF WasRun, NextEntry
    <2>9. ListIsComplete'
      BY <1>1, <1>2, <1>6, <2>8 DEF EntriesInv, ListIsComplete
    <2> QED BY <2>4, <2>5, <2>6, <2>7, <2>9 DEF EntriesInv
  <1>7. NextEntry => \/ pc' \in {"loop", "raise"} /\ UNCHANGED port /\ next' \in {next, next + 1}
                     \/ pc' = "run" /\ next' = next /\ Construct(next, PortArgument(Setup[next]))
    BY DEF NextEntry, baseVars
  <1> QED BY <1>5, <1>6, <1>7

\* The server is called, or run.
LEMMA EntriesRun ==
    ASSUME TypeOK, OwnTypeOK, EntriesInv, Run \/ Test, UNCHANGED args
    PROVE  EntriesInv'
  <1>1. UNCHANGED <<Setup, SnifferIsFirst, next, honeypots, pending, sniffer>> /\ pc = "run" /\ pc' = "running"
    BY DEF Run, Test, otherVars, Setup, SnifferIsFirst
  <1>2. next \in DOMAIN Setup /\ next \in Servers /\ next <= next
    BY <1>1, CommandLineFacts DEF OwnTypeOK
  <1>3. result[next] = "none" /\ port[next] # NoPort
    BY <1>1 DEF EntriesInv, ResultOfNext
  <1>4. /\ \A s \in Servers \ {next} : port'[s] = port[s] /\ result'[s] = result[s]
        /\ port'[next] # NoPort
        /\ at' \in {"connect", "fork", "cleanup"}
        /\ args.test => UNCHANGED <<port, result>> /\ at' = "cleanup"
        /\ ~args.test /\ at' = "cleanup" => result'[next] = "error"
    <2>1. CASE Test
      BY <1>3, <2>1 DEF Test, KillServer
    <2>2. CASE Run /\ GetFreePort(next)
      BY <1>2, <1>3, <2>2, ServersAssumption DEF Run, GetFreePort, TypeOK
    <2>3. CASE Run /\ at' = "connect" /\ UNCHANGED <<port, result>>
      BY <1>3, <2>3 DEF Run
    <2>4. Run => GetFreePort(next) \/ (at' = "connect" /\ UNCHANGED <<port, result>>)
      BY DEF Run, RunServer
    <2> QED BY <2>1, <2>2, <2>3, <2>4
  <1>5. EntriesUpToNext'
    BY <1>1, <1>2, <1>4 DEF EntriesInv, EntriesUpToNext
  <1>6. ResultOfNext'
    BY <1>1, <1>4 DEF EntriesInv, ResultOfNext
  <1>7. ListIsSorted' /\ SnifferIsListed'
    BY <1>1 DEF EntriesInv, ListIsSorted, SnifferIsListed, Starting
  <1>8. \A s \in Servers : WasRun(s)' <=> WasRun(s)
    BY <1>1, <1>3, <1>4 DEF WasRun
  <1>9. ListIsComplete'
    BY <1>1, <1>8 DEF EntriesInv, ListIsComplete
  <1> QED BY <1>5, <1>6, <1>7, <1>9 DEF EntriesInv

\* The method of the server executes.
LEMMA EntriesInMethod ==
    ASSUME TypeOK, OwnTypeOK, InCall, EntriesInv, InMethod, UNCHANGED args
    PROVE  EntriesInv'
  <1>1. UNCHANGED <<Setup, SnifferIsFirst, pc, next, honeypots, pending, sniffer, port>> /\ ParentStep
    BY ResultParentStep DEF InMethod, mainVars, otherVars, Setup, SnifferIsFirst
  <1>2. CASE pc = "stopping"
    <2>1. UNCHANGED result
      BY <1>1, <1>2, ResultParentStep DEF InCall
    <2> QED BY <1>1, <1>2, <2>1, EntriesLeft DEF Starting
  <1>3. CASE pc = "running"
    <2>1. current = next /\ next \in Servers /\ next \in DOMAIN Setup
      BY <1>1, <1>3, ResultParentStep DEF InCall, OwnTypeOK
    <2>2. \A s \in Servers \ {next} : result'[s] = result[s]
      BY <1>1, <2>1, ResultParentStep
    <2>3. args.test => UNCHANGED result
      BY <1>1, <1>3, ResultParentStep DEF EntriesInv, ResultOfNext
    <2>4. ResultOfNext'
      BY <1>1, <1>3, <2>1, <2>2, <2>3, ResultParentStep DEF EntriesInv, ResultOfNext
    <2>5. EntriesUpToNext'
      BY <1>1, <1>3, <2>1, <2>2 DEF EntriesInv, EntriesUpToNext, ResultOfNext
    <2>6. ListIsSorted' /\ SnifferIsListed'
      BY <1>1 DEF EntriesInv, ListIsSorted, SnifferIsListed
    <2>7. \A s \in Servers : WasRun(s)' <=> WasRun(s)
      BY <1>1, <1>3, <2>2, <2>3 DEF WasRun
    <2>8. ListIsComplete'
      BY <1>1, <2>7 DEF EntriesInv, ListIsComplete
    <2> QED BY <2>4, <2>5, <2>6, <2>8 DEF EntriesInv
  <1> QED BY <1>2, <1>3 DEF InMethod

\* run_server or the client returned.
LEMMA EntriesStarted ==
    ASSUME OwnTypeOK, EntriesInv, Started, UNCHANGED args
    PROVE  EntriesInv'
  <1>1. /\ UNCHANGED <<Setup, SnifferIsFirst, port, result, pending, sniffer>>
        /\ pc = "running" /\ pc' = "loop" /\ at = "idle" /\ result[next] # "raised"
        /\ honeypots' = Append(honeypots, next) /\ next' = next + 1
    BY DEF Started, baseVars, parentVars, otherVars, Setup, SnifferIsFirst
  <1>2. /\ next \in DOMAIN Setup /\ next \in Servers /\ next \in Nat
        /\ DOMAIN Setup \subseteq Nat /\ next # Sniffer
    BY <1>1, CommandLineFacts, SnifferAssumption DEF OwnTypeOK
  <1>3. Range(honeypots') = Range(honeypots) \union {next}
    BY <1>1, <1>2, RangeAppend DEF OwnTypeOK
  <1>4. /\ Len(honeypots) \in Nat /\ DOMAIN honeypots = 1 .. Len(honeypots)
        /\ DOMAIN honeypots' = 1 .. Len(honeypots) + 1 /\ Len(honeypots') = Len(honeypots) + 1
        /\ \A i \in DOMAIN honeypots : honeypots'[i] = honeypots[i]
        /\ honeypots'[Len(honeypots) + 1] = next
    BY <1>1, <1>2 DEF OwnTypeOK
  <1>5. EntriesUpToNext'
    BY <1>1, <1>2 DEF EntriesInv, EntriesUpToNext
  <1>6. ResultOfNext'
    BY <1>1 DEF EntriesInv, ResultOfNext
  <1>7. ListIsSorted'
    <2>1. ASSUME NEW i \in DOMAIN honeypots', honeypots'[i] # Sniffer
          PROVE  /\ honeypots'[i] \in DOMAIN Setup /\ honeypots'[i] < next'
                 /\ i \in DOMAIN honeypots => honeypots'[i] < next
      BY <1>1, <1>2, <1>4, <2>1 DEF EntriesInv, ListIsSorted
    <2>2. ASSUME NEW i \in DOMAIN honeypots', NEW j \in DOMAIN honeypots',
                 i < j, honeypots'[i] # Sniffer, honeypots'[j] # Sniffer
          PROVE  honeypots'[i] < honeypots'[j]
      BY <1>4, <2>1, <2>2 DEF EntriesInv, ListIsSorted
    <2> QED BY <1>1, <2>1, <2>2 DEF ListIsSorted
  <1>8. SnifferIsListed'
    <2>1. ~SnifferIsFirst => sniffer = "none" /\ Sniffer \notin Range(honeypots)
      BY <1>1 DEF EntriesInv, SnifferIsListed, Starting
    <2>2. \A i \in DOMAIN honeypots : honeypots[i] = Sniffer => SnifferIsFirst /\ i = 1
      BY <2>1 DEF EntriesInv, SnifferIsListed, Range
    <2> QED BY <1>1, <1>2, <1>3, <1>4, <2>1, <2>2 DEF EntriesInv, SnifferIsListed
  <1>9. \A s \in Servers : WasRun(s)' <=> WasRun(s) \/ s = next
    BY <1>1, <1>2 DEF EntriesInv, EntriesUpToNext, ResultOfNext, WasRun
  <1>10. ListIsComplete'
    BY <1>1, <1>3, <1>9 DEF EntriesInv, ListIsComplete
  <1> QED BY <1>5, <1>6, <1>7, <1>8, <1>10 DEF EntriesInv

\* The sniffer is started, before the first entry or after the last one.
LEMMA EntriesSniffer ==
    ASSUME OwnTypeOK, EntriesInv, StartSniffer, UNCHANGED args
    PROVE  EntriesInv'
  <1>1. /\ UNCHANGED <<Setup, SnifferIsFirst, port, result, next>>
        /\ pc = "sniffer" /\ pc' \in {"loop", "stats", "stop"} /\ sniffer' # "none"
        /\ pc' = "loop" <=> args.mode # "chameleon"
        /\ honeypots' = Append(honeypots, Sniffer) /\ pending' \in {pending, honeypots'}
    BY DEF StartSniffer, baseVars, parentVars, Setup, SnifferIsFirst
  <1>2. sniffer = "none" /\ args.sniffer /\ (args.mode # "chameleon" => honeypots = <<>>)
    BY <1>1 DEF EntriesInv, SnifferIsListed
  <1>3. Range(honeypots') = Range(honeypots) \union {Sniffer}
    BY <1>1, RangeAppend DEF OwnTypeOK
  <1>4. /\ Len(honeypots) \in Nat /\ DOMAIN honeypots = 1 .. Len(honeypots)
        /\ DOMAIN honeypots' = 1 .. Len(honeypots) + 1 /\ Len(honeypots') = Len(honeypots) + 1
        /\ \A i \in DOMAIN honeypots : honeypots'[i] = honeypots[i]
        /\ honeypots'[Len(honeypots) + 1] = Sniffer
    BY <1>1 DEF OwnTypeOK
  <1>5. Sniffer \notin Range(honeypots)
    BY <1>2 DEF EntriesInv, SnifferIsListed
  <1>6. EntriesUpToNext' /\ ResultOfNext'
    BY <1>1 DEF EntriesInv, EntriesUpToNext, ResultOfNext
  <1>7. ListIsSorted'
    BY <1>1, <1>4 DEF EntriesInv, ListIsSorted
  <1>8. SnifferIsListed'
    <2>1. \A i \in DOMAIN honeypots' : honeypots'[i] = Sniffer => i = Len(honeypots')
      BY <1>4, <1>5 DEF Range
    <2>2. SnifferIsFirst => Len(honeypots') = 1
      BY <1>2, <1>4 DEF SnifferIsFirst
    <2>3. SnifferIsFirst <=> pc' = "loop"
      BY <1>1, <1>2 DEF SnifferIsFirst
    <2>4. Range(pending') \subseteq Range(honeypots')
      BY <1>1, <1>3 DEF EntriesInv, SnifferIsListed
    <2> QED BY <1>1, <1>3, <2>1, <2>2, <2>3, <2>4 DEF SnifferIsListed, Starting
  <1>9. \A s \in Servers : (WasRun(s)' <=> WasRun(s)) /\ s # Sniffer
    BY <1>1, SnifferAssumption DEF WasRun
  <1>10. ListIsComplete'
    BY <1>1, <1>3, <1>9 DEF EntriesInv, ListIsComplete
  <1> QED BY <1>6, <1>7, <1>8, <1>10 DEF EntriesInv

LEMMA EntriesStep ==
    ASSUME TypeOK, OwnTypeOK, InCall, EntriesInv, [Next]_vars
    PROVE  EntriesInv'
  <1>1. CASE NextEntry /\ UNCHANGED args
    BY <1>1, EntriesNextEntry
  <1>2. CASE (Run \/ Test) /\ UNCHANGED args
    BY <1>2, EntriesRun
  <1>3. CASE InMethod /\ UNCHANGED args
    BY <1>3, EntriesInMethod
  <1>4. CASE Started /\ UNCHANGED args
    BY <1>4, EntriesStarted
  <1>5. CASE StartSniffer /\ UNCHANGED args
    BY <1>5, EntriesSniffer
  <1>6. CASE (StartRaised \/ TestRaises \/ StartAborted \/ StartFinished \/ ChameleonStarted
              \/ SnifferRefused \/ Report) /\ UNCHANGED args
    BY <1>6, EntriesLeft
       DEF StartRaised, TestRaises, StartAborted, StartFinished, ChameleonStarted, SnifferRefused,
           Report, baseVars, parentVars, otherVars, Starting
  <1>7. CASE (BuildFence \/ FenceIsDown \/ Enter \/ Interrupt \/ Stopped \/ AllStopped
              \/ ExitHandler \/ ChildrenJoined) /\ UNCHANGED args
    BY <1>7, EntriesLeft
       DEF BuildFence, FenceIsDown, Enter, Interrupt, Stopped, AllStopped, ExitHandler,
           ChildrenJoined, baseVars, parentVars, otherVars, Starting
  <1>12. CASE (StopNext \/ StopSniffer \/ StopFails) /\ UNCHANGED args
    <2>1. pending # <<>> /\ pending' = Tail(pending) /\ pc = "stop" /\ pc' \in {"stop", "stopping"}
          /\ UNCHANGED <<args, port, result, next, honeypots>>
      BY <1>12 DEF StopNext, StopSniffer, StopFails, KillServer, baseVars, parentVars
    <2>2. Head(pending) \in Range(pending) /\ Range(pending') \subseteq Range(pending)
      BY <2>1, RangeOfTail DEF OwnTypeOK
    <2>3. sniffer' = sniffer \/ (sniffer = "alive" /\ sniffer' = "dead")
      BY <1>12, <2>2 DEF EntriesInv, SnifferIsListed, StopNext, StopSniffer, StopFails, otherVars, OwnTypeOK
    <2> QED BY <2>1, <2>2, <2>3, EntriesLeft DEF Starting
  <1>8. CASE Terminate /\ UNCHANGED args
    BY <1>8, EntriesLeft, EntriesStay DEF Terminate, baseVars, parentVars, otherVars, Starting, Gone
  <1>9. CASE ChameleonSniffs /\ UNCHANGED args
    <2>1. /\ UNCHANGED <<Setup, SnifferIsFirst, port, result, next, honeypots, pending, sniffer>>
          /\ pc = "loop" /\ pc' = "sniffer" /\ args.mode = "chameleon" /\ args.sniffer
      BY <1>9 DEF ChameleonSniffs, baseVars, parentVars, otherVars, Setup, SnifferIsFirst
    <2>2. ~SnifferIsFirst
      BY <2>1 DEF SnifferIsFirst
    <2>3. EntriesUpToNext' /\ ResultOfNext' /\ ListIsSorted'
      BY <1>9, <2>1 DEF EntriesInv, EntriesUpToNext, ResultOfNext, ListIsSorted
    <2>4. SnifferIsListed'
      BY <1>9, <2>1, <2>2 DEF EntriesInv, SnifferIsListed, Starting
    <2>5. ListIsComplete'
      BY <1>9, <2>1 DEF EntriesInv, ListIsComplete, WasRun
    <2> QED BY <2>3, <2>4, <2>5 DEF EntriesInv
  <1>10. CASE Environment /\ UNCHANGED mainVars /\ UNCHANGED args
    BY <1>10, ResultEnvironment, EntriesStay DEF mainVars, otherVars
  <1>11. CASE (SnifferEnds \/ UNCHANGED vars) /\ UNCHANGED args
    BY <1>11, EntriesStay DEF SnifferEnds, vars, mainVars, otherVars, baseVars, parentVars
  <1> QED BY <1>1, <1>2, <1>3, <1>4, <1>5, <1>6, <1>7, <1>8, <1>9, <1>10, <1>11, <1>12
          DEF Next, Main, User, vars

\* What the manager reports and later kills is exactly what it started: the entries that
\* were run, in order and once each, with the sniffer at its place (__main__.py:257-271, 354-364).
THEOREM ListIsTheEntriesRun == Spec => []HoneypotsAreTheEntriesRun
  <1>1. Spec => [](TypeOK /\ OwnTypeOK)
    BY ManagerIsAScript, TypeCorrect, OwnTypeCorrect, PTL
  <1>2. StopInv => InCall
    BY DEF StopInv
  <1>3. Spec => [](TypeOK /\ OwnTypeOK /\ StopInv /\ EntriesInv)
    BY <1>1, <1>2, StopInit, StopStep, EntriesInit, EntriesStep, PTL DEF Spec
  <1>4. TypeOK /\ OwnTypeOK /\ StopInv /\ EntriesInv => HoneypotsAreTheEntriesRun
    <2> SUFFICES ASSUME TypeOK, OwnTypeOK, StopInv, EntriesInv PROVE HoneypotsAreTheEntriesRun
      OBVIOUS
    <2>1. ListIsSorted /\ SnifferIsListed
      BY DEF EntriesInv
    <2>2. ASSUME pc \notin Starting \union Gone
          PROVE  Range(honeypots) \ {Sniffer} =
                     {s \in Servers : IF args.test THEN port[s] # NoPort /\ s < next
                                      ELSE result[s] \in {"success", "error"}}
      <3>1. \A s \in Servers : s \in Range(honeypots) <=> WasRun(s)
        BY <2>2 DEF EntriesInv, ListIsComplete, Gone
      <3>2. Range(honeypots) \ {Sniffer} \subseteq Servers
        BY DEF OwnTypeOK, Range
      <3> QED BY <2>2, <3>1, <3>2, SnifferAssumption DEF WasRun, Starting
    <2> QED BY <2>1, <2>2 DEF HoneypotsAreTheEntriesRun, ListIsSorted, SnifferIsListed
  <1> QED BY <1>3, <1>4, PTL

-------------------------------------------------------------------------------
(* Honeypots that are shut down by the start of others *)

\* Before the stop.
Early == Starting \union {"sniffer", "raise", "report", "await", "fence", "stats"}

\* The other server was run, or is being run, on the same port.
Displaced(s) == \E r \in Servers \ {s} : port[r] = port[s] /\ (result[r] # "none" \/ current = r)

TakeoverInv ==
    /\ pc \in Early =>
          \A s \in Servers : result[s] = "success" /\ proc[s] = "stopping" => Displaced(s)
    /\ at = "poll" => proc[current] # "stopping"

\* What a step of a method does to servers that shut down.
LEMMA StoppingParentStep ==
    ASSUME TypeOK, SocketsOwned, MethodConsistent, ParentStep
    PROVE  /\ \A s \in Servers \ {current} : proc[s] # "stopping" /\ proc'[s] = "stopping" =>
                 at = "scan" /\ port[s] = port[current]
           /\ at # "cleanup" /\ proc[current] # "stopping" => proc'[current] # "stopping"
           /\ at' = "poll" => proc'[current'] # "stopping"
  <1> USE ServersAssumption DEF Procs, Live, TypeOK
  <1>1. ASSUME NEW q \in Procs, ClosePortVisit(q)
        PROVE  /\ \A s \in Servers \ {current} : proc[s] # "stopping" /\ proc'[s] = "stopping" =>
                     port[s] = port[current]
               /\ proc'[current] # "stopping" /\ at = "scan" /\ at' # "poll"
    <2>1. at = "scan" /\ at' # "poll" /\ current \in Servers
      BY <1>1 DEF ClosePortVisit
    <2>2. proc[current] = "none"
      BY <2>1 DEF MethodConsistent
    <2>3. CASE q \in Holders(port[current]) /\ Sigterm(q)
      <3>1. PICK x \in Sockets : sock[x] = q /\ x[2] = port[current]
        BY <2>1, <2>2, <2>3 DEF Holders, Sockets, Transport, MethodConsistent
      <3>2. proc[q] \in Live /\ (q \in Servers => port[q] = port[current])
        <4>1. sock[x] # Free
          BY <3>1, <2>3
        <4>2. proc[sock[x]] \in Live /\ (sock[x] \in Servers => x \in Needs(sock[x]))
          BY <3>1, <4>1 DEF SocketsOwned
        <4> QED BY <3>1, <4>2 DEF Needs
      <3> QED BY <2>1, <2>2, <2>3, <3>2, SigtermProc
    <2>4. CASE UNCHANGED proc
      BY <2>1, <2>2, <2>4
    <2> QED BY <1>1, <2>1, <2>3, <2>4 DEF ClosePortVisit
  <1>2. CASE ClosePortKill
    <2>1. victim \in Procs /\ Die(victim) /\ at = "reap" /\ at' = "scan"
      BY <1>2 DEF ClosePortKill
    <2> QED BY <2>1, DieProc
  <1>3. CASE KillServerTerminate
    <2>1. at = "cleanup" /\ at' # "poll" /\ current \in Servers
      BY <1>3 DEF KillServerTerminate, Return
    <2>2. UNCHANGED proc \/ Sigterm(current)
      BY <1>3 DEF KillServerTerminate
    <2> QED BY <2>1, <2>2, SigtermProc
  <1>4. CASE StartProcess
    BY <1>4 DEF StartProcess
  <1>5. CASE ServiceHasStarted \/ ServiceTimeout \/ ServicePollRaises \/ ClosePortBind
    BY <1>5 DEF ServiceHasStarted, ServiceTimeout, ServicePollRaises, ClosePortBind, Fail, Return
  <1>6. CASE ClosePortConnect \/ ClosePortReap \/ ClosePortScanned \/ KillServerJoin
    BY <1>6 DEF ClosePortConnect, ClosePortReap, ClosePortScanned, KillServerJoin, Return
  <1> QED BY <1>1, <1>2, <1>3, <1>4, <1>5, <1>6 DEF ParentStep

LEMMA StoppingEnvironment ==
    ASSUME TypeOK, Environment
    PROVE  \A s \in Servers : proc'[s] = "stopping" => proc[s] = "stopping"
  <1> USE ServersAssumption DEF Procs, Live, TypeOK
  <1>1. ASSUME NEW q \in Procs, Die(q) PROVE \A s \in Servers : proc'[s] = "stopping" => proc[s] = "stopping"
    BY <1>1, DieProc
  <1>2. ASSUME NEW r \in Servers, ChildBind(r)
        PROVE  \A s \in Servers : proc'[s] = "stopping" => proc[s] = "stopping"
    BY <1>2 DEF ChildBind
  <1>3. ASSUME NEW f \in Foreign, NEW x \in Sockets, ForeignBind(f, x)
        PROVE  \A s \in Servers : proc'[s] = "stopping" => proc[s] = "stopping"
    BY <1>3 DEF ForeignBind
  <1> QED BY <1>1, <1>2, <1>3 DEF Environment, ChildBindFails, Crash, Exit

\* A method runs on, for the server that is being started or one that is killed.
LEMMA TakeoverInMethod ==
    ASSUME TypeOK, OwnTypeOK, InCall, EntriesInv, SocketsOwned, MethodConsistent, TakeoverInv,
           InMethod, UNCHANGED args
    PROVE  TakeoverInv'
  <1>1. ParentStep /\ UNCHANGED <<pc, next>> /\ current \in Servers /\ UNCHANGED port
    BY ResultParentStep DEF InMethod, mainVars, otherVars
  <1>2. at' = "poll" => proc'[current'] # "stopping"
    BY <1>1, StoppingParentStep
  <1>3. ASSUME pc \in Early, NEW s \in Servers, result'[s] = "success", proc'[s] = "stopping"
        PROVE  Displaced(s)'
    <2>1. pc = "running" /\ current = next
      BY <1>1, <1>3, ResultParentStep DEF InMethod, InCall, Early, Starting
    <2>2. ~args.test
      <3> SUFFICES ASSUME args.test PROVE FALSE
        OBVIOUS
      <3>1. at \in {"cleanup", "join"} /\ result[s] = "none"
        BY <1>1, <2>1, ResultParentStep DEF EntriesInv, ResultOfNext
      <3> QED BY <1>1, <1>3, <3>1, ResultParentStep
    <2>3. result'[current] # "none" \/ current' = current
      BY <1>1, <2>1, <2>2, ResultParentStep DEF EntriesInv, ResultOfNext
    <2>4. s # current
      <3> SUFFICES ASSUME s = current PROVE FALSE
        OBVIOUS
      <3>1. at \notin {"cleanup", "join"}
        BY <1>1, <1>3, <2>1, <2>2, ResultParentStep DEF EntriesInv, ResultOfNext
      <3>2. at = "poll" /\ proc[current] # "stopping"
        BY <1>1, <1>3, <3>1, SuccessInPoll DEF TakeoverInv
      <3> QED BY <1>1, <1>3, <3>2, StoppingParentStep
    <2>5. result[s] = "success"
      BY <1>1, <1>3, <2>4, ResultParentStep
    <2>6. CASE proc[s] # "stopping"
      <3>1. port[s] = port[current]
        BY <1>1, <1>3, <2>4, <2>6, StoppingParentStep
      <3> QED BY <1>1, <2>3, <2>4, <3>1 DEF Displaced
    <2>7. CASE proc[s] = "stopping"
      <3>1. PICK r \in Servers \ {s} : port[r] = port[s] /\ (result[r] # "none" \/ current = r)
        BY <1>3, <2>5, <2>7 DEF TakeoverInv, Displaced
      <3>2. result'[r] # "none" \/ current' = r
        BY <1>1, <2>3, <3>1, ResultParentStep
      <3> QED BY <1>1, <3>1, <3>2 DEF Displaced
    <2> QED BY <2>6, <2>7
  <1> QED BY <1>1, <1>2, <1>3 DEF TakeoverInv

\* The other servers are not touched by the construction or by the call of one.
LEMMA TakeoverCall ==
    ASSUME TypeOK, OwnTypeOK, InCall, EntriesInv, TakeoverInv, NextEntry \/ Run, UNCHANGED args
    PROVE  TakeoverInv'
  <1>1. /\ at = "idle" /\ current = Nobody /\ pc \in {"loop", "run"} /\ UNCHANGED proc
        /\ next \in Servers
    <2>1. pc \in {"loop", "run"} /\ UNCHANGED proc
      BY DEF NextEntry, Construct, Run, RunServer, baseVars
    <2>2. at = "idle" /\ current = Nobody
      BY <2>1 DEF InCall, TypeOK
    <2>3. next \in DOMAIN Setup
      BY CommandLineFacts DEF NextEntry, Run, OwnTypeOK
    <2> QED BY <2>1, <2>2, <2>3, CommandLineFacts DEF OwnTypeOK
  <1>2. result[next] = "none"
    <2>1. ~(next < next)
      BY CommandLineFacts DEF OwnTypeOK
    <2> QED BY <1>1, <2>1 DEF EntriesInv, EntriesUpToNext, ResultOfNext
  <1>3. /\ \A s \in Servers \ {next} : port'[s] = port[s] /\ result'[s] = result[s]
        /\ result'[next] \in {"none", "error"}
        /\ at' # "poll"
    <2>1. CASE NextEntry
      BY <1>1, <1>2, <2>1 DEF NextEntry, Construct, InitPort, baseVars, parentVars, TypeOK
    <2>2. CASE Run
      BY <1>1, <1>2, <2>2, ServersAssumption DEF Run, RunServer, GetFreePort, TypeOK
    <2> QED BY <2>1, <2>2
  <1>4. ASSUME NEW s \in Servers, result'[s] = "success", proc'[s] = "stopping"
        PROVE  Displaced(s)'
    <2>1. s # next /\ result[s] = "success" /\ proc[s] = "stopping" /\ port'[s] = port[s]
      BY <1>1, <1>3, <1>4
    <2>2. PICK r \in Servers \ {s} : port[r] = port[s] /\ (result[r] # "none" \/ current = r)
      BY <1>1, <2>1 DEF TakeoverInv, Displaced, Early, Starting
    <2>3. r # next /\ result[r] # "none"
      BY <1>1, <1>2, <2>2, ServersAssumption DEF Procs
    <2> QED BY <1>3, <2>1, <2>2, <2>3 DEF Displaced
  <1> QED BY <1>3, <1>4 DEF TakeoverInv

LEMMA TakeoverStep ==
    ASSUME TypeOK, OwnTypeOK, InCall, EntriesInv, SocketsOwned, MethodConsistent, TakeoverInv,
           [Next]_vars
    PROVE  TakeoverInv'
  <1>1. CASE (NextEntry \/ Run) /\ UNCHANGED args
    BY <1>1, TakeoverCall
  <1>2. CASE InMethod /\ UNCHANGED args
    BY <1>2, TakeoverInMethod
  <1>3. CASE Environment /\ UNCHANGED mainVars
    <2>1. UNCHANGED <<port, at, current, result, pc>>
      BY <1>3, ResultEnvironment DEF mainVars, otherVars
    <2>2. at = "poll" => current \in Servers
      BY DEF TypeOK
    <2>3. \A s \in Servers : proc'[s] = "stopping" => proc[s] = "stopping"
      BY <1>3, StoppingEnvironment
    <2>4. \A s \in Servers : Displaced(s) => Displaced(s)'
      BY <2>1 DEF Displaced
    <2>5. \A s \in Servers : result'[s] = "success" /\ proc'[s] = "stopping" /\ pc' \in Early => Displaced(s)'
      BY <2>1, <2>3, <2>4 DEF TakeoverInv
    <2> QED BY <2>1, <2>2, <2>3, <2>5 DEF TakeoverInv
  <1>4. CASE Test \/ StopNext
    <2>1. CASE Test
      BY <2>1 DEF Test, KillServer, TakeoverInv, Displaced, Early, Starting, EntriesInv, ResultOfNext
    <2>2. CASE StopNext
      BY <2>2 DEF StopNext, KillServer, TakeoverInv, Early, Starting
    <2> QED BY <1>4, <2>1, <2>2
  <1>5. ASSUME UNCHANGED baseVars, pc' \in Early => pc \in Early
        PROVE  TakeoverInv'
    <2>1. \A s \in Servers : Displaced(s) => Displaced(s)'
      BY <1>5 DEF Displaced, baseVars, parentVars
    <2> QED BY <1>5, <2>1 DEF TakeoverInv, baseVars, parentVars
  <1>6. CASE Started \/ StartRaised \/ TestRaises \/ StartAborted \/ StartFinished \/ ChameleonStarted
             \/ ChameleonSniffs \/ SnifferRefused \/ StartSniffer \/ SnifferEnds \/ Report
    BY <1>5, <1>6 DEF Started, StartRaised, TestRaises, StartAborted, StartFinished, ChameleonStarted,
                      ChameleonSniffs, SnifferRefused, StartSniffer, SnifferEnds, Report, Early, Starting
  <1>7. CASE BuildFence \/ FenceIsDown \/ Enter \/ Interrupt \/ Terminate \/ StopSniffer \/ StopFails
             \/ Stopped \/ AllStopped \/ ExitHandler \/ ChildrenJoined \/ UNCHANGED vars
    BY <1>5, <1>7 DEF BuildFence, FenceIsDown, Enter, Interrupt, Terminate, StopSniffer, StopFails, Stopped,
                      AllStopped, ExitHandler, ChildrenJoined, vars, mainVars, otherVars, Early, Starting
  <1> QED BY <1>1, <1>2, <1>3, <1>4, <1>6, <1>7 DEF Next, Main, User

\* Until the manager stops its servers, a running honeypot is shut down only by the start of
\* another one on its port (base_server.py:63-75, __main__.py:240-247).
THEOREM TakeoversNeedSharedPorts == Spec => []TakeoverNeedsSharedPort
  <1>1. Init => TakeoverInv
    BY ServersAssumption DEF Init, BaseInit, TakeoverInv, Procs
  <1>2. Spec => [](TypeOK /\ OwnTypeOK /\ SocketsOwned /\ MethodConsistent)
    BY ManagerIsAScript, TypeCorrect, OwnTypeCorrect, SocketsAlwaysOwned, MethodAlwaysConsistent, PTL
  <1>3. StopInv => InCall
    BY DEF StopInv
  <1>4. Spec => [](InCall /\ EntriesInv)
    BY <1>2, <1>3, StopInit, StopStep, EntriesInit, EntriesStep, PTL DEF Spec
  <1>5. Spec => []TakeoverInv
    BY <1>1, <1>2, <1>4, TakeoverStep, PTL DEF Spec
  <1>6. TakeoverInv => TakeoverNeedsSharedPort
    BY DEF TakeoverInv, TakeoverNeedsSharedPort, Displaced, Early
  <1> QED BY <1>5, <1>6, PTL
===============================================================================
