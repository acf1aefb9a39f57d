---------------------------- MODULE SshServerProofs ----------------------------
(***************************************************************************)
(* Proofs about SshServer, for any clients, credentials, keys and options: *)
(* its variables have their types, nobody runs a command or gets a shell   *)
(* without a login in the log, and of what ANSI_REGEX leaves of a session  *)
(* nothing but white space is lost on its way to the log.                  *)
(***************************************************************************)
EXTENDS SshServer, LogsProofs

-------------------------------------------------------------------------------
\* The positions in a log at which something is the case: one more or none.
LEMMA PositionsGrow ==
    ASSUME NEW n \in Nat, NEW P, P \subseteq 1 .. n
    PROVE  /\ IsFiniteSet(P) /\ Cardinality(P) \in Nat
           /\ Cardinality(P \union {n + 1}) = Cardinality(P) + 1
  <1>1. IsFiniteSet(1 .. n)
    BY FS_Interval
  <1>2. IsFiniteSet(P)
    BY <1>1, FS_Subset
  <1>3. n + 1 \notin P
    OBVIOUS
  <1> QED BY <1>2, <1>3, FS_AddElement, FS_CardinalityType

-------------------------------------------------------------------------------
LoginsAt(c) == {i \in DOMAIN events[c] : events[c][i].action = "login"}
Grants(e) ==
    /\ e.action = "login"
    /\ e.status = "success" \/ (e.status = "none" /\ e.secret \in Keys)
IsUse(e) == e.action \in {"command", "interactive"}

\* Where the thread is during a session.
InSession == {"welcome", "prompt", "receiving"}

\* The log holds a login that lets the client in.
Authorised(c) == \E i \in DOMAIN events[c] : Grants(events[c][i])

\* The two halves of CommandsNeedLogin, for one connection.
TriesLogged(c) == Cardinality(LoginsAt(c)) = Len(tries[c])
UsesAfterLogin(c) ==
    \A i \in DOMAIN events[c] : IsUse(events[c][i]) =>
        \E j \in 1 .. i - 1 : Grants(events[c][j])

LogsOK ==
    /\ Sequences(Conns, events) /\ Sequences(Conns, tries) /\ Sequences(Conns, typed)

\* How a client gets from a login to a channel, and from there to a shell: what makes
\* CommandsNeedLogin inductive.
StagesOK ==
    \A c \in Conns :
        /\ authenticated[c] \/ channel[c] # "none" => Authorised(c)
        /\ thread[c] \in InSession => channel[c] # "none"

SshInv ==
    /\ TypeOK /\ LogsOK /\ StagesOK
    /\ \A c \in Conns : TriesLogged(c) /\ UsesAfterLogin(c)

\* The halves make the whole.
LEMMA Halves == (\A c \in Conns : TriesLogged(c) /\ UsesAfterLogin(c)) => CommandsNeedLogin
  BY DEF CommandsNeedLogin, TriesLogged, UsesAfterLogin, LoginsAt, IsUse, Grants

-------------------------------------------------------------------------------
\* What one more entry does to a log: it counts if it is a login, it takes no login away,
\* and it may be a use if a login is there already.
LEMMA NewEvent ==
    ASSUME NEW c \in Conns, NEW e, LogsOK, Log(c, e)
    PROVE  /\ Sequences(Conns, events)'
           /\ \A d \in Conns : Authorised(d) => Authorised(d)'
           /\ Grants(e) => Authorised(c)'
           /\ \A d \in Conns \ {c} : LoginsAt(d)' = LoginsAt(d)
           /\ e.action = "login" =>
                  Cardinality(LoginsAt(c)') = Cardinality(LoginsAt(c)) + 1
           /\ e.action # "login" => LoginsAt(c)' = LoginsAt(c)
           /\ (\A d \in Conns : UsesAfterLogin(d)) /\ (IsUse(e) => Authorised(c))
                  => \A d \in Conns : UsesAfterLogin(d)'
  <1> DEFINE n == Len(events[c])
  <1>1. /\ Sequences(Conns, events')
        /\ n \in Nat /\ DOMAIN events[c] = 1 .. n /\ DOMAIN events'[c] = 1 .. n + 1
        /\ \A i \in 1 .. n : events'[c][i] = events[c][i]
        /\ events'[c][n + 1] = e
        /\ \A d \in Conns \ {c} : events'[d] = events[d]
    <2>1. Sequences(Conns, events) /\ Appended(events, c, e, events')
      BY DEF Log, LogsOK, Appended
    <2> QED BY <2>1, LogAppends
  <1> HIDE DEF n
  <1>2. \A d \in Conns \ {c} :
            /\ Authorised(d)' <=> Authorised(d)
            /\ LoginsAt(d)' = LoginsAt(d)
            /\ UsesAfterLogin(d)' <=> UsesAfterLogin(d)
    BY <1>1 DEF Authorised, LoginsAt, UsesAfterLogin
  <1>3. Authorised(c) => Authorised(c)'
    BY <1>1 DEF Authorised
  <1>4. Grants(e) => Authorised(c)'
    BY <1>1 DEF Authorised
  <1>5. LoginsAt(c) \subseteq 1 .. n
    BY <1>1 DEF LoginsAt
  <1>6. e.action # "login" => LoginsAt(c)' = LoginsAt(c)
    BY <1>1 DEF LoginsAt
  <1>7. e.action = "login" => LoginsAt(c)' = LoginsAt(c) \union {n + 1}
    BY <1>1 DEF LoginsAt
  <1>8. e.action = "login" => Cardinality(LoginsAt(c)') = Cardinality(LoginsAt(c)) + 1
    BY <1>1, <1>5, <1>7, PositionsGrow
  <1>9. UsesAfterLogin(c) /\ (IsUse(e) => Authorised(c)) => UsesAfterLogin(c)'
    <2> SUFFICES ASSUME UsesAfterLogin(c), IsUse(e) => Authorised(c),
                        NEW i \in DOMAIN events'[c], IsUse(events'[c][i])
                 PROVE  \E j \in 1 .. i - 1 : Grants(events'[c][j])
      BY DEF UsesAfterLogin
    <2>1. CASE i \in 1 .. n
      <3>1. PICK j \in 1 .. i - 1 : Grants(events[c][j])
        BY <1>1, <2>1 DEF UsesAfterLogin
      <3>2. j \in 1 .. i - 1 /\ j \in 1 .. n
        BY <1>1, <2>1
      <3>3. events'[c][j] = events[c][j]
        BY <1>1, <3>2
      <3> QED BY <3>1, <3>2, <3>3
    <2>2. CASE i = n + 1
      <3>1. PICK j \in 1 .. n : Grants(events[c][j])
        BY <1>1, <2>2 DEF Authorised
      <3> QED BY <1>1, <2>2, <3>1
    <2> QED BY <1>1, <2>1, <2>2
  <1> QED BY <1>1, <1>2, <1>3, <1>4, <1>6, <1>8, <1>9

\* Steps that neither log nor look at a login keep the halves and the logins.
LEMMA NoEvent ==
    ASSUME UNCHANGED <<events, tries>>
    PROVE  \A c \in Conns :
               /\ Authorised(c)' <=> Authorised(c)
               /\ TriesLogged(c)' <=> TriesLogged(c)
               /\ UsesAfterLogin(c)' <=> UsesAfterLogin(c)
  BY DEF Authorised, TriesLogged, UsesAfterLogin, LoginsAt

-------------------------------------------------------------------------------
\* Counting a failure keeps the types of the counter and of the transport.
LEMMA CountTypes ==
    ASSUME TypeOK, NEW c \in Conns, NEW n \in {0, 1}, Count(c, n)
    PROVE  /\ failures' \in [Conns -> Nat]
           /\ transport' \in [Conns -> {"none", "negotiating", "active", "down"}]
  BY DEF TypeOK, Count

\* A password or a key: one more login in the log, and one more try.  It lets in
\* only if the entry is one that grants.
LEMMA TriedKeeps ==
    ASSUME SshInv, NEW c \in Conns, NEW user, NEW secret, NEW result, NEW event,
           event.action = "login", result = "successful" => Grants(event),
           Tried(c, user, secret, result, event)
    PROVE  SshInv'
  <1>1. Log(c, event) /\ LogsOK
    BY DEF Tried, SshInv
  <1>2. /\ Sequences(Conns, events)'
        /\ \A d \in Conns : Authorised(d) => Authorised(d)'
        /\ Grants(event) => Authorised(c)'
        /\ \A d \in Conns \ {c} : LoginsAt(d)' = LoginsAt(d)
        /\ Cardinality(LoginsAt(c)') = Cardinality(LoginsAt(c)) + 1
        /\ \A d \in Conns : UsesAfterLogin(d)'
    <2>1. ~IsUse(event) /\ \A d \in Conns : UsesAfterLogin(d)
      BY DEF IsUse, SshInv
    <2> QED BY <1>1, <2>1, NewEvent
  <1>3. /\ Sequences(Conns, tries') /\ Len(tries'[c]) = Len(tries[c]) + 1
        /\ \A d \in Conns \ {c} : tries'[d] = tries[d]
    <2>1. Sequences(Conns, tries)
      BY <1>1 DEF LogsOK
    <2> DEFINE e == [user |-> user, secret |-> secret]
    <2>2. Appended(tries, c, e, tries')
      BY DEF Tried, Appended
    <2> HIDE DEF e
    <2> QED BY <2>1, <2>2, LogAppends
  <1>4. LogsOK'
    BY <1>1, <1>2, <1>3 DEF LogsOK, Tried, shell
  <1>5. TypeOK'
    <2>1. PICK n \in {0, 1} : Count(c, n)
      BY DEF Tried
    <2>2. /\ failures' \in [Conns -> Nat]
          /\ transport' \in [Conns -> {"none", "negotiating", "active", "down"}]
      BY <2>1, CountTypes DEF SshInv
    <2> QED BY <2>2 DEF SshInv, TypeOK, Tried, shell
  <1>6. StagesOK'
    BY <1>2 DEF InSession, SshInv, TypeOK, StagesOK, Tried
  <1>7. \A d \in Conns : TriesLogged(d)'
    BY <1>2, <1>3 DEF SshInv, TriesLogged
  <1> QED BY <1>2, <1>4, <1>5, <1>6, <1>7 DEF SshInv

\* The end of a connection's thread, wherever it was.
LEMMA CloseKeeps ==
    ASSUME SshInv, NEW c \in Conns, Close(c), UNCHANGED <<client, line, taken, events>>
    PROVE  SshInv'
  <1>1. TypeOK' /\ LogsOK'
    BY DEF SshInv, TypeOK, LogsOK, Close, Goto, client
  <1>2. StagesOK'
    BY NoEvent DEF InSession, SshInv, TypeOK, StagesOK, Close, Goto, client
  <1>3. \A d \in Conns : TriesLogged(d)' /\ UsesAfterLogin(d)'
    BY NoEvent DEF SshInv, client
  <1> QED BY <1>1, <1>2, <1>3 DEF SshInv

-------------------------------------------------------------------------------
(* The steps of the client, through the transport thread *)

LEMMA ClientKeeps == ASSUME SshInv, NEW c \in Conns, ClientStep(c) PROVE SshInv'
  <1>1. ASSUME NEW u \in Users, NEW p \in Passwords, CheckAuthPassword(c, u, p)
        PROVE  SshInv'
    <2> DEFINE ok == <<u, p>> = Configured
               status == IF ok THEN "success" ELSE "failed"
               result == IF ok THEN "successful" ELSE "failed"
               event == [action |-> "login", username |-> u, secret |-> p,
                         status |-> status]
    <2>1. Tried(c, u, p, result, event)
      BY <1>1 DEF CheckAuthPassword
    <2>2. event.action = "login" /\ (result = "successful" => Grants(event))
      BY DEF Grants
    <2> HIDE DEF result, event
    <2> QED BY <2>1, <2>2, TriedKeeps
  <1>2. ASSUME NEW u \in Users, NEW k \in Keys, NEW r \in {"probe", "valid", "invalid"},
               CheckAuthPublickey(c, u, k, r)
        PROVE  SshInv'
    <2> DEFINE results == [probe |-> "acceptable", valid |-> "successful",
                           invalid |-> "failed"]
               result == results[r]
               event == [action |-> "login", username |-> u, secret |-> k,
                         status |-> "none"]
    <2>1. Tried(c, u, k, result, event)
      BY <1>2 DEF CheckAuthPublickey
    <2>2. event.action = "login" /\ Grants(event)
      BY DEF Grants
    <2> HIDE DEF result, event
    <2> QED BY <2>1, <2>2, TriedKeeps
  <1>6. CASE CheckAuthDefault(c)
    <2>1. TypeOK'
      BY <1>6, CountTypes DEF SshInv, TypeOK, CheckAuthDefault, shell
    <2>2. UNCHANGED <<events, tries, typed, thread, authenticated, channel>>
      BY <1>6 DEF CheckAuthDefault, shell
    <2>3. LogsOK'
      BY <2>2 DEF SshInv, LogsOK
    <2>4. StagesOK'
      BY <2>2, NoEvent DEF SshInv, StagesOK
    <2>5. \A d \in Conns : TriesLogged(d)' /\ UsesAfterLogin(d)'
      BY <2>2, NoEvent DEF SshInv
    <2> QED BY <2>1, <2>3, <2>4, <2>5 DEF SshInv
  <1>3. CASE CheckChannelRequest(c)
    <2>1. TypeOK' /\ LogsOK'
      BY <1>3 DEF SshInv, TypeOK, LogsOK, CheckChannelRequest, shell
    <2>2. StagesOK'
      BY <1>3, NoEvent DEF InSession, SshInv, TypeOK, StagesOK, CheckChannelRequest
    <2>3. \A d \in Conns : TriesLogged(d)' /\ UsesAfterLogin(d)'
      BY <1>3, NoEvent DEF SshInv, CheckChannelRequest
    <2> QED BY <2>1, <2>2, <2>3 DEF SshInv
  <1>4. ASSUME NEW command \in Commands, CheckChannelExecRequest(c, command)
        PROVE  SshInv'
    <2> DEFINE event == [action |-> "command", data |-> command]
    <2>1. TypeOK'
      BY <1>4 DEF SshInv, TypeOK, CheckChannelExecRequest, client
    <2>2. Authorised(c)
      BY <1>4 DEF SshInv, StagesOK, CheckChannelExecRequest
    <2>3. /\ Log(c, event) /\ event.action # "login" /\ LogsOK
          /\ \A d \in Conns : UsesAfterLogin(d)
      BY <1>4 DEF SshInv, CheckChannelExecRequest
    <2> HIDE DEF event
    <2>4. /\ Sequences(Conns, events)'
          /\ \A d \in Conns : Authorised(d) => Authorised(d)'
          /\ \A d \in Conns : LoginsAt(d)' = LoginsAt(d)
          /\ \A d \in Conns : UsesAfterLogin(d)'
      BY <2>2, <2>3, NewEvent
    <2>5. LogsOK'
      BY <1>4, <2>3, <2>4 DEF LogsOK, CheckChannelExecRequest, client
    <2>6. StagesOK'
      BY <1>4, <2>4 DEF InSession, SshInv, StagesOK, CheckChannelExecRequest, client
    <2>7. \A d \in Conns : TriesLogged(d)'
      BY <1>4, <2>4 DEF SshInv, TriesLogged, CheckChannelExecRequest, client
    <2> QED BY <2>1, <2>4, <2>5, <2>6, <2>7 DEF SshInv
  <1>5. ASSUME NEW piece \in Pieces, Type(c, piece)
        PROVE  SshInv'
    <2>1. Sequences(Conns, typed) /\ Appended(typed, c, piece, typed')
      BY <1>5 DEF SshInv, LogsOK, Type, Appended
    <2>2. /\ Sequences(Conns, typed')
          /\ \A d \in Conns : Len(typed[d]) \in Nat /\ Len(typed'[d]) \in Nat
          /\ Len(typed'[c]) = Len(typed[c]) + 1
          /\ \A d \in Conns \ {c} : typed'[d] = typed[d]
      <3>1. /\ Sequences(Conns, typed') /\ Len(typed'[c]) = Len(typed[c]) + 1
            /\ \A d \in Conns \ {c} : typed'[d] = typed[d]
        BY <2>1, LogAppends
      <3>2. \A d \in Conns : Len(typed[d]) \in Nat
        BY <2>1, LogDomain
      <3>3. \A d \in Conns : Len(typed'[d]) \in Nat
        BY <3>1, LogDomain
      <3> QED BY <3>1, <3>2, <3>3
    <2>3. TypeOK'
      <3>0. \A d \in Conns : taken[d] \in 0 .. Len(typed[d])
        BY DEF SshInv, TypeOK
      <3>1. \A d \in Conns : taken[d] \in 0 .. Len(typed'[d])
        BY <2>2, <3>0
      <3> QED BY <1>5, <3>1 DEF SshInv, TypeOK, Type
    <2>4. LogsOK'
      BY <1>5, <2>2 DEF SshInv, LogsOK, Type
    <2>5. StagesOK'
      BY <1>5, NoEvent DEF InSession, SshInv, StagesOK, Type
    <2>6. \A d \in Conns : TriesLogged(d)' /\ UsesAfterLogin(d)'
      BY <1>5, NoEvent DEF SshInv, Type
    <2> QED BY <2>3, <2>4, <2>5, <2>6 DEF SshInv
  <1> QED BY <1>1, <1>2, <1>3, <1>4, <1>5, <1>6 DEF ClientStep

-------------------------------------------------------------------------------
(* The steps of the connection's thread *)

\* Steps that change the thread, the transport, the line and the pieces taken only, and
\* start a shell only where there is a channel.
LEMMA QuietKeeps ==
    ASSUME SshInv, NEW c \in Conns, UNCHANGED <<client, events>>, TypeOK',
           \A d \in Conns : thread'[d] \in InSession => channel[d] # "none"
    PROVE  SshInv'
  <1>1. LogsOK'
    BY DEF SshInv, LogsOK, client
  <1>2. StagesOK'
    BY NoEvent DEF InSession, SshInv, StagesOK, client
  <1>3. \A d \in Conns : TriesLogged(d)' /\ UsesAfterLogin(d)'
    BY NoEvent DEF SshInv, client
  <1> QED BY <1>1, <1>2, <1>3 DEF SshInv

\* A log entry that is no login, of a client that may use the shell if it is a use.
LEMMA LoggedKeeps ==
    ASSUME SshInv, NEW c \in Conns, NEW e, Log(c, e), e.action # "login",
           IsUse(e) => Authorised(c), UNCHANGED client, TypeOK',
           \A d \in Conns : thread'[d] \in InSession => channel[d] # "none"
    PROVE  SshInv'
  <1>1. LogsOK /\ \A d \in Conns : UsesAfterLogin(d)
    BY DEF SshInv
  <1>2. /\ Sequences(Conns, events)'
        /\ \A d \in Conns : Authorised(d) => Authorised(d)'
        /\ \A d \in Conns : LoginsAt(d)' = LoginsAt(d)
        /\ \A d \in Conns : UsesAfterLogin(d)'
    BY <1>1, NewEvent
  <1>3. LogsOK'
    BY <1>1, <1>2 DEF LogsOK, client
  <1>4. StagesOK'
    BY <1>2 DEF InSession, SshInv, StagesOK, client
  <1>5. \A d \in Conns : TriesLogged(d)'
    BY <1>2 DEF SshInv, TriesLogged, client
  <1> QED BY <1>2, <1>3, <1>4, <1>5 DEF SshInv

LEMMA HandlerKeeps ==
    ASSUME SshInv, NEW c \in Conns, HandlerStep(c) \/ Welcome(c)
    PROVE  SshInv'
  <1>1. CASE HasGone(c) \/ NoChannel(c) \/ Waited(c) \/ SendRaises(c)
    BY <1>1, CloseKeeps DEF HasGone, NoChannel, Waited, SendRaises
  <1>2. CASE StartServer(c)
    <2> DEFINE event == [action |-> "connection"]
    <2>1. Log(c, event) /\ event.action # "login" /\ ~IsUse(event)
      BY <1>2 DEF StartServer, IsUse
    <2> HIDE DEF event
    <2>2. TypeOK'
      BY <1>2 DEF SshInv, TypeOK, StartServer, Goto, client
    <2>3. \A d \in Conns : thread'[d] \in InSession => channel[d] # "none"
      BY <1>2 DEF InSession, SshInv, TypeOK, StagesOK, StartServer, Goto
    <2> QED BY <1>2, <2>1, <2>2, <2>3, LoggedKeeps DEF StartServer
  <1>3. CASE Started(c)
    <2>1. TypeOK'
      BY <1>3 DEF SshInv, TypeOK, Started, Close, Goto, client
    <2>2. \A d \in Conns : thread'[d] \in InSession => channel[d] # "none"
      BY <1>3 DEF InSession, SshInv, TypeOK, StagesOK, Started, Close, Goto
    <2> QED BY <1>3, <2>1, <2>2, QuietKeeps DEF Started, client
  <1>4. CASE ChannelAccepted(c)
    <2>1. TypeOK' /\ LogsOK'
      BY <1>4 DEF SshInv, TypeOK, LogsOK, ChannelAccepted, Goto, shell
    <2>2. StagesOK'
      BY <1>4, NoEvent DEF InSession, SshInv, TypeOK, StagesOK, ChannelAccepted, Goto
    <2>3. \A d \in Conns : TriesLogged(d)' /\ UsesAfterLogin(d)'
      BY <1>4, NoEvent DEF SshInv, ChannelAccepted
    <2> QED BY <2>1, <2>2, <2>3 DEF SshInv
  <1>5. CASE Welcome(c) \/ Prompt(c) \/ SessionExpired(c)
    <2>1. TypeOK'
      BY <1>5 DEF SshInv, TypeOK, Welcome, Prompt, SessionExpired, Goto, client
    <2>2. \A d \in Conns : thread'[d] \in InSession => channel[d] # "none"
      BY <1>5 DEF InSession, SshInv, TypeOK, StagesOK, Welcome, Prompt, SessionExpired, Goto
    <2> QED BY <1>5, <2>1, <2>2, QuietKeeps DEF Welcome, Prompt, SessionExpired, client
  <1>6. CASE ReceivePiece(c)
    <2> DEFINE piece == typed[c][taken[c] + 1]
               text == line[c] \o Clean(piece)
               event == [action |-> "interactive", data |-> Strip(text)]
    <2>1. Len(typed[c]) \in Nat
      BY LogDomain DEF SshInv, LogsOK
    <2>2. thread'[c] \in {"waiting", "prompt", "receiving"}
          /\ thread' = [thread EXCEPT ![c] = thread'[c]]
      BY <1>6 DEF SshInv, TypeOK, ReceivePiece, Goto
    <2>3. TypeOK'
      BY <1>6, <2>1, <2>2 DEF SshInv, TypeOK, ReceivePiece, client
    <2>4. channel[c] # "none" /\ Authorised(c)
      BY <1>6 DEF InSession, SshInv, StagesOK, ReceivePiece
    <2>5. \A d \in Conns : thread'[d] \in InSession => channel[d] # "none"
      BY <2>2, <2>4 DEF InSession, SshInv, TypeOK, StagesOK
    <2>6. UNCHANGED client
      BY <1>6 DEF ReceivePiece
    <2>7. UNCHANGED events \/ Log(c, event)
      BY <1>6 DEF ReceivePiece
    <2>8. event.action # "login"
      OBVIOUS
    <2> HIDE DEF event
    <2>9. CASE UNCHANGED events
      BY <2>3, <2>5, <2>6, <2>9, QuietKeeps
    <2>10. CASE Log(c, event)
      BY <2>3, <2>4, <2>5, <2>6, <2>8, <2>10, LoggedKeeps
    <2> QED BY <2>7, <2>9, <2>10
  <1> QED BY <1>1, <1>2, <1>3, <1>4, <1>5, <1>6 DEF HandlerStep

-------------------------------------------------------------------------------
(* The theorems *)

\* SshInv holds at the start and is kept by every step.
LEMMA InitEstablishes == Init => SshInv
  <1> SUFFICES ASSUME Init PROVE SshInv
    OBVIOUS
  <1>1. Sequences(Conns, [c \in Conns |-> <<>>])
    BY EmptyLogs
  <1>2. LogsOK
    BY <1>1 DEF Init, LogsOK
  <1>3. \A c \in Conns : events[c] = <<>> /\ tries[c] = <<>> /\ typed[c] = <<>>
    BY DEF Init
  <1>4. TypeOK /\ StagesOK
    BY <1>3 DEF InSession, Init, TypeOK, StagesOK
  <1>5. \A c \in Conns : LoginsAt(c) = {} /\ UsesAfterLogin(c)
    BY <1>3 DEF LoginsAt, UsesAfterLogin
  <1>6. \A c \in Conns : TriesLogged(c)
    <2>1. Cardinality({}) = 0 /\ Len(<<>>) = 0
      BY FS_EmptySet
    <2>2. \A c \in Conns : Cardinality(LoginsAt(c)) = 0 /\ Len(tries[c]) = 0
      BY <1>3, <1>5, <2>1
    <2> QED BY <2>2 DEF TriesLogged
  <1> QED BY <1>2, <1>4, <1>5, <1>6 DEF SshInv

LEMMA NextKeeps == SshInv /\ [Next]_sshVars => SshInv'
  <1> SUFFICES ASSUME SshInv, [Next]_sshVars PROVE SshInv'
    OBVIOUS
  <1>1. ASSUME NEW c \in Conns, AcceptClient(c) PROVE SshInv'
    <2>1. TypeOK'
      BY <1>1 DEF SshInv, TypeOK, AcceptClient, Goto, client
    <2>2. \A d \in Conns : thread'[d] \in InSession => channel[d] # "none"
      BY <1>1 DEF InSession, SshInv, TypeOK, StagesOK, AcceptClient, Goto
    <2> QED BY <1>1, <2>1, <2>2, QuietKeeps DEF AcceptClient
  <1>2. ASSUME NEW c \in Conns, Negotiated(c) \/ TransportEnds(c) PROVE SshInv'
    <2>1. TypeOK' /\ UNCHANGED <<client, events, thread>>
      BY <1>2 DEF SshInv, TypeOK, Negotiated, TransportEnds, client
    <2>2. \A d \in Conns : thread'[d] \in InSession => channel[d] # "none"
      BY <2>1 DEF InSession, SshInv, StagesOK
    <2> QED BY <1>2, <2>1, <2>2, QuietKeeps
  <1>3. CASE UNCHANGED sshVars
    <2>1. TypeOK' /\ UNCHANGED <<client, events, thread>>
      BY <1>3 DEF SshInv, TypeOK, sshVars, client
    <2>2. LogsOK' /\ StagesOK'
      BY <1>3, NoEvent DEF SshInv, LogsOK, StagesOK, sshVars
    <2>3. \A d \in Conns : TriesLogged(d)' /\ UsesAfterLogin(d)'
      BY <1>3, NoEvent DEF SshInv, sshVars
    <2> QED BY <2>1, <2>2, <2>3 DEF SshInv
  <1> QED BY <1>1, <1>2, <1>3, HandlerKeeps, ClientKeeps DEF Next

\* What the other theorems follow from: the types, and how a client gets from a logged
\* login to a channel and from there to a shell (ssh_server.py:105-200).
THEOREM SshInvariant == Spec => []SshInv
  <1> QED BY InitEstablishes, NextKeeps, PTL DEF Spec

\* The state of every connection has its type; no more pieces are taken than were sent
\* (ssh_server.py:142-259).
THEOREM SshTypeCorrect == Spec => []TypeOK
  <1>1. SshInv => TypeOK
    BY DEF SshInv
  <1> QED BY <1>1, SshInvariant, PTL

\* Every password and every key presented is in the log, and nobody runs a command or gets a
\* shell without an earlier login there that grants it, whatever the clients, the
\* credentials, the options and the interleaving (ssh_server.py:103-136).
THEOREM CommandsAlwaysNeedLogin == Spec => []CommandsNeedLogin
  <1>1. SshInv => CommandsNeedLogin
    BY Halves DEF SshInv
  <1> QED BY <1>1, SshInvariant, PTL

-------------------------------------------------------------------------------
(* The log of a session *)

\* What clients send in one piece: a sequence of keys, which are texts.
Texts == Seq(STRING)
PiecesAreTexts == Pieces \subseteq Texts

\* The lines in the log, the keys in them, and the keys that were received.
Dialogue(c) ==
    LET lines == Matching(events[c], "interactive")
    IN  [i \in DOMAIN lines |-> lines[i].data]
Logged(c) == Ink(Joined(Dialogue(c)))
Got(c) == Ink(Joined(Cleaned(c)))

Early == {"none", "start", "negotiating", "accepting"}
Fresh == {"welcome", "prompt"}

\* What makes SessionIsLogged inductive: nothing was received before the session, and a
\* line begins empty.
SessionOK(c) ==
    /\ typed[c] \in Seq(Texts) /\ Dialogue(c) \in Seq(Texts)
    /\ thread[c] \in Early => line[c] = <<>> /\ taken[c] = 0 /\ Dialogue(c) = <<>>
    /\ thread[c] \in Fresh => line[c] = <<>>
    /\ thread[c] \in InSession => Logged(c) \o Ink(line[c]) = Got(c)
    /\ IsPrefix(Logged(c), Got(c))

SessionInv ==
    /\ line \in [Conns -> Texts] /\ taken \in [Conns -> Nat]
    /\ \A c \in Conns : SessionOK(c)

\* It says what SessionIsLogged says.
LEMMA SessionsAreLogged == SessionInv => SessionIsLogged
  BY DEF SessionInv, SessionOK, SessionIsLogged, Logged, Got, Dialogue, InSession

LEMMA PrefixOfConcat ==
    ASSUME NEW S, NEW s \in Seq(S), NEW t \in Seq(S)
    PROVE  IsPrefix(s, s \o t)
  <1>1. /\ Len(s) \in Nat /\ Len(t) \in Nat /\ s \o t \in Seq(S)
        /\ Len(s \o t) = Len(s) + Len(t)
        /\ \A i \in 1 .. Len(s) : s[i] \in S /\ (s \o t)[i] = s[i] /\ (s \o t)[i] \in S
    BY ConcatProperties
  <1> DEFINE u == s \o t
             n == Len(s)
             a == SubSeq(s, 1, n)
             b == SubSeq(u, 1, n)
  <1> HIDE DEF u
  <1>2. n \in Int /\ 1 \in Int
    BY <1>1
  <1>3. /\ a \in Seq(S) /\ Len(a) = (IF 1 <= n THEN n - 1 + 1 ELSE 0)
        /\ \A i \in 1 .. n - 1 + 1 : a[i] = s[1 + i - 1]
    BY <1>1, <1>2, SubSeqProperties
  <1>4. /\ b \in Seq(S) /\ Len(b) = (IF 1 <= n THEN n - 1 + 1 ELSE 0)
        /\ \A i \in 1 .. n - 1 + 1 : b[i] = u[1 + i - 1]
    BY <1>1, <1>2, SubSeqProperties DEF u
  <1>5. Len(a) = Len(b) /\ \A i \in 1 .. Len(a) : a[i] = b[i]
    BY <1>1, <1>3, <1>4 DEF u
  <1>6. a = b
    BY <1>3, <1>4, <1>5, SeqEqual
  <1>7. Len(s) <= Len(u)
    BY <1>1 DEF u
  <1> QED BY <1>6, <1>7 DEF IsPrefix, u

LEMMA InkProperties ==
    ASSUME NEW s \in Texts, NEW t \in Texts
    PROVE  /\ Ink(s) \in Texts /\ Ink(<<>>) = <<>>
           /\ Ink(s \o t) = Ink(s) \o Ink(t)
           /\ Clean(s) \in Texts
  <1>1. Ink(s) \in Texts
    BY DroppingType DEF Ink, Texts
  <1>2. Clean(s) \in Texts
    BY AtType DEF Clean, Texts
  <1>3. Ink(<<>>) = <<>>
    BY DroppingEmpty DEF Ink
  <1>4. Ink(s \o t) = Ink(s) \o Ink(t)
    BY DroppingConcat DEF Ink, Texts
  <1> QED BY <1>1, <1>2, <1>3, <1>4

\* White space is no ink.
LEMMA NoInk ==
    ASSUME NEW s \in Texts, \A i \in 1 .. Len(s) : s[i] \in White
    PROVE  Ink(s) = <<>>
  <1> DEFINE n == Len(s)
  <1>1. n \in Nat /\ s \in [1 .. n -> STRING] /\ s = [i \in 1 .. n |-> s[i]]
    BY LenProperties DEF Texts
  <1> HIDE DEF n
  <1>2. \A i \in 1 .. n : s[i] \in White
    BY DEF n
  <1>3. s \in [1 .. n -> White]
    BY <1>1, <1>2
  <1>4. s \in Seq(White)
    BY <1>1, <1>3, FunctionIsSequence
  <1> QED BY <1>4, DroppingAll DEF Ink

\* A set of numbers up to n has a smallest and a greatest one.
LEMMA Ends ==
    ASSUME NEW n \in Nat, NEW I, I \subseteq 1 .. n, I # {}
    PROVE  /\ \E i \in I : \A j \in I : i <= j
           /\ \E i \in I : \A j \in I : j <= i
  <1>1. \E i \in I : \A j \in I : i <= j
    <2>1. I \in SUBSET Nat
      OBVIOUS
    <2> QED BY <2>1, LeastElement
  <1>2. \E i \in I : \A j \in I : j <= i
    <2> DEFINE T == {n - i : i \in I}
    <2>1. T \in SUBSET Nat /\ T # {}
      <3>1. PICK k : k \in I
        OBVIOUS
      <3>2. n - k \in T
        BY <3>1
      <3>3. \A i \in I : n - i \in Nat
        OBVIOUS
      <3> QED BY <3>2, <3>3
    <2>2. PICK x \in T : \A y \in T : x <= y
      BY <2>1, LeastElement
    <2>3. PICK i \in I : x = n - i
      BY <2>2
    <2>4. \A j \in I : n - i <= n - j /\ i \in Nat /\ j \in Nat
      BY <2>2, <2>3
    <2>5. \A j \in I : j <= i
      BY <2>4
    <2> QED BY <2>5
  <1> QED BY <1>1, <1>2

LEMMA StripKeepsInk ==
    ASSUME NEW s \in Texts
    PROVE  Strip(s) \in Texts /\ Ink(Strip(s)) = Ink(s)
  <1> DEFINE n == Len(s)
             ink == {i \in DOMAIN s : s[i] \notin White}
  <1>1. n \in Nat /\ DOMAIN s = 1 .. n /\ s \in Seq(STRING) /\ \A i \in 1 .. n : s[i] \in STRING
    BY DEF Texts
  <1>2. CASE ink = {}
    <2>1. Strip(s) = <<>>
      BY <1>2 DEF Strip
    <2>2. \A i \in 1 .. Len(s) : s[i] \in White
      BY <1>1, <1>2
    <2>3. Ink(s) = <<>>
      BY <2>2, NoInk
    <2>4. <<>> \in Texts
      BY EmptySeq DEF Texts
    <2>5. Strip(s) \in Texts
      BY <2>1, <2>4, Zenon
    <2> HIDE DEF ink
    <2> QED BY <2>1, <2>3, <2>5, InkProperties
  <1>3. CASE ink # {}
    <2> DEFINE a == Earliest(ink)
               b == Latest(ink)
    <2>1. ink \subseteq 1 .. n
      BY <1>1
    <2>2. /\ a \in ink /\ \A j \in ink : a <= j
          /\ b \in ink /\ \A j \in ink : j <= b
      <3> HIDE DEF ink, n
      <3>1. /\ \E i \in ink : \A j \in ink : i <= j
            /\ \E i \in ink : \A j \in ink : j <= i
        BY <1>1, <1>3, <2>1, Ends
      <3> QED BY <3>1 DEF Earliest, Latest
    <2>3. Strip(s) = SubSeq(s, a, b)
      BY <1>3 DEF Strip
    <2> HIDE DEF a, b
    <2>4. /\ a \in 1 .. n /\ b \in 1 .. n /\ a <= b
          /\ \A i \in 1 .. a - 1 : s[i] \in White
          /\ \A i \in b + 1 .. n : s[i] \in White
      BY <1>1, <2>1, <2>2
    <2> HIDE DEF ink
    <2> DEFINE x == SubSeq(s, 1, a - 1)
               y == SubSeq(s, a, b)
               z == SubSeq(s, b + 1, n)
    <2>5. x \in Texts /\ Ink(x) = <<>>
      <3>1. 1 \in Int /\ a - 1 \in Int /\ \A i \in 1 .. a - 1 : s[i] \in STRING
        BY <1>1, <2>4
      <3>2. /\ x \in Seq(STRING) /\ Len(x) = (IF 1 <= a - 1 THEN a - 1 - 1 + 1 ELSE 0)
            /\ \A i \in 1 .. a - 1 - 1 + 1 : x[i] = s[1 + i - 1]
        BY <3>1, SubSeqProperties
      <3> HIDE DEF x
      <3>3. \A i \in 1 .. Len(x) : x[i] \in White
        BY <1>1, <2>4, <3>2
      <3>4. x \in Texts
        BY <3>2 DEF Texts
      <3> QED BY <3>3, <3>4, NoInk
    <2>6. z \in Texts /\ Ink(z) = <<>>
      <3>1. n \in Int /\ b + 1 \in Int /\ \A i \in b + 1 .. n : s[i] \in STRING
        BY <1>1, <2>4
      <3>2. /\ z \in Seq(STRING) /\ Len(z) = (IF b + 1 <= n THEN n - (b + 1) + 1 ELSE 0)
            /\ \A i \in 1 .. n - (b + 1) + 1 : z[i] = s[(b + 1) + i - 1]
        BY <3>1, SubSeqProperties
      <3> HIDE DEF z
      <3> HIDE DEF n
      <3>3. Len(z) = n - b
        <4>1. n \in Nat /\ b \in Nat /\ b <= n
          BY <1>1, <2>4
        <4> QED BY <3>2, <4>1
      <3>4. ASSUME NEW i \in 1 .. n - b PROVE z[i] \in White
        <4>1. i \in 1 .. n - (b + 1) + 1 /\ (b + 1) + i - 1 = b + i /\ b + i \in b + 1 .. n
          BY <1>1, <2>4
        <4>2. z[i] = s[b + i]
          BY <3>2, <4>1
        <4> QED BY <2>4, <4>1, <4>2
      <3>5. z \in Texts
        BY <3>2 DEF Texts
      <3> QED BY <3>3, <3>4, <3>5, NoInk
    <2>7. y \in Texts
      <3>1. a \in Int /\ b \in Int /\ \A i \in a .. b : s[i] \in STRING
        BY <1>1, <2>4
      <3> QED BY <3>1, SubSeqProperties DEF Texts
    <2>8. x \o y = SubSeq(s, 1, b)
      <3>1. 1 \in 1 .. Len(s) + 1 /\ a - 1 \in 1 - 1 .. Len(s) /\ b \in a - 1 .. Len(s)
            /\ (a - 1) + 1 = a
        BY <1>1, <2>4
      <3> QED BY <1>1, <3>1, ConcatAdjacentSubSeq
    <2>9. SubSeq(s, 1, b) \o z = s
      <3>1. 1 \in 1 .. Len(s) + 1 /\ b \in 1 - 1 .. Len(s) /\ n \in b .. Len(s)
        BY <1>1, <2>4
      <3>2. SubSeq(s, 1, b) \o z = SubSeq(s, 1, n)
        BY <1>1, <3>1, ConcatAdjacentSubSeq
      <3> QED BY <1>1, <3>2, SubSeqFull
    <2>10. Ink(s) = (Ink(x) \o Ink(y)) \o Ink(z)
      <3> HIDE DEF x, y, z
      <3>1. x \o y \in Texts
        BY <2>5, <2>7, ConcatProperties DEF Texts
      <3>2. Ink((x \o y) \o z) = Ink(x \o y) \o Ink(z)
        BY <2>6, <3>1, InkProperties
      <3>3. Ink(x \o y) = Ink(x) \o Ink(y)
        BY <2>5, <2>7, InkProperties
      <3> QED BY <2>8, <2>9, <3>2, <3>3
    <2>11. Ink(s) = Ink(y)
      <3> HIDE DEF x, y, z
      <3>1. Ink(y) \in Seq(STRING)
        BY <2>7, InkProperties DEF Texts
      <3>2. <<>> \o Ink(y) = Ink(y) /\ Ink(y) \o <<>> = Ink(y)
        BY <3>1, ConcatEmptySeq
      <3> QED BY <2>5, <2>6, <2>10, <3>2
    <2> QED BY <2>3, <2>7, <2>11
  <1> QED BY <1>2, <1>3
-------------------------------------------------------------------------------
\* A line is logged, or something else is.
LEMMA NewLine ==
    ASSUME LogsOK, NEW c \in Conns, NEW d, Log(c, [action |-> "interactive", data |-> d]),
           Dialogue(c) \in Seq(Texts), d \in Texts
    PROVE  /\ Dialogue(c)' = Append(Dialogue(c), d)
           /\ \A o \in Conns \ {c} : Dialogue(o)' = Dialogue(o)
  <1> DEFINE e == [action |-> "interactive", data |-> d]
             lines == Matching(events[c], "interactive")
             more == Matching(events'[c], "interactive")
             n == Len(lines)
  <1>1. e.action = "interactive" /\ e.data = d
    OBVIOUS
  <1>2. Sequences(Conns, events) /\ Appended(events, c, e, events')
    BY DEF LogsOK, Log, Appended
  <1> HIDE DEF e
  <1>3. /\ \A o \in Conns \ {c} : events'[o] = events[o]
        /\ \E S : events[c] \in Seq(S) /\ e \in S /\ events'[c] = Append(events[c], e)
    BY <1>2, LogAppends
  <1>4. PICK S : events[c] \in Seq(S) /\ e \in S /\ events'[c] = Append(events[c], e)
    BY <1>3
  <1>5. lines \in Seq(S) /\ more = Append(lines, e)
    BY <1>1, <1>4, MatchingAppend, MatchingType
  <1> HIDE DEF lines, more
  <1>6. /\ n \in Nat /\ DOMAIN lines = 1 .. n /\ DOMAIN more = 1 .. n + 1
        /\ more[n + 1] = e /\ \A i \in 1 .. n : more[i] = lines[i]
    BY <1>4, <1>5, AppendProperties
  <1> HIDE DEF n
  <1> DEFINE f == [i \in 1 .. n + 1 |-> more[i].data]
             g == [i \in 1 .. n |-> lines[i].data]
  <1>7. f = Append(g, f[n + 1])
    <2>1. f = [i \in 1 .. n + 1 |-> f[i]]
      OBVIOUS
    <2>2. g = [i \in 1 .. n |-> f[i]]
      BY <1>6
    <2> HIDE DEF f, g
    <2> QED BY <1>6, <2>1, <2>2, OneMore
  <1>8. f[n + 1] = d
    BY <1>1, <1>6
  <1>9. Dialogue(c)' = f /\ Dialogue(c) = g
    BY <1>6 DEF Dialogue, lines, more
  <1>10. \A o \in Conns \ {c} : Dialogue(o)' = Dialogue(o)
    BY <1>3 DEF Dialogue
  <1> QED BY <1>7, <1>8, <1>9, <1>10

LEMMA NoLine ==
    ASSUME LogsOK, NEW c \in Conns, NEW e, Log(c, e), e.action # "interactive"
    PROVE  \A o \in Conns : Dialogue(o)' = Dialogue(o)
  <1>1. Sequences(Conns, events) /\ Appended(events, c, e, events')
    BY DEF LogsOK, Log, Appended
  <1>2. /\ \A o \in Conns \ {c} : events'[o] = events[o]
        /\ \E S : events[c] \in Seq(S) /\ e \in S /\ events'[c] = Append(events[c], e)
    BY <1>1, LogAppends
  <1>3. Matching(events'[c], "interactive") = Matching(events[c], "interactive")
    BY <1>2, MatchingAppend
  <1> QED BY <1>2, <1>3 DEF Dialogue

\* Steps that neither log a line nor receive a piece, and start a session only with an
\* empty line.
LEMMA CalmKeeps ==
    ASSUME SessionInv, line' = line, taken' = taken,
           \A d \in Conns : /\ Dialogue(d)' = Dialogue(d) /\ Got(d)' = Got(d)
                            /\ typed'[d] \in Seq(Texts)
                            /\ thread'[d] \in Early => thread[d] \in Early
                            /\ thread'[d] \in InSession => thread[d] \in InSession \union {"accepting"}
                            /\ thread'[d] \in Fresh => thread[d] \in Fresh \union {"accepting"}
    PROVE  SessionInv'
  <1> SUFFICES ASSUME NEW d \in Conns PROVE SessionOK(d)'
    BY DEF SessionInv
  <1>1. SessionOK(d) /\ line[d] \in Texts
    BY DEF SessionInv
  <1>2. Logged(d)' = Logged(d)
    BY DEF Logged
  <1>3. thread[d] = "accepting" => Logged(d) \o Ink(line[d]) = Got(d)
    <2> SUFFICES ASSUME thread[d] = "accepting" PROVE Logged(d) \o Ink(line[d]) = Got(d)
      OBVIOUS
    <2>1. line[d] = <<>> /\ taken[d] = 0 /\ Dialogue(d) = <<>>
      BY <1>1 DEF SessionOK, Early
    <2>2. Cleaned(d) = <<>>
      BY <2>1 DEF Cleaned
    <2>3. Ink(<<>>) = <<>>
      BY DroppingEmpty DEF Ink
    <2>4. Logged(d) = <<>> /\ Ink(line[d]) = <<>> /\ Got(d) = <<>>
      BY <2>1, <2>2, <2>3, JoinedEmpty DEF Logged, Got
    <2> QED BY <2>4
  <1>4. thread'[d] \in Fresh => line[d] = <<>>
    BY <1>1 DEF SessionOK, Early
  <1>5. thread'[d] \in Early => line[d] = <<>> /\ taken[d] = 0 /\ Dialogue(d) = <<>>
    BY <1>1 DEF SessionOK
  <1>6. thread'[d] \in InSession => Logged(d) \o Ink(line[d]) = Got(d)
    BY <1>1, <1>3 DEF SessionOK
  <1>7. IsPrefix(Logged(d), Got(d))
    BY <1>1 DEF SessionOK
  <1> QED BY <1>1, <1>2, <1>4, <1>5, <1>6, <1>7 DEF SessionOK
\* A piece is received: one more of those typed.
LEMMA OnePieceMore ==
    ASSUME NEW c \in Conns, typed[c] \in Seq(Texts), taken[c] \in Nat, taken[c] < Len(typed[c]),
           UNCHANGED typed, taken'[c] = taken[c] + 1
    PROVE  /\ typed[c][taken[c] + 1] \in Texts
           /\ Got(c) \in Texts
           /\ Got(c)' = Got(c) \o Ink(Clean(typed[c][taken[c] + 1]))
  <1> DEFINE n == taken[c]
             s == typed[c]
             k == Clean(s[n + 1])
             f == [i \in 1 .. n + 1 |-> Clean(s[i])]
             g == [i \in 1 .. n |-> Clean(s[i])]
  <1>1. n \in Nat /\ s[n + 1] \in Texts /\ \A i \in 1 .. n + 1 : s[i] \in Texts
    OBVIOUS
  <1>2. k \in Texts /\ \A i \in 1 .. n : Clean(s[i]) \in Texts
    <2>1. \A t \in Texts : Clean(t) \in Texts
      BY InkProperties
    <2>2. \A i \in 1 .. n : s[i] \in Texts
      BY <1>1
    <2> QED BY <1>1, <2>1, <2>2, Zenon
  <1>3. g \in Seq(Texts)
    <2>1. g \in [1 .. n -> Texts]
      BY <1>2
    <2> HIDE DEF g
    <2> QED BY <1>1, <2>1, FunctionIsSequence
  <1>4. f = Append(g, k)
    <2>1. f = [i \in 1 .. n + 1 |-> f[i]] /\ f[n + 1] = k
      BY <1>1
    <2>2. \A i \in 1 .. n : f[i] = g[i]
      BY <1>1
    <2>3. g = [i \in 1 .. n |-> f[i]]
      BY <2>2
    <2> HIDE DEF f, g, k
    <2> QED BY <1>1, <2>1, <2>3, OneMore
  <1>5. Got(c) = Ink(Joined(g)) /\ Got(c)' = Ink(Joined(f))
    BY DEF Got, Cleaned
  <1> HIDE DEF f, g, k
  <1>6. Joined(g) \in Texts /\ Joined(f) = Joined(g) \o k
    BY <1>2, <1>3, <1>4, JoinedType, JoinedAppend DEF Texts
  <1>7. Ink(Joined(g) \o k) = Ink(Joined(g)) \o Ink(k) /\ Ink(Joined(g)) \in Texts
    BY <1>2, <1>6, InkProperties
  <1> QED BY <1>1, <1>5, <1>6, <1>7 DEF k

\* What a piece adds to the line it adds to what was logged and the line.
LEMMA LongerLine ==
    ASSUME NEW logged \in Texts, NEW l \in Texts, NEW piece \in Texts
    PROVE  /\ l \o Clean(piece) \in Texts
           /\ logged \o Ink(l \o Clean(piece)) = (logged \o Ink(l)) \o Ink(Clean(piece))
  <1> DEFINE p == Clean(piece)
             a == Ink(l)
             b == Ink(p)
  <1>1. p \in Texts
    BY InkProperties
  <1> HIDE DEF p
  <1>2. a \in Texts /\ b \in Texts /\ Ink(l \o p) = a \o b
    BY <1>1, InkProperties
  <1> HIDE DEF a, b
  <1>3. (logged \o a) \o b = logged \o (a \o b)
    <2>1. \A x, y, z \in Seq(STRING) : (x \o y) \o z = x \o (y \o z)
      BY ConcatAssociative
    <2> QED BY <1>2, <2>1, Zenon DEF Texts
  <1>4. l \o p \in Texts
    BY <1>1, ConcatProperties DEF Texts
  <1> QED BY <1>2, <1>3, <1>4 DEF p, a, b

\* One turn of _receive_line: what the piece adds is in the line or in the log.
LEMMA PieceKeeps ==
    ASSUME SshInv, SessionInv, NEW c \in Conns, ReceivePiece(c)
    PROVE  SessionInv'
  <1> DEFINE piece == typed[c][taken[c] + 1]
             text == line[c] \o Clean(piece)
             d == Strip(text)
  <1>1. /\ thread[c] = "receiving" /\ taken[c] < Len(typed[c]) /\ UNCHANGED typed
        /\ taken' = [taken EXCEPT ![c] = @ + 1]
    BY DEF ReceivePiece, client
  <1>2. SessionOK(c) /\ line[c] \in Texts /\ line \in [Conns -> Texts]
    BY DEF SessionInv
  <1>3. /\ taken[c] \in Nat /\ taken'[c] = taken[c] + 1 /\ taken' \in [Conns -> Nat]
        /\ \A o \in Conns \ {c} : taken'[o] = taken[o]
    BY <1>1 DEF SessionInv
  <1>4. typed[c] \in Seq(Texts) /\ Logged(c) \o Ink(line[c]) = Got(c) /\ Dialogue(c) \in Seq(Texts)
    BY <1>1, <1>2 DEF SessionOK, InSession
  <1>5. piece \in Texts /\ Got(c) \in Texts /\ Got(c)' = Got(c) \o Ink(Clean(piece))
    BY <1>1, <1>3, <1>4, OnePieceMore
  <1>6. Logged(c) \in Texts
    <2>1. Joined(Dialogue(c)) \in Texts
      BY <1>4, JoinedType DEF Texts
    <2> QED BY <2>1, InkProperties DEF Logged
  <1>7. text \in Texts /\ Logged(c) \o Ink(text) = Got(c)'
    <2> HIDE DEF piece
    <2>1. \A x, y, z \in Texts : /\ y \o Clean(z) \in Texts
                                 /\ x \o Ink(y \o Clean(z)) = (x \o Ink(y)) \o Ink(Clean(z))
      BY LongerLine
    <2>2. text \in Texts /\ Logged(c) \o Ink(text) = (Logged(c) \o Ink(line[c])) \o Ink(Clean(piece))
      BY <1>2, <1>5, <1>6, <2>1, Zenon
    <2> HIDE DEF text
    <2> QED BY <1>4, <1>5, <2>2, Zenon
  <1> DEFINE InputEnds == Goto(c, "waiting") /\ UNCHANGED <<line, events>>
             LineGoesOn == line' = [line EXCEPT ![c] = text] /\ UNCHANGED <<thread, events>>
             LineEnds == /\ Log(c, [action |-> "interactive", data |-> d])
                     /\ line' = [line EXCEPT ![c] = <<>>]
                     /\ Goto(c, IF d = Exit THEN "waiting" ELSE "prompt")
  <1>8. InputEnds \/ LineGoesOn \/ LineEnds
    BY DEF ReceivePiece
  <1> HIDE DEF piece, text, d
  <1>9. line' \in [Conns -> Texts]
    <2>1. <<>> \in Texts
      BY EmptySeq DEF Texts
    <2> QED BY <1>2, <1>7, <1>8, <2>1
  <1>10. d \in Texts /\ Ink(d) = Ink(text)
    BY <1>7, StripKeepsInk DEF d
  <1>11. \A o \in Conns \ {c} : /\ thread'[o] = thread[o] /\ line'[o] = line[o]
                                /\ Dialogue(o)' = Dialogue(o)
    <2>1. \A o \in Conns \ {c} : thread'[o] = thread[o] /\ line'[o] = line[o]
      BY <1>2, <1>8 DEF SshInv, TypeOK, Goto
    <2>2. CASE UNCHANGED events
      BY <2>1, <2>2 DEF Dialogue
    <2>3. CASE Log(c, [action |-> "interactive", data |-> d])
      <3>1. \A o \in Conns \ {c} : Dialogue(o)' = Dialogue(o)
        BY <1>4, <1>10, <2>3, NewLine DEF SshInv
      <3> QED BY <2>1, <3>1
    <2> QED BY <1>8, <2>2, <2>3
  <1>12. typed'[c] \in Seq(Texts)
    BY <1>1, <1>4
  \* ^D: the line that was begun is not logged.
  <1>13. ASSUME InputEnds PROVE SessionOK(c)'
    <2>1. thread'[c] = "waiting" /\ Dialogue(c)' = Dialogue(c)
      BY <1>13 DEF SshInv, TypeOK, Goto, Dialogue
    <2>2. Logged(c)' = Logged(c)
      BY <2>1 DEF Logged
    <2>3. IsPrefix(Logged(c), Got(c)')
      <3>1. Ink(text) \in Texts
        BY <1>7, InkProperties
      <3>2. IsPrefix(Logged(c), Logged(c) \o Ink(text))
        BY <1>6, <3>1, PrefixOfConcat DEF Texts
      <3> QED BY <1>7, <3>2
    <2>4. Dialogue(c)' \in Seq(Texts) /\ IsPrefix(Logged(c)', Got(c)')
      BY <1>4, <2>1, <2>2, <2>3
    <2>5. thread'[c] \notin Early /\ thread'[c] \notin InSession /\ thread'[c] \notin Fresh
      BY <2>1 DEF Early, InSession, Fresh
    <2> QED BY <1>12, <2>4, <2>5, Zenon DEF SessionOK
  \* The line goes on.
  <1>14. ASSUME LineGoesOn PROVE SessionOK(c)'
    <2>1. thread'[c] = "receiving" /\ Dialogue(c)' = Dialogue(c) /\ line'[c] = text
      BY <1>1, <1>2, <1>14 DEF Dialogue
    <2>2. Logged(c)' = Logged(c)
      BY <2>1 DEF Logged
    <2>3. Ink(text) \in Texts
      BY <1>7, InkProperties
    <2>4. IsPrefix(Logged(c), Logged(c) \o Ink(text))
      BY <1>6, <2>3, PrefixOfConcat DEF Texts
    <2>5. Logged(c)' \o Ink(line'[c]) = Got(c)'
      BY <1>7, <2>1, <2>2
    <2>6. Dialogue(c)' \in Seq(Texts) /\ IsPrefix(Logged(c)', Got(c)')
      BY <1>4, <1>7, <2>1, <2>2, <2>4
    <2>7. thread'[c] \notin Early /\ thread'[c] \notin Fresh
      BY <2>1 DEF Early, Fresh
    <2> QED BY <1>12, <2>5, <2>6, <2>7, Zenon DEF SessionOK
  \* The line is logged.
  <1>15. ASSUME LineEnds PROVE SessionOK(c)'
    <2>1. thread'[c] \in {"waiting", "prompt"} /\ line'[c] = <<>>
      BY <1>2, <1>15 DEF SshInv, TypeOK, Goto
    <2>2. Dialogue(c)' = Append(Dialogue(c), d)
      BY <1>4, <1>10, <1>15, NewLine DEF SshInv
    <2>3. Dialogue(c)' \in Seq(Texts)
      BY <1>4, <1>10, <2>2, AppendProperties
    <2>4. Joined(Dialogue(c)) \in Texts /\ Joined(Dialogue(c)') = Joined(Dialogue(c)) \o d
      BY <1>4, <1>10, <2>2, JoinedType, JoinedAppend DEF Texts
    <2>5. Logged(c)' = Logged(c) \o Ink(d)
      <3>1. \A x, y \in Texts : Ink(x \o y) = Ink(x) \o Ink(y)
        BY InkProperties
      <3> QED BY <1>10, <2>4, <3>1, Zenon DEF Logged
    <2>6. Logged(c)' = Got(c)'
      BY <1>7, <1>10, <2>5
    <2>7. Ink(<<>>) = <<>> /\ <<>> \in Texts
      BY DroppingEmpty, EmptySeq DEF Ink, Texts
    <2>8. Logged(c)' \in Texts
      BY <1>6, <1>10, <2>5, InkProperties, ConcatProperties DEF Texts
    <2>9. Logged(c)' \o Ink(line'[c]) = Got(c)'
      BY <2>1, <2>6, <2>7, <2>8, ConcatEmptySeq DEF Texts
    <2>10. IsPrefix(Logged(c)', Logged(c)' \o <<>>)
      BY <2>7, <2>8, PrefixOfConcat DEF Texts
    <2>11. IsPrefix(Logged(c)', Got(c)')
      BY <2>1, <2>7, <2>9, <2>10
    <2>12. thread'[c] \notin Early
      BY <2>1 DEF Early
    <2> QED BY <1>12, <2>1, <2>3, <2>9, <2>11, <2>12, Zenon DEF SessionOK
  <1> HIDE DEF InputEnds, LineGoesOn, LineEnds
  <1>16. SessionOK(c)'
    BY <1>8, <1>13, <1>14, <1>15
  <1>17. \A o \in Conns \ {c} : SessionOK(o)'
    <2> TAKE o \in Conns \ {c}
    <2>1. SessionOK(o)
      BY DEF SessionInv
    <2>2. taken'[o] = taken[o] /\ typed'[o] = typed[o] /\ line'[o] = line[o]
      BY <1>1, <1>3, <1>11
    <2>3. Logged(o)' = Logged(o) /\ Got(o)' = Got(o)
      BY <1>11, <2>2 DEF Logged, Got, Cleaned
    <2> QED BY <1>11, <2>1, <2>2, <2>3 DEF SessionOK
  <1> QED BY <1>3, <1>9, <1>16, <1>17 DEF SessionInv

\* The client types: a text more to come, but what was received stays.
LEMMA TypeKeeps ==
    ASSUME PiecesAreTexts, SshInv, SessionInv, NEW c \in Conns, NEW piece \in Pieces, Type(c, piece)
    PROVE  SessionInv'
  <1>1. /\ UNCHANGED <<thread, line, taken, events>>
        /\ typed'[c] = Append(typed[c], piece)
        /\ \A o \in Conns \ {c} : typed'[o] = typed[o]
    <2>1. Sequences(Conns, typed) /\ Appended(typed, c, piece, typed')
      BY DEF SshInv, LogsOK, Type, Appended
    <2>2. typed'[c] = Append(typed[c], piece) /\ \A o \in Conns \ {c} : typed'[o] = typed[o]
      BY <2>1, LogAppends
    <2> QED BY <2>2 DEF Type
  <1>2. typed[c] \in Seq(Texts) /\ piece \in Texts /\ taken[c] \in 0 .. Len(typed[c])
    BY DEF PiecesAreTexts, SessionInv, SessionOK, SshInv, TypeOK
  <1>3. /\ typed'[c] \in Seq(Texts)
        /\ \A i \in 1 .. taken[c] : typed'[c][i] = typed[c][i]
    <2>1. /\ Append(typed[c], piece) \in Seq(Texts)
          /\ \A i \in 1 .. Len(typed[c]) : Append(typed[c], piece)[i] = typed[c][i]
      BY <1>2, AppendProperties
    <2>2. \A i \in 1 .. taken[c] : i \in 1 .. Len(typed[c])
      BY <1>2
    <2> QED BY <1>1, <2>1, <2>2
  <1>4. Got(c)' = Got(c) /\ \A o \in Conns \ {c} : Got(o)' = Got(o)
    BY <1>1, <1>3 DEF Got, Cleaned
  <1>5. \A o \in Conns : typed'[o] \in Seq(Texts)
    BY <1>1, <1>3 DEF SessionInv, SessionOK
  <1>6. \A o \in Conns : Dialogue(o)' = Dialogue(o)
    BY <1>1 DEF Dialogue
  <1> QED BY <1>1, <1>4, <1>5, <1>6, CalmKeeps

\* Steps that log nothing and take nothing.
LEMMA SilentKeeps ==
    ASSUME SessionInv, UNCHANGED <<typed, line, taken, events>>,
           \A d \in Conns : /\ thread'[d] \in Early => thread[d] \in Early
                            /\ thread'[d] \in InSession => thread[d] \in InSession \union {"accepting"}
                            /\ thread'[d] \in Fresh => thread[d] \in Fresh \union {"accepting"}
    PROVE  SessionInv'
  <1>1. \A d \in Conns : Dialogue(d)' = Dialogue(d) /\ Got(d)' = Got(d)
    BY DEF Dialogue, Got, Cleaned
  <1>2. \A d \in Conns : typed'[d] \in Seq(Texts)
    BY DEF SessionInv, SessionOK
  <1> QED BY <1>1, <1>2, CalmKeeps

\* Steps that log something else than a line.
LEMMA OtherEventKeeps ==
    ASSUME SshInv, SessionInv, NEW c \in Conns, NEW e, Log(c, e), e.action # "interactive",
           UNCHANGED <<typed, line, taken>>,
           \A d \in Conns : /\ thread'[d] \in Early => thread[d] \in Early
                            /\ thread'[d] \in InSession => thread[d] \in InSession
                            /\ thread'[d] \in Fresh => thread[d] \in Fresh
    PROVE  SessionInv'
  <1>1. \A d \in Conns : Dialogue(d)' = Dialogue(d)
    BY NoLine DEF SshInv
  <1>2. \A d \in Conns : typed'[d] \in Seq(Texts) /\ Got(d)' = Got(d)
    BY DEF SessionInv, SessionOK, Got, Cleaned
  <1> QED BY <1>1, <1>2, CalmKeeps

LEMMA ClientKeepsSession ==
    ASSUME PiecesAreTexts, SshInv, SessionInv, NEW c \in Conns, ClientStep(c)
    PROVE  SessionInv'
  <1>1. ASSUME NEW user, NEW secret, NEW result, NEW event, event.action = "login",
               Tried(c, user, secret, result, event)
        PROVE  SessionInv'
    <2>1. Log(c, event) /\ UNCHANGED <<thread, typed, line, taken>>
      BY <1>1 DEF Tried, shell
    <2> QED BY <1>1, <2>1, OtherEventKeeps
  <1>2. ASSUME NEW u \in Users, NEW p \in Passwords, CheckAuthPassword(c, u, p)
        PROVE  SessionInv'
    <2> DEFINE ok == <<u, p>> = Configured
               event == [action |-> "login", username |-> u, secret |-> p,
                         status |-> IF ok THEN "success" ELSE "failed"]
    <2>1. Tried(c, u, p, IF ok THEN "successful" ELSE "failed", event)
      BY <1>2 DEF CheckAuthPassword
    <2>2. event.action = "login"
      OBVIOUS
    <2> HIDE DEF event, ok
    <2> QED BY <1>1, <2>1, <2>2
  <1>3. ASSUME NEW u \in Users, NEW k \in Keys, NEW r \in {"probe", "valid", "invalid"},
               CheckAuthPublickey(c, u, k, r)
        PROVE  SessionInv'
    <2> DEFINE results == [probe |-> "acceptable", valid |-> "successful",
                           invalid |-> "failed"]
               event == [action |-> "login", username |-> u, secret |-> k,
                         status |-> "none"]
    <2>1. Tried(c, u, k, results[r], event)
      BY <1>3 DEF CheckAuthPublickey
    <2>2. event.action = "login"
      OBVIOUS
    <2> HIDE DEF event, results
    <2> QED BY <1>1, <2>1, <2>2
  <1>4. CASE CheckChannelRequest(c)
    BY <1>4, SilentKeeps DEF CheckChannelRequest, shell
  <1>5. ASSUME NEW command \in Commands, CheckChannelExecRequest(c, command)
        PROVE  SessionInv'
    <2> DEFINE event == [action |-> "command", data |-> command]
    <2>1. /\ UNCHANGED <<thread, typed, line, taken>> /\ Log(c, event)
          /\ event.action # "interactive"
      BY <1>5 DEF CheckChannelExecRequest, client
    <2> HIDE DEF event
    <2> QED BY <2>1, OtherEventKeeps
  <1>6. CASE CheckAuthDefault(c)
    BY <1>6, SilentKeeps DEF CheckAuthDefault, shell
  <1> QED BY <1>2, <1>3, <1>4, <1>5, <1>6, TypeKeeps DEF ClientStep

LEMMA HandlerKeepsSession ==
    ASSUME SshInv, SessionInv, NEW c \in Conns, HandlerStep(c) \/ Welcome(c)
    PROVE  SessionInv'
  <1>1. CASE HasGone(c) \/ NoChannel(c) \/ Waited(c) \/ SendRaises(c)
    <2>1. UNCHANGED <<typed, line, taken, events>> /\ Goto(c, "done")
      BY <1>1 DEF HasGone, NoChannel, Waited, SendRaises, Close, client
    <2> QED BY <2>1, SilentKeeps DEF SshInv, TypeOK, Goto, Early, InSession, Fresh
  <1>2. CASE StartServer(c)
    <2> DEFINE event == [action |-> "connection"]
    <2>1. Log(c, event) /\ event.action # "interactive" /\ UNCHANGED <<typed, line, taken>>
      BY <1>2 DEF StartServer, client
    <2>2. thread[c] = "start" /\ Goto(c, "negotiating")
      BY <1>2 DEF StartServer
    <2>3. \A d \in Conns : /\ thread'[d] \in Early => thread[d] \in Early
                           /\ thread'[d] \in InSession => thread[d] \in InSession
                           /\ thread'[d] \in Fresh => thread[d] \in Fresh
      BY <2>2 DEF SshInv, TypeOK, Goto, Early, InSession, Fresh
    <2> HIDE DEF event
    <2> QED BY <2>1, <2>3, OtherEventKeeps
  <1>3. CASE Started(c) \/ ChannelAccepted(c) \/ Welcome(c) \/ SessionExpired(c)
    <2>1. UNCHANGED <<typed, line, taken, events>>
      BY <1>3 DEF Started, ChannelAccepted, Welcome, SessionExpired, client, shell
    <2>2. \A d \in Conns : /\ thread'[d] \in Early => thread[d] \in Early
                           /\ thread'[d] \in InSession => thread[d] \in InSession \union {"accepting"}
                           /\ thread'[d] \in Fresh => thread[d] \in Fresh \union {"accepting"}
      BY <1>3 DEF SshInv, TypeOK, Started, Close, ChannelAccepted, Welcome, SessionExpired,
                  Goto, Early, InSession, Fresh
    <2> QED BY <2>1, <2>2, SilentKeeps
  <1>4. CASE Prompt(c)
    <2>1. UNCHANGED <<typed, taken, events>> /\ thread[c] = "prompt" /\ Goto(c, "receiving")
          /\ line' = [line EXCEPT ![c] = <<>>]
      BY <1>4 DEF Prompt, client
    <2>2. line[c] = <<>> /\ line \in [Conns -> Texts]
      BY <2>1 DEF SessionInv, SessionOK, Fresh
    <2>3. line' = line
      BY <2>1, <2>2
    <2> QED BY <2>1, <2>3, SilentKeeps DEF SshInv, TypeOK, Goto, Early, InSession, Fresh
  <1> QED BY <1>1, <1>2, <1>3, <1>4, PieceKeeps DEF HandlerStep

LEMMA SessionKeeps ==
    ASSUME PiecesAreTexts, SshInv, SessionInv, [Next]_sshVars
    PROVE  SessionInv'
  <1>1. ASSUME NEW c \in Conns, AcceptClient(c) PROVE SessionInv'
    <2>1. UNCHANGED <<typed, line, taken, events>> /\ thread[c] = "none" /\ Goto(c, "start")
      BY <1>1 DEF AcceptClient, client
    <2> QED BY <2>1, SilentKeeps DEF SshInv, TypeOK, Goto, Early, InSession, Fresh
  <1>2. ASSUME NEW c \in Conns, Negotiated(c) \/ TransportEnds(c) PROVE SessionInv'
    <2>1. UNCHANGED <<thread, typed, line, taken, events>>
      BY <1>2 DEF Negotiated, TransportEnds, client
    <2> QED BY <2>1, SilentKeeps
  <1>3. CASE UNCHANGED sshVars
    BY <1>3, SilentKeeps DEF sshVars
  <1> QED BY <1>1, <1>2, <1>3, ClientKeepsSession, HandlerKeepsSession DEF Next

LEMMA SessionBegins == Init => SessionInv
  <1> SUFFICES ASSUME Init PROVE SessionInv
    OBVIOUS
  <1>1. <<>> \in Texts /\ <<>> \in Seq(Texts)
    BY EmptySeq DEF Texts
  <1>2. line \in [Conns -> Texts] /\ taken \in [Conns -> Nat]
    BY <1>1 DEF Init
  <1>3. ASSUME NEW c \in Conns PROVE SessionOK(c)
    <2>1. thread[c] = "none" /\ typed[c] = <<>> /\ line[c] = <<>> /\ taken[c] = 0 /\ events[c] = <<>>
      BY DEF Init
    <2>2. Dialogue(c) = <<>>
      <3>1. Dialogue(c) = [i \in DOMAIN <<>> |-> <<>>[i].data]
        BY <2>1, NoMatching DEF Dialogue
      <3> QED BY <3>1
    <2>3. Logged(c) = <<>>
      BY <2>2, JoinedEmpty, DroppingEmpty DEF Logged, Ink
    <2>4. Got(c) \in Texts
      <3>1. Cleaned(c) = <<>>
        BY <2>1 DEF Cleaned
      <3>2. Got(c) = <<>>
        BY <3>1, JoinedEmpty, DroppingEmpty DEF Got, Ink
      <3> QED BY <1>1, <3>2, Zenon
    <2>5. IsPrefix(Logged(c), Got(c))
      <3>1. <<>> \o Got(c) = Got(c)
        BY <2>4, ConcatEmptySeq DEF Texts
      <3>2. IsPrefix(<<>>, <<>> \o Got(c))
        BY <1>1, <2>4, PrefixOfConcat DEF Texts
      <3> QED BY <2>3, <3>1, <3>2
    <2>6. thread[c] \notin InSession /\ thread[c] # "prompt"
      BY <2>1 DEF InSession
    <2>7. typed[c] \in Seq(Texts) /\ Dialogue(c) \in Seq(Texts)
      BY <1>1, <2>1, <2>2, Zenon
    <2> QED BY <2>1, <2>2, <2>5, <2>6, <2>7, Zenon DEF SessionOK
  <1> QED BY <1>2, <1>3 DEF SessionInv

\* Nothing but white space is lost of what ANSI_REGEX leaves of an interactive session, and
\* nothing is invented: as long as it goes on the lines in the log and the unfinished one
\* are that, and afterwards the log holds a beginning of it (ssh_server.py:179-200, 236-259).
THEOREM SessionsLogged == PiecesAreTexts => (Spec => []SessionIsLogged)
  <1> SUFFICES ASSUME PiecesAreTexts PROVE Spec => []SessionIsLogged
    OBVIOUS
  <1>1. Init => SshInv /\ SessionInv
    BY InitEstablishes, SessionBegins
  <1>2. (SshInv /\ SessionInv) /\ [Next]_sshVars => (SshInv /\ SessionInv)'
    BY NextKeeps, SessionKeeps
  <1>3. SshInv /\ SessionInv => SessionIsLogged
    BY SessionsAreLogged
  <1> QED BY <1>1, <1>2, <1>3, PTL DEF Spec
===============================================================================
