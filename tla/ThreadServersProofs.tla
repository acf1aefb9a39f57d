-------------------------- MODULE ThreadServersProofs --------------------------
(***************************************************************************)
(* Proofs about ThreadServers, for any connections, clients, credentials   *)
(* and options: the safety properties of the four honeypots, and that      *)
(* each of them keeps the promise of LoginCapture.                         *)
(***************************************************************************)
EXTENDS ThreadServers, LogsProofs

-------------------------------------------------------------------------------
(* Short sequences *)

LEMMA One ==
    ASSUME NEW a
    PROVE  Len(<<a>>) = 1 /\ DOMAIN <<a>> = 1 .. 1 /\ <<a>>[1] = a
  OBVIOUS

LEMMA Two ==
    ASSUME NEW a, NEW b
    PROVE  /\ Len(<<a, b>>) = 2 /\ DOMAIN <<a, b>> = 1 .. 2
           /\ <<a, b>>[1] = a /\ <<a, b>>[2] = b
           /\ <<a, b>> = Append(<<a>>, b)
  OBVIOUS

LEMMA Three ==
    ASSUME NEW a, NEW b, NEW d
    PROVE  /\ Len(<<a, b, d>>) = 3 /\ DOMAIN <<a, b, d>> = 1 .. 3
           /\ <<a, b, d>>[1] = a /\ <<a, b, d>>[2] = b /\ <<a, b, d>>[3] = d
           /\ <<a, b, d>> = Append(<<a, b>>, d)
  OBVIOUS

LEMMA Behind1 ==
    ASSUME NEW a, NEW b, NEW d
    PROVE  <<a>> \o <<b>> = <<a, b>> /\ <<a>> \o <<b, d>> = <<a, b, d>>
  <1> DEFINE S == {a, b, d}
  <1>1. a \in S /\ b \in S /\ d \in S
    OBVIOUS
  <1> HIDE DEF S
  <1>2. <<a>> \in Seq(S) /\ <<b>> \in Seq(S)
    BY <1>1
  <1>3. <<a>> \o <<b>> = <<a, b>>
    BY <1>1, <1>2, AppendIsConcat, Two
  <1>4. <<a>> \o Append(<<b>>, d) = Append(<<a>> \o <<b>>, d)
    BY <1>1, <1>2, ConcatAppend
  <1>5. <<b, d>> = Append(<<b>>, d) /\ <<a, b, d>> = Append(<<a, b>>, d)
    BY Two, Three
  <1> QED BY <1>3, <1>4, <1>5, Zenon

-------------------------------------------------------------------------------
(* elastic *)

Connection == [action |-> "connection"]

\* What the log says about a connection whose request was read.
AnswerLog(r, log) ==
    LET right == Elastic!Login(ElasticLogin[1], ElasticLogin[2], TRUE)
    IN  \/ r.kind = "anonymous" /\ log = <<Connection, Elastic!Login("", "", FALSE), Elastic!Dump>>
        \/ /\ Elastic!IsRight(r)
           /\ log = <<Connection, right>> \/ log = <<Connection, right, Elastic!Dump>>
        \/ /\ r.kind \in {"basic", "scheme"} /\ ~Elastic!IsRight(r) /\ Len(r.parts) = 2
           /\ log = <<Connection, Elastic!Login(<<r.parts[1]>>, <<r.parts[2]>>, FALSE), Elastic!Dump>>
        \/ ~Elastic!IsRight(r) /\ ~Elastic!IsRead(r) /\ log = <<Connection>>

Answered(c, r) == pdus[c] = <<r>> /\ AnswerLog(r, events[c])

\* The whole log of a connection, place by place: what makes RefusalsAreDumped inductive.
ElasticOK(c) ==
    /\ thread[c] \in {"none", "queued", "handshake", "started"} =>
          events[c] = <<>> /\ pdus[c] = <<>>
    /\ thread[c] = "reading" => events[c] = <<Connection>> /\ pdus[c] = <<>>
    /\ thread[c] = "done" =>
          \/ pdus[c] = <<>> /\ (events[c] = <<>> \/ events[c] = <<Connection>>)
          \/ \E r \in Requests : Answered(c, r)

ElasticInv ==
    /\ Elastic!TypeOK
    /\ DOMAIN events = Conns /\ DOMAIN pdus = Conns
    /\ \A c \in Conns : ElasticOK(c)

LEMMA ElasticBegins == Elastic!Init => ElasticInv
  <1> SUFFICES ASSUME Elastic!Init PROVE ElasticInv
    OBVIOUS
  <1>1. \A c \in Conns : thread[c] = "none" /\ events[c] = <<>> /\ pdus[c] = <<>> /\ accepting = Nobody
    BY DEF Elastic!Init
  <1>2. <<>> \in Seq(Requests) /\ Len(<<>>) = 0
    BY EmptySeq
  <1>3. Elastic!TypeOK
    <2>1. \A c \in Conns : pdus[c] \in Seq(Requests) /\ Len(pdus[c]) <= 1
      <3> TAKE c \in Conns
      <3>1. pdus[c] \in Seq(Requests)
        BY <1>1, <1>2, Zenon
      <3>2. Len(pdus[c]) = 0
        BY <1>1, <1>2, Zenon
      <3> QED BY <3>1, <3>2
    <2>2. \A c \in Conns : accepting # c
      BY <1>1, NobodyAssumption
    <2> QED BY <1>1, <2>1, <2>2 DEF Elastic!Init, Elastic!TypeOK
  <1> QED BY <1>1, <1>3 DEF Elastic!Init, ElasticInv, ElasticOK

\* Steps of one connection that log nothing: the other connections keep what they have.
LEMMA ElasticQuiet ==
    ASSUME ElasticInv, NEW c \in Conns, NEW place, Elastic!Goto(c, place),
           UNCHANGED <<pdus, events>>, Elastic!TypeOK',
           \/ place \in {"queued", "handshake", "started"}
              /\ thread[c] \in {"none", "queued", "handshake", "started"}
           \/ place = "done" /\ thread[c] \in {"handshake", "reading"}
    PROVE  ElasticInv'
  <1>1. \A d \in Conns : thread'[d] = IF d = c THEN place ELSE thread[d]
    BY DEF Elastic!Goto, ElasticInv, Elastic!TypeOK
  <1>2. ASSUME NEW d \in Conns \ {c} PROVE ElasticOK(d)'
    <2>1. ElasticOK(d) /\ thread'[d] = thread[d]
      BY <1>1 DEF ElasticInv
    <2> QED BY <2>1 DEF ElasticOK, Answered
  <1>3. ElasticOK(c)'
    <2>1. ElasticOK(c) /\ thread'[c] = place
      BY <1>1 DEF ElasticInv
    <2> QED BY <2>1 DEF ElasticOK
  <1> QED BY <1>2, <1>3 DEF ElasticInv

\* The request is read and answered.
LEMMA ElasticReads ==
    ASSUME ElasticInv, NEW c \in Conns, NEW r \in Requests, Elastic!Read(c, r),
           DOMAIN events' = Conns, \A d \in Conns \ {c} : events'[d] = events[d],
           pdus'[c] = <<r>> => Answered(c, r)'
    PROVE  ElasticInv'
  <1>1. /\ thread[c] = "reading" /\ UNCHANGED <<accepting, gone>>
        /\ \A d \in Conns : thread'[d] = IF d = c THEN "done" ELSE thread[d]
        /\ \A d \in Conns : pdus'[d] = IF d = c THEN <<r>> ELSE pdus[d]
    BY DEF Elastic!Read, Elastic!Goto, ElasticInv, Elastic!TypeOK
  <1>2. Elastic!TypeOK'
    <2>1. <<r>> \in Seq(Requests) /\ Len(<<r>>) = 1
      OBVIOUS
    <2>2. \A d \in Conns : pdus'[d] \in Seq(Requests) /\ Len(pdus'[d]) <= 1
      <3> TAKE d \in Conns
      <3>1. CASE d = c
        <4>1. pdus'[d] = <<r>>
          BY <1>1, <3>1
        <4> QED BY <2>1, <4>1
      <3>2. CASE d # c
        BY <1>1, <3>2 DEF ElasticInv, Elastic!TypeOK
      <3> QED BY <3>1, <3>2
    <2>3. thread' \in [Conns -> {"none", "queued", "handshake", "started", "reading", "done"}]
      BY DEF Elastic!Read, Elastic!Goto, ElasticInv, Elastic!TypeOK
    <2> QED BY <1>1, <2>2, <2>3 DEF ElasticInv, Elastic!TypeOK
  <1>3. ASSUME NEW d \in Conns \ {c} PROVE ElasticOK(d)'
    <2>1. ElasticOK(d) /\ thread'[d] = thread[d] /\ pdus'[d] = pdus[d] /\ events'[d] = events[d]
      BY <1>1 DEF ElasticInv
    <2> QED BY <2>1 DEF ElasticOK, Answered
  <1>4. ElasticOK(c)'
    <2>1. thread'[c] = "done" /\ Answered(c, r)'
      BY <1>1
    <2> QED BY <2>1 DEF ElasticOK
  <1>5. DOMAIN pdus' = Conns
    BY DEF Elastic!Read, ElasticInv
  <1> QED BY <1>2, <1>3, <1>4, <1>5 DEF ElasticInv

LEMMA ElasticKeeps ==
    ASSUME ElasticInv, Elastic!Next \/ UNCHANGED <<thread, accepting, gone, pdus, events>>
    PROVE  ElasticInv'
  <1>1. ASSUME NEW c \in Conns, Elastic!Connect(c) \/ Elastic!Accept(c) \/ Elastic!ShakeHands(c)
                                \/ Elastic!HandshakeFails(c) \/ Elastic!ReadEnds(c)
        PROVE  ElasticInv'
    <2>1. UNCHANGED <<pdus, events>>
      BY <1>1 DEF Elastic!Connect, Elastic!Accept, Elastic!ShakeHands, Elastic!HandshakeFails,
                  Elastic!ReadEnds
    <2>2. PICK place : /\ Elastic!Goto(c, place)
                       /\ \/ place \in {"queued", "handshake", "started"}
                             /\ thread[c] \in {"none", "queued", "handshake", "started"}
                          \/ place = "done" /\ thread[c] \in {"handshake", "reading"}
      BY <1>1 DEF Elastic!Connect, Elastic!Accept, Elastic!ShakeHands, Elastic!HandshakeFails,
                  Elastic!ReadEnds
    <2>3. Elastic!TypeOK'
      <3>1. \A d \in Conns : events'[d] = events[d] /\ pdus'[d] = pdus[d]
        BY <2>1
      <3>2. \A d \in Conns : thread'[d] \in {"none", "queued", "handshake", "started"}
                             => events'[d] = <<>>
        BY <2>1, <2>2 DEF Elastic!Goto, ElasticInv, ElasticOK, Elastic!TypeOK
      <3>3. thread' \in [Conns -> {"none", "queued", "handshake", "started", "reading", "done"}]
            /\ gone' \in [Conns -> BOOLEAN]
        BY <1>1 DEF Elastic!Connect, Elastic!Accept, Elastic!ShakeHands, Elastic!HandshakeFails,
                  Elastic!ReadEnds, Elastic!Goto, ElasticInv, Elastic!TypeOK
      <3>4. \A d \in Conns : accepting' = d <=> thread'[d] = "handshake"
        BY <1>1, NobodyAssumption
           DEF Elastic!Connect, Elastic!Accept, Elastic!ShakeHands, Elastic!HandshakeFails,
               Elastic!ReadEnds, Elastic!Goto, ElasticInv, Elastic!TypeOK
      <3> QED BY <3>1, <3>2, <3>3, <3>4 DEF ElasticInv, Elastic!TypeOK
    <2> QED BY <2>1, <2>2, <2>3, ElasticQuiet
  <1>2. ASSUME UNCHANGED <<thread, accepting, pdus, events>>, gone' \in [Conns -> BOOLEAN]
        PROVE  ElasticInv'
    BY <1>2 DEF ElasticInv, Elastic!TypeOK, ElasticOK, Answered
  <1>3. ASSUME NEW c \in Conns, Elastic!Leave(c) PROVE ElasticInv'
    BY <1>2, <1>3 DEF Elastic!Leave, ElasticInv, Elastic!TypeOK
  <1>4. ASSUME NEW c \in Conns, Elastic!HandleOneRequest(c) PROVE ElasticInv'
    <2>1. thread[c] = "started" /\ UNCHANGED <<accepting, gone, pdus>>
          /\ \A d \in Conns : thread'[d] = IF d = c THEN "reading" ELSE thread[d]
      BY <1>4 DEF Elastic!HandleOneRequest, Elastic!Goto, ElasticInv, Elastic!TypeOK
    <2>2. events[c] = <<>> /\ pdus[c] = <<>>
      BY <2>1 DEF ElasticInv, ElasticOK
    <2>3. events' = [events EXCEPT ![c] = @ \o <<Connection>>]
      BY <1>4 DEF Elastic!HandleOneRequest, Elastic!LogAll, Connection
    <2>4. DOMAIN events' = Conns /\ \A d \in Conns \ {c} : events'[d] = events[d]
      BY <2>3 DEF ElasticInv
    <2>5. events'[c] = <<Connection>>
      <3>1. events'[c] = events[c] \o <<Connection>>
        BY <2>3 DEF ElasticInv
      <3>2. <<Connection>> \in Seq({Connection})
        OBVIOUS
      <3> QED BY <2>2, <3>1, <3>2, ConcatEmptySeq
    <2>6. thread' \in [Conns -> {"none", "queued", "handshake", "started", "reading", "done"}]
      BY <1>4 DEF Elastic!HandleOneRequest, Elastic!Goto, ElasticInv, Elastic!TypeOK
    <2>7. Elastic!TypeOK'
      BY <2>1, <2>4, <2>6 DEF ElasticInv, Elastic!TypeOK
    <2>8. ASSUME NEW d \in Conns \ {c} PROVE ElasticOK(d)'
      <3>1. ElasticOK(d) /\ thread'[d] = thread[d] /\ pdus'[d] = pdus[d] /\ events'[d] = events[d]
        BY <2>1, <2>4 DEF ElasticInv
      <3> QED BY <3>1 DEF ElasticOK, Answered
    <2>9. ElasticOK(c)'
      <3>1. thread'[c] = "reading" /\ pdus'[c] = <<>>
        BY <2>1, <2>2
      <3> QED BY <2>5, <3>1 DEF ElasticOK
    <2> QED BY <2>1, <2>4, <2>7, <2>8, <2>9 DEF ElasticInv
  <1>5. ASSUME NEW c \in Conns, NEW r \in Requests,
               \/ Elastic!Anonymous(c, r) \/ Elastic!Authenticated(c, r)
               \/ Elastic!Refused(c, r) \/ Elastic!Unlogged(c, r)
        PROVE  ElasticInv'
    <2> DEFINE right == Elastic!Login(ElasticLogin[1], ElasticLogin[2], TRUE)
               empty == Elastic!Login("", "", FALSE)
               wrong == Elastic!Login(<<r.parts[1]>>, <<r.parts[2]>>, FALSE)
    <2>1. Elastic!Read(c, r)
      BY <1>5 DEF Elastic!Anonymous, Elastic!Authenticated, Elastic!Refused, Elastic!Unlogged
    <2>2. events[c] = <<Connection>>
      BY <2>1 DEF Elastic!Read, ElasticInv, ElasticOK
    <2>3. \/ r.kind = "anonymous" /\ Elastic!LogAll(c, <<empty, Elastic!Dump>>)
          \/ Elastic!IsRight(r) /\ Elastic!LogAll(c, <<right>> \o <<Elastic!Dump>>)
          \/ Elastic!IsRight(r) /\ Elastic!LogAll(c, <<right>> \o <<>>)
          \/ /\ r.kind \in {"basic", "scheme"} /\ ~Elastic!IsRight(r) /\ Len(r.parts) = 2
             /\ Elastic!LogAll(c, <<wrong, Elastic!Dump>>)
          \/ ~Elastic!IsRight(r) /\ ~Elastic!IsRead(r) /\ UNCHANGED events
      <3>1. Elastic!Unlogged(c, r) => ~Elastic!IsRight(r) /\ ~Elastic!IsRead(r)
        BY DEF Elastic!Unlogged, Elastic!IsRight, Elastic!IsRead
      <3>2. r.kind \in {"basic", "scheme"} /\ Len(r.parts) # 2 => ~Elastic!IsRead(r)
        BY DEF Elastic!IsRead
      <3> QED BY <1>5, <3>1, <3>2
              DEF Elastic!Anonymous, Elastic!Authenticated, Elastic!Refused, Elastic!Unlogged
    <2> HIDE DEF right, empty, wrong
    <2>4. <<right>> \o <<Elastic!Dump>> = <<right, Elastic!Dump>> /\ <<right>> \o <<>> = <<right>>
      <3>1. <<right>> \in Seq({right})
        OBVIOUS
      <3> QED BY <3>1, Behind1, ConcatEmptySeq
    <2>5. ASSUME NEW es, Elastic!LogAll(c, es)
          PROVE  /\ DOMAIN events' = Conns /\ \A d \in Conns \ {c} : events'[d] = events[d]
                 /\ events'[c] = <<Connection>> \o es
      BY <2>2, <2>5 DEF Elastic!LogAll, ElasticInv
    <2>6. /\ DOMAIN events' = Conns /\ \A d \in Conns \ {c} : events'[d] = events[d]
          /\ \/ r.kind = "anonymous" /\ events'[c] = <<Connection, empty, Elastic!Dump>>
             \/ Elastic!IsRight(r) /\ events'[c] = <<Connection, right, Elastic!Dump>>
             \/ Elastic!IsRight(r) /\ events'[c] = <<Connection, right>>
             \/ /\ r.kind \in {"basic", "scheme"} /\ ~Elastic!IsRight(r) /\ Len(r.parts) = 2
                /\ events'[c] = <<Connection, wrong, Elastic!Dump>>
             \/ ~Elastic!IsRight(r) /\ ~Elastic!IsRead(r) /\ events'[c] = <<Connection>>
      <3>1. CASE r.kind = "anonymous" /\ Elastic!LogAll(c, <<empty, Elastic!Dump>>)
        BY <2>5, <3>1, Behind1
      <3>2. CASE Elastic!IsRight(r) /\ Elastic!LogAll(c, <<right>> \o <<Elastic!Dump>>)
        BY <2>4, <2>5, <3>2, Behind1
      <3>3. CASE Elastic!IsRight(r) /\ Elastic!LogAll(c, <<right>> \o <<>>)
        BY <2>4, <2>5, <3>3, Behind1
      <3>4. CASE /\ r.kind \in {"basic", "scheme"} /\ ~Elastic!IsRight(r) /\ Len(r.parts) = 2
                 /\ Elastic!LogAll(c, <<wrong, Elastic!Dump>>)
        BY <2>5, <3>4, Behind1
      <3>5. CASE ~Elastic!IsRight(r) /\ ~Elastic!IsRead(r) /\ UNCHANGED events
        BY <2>2, <3>5 DEF ElasticInv
      <3> QED BY <2>3, <3>1, <3>2, <3>3, <3>4, <3>5
    <2>7. pdus'[c] = <<r>> => Answered(c, r)'
      BY <2>6 DEF Answered, AnswerLog, right, empty, wrong
    <2> QED BY <2>1, <2>6, <2>7, ElasticReads
  <1>6. CASE UNCHANGED <<thread, accepting, gone, pdus, events>>
    BY <1>2, <1>6 DEF ElasticInv, Elastic!TypeOK
  <1> QED BY <1>1, <1>3, <1>4, <1>5, <1>6 DEF Elastic!Next, Elastic!HandlerStep

\* That a login with some status is in a log.
IsLogged(log, status) == \E i \in DOMAIN log : log[i].action = "login" /\ log[i].status = status

LEMMA ElasticLogs ==
    ASSUME NEW e, e.action = "login"
    PROVE  /\ \A status : ~IsLogged(<<Connection>>, status)
           /\ \A status : IsLogged(<<Connection, e>>, status) <=> e.status = status
           /\ \A status : IsLogged(<<Connection, e, Elastic!Dump>>, status) <=> e.status = status
  <1>1. Connection.action # "login" /\ Elastic!Dump.action # "login"
    BY DEF Connection, Elastic!Dump
  <1>2. /\ DOMAIN <<Connection, e, Elastic!Dump>> = {1, 2, 3}
        /\ DOMAIN <<Connection, e>> = {1, 2} /\ DOMAIN <<Connection>> = {1}
    OBVIOUS
  <1> HIDE DEF Connection
  <1>3. \A status : ~IsLogged(<<Connection>>, status)
    BY <1>1, <1>2, One DEF IsLogged
  <1>4. \A status : IsLogged(<<Connection, e>>, status) <=> e.status = status
    BY <1>1, <1>2, Two DEF IsLogged
  <1>5. \A status : IsLogged(<<Connection, e, Elastic!Dump>>, status) <=> e.status = status
    BY <1>1, <1>2, Three DEF IsLogged
  <1> QED BY <1>3, <1>4, <1>5

\* What RefusalsAreDumped says of a request and a log.
IsRefused(r) == Elastic!IsRead(r) /\ ~Elastic!IsRight(r)
Says(r, log) ==
    /\ IsLogged(log, "success") <=> Elastic!IsRight(r)
    /\ IsLogged(log, "failed") <=> IsRefused(r)
    /\ IsRefused(r) => Len(log) = 3 /\ log[3].action = "dump"
    /\ IsRefused(r) \/ Elastic!IsRight(r) \/ Len(log) = 1

LEMMA ElasticSays == ASSUME NEW r, NEW log, AnswerLog(r, log) PROVE Says(r, log)
  <1> DEFINE right == Elastic!Login(ElasticLogin[1], ElasticLogin[2], TRUE)
             empty == Elastic!Login("", "", FALSE)
             wrong == Elastic!Login(<<r.parts[1]>>, <<r.parts[2]>>, FALSE)
             dump == Elastic!Dump
  <1>1. /\ right.action = "login" /\ right.status = "success"
        /\ empty.action = "login" /\ empty.status = "failed"
        /\ wrong.action = "login" /\ wrong.status = "failed"
        /\ dump.action = "dump"
    BY DEF Elastic!Login, Elastic!Dump
  <1>2. /\ r.kind = "anonymous" => IsRefused(r)
        /\ r.kind \in {"basic", "scheme"} /\ ~Elastic!IsRight(r) /\ Len(r.parts) = 2 => IsRefused(r)
        /\ Elastic!IsRight(r) => ~IsRefused(r)
        /\ ~Elastic!IsRead(r) => ~IsRefused(r)
        /\ IsRefused(r) => ~Elastic!IsRight(r)
    BY DEF IsRefused, Elastic!IsRead, Elastic!IsRight
  <1>3. \/ IsRefused(r) /\ log = <<Connection, empty, dump>>
        \/ Elastic!IsRight(r) /\ (log = <<Connection, right>> \/ log = <<Connection, right, dump>>)
        \/ IsRefused(r) /\ log = <<Connection, wrong, dump>>
        \/ ~Elastic!IsRight(r) /\ ~IsRefused(r) /\ log = <<Connection>>
    BY <1>2 DEF AnswerLog
  <1> HIDE DEF right, empty, wrong
  <1>4. ASSUME NEW e, e.action = "login", e.status = "failed", IsRefused(r),
               log = <<Connection, e, dump>>
        PROVE  Says(r, log)
    <2>1. Len(log) = 3 /\ log[3] = dump
      BY <1>4, Three
    <2>2. IsLogged(log, "failed") /\ ~IsLogged(log, "success")
      BY <1>4, ElasticLogs
    <2> QED BY <1>1, <1>2, <1>4, <2>1, <2>2 DEF Says
  <1>5. CASE Elastic!IsRight(r) /\ (log = <<Connection, right>> \/ log = <<Connection, right, dump>>)
    <2>1. ~IsLogged(log, "failed") /\ IsLogged(log, "success")
      BY <1>1, <1>5, ElasticLogs
    <2> QED BY <1>2, <1>5, <2>1 DEF Says
  <1>6. CASE ~Elastic!IsRight(r) /\ ~IsRefused(r) /\ log = <<Connection>>
    <2>1. ~IsLogged(log, "failed") /\ ~IsLogged(log, "success")
      BY <1>1, <1>6, ElasticLogs
    <2>2. Len(log) = 1
      BY <1>6, One
    <2> QED BY <1>6, <2>1, <2>2 DEF Says
  <1> QED BY <1>1, <1>3, <1>4, <1>5, <1>6

LEMMA ElasticRefusals == ElasticInv => Elastic!RefusalsAreDumped
  <1> SUFFICES ASSUME ElasticInv, NEW c \in Conns, NEW q \in Elastic!ToSet(pdus[c])
               PROVE  Says(q, events[c])
    BY DEF Elastic!RefusalsAreDumped, Says, IsLogged, IsRefused
  <1>1. thread[c] \in {"none", "queued", "handshake", "started", "reading", "done"} /\ ElasticOK(c)
    BY DEF ElasticInv, Elastic!TypeOK
  <1>2. pdus[c] # <<>>
    <2>1. CASE pdus[c] = <<>>
      BY <2>1, EmptySeq DEF Elastic!ToSet
    <2> QED BY <2>1
  <1>3. PICK r \in Requests : pdus[c] = <<r>> /\ AnswerLog(r, events[c])
    BY <1>1, <1>2 DEF ElasticOK, Answered
  <1>4. q = r
    BY <1>3, One DEF Elastic!ToSet
  <1> QED BY <1>3, <1>4, ElasticSays

-------------------------------------------------------------------------------
(* rdp *)

\* The confirmations of the channel joins among the PDUs that were received.
Short(s) == {i \in DOMAIN s : s[i].kind = "short"}
Confirmations(s) ==
    LET joins == At(s, Short(s)) IN [i \in DOMAIN joins |-> Rdp!Confirmed(joins[i])]

LEMMA NoConfirmations == Confirmations(<<>>) = <<>>
  <1>1. At(<<>>, Short(<<>>)) = <<>>
    BY AtEmpty
  <1>2. Confirmations(<<>>) = [i \in DOMAIN <<>> |-> Rdp!Confirmed(<<>>[i])]
    BY <1>1 DEF Confirmations
  <1> QED BY <1>2

\* One more PDU: one more confirmation if it is a short one.
LEMMA OneMoreConfirmation ==
    ASSUME NEW S, NEW s \in Seq(S), NEW e \in S
    PROVE  Confirmations(Append(s, e)) =
             IF e.kind = "short" THEN Append(Confirmations(s), Rdp!Confirmed(e))
             ELSE Confirmations(s)
  <1> DEFINE t == Append(s, e)
             joins == At(s, Short(s))
             more == At(t, Short(t))
             n == Len(joins)
  <1>1. /\ Len(s) \in Nat /\ DOMAIN s = 1 .. Len(s) /\ DOMAIN t = 1 .. Len(s) + 1
        /\ t[Len(s) + 1] = e /\ \A i \in 1 .. Len(s) : t[i] = s[i]
    BY AppendProperties
  <1> HIDE DEF t
  <1>2. /\ \A i \in 1 .. Len(s) : i \in Short(s) <=> i \in Short(t)
        /\ Len(s) + 1 \in Short(t) <=> e.kind = "short"
    BY <1>1 DEF Short
  <1>3. more = IF Len(s) + 1 \in Short(t) THEN Append(joins, e) ELSE joins
    BY <1>2, AtAppend DEF t
  <1>4. joins \in Seq(S)
    BY AtType
  <1>5. Confirmations(s) = [i \in DOMAIN joins |-> Rdp!Confirmed(joins[i])]
        /\ Confirmations(t) = [i \in DOMAIN more |-> Rdp!Confirmed(more[i])]
    BY DEF Confirmations
  <1> HIDE DEF joins, more
  <1>6. CASE e.kind # "short"
    BY <1>2, <1>3, <1>5, <1>6 DEF t
  <1>7. CASE e.kind = "short"
    <2>1. /\ n \in Nat /\ DOMAIN joins = 1 .. n /\ DOMAIN more = 1 .. n + 1
          /\ more[n + 1] = e /\ \A i \in 1 .. n : more[i] = joins[i]
      BY <1>2, <1>3, <1>4, <1>7, AppendProperties
    <2> HIDE DEF n
    <2> DEFINE f == [i \in 1 .. n + 1 |-> Rdp!Confirmed(more[i])]
               g == [i \in 1 .. n |-> Rdp!Confirmed(joins[i])]
    <2>2. f = Append(g, f[n + 1])
      <3>1. f = [i \in 1 .. n + 1 |-> f[i]]
        OBVIOUS
      <3>2. g = [i \in 1 .. n |-> f[i]]
        BY <2>1
      <3> HIDE DEF f, g
      <3> QED BY <2>1, <3>1, <3>2, OneMore
    <2>3. f[n + 1] = Rdp!Confirmed(e)
      BY <2>1
    <2>4. Confirmations(s) = g /\ Confirmations(t) = f
      BY <1>5, <2>1
    <2> HIDE DEF f, g
    <2> QED BY <1>7, <2>2, <2>3, <2>4 DEF t
  <1> QED BY <1>6, <1>7

\* What confirmations are.
Joinings == {Rdp!Confirmed(pdu) : pdu \in Pdus}
LEMMA ConfirmationsAre ==
    ASSUME NEW s \in Seq(Pdus)
    PROVE  Confirmations(s) \in Seq(Joinings)
  <1> DEFINE joins == At(s, Short(s))
             n == Len(joins)
  <1>1. joins \in Seq(Pdus)
    BY AtType
  <1> HIDE DEF joins
  <1>2. n \in Nat /\ DOMAIN joins = 1 .. n /\ \A i \in 1 .. n : joins[i] \in Pdus
    BY <1>1
  <1>3. Confirmations(s) = [i \in 1 .. n |-> Rdp!Confirmed(joins[i])]
    BY <1>2 DEF Confirmations, joins
  <1> HIDE DEF n
  <1>4. [i \in 1 .. n |-> Rdp!Confirmed(joins[i])] \in [1 .. n -> Joinings]
    BY <1>2 DEF Joinings
  <1> QED BY <1>2, <1>3, <1>4, FunctionIsSequence

Confirm == Rdp!Pdu("confirm")
Conference == Rdp!Pdu("conference")
User == Rdp!Pdu("user")
Disconnected == Rdp!Pdu("disconnect")
Replies == {Confirm, Conference, User, Disconnected} \union Joinings

\* What is sent to a client that gets to the channels.
Opening == <<Confirm, Conference, User>>
Spoken(s) == Opening \o Confirmations(s)

\* Everything that is sent, place by place: what makes DialogueIsClosed inductive.
RdpOK(c) ==
    /\ pdus[c] \in Seq(Pdus)
    /\ thread[c] \in {"none", "request"} => replies[c] = <<>>
    /\ thread[c] \in {"tls", "mcs"} => replies[c] = <<Confirm>>
    /\ thread[c] \in {"erect", "attach"} => replies[c] = <<Confirm, Conference>>
    /\ thread[c] \notin {"joins", "done"} => pdus[c] = <<>>
    /\ thread[c] = "joins" => replies[c] = Spoken(pdus[c])
    /\ thread[c] = "done" =>
          \/ replies[c] = <<>> \/ replies[c] = <<Confirm>> \/ replies[c] = <<Confirm, Conference>>
          \/ gone[c] /\ replies[c] = Spoken(pdus[c])
          \/ replies[c] = Append(Spoken(pdus[c]), Disconnected)

\* The log has no login, and it has something as soon as the client is heard.
RdpLog(c) ==
    /\ thread[c] = "none" => events[c] = <<>>
    /\ thread[c] \notin {"none", "done"} => events[c] # <<>>
    /\ \A i \in DOMAIN events[c] : events[c][i].action # "login"

RdpInv ==
    /\ Rdp!TypeOK
    /\ DOMAIN replies = Alone /\ DOMAIN pdus = Alone /\ Sequences(Alone, events)
    /\ \A c \in Alone : RdpOK(c) /\ RdpLog(c)

LEMMA RdpBegins == Rdp!Init => RdpInv
  <1> SUFFICES ASSUME Rdp!Init PROVE RdpInv
    OBVIOUS
  <1>1. \A c \in Alone : /\ thread[c] = "none" /\ replies[c] = <<>> /\ pdus[c] = <<>>
                         /\ events[c] = <<>>
    BY DEF Rdp!Init
  <1>2. \A c \in Alone : pdus[c] \in Seq(Pdus)
    <2>1. <<>> \in Seq(Pdus)
      BY EmptySeq
    <2> QED BY <1>1, <2>1, Zenon
  <1>3. Rdp!TypeOK
    BY <1>2 DEF Rdp!Init, Rdp!TypeOK, Rdp!Places, Rdp!Joins
  <1>4. Sequences(Alone, events)
    BY EmptyLogs DEF Rdp!Init
  <1>5. \A c \in Alone : RdpOK(c) /\ RdpLog(c)
    BY <1>1, <1>2 DEF RdpOK, RdpLog
  <1> QED BY <1>3, <1>4, <1>5 DEF Rdp!Init, RdpInv

\* Only the connection that takes a step changes.
LEMMA RdpFrame ==
    ASSUME RdpInv, NEW c \in Alone, Rdp!TypeOK',
           DOMAIN replies' = Alone, DOMAIN pdus' = Alone, Sequences(Alone, events'),
           \A d \in Alone \ {c} : /\ thread'[d] = thread[d] /\ gone'[d] = gone[d]
                                  /\ pdus'[d] = pdus[d] /\ replies'[d] = replies[d]
                                  /\ events'[d] = events[d],
           RdpOK(c)', RdpLog(c)'
    PROVE  RdpInv'
  <1>1. ASSUME NEW d \in Alone \ {c} PROVE RdpOK(d)' /\ RdpLog(d)'
    <2>1. RdpOK(d) /\ RdpLog(d)
      BY DEF RdpInv
    <2> QED BY <2>1 DEF RdpOK, RdpLog
  <1> QED BY <1>1 DEF RdpInv

\* Steps that change neither the PDUs, the replies nor the log.
LEMMA RdpCalm ==
    ASSUME RdpInv, NEW c \in Alone, UNCHANGED <<pdus, replies, events>>, Rdp!TypeOK',
           \A d \in Alone \ {c} : thread'[d] = thread[d] /\ gone'[d] = gone[d],
           RdpOK(c)', thread'[c] = "none" => thread[c] = "none",
           thread'[c] \notin {"none", "done"} => thread[c] \notin {"none", "done"}
    PROVE  RdpInv'
  <1>1. RdpLog(c)'
    <2>1. RdpLog(c)
      BY DEF RdpInv
    <2> QED BY <2>1 DEF RdpLog
  <1>2. DOMAIN replies' = Alone /\ DOMAIN pdus' = Alone /\ Sequences(Alone, events')
    BY DEF RdpInv
  <1> QED BY <1>1, <1>2, RdpFrame

\* A log entry that is no login.
LEMMA RdpLogs ==
    ASSUME RdpInv, NEW c \in Alone, NEW action, Rdp!Log(c, action), action # "login",
           thread'[c] # "none"
    PROVE  /\ Sequences(Alone, events') /\ RdpLog(c)'
           /\ \A d \in Alone \ {c} : events'[d] = events[d]
  <1> DEFINE e == [action |-> action]
  <1>1. e.action = action
    OBVIOUS
  <1>2. Appended(events, c, e, events') /\ Sequences(Alone, events)
    BY DEF Rdp!Log, Appended, RdpInv
  <1> HIDE DEF e
  <1>3. /\ Sequences(Alone, events')
        /\ Len(events[c]) \in Nat
        /\ DOMAIN events[c] = 1 .. Len(events[c]) /\ DOMAIN events'[c] = 1 .. Len(events[c]) + 1
        /\ \A i \in 1 .. Len(events[c]) : events'[c][i] = events[c][i]
        /\ events'[c][Len(events[c]) + 1] = e
        /\ \A d \in Alone \ {c} : events'[d] = events[d]
    BY <1>2, LogAppends
  <1>4. \A i \in DOMAIN events[c] : events[c][i].action # "login"
    BY DEF RdpInv, RdpLog
  <1>5. \A i \in DOMAIN events'[c] : events'[c][i].action # "login"
    BY <1>1, <1>3, <1>4
  <1>6. events'[c] # <<>>
    <2>1. Len(events[c]) + 1 \in DOMAIN events'[c] /\ DOMAIN <<>> = {}
      BY <1>3
    <2> QED BY <2>1
  <1> QED BY <1>3, <1>5, <1>6 DEF RdpLog

\* A reply is sent.
LEMMA RdpReplies ==
    ASSUME RdpInv, NEW c \in Alone, NEW reply, Rdp!Send(c, reply)
    PROVE  /\ DOMAIN replies' = Alone /\ replies'[c] = Append(replies[c], reply)
           /\ \A d \in Alone \ {c} : replies'[d] = replies[d]
  BY DEF RdpInv, Rdp!Send

LEMMA RdpPlaces ==
    ASSUME RdpInv, NEW c \in Alone, NEW place, Rdp!Goto(c, place)
    PROVE  /\ thread'[c] = place /\ \A d \in Alone \ {c} : thread'[d] = thread[d]
           /\ place \in Rdp!Places => thread' \in [Alone -> Rdp!Places]
  BY DEF RdpInv, Rdp!TypeOK, Rdp!Goto

LEMMA RdpCloses ==
    ASSUME RdpInv, NEW c \in Alone, Rdp!Fails(c) \/ Rdp!SendFails(c) \/ Rdp!Handshake(c) \/ Rdp!Leave(c)
    PROVE  RdpInv'
  <1>1. UNCHANGED <<pdus, replies, events, joined>>
    BY DEF Rdp!Fails, Rdp!SendFails, Rdp!Handshake, Rdp!Leave, Rdp!Close
  <1>2. Rdp!TypeOK'
    BY DEF RdpInv, Rdp!TypeOK, Rdp!Fails, Rdp!SendFails, Rdp!Handshake, Rdp!Leave, Rdp!Close,
           Rdp!Goto, Rdp!Places
  <1>3. /\ \A d \in Alone \ {c} : thread'[d] = thread[d] /\ gone'[d] = gone[d]
        /\ thread[c] \notin {"none", "done"} /\ thread'[c] # "none"
    BY DEF RdpInv, Rdp!TypeOK, Rdp!Fails, Rdp!SendFails, Rdp!Handshake, Rdp!Leave, Rdp!Close,
           Rdp!Goto, Rdp!Places
  <1>4. RdpOK(c) /\ thread[c] \in Rdp!Places
    BY DEF RdpInv, Rdp!TypeOK
  <1>5. \/ thread'[c] = "done" /\ (thread[c] # "joins" \/ gone[c]) /\ gone'[c] = gone[c]
        \/ thread[c] = "tls" /\ thread'[c] = "mcs"
        \/ thread'[c] = thread[c] /\ gone'[c]
    BY DEF RdpInv, Rdp!TypeOK, Rdp!Fails, Rdp!SendFails, Rdp!Handshake, Rdp!Leave, Rdp!Close,
           Rdp!Goto
  <1>6. RdpOK(c)'
    BY <1>1, <1>3, <1>4, <1>5 DEF RdpOK, Rdp!Places
  <1> QED BY <1>1, <1>2, <1>3, <1>6, RdpCalm

LEMMA RdpRuns ==
    ASSUME RdpInv, NEW c \in Alone, Rdp!Run(c)
    PROVE  RdpInv'
  <1>1. thread[c] = "none" /\ UNCHANGED <<gone, joined, pdus, replies>>
    BY DEF Rdp!Run
  <1>2. RdpOK(c) /\ replies[c] = <<>> /\ pdus[c] = <<>>
    BY <1>1 DEF RdpInv, RdpOK
  <1>3. CASE Rdp!Goto(c, "done") /\ UNCHANGED events
    <2>1. thread'[c] = "done" /\ (\A d \in Alone \ {c} : thread'[d] = thread[d])
          /\ thread' \in [Alone -> Rdp!Places]
      BY <1>3, RdpPlaces DEF Rdp!Places
    <2>2. Rdp!TypeOK'
      BY <1>1, <2>1 DEF RdpInv, Rdp!TypeOK
    <2>3. RdpOK(c)'
      BY <1>1, <1>2, <2>1 DEF RdpOK
    <2> QED BY <1>1, <1>3, <2>1, <2>2, <2>3, RdpCalm
  <1>4. CASE Rdp!Log(c, "connection") /\ Rdp!Goto(c, "request")
    <2>1. thread'[c] = "request" /\ (\A d \in Alone \ {c} : thread'[d] = thread[d])
          /\ thread' \in [Alone -> Rdp!Places]
      BY <1>4, RdpPlaces DEF Rdp!Places
    <2>2. Rdp!TypeOK'
      BY <1>1, <2>1 DEF RdpInv, Rdp!TypeOK
    <2>3. RdpOK(c)'
      BY <1>1, <1>2, <2>1 DEF RdpOK
    <2>4. /\ Sequences(Alone, events') /\ RdpLog(c)'
          /\ \A d \in Alone \ {c} : events'[d] = events[d]
      BY <1>4, <2>1, RdpLogs
    <2>5. DOMAIN replies' = Alone /\ DOMAIN pdus' = Alone
      BY <1>1 DEF RdpInv
    <2> QED BY <1>1, <2>1, <2>2, <2>3, <2>4, <2>5, RdpFrame
  <1> QED BY <1>3, <1>4 DEF Rdp!Run

\* Up to the channels: a reply or none, and perhaps the name of the user in the log.
LEMMA RdpOpens ==
    ASSUME RdpInv, NEW c \in Alone, Rdp!Skip(c) \/ \E pdu \in Pdus : Rdp!ConnectionRequest(c, pdu)
    PROVE  RdpInv'
  <1>1. UNCHANGED <<gone, joined, pdus>>
    BY DEF Rdp!Skip, Rdp!ConnectionRequest
  <1>2. RdpOK(c) /\ RdpLog(c)
    BY DEF RdpInv
  <1>3. \/ thread[c] = "request" /\ Rdp!Send(c, Confirm) /\ Rdp!Goto(c, "tls")
        \/ thread[c] = "mcs" /\ Rdp!Send(c, Conference) /\ Rdp!Goto(c, "erect")
        \/ thread[c] = "erect" /\ UNCHANGED replies /\ Rdp!Goto(c, "attach")
        \/ thread[c] = "attach" /\ Rdp!Send(c, User) /\ Rdp!Goto(c, "joins")
    BY DEF Rdp!Skip, Rdp!ConnectionRequest, Confirm, Conference, User
  <1>4. PICK place \in {"tls", "erect", "attach", "joins"} : Rdp!Goto(c, place)
    BY <1>3
  <1>5. /\ thread'[c] = place /\ \A d \in Alone \ {c} : thread'[d] = thread[d]
        /\ thread' \in [Alone -> Rdp!Places]
    BY <1>4, RdpPlaces DEF Rdp!Places
  <1>6. Rdp!TypeOK'
    BY <1>1, <1>5 DEF RdpInv, Rdp!TypeOK
  <1>7. DOMAIN pdus' = Alone /\ pdus[c] = <<>> /\ pdus'[c] = <<>> /\ pdus'[c] \in Seq(Pdus)
    BY <1>1, <1>2, <1>3 DEF RdpInv, RdpOK
  <1>8. DOMAIN replies' = Alone /\ \A d \in Alone \ {c} : replies'[d] = replies[d]
    BY <1>3, RdpReplies DEF RdpInv
  <1>9. RdpOK(c)'
    <2>1. CASE thread[c] = "request" /\ Rdp!Send(c, Confirm) /\ Rdp!Goto(c, "tls")
      <3>1. thread'[c] = "tls" /\ replies[c] = <<>> /\ replies'[c] = Append(replies[c], Confirm)
        BY <1>2, <2>1, RdpPlaces, RdpReplies DEF RdpOK
      <3>2. replies'[c] = <<Confirm>>
        BY <3>1
      <3> QED BY <1>7, <3>1, <3>2 DEF RdpOK
    <2>2. CASE thread[c] = "mcs" /\ Rdp!Send(c, Conference) /\ Rdp!Goto(c, "erect")
      <3>1. thread'[c] = "erect" /\ replies[c] = <<Confirm>>
            /\ replies'[c] = Append(replies[c], Conference)
        BY <1>2, <2>2, RdpPlaces, RdpReplies DEF RdpOK
      <3>2. replies'[c] = <<Confirm, Conference>>
        <4>1. <<Confirm, Conference>> = Append(<<Confirm>>, Conference)
          BY Two
        <4> QED BY <3>1, <4>1, Zenon
      <3> QED BY <1>7, <3>1, <3>2 DEF RdpOK
    <2>3. CASE thread[c] = "erect" /\ UNCHANGED replies /\ Rdp!Goto(c, "attach")
      <3>1. thread'[c] = "attach" /\ replies'[c] = <<Confirm, Conference>>
        BY <1>2, <2>3, RdpPlaces DEF RdpOK
      <3> QED BY <1>7, <3>1 DEF RdpOK
    <2>4. CASE thread[c] = "attach" /\ Rdp!Send(c, User) /\ Rdp!Goto(c, "joins")
      <3>1. thread'[c] = "joins" /\ replies[c] = <<Confirm, Conference>>
            /\ replies'[c] = Append(replies[c], User)
        BY <1>2, <2>4, RdpPlaces, RdpReplies DEF RdpOK
      <3>2. replies'[c] = Opening
        <4>1. Opening = Append(<<Confirm, Conference>>, User)
          BY Three DEF Opening
        <4> QED BY <3>1, <4>1, Zenon
      <3>3. Spoken(<<>>) = Opening
        <4>1. Opening \in Seq({Confirm, Conference, User})
          BY DEF Opening
        <4> QED BY <4>1, NoConfirmations, ConcatEmptySeq DEF Spoken
      <3>4. replies'[c] = Spoken(pdus'[c])
        BY <1>7, <3>2, <3>3
      <3> QED BY <1>7, <3>1, <3>4 DEF RdpOK
    <2> QED BY <1>3, <2>1, <2>2, <2>3, <2>4
  <1>10. CASE UNCHANGED events
    <2>1. RdpLog(c)' /\ Sequences(Alone, events')
      BY <1>2, <1>3, <1>5, <1>10 DEF RdpLog, RdpInv
    <2> QED BY <1>1, <1>5, <1>6, <1>7, <1>8, <1>9, <1>10, <2>1, RdpFrame
  <1>11. CASE Rdp!Log(c, "stshash")
    <2>1. /\ Sequences(Alone, events') /\ RdpLog(c)'
          /\ \A d \in Alone \ {c} : events'[d] = events[d]
      BY <1>5, <1>11, RdpLogs
    <2> QED BY <1>1, <1>5, <1>6, <1>7, <1>8, <1>9, <2>1, RdpFrame
  <1>12. UNCHANGED events \/ Rdp!Log(c, "stshash")
    BY DEF Rdp!Skip, Rdp!ConnectionRequest
  <1> QED BY <1>10, <1>11, <1>12

\* A turn of the loop, and its end.
LEMMA RdpJoins ==
    ASSUME RdpInv, NEW c \in Alone,
           \/ Rdp!LoopEnds(c)
           \/ \E pdu \in Pdus : ~gone[c] /\ (Rdp!Join(c, pdu) \/ Rdp!Raises(c, pdu))
    PROVE  RdpInv'
  <1>1. thread[c] = "joins" /\ UNCHANGED <<gone, events>>
    BY DEF Rdp!LoopEnds, Rdp!Join, Rdp!Raises, Rdp!Take
  <1>2. RdpOK(c) /\ RdpLog(c) /\ replies[c] = Spoken(pdus[c]) /\ pdus[c] \in Seq(Pdus)
    BY <1>1 DEF RdpInv, RdpOK
  <1>3. /\ Confirmations(pdus[c]) \in Seq(Replies) /\ Opening \in Seq(Replies)
        /\ Spoken(pdus[c]) \in Seq(Replies) /\ Disconnected \in Replies
    <2>1. Confirmations(pdus[c]) \in Seq(Joinings) /\ Joinings \subseteq Replies
      BY <1>2, ConfirmationsAre DEF Replies
    <2>2. Confirmations(pdus[c]) \in Seq(Replies)
      BY <2>1
    <2>3. Confirm \in Replies /\ Conference \in Replies /\ User \in Replies /\ Disconnected \in Replies
      BY DEF Replies
    <2>4. Opening \in Seq(Replies)
      BY <2>3 DEF Opening
    <2> QED BY <2>2, <2>3, <2>4, ConcatProperties DEF Spoken
  <1>4. ASSUME NEW pdu \in Pdus, Rdp!Take(c, pdu)
        PROVE  /\ DOMAIN pdus' = Alone /\ pdus'[c] = Append(pdus[c], pdu)
               /\ pdus'[c] \in Seq(Pdus) /\ joined[c] < 8
               /\ \A d \in Alone \ {c} : pdus'[d] = pdus[d]
    <2>1. /\ DOMAIN pdus' = Alone /\ pdus'[c] = Append(pdus[c], pdu) /\ joined[c] < 8
          /\ \A d \in Alone \ {c} : pdus'[d] = pdus[d]
      BY <1>4 DEF RdpInv, Rdp!Take, Rdp!Joins
    <2> QED BY <1>2, <2>1, AppendProperties
  <1>5. ASSUME NEW pdu \in Pdus, Rdp!Take(c, pdu)
        PROVE  /\ pdu.kind = "short" => Spoken(pdus'[c]) = Append(Spoken(pdus[c]), Rdp!Confirmed(pdu))
               /\ pdu.kind # "short" => Spoken(pdus'[c]) = Spoken(pdus[c])
    <2>1. Confirmations(pdus'[c]) = IF pdu.kind = "short"
                                    THEN Append(Confirmations(pdus[c]), Rdp!Confirmed(pdu))
                                    ELSE Confirmations(pdus[c])
      BY <1>2, <1>4, <1>5, OneMoreConfirmation
    <2>2. Rdp!Confirmed(pdu) \in Replies
      BY DEF Replies, Joinings
    <2>3. Opening \o Append(Confirmations(pdus[c]), Rdp!Confirmed(pdu))
            = Append(Opening \o Confirmations(pdus[c]), Rdp!Confirmed(pdu))
      BY <1>3, <2>2, ConcatAppend
    <2> QED BY <2>1, <2>3 DEF Spoken
  <1>6. ASSUME NEW pdu \in Pdus, Rdp!Join(c, pdu) PROVE RdpInv'
    <2>1. Rdp!Take(c, pdu) /\ UNCHANGED thread /\ joined' = [joined EXCEPT ![c] = @ + 1]
      BY <1>6 DEF Rdp!Join
    <2>2. DOMAIN replies' = Alone /\ \A d \in Alone \ {c} : replies'[d] = replies[d]
      BY <1>6, RdpReplies DEF Rdp!Join, RdpInv
    <2>3. replies'[c] = Spoken(pdus'[c])
      <3>1. CASE pdu.kind = "short"
        <4>1. Rdp!Send(c, Rdp!Confirmed(pdu))
          BY <1>6, <3>1 DEF Rdp!Join
        <4>2. replies'[c] = Append(replies[c], Rdp!Confirmed(pdu))
          BY <4>1, RdpReplies
        <4> QED BY <1>2, <1>5, <2>1, <3>1, <4>2
      <3>2. CASE pdu.kind # "short"
        <4>1. replies'[c] = replies[c]
          BY <1>6, <3>2 DEF Rdp!Join
        <4> QED BY <1>2, <1>5, <2>1, <3>2, <4>1
      <3> QED BY <3>1, <3>2
    <2>4. RdpOK(c)'
      BY <1>1, <1>4, <2>1, <2>3 DEF RdpOK
    <2>5. Rdp!TypeOK'
      <3>1. joined' \in [Alone -> 0 .. Rdp!Joins]
        BY <1>4, <2>1 DEF RdpInv, Rdp!TypeOK, Rdp!Joins
      <3>2. \A d \in Alone : pdus'[d] \in Seq(Pdus)
        BY <1>4, <2>1 DEF RdpInv, Rdp!TypeOK
      <3> QED BY <1>1, <2>1, <3>1, <3>2 DEF RdpInv, Rdp!TypeOK
    <2>6. RdpLog(c)' /\ Sequences(Alone, events')
      BY <1>1, <1>2, <2>1 DEF RdpLog, RdpInv
    <2> QED BY <1>1, <1>4, <2>1, <2>2, <2>4, <2>5, <2>6, RdpFrame
  <1>7. ASSUME Rdp!Disconnect(c), UNCHANGED joined, DOMAIN pdus' = Alone, pdus'[c] \in Seq(Pdus),
               \A d \in Alone \ {c} : pdus'[d] = pdus[d],
               Spoken(pdus'[c]) = Spoken(pdus[c])
        PROVE  RdpInv'
    <2>1. /\ thread'[c] = "done" /\ \A d \in Alone \ {c} : thread'[d] = thread[d]
          /\ thread' \in [Alone -> Rdp!Places]
      BY <1>7, RdpPlaces DEF Rdp!Disconnect, Rdp!Places
    <2>2. /\ DOMAIN replies' = Alone /\ replies'[c] = Append(replies[c], Disconnected)
          /\ \A d \in Alone \ {c} : replies'[d] = replies[d]
      BY <1>7, RdpReplies DEF Rdp!Disconnect, Disconnected
    <2>3. RdpOK(c)'
      BY <1>2, <1>7, <2>1, <2>2 DEF RdpOK
    <2>4. Rdp!TypeOK'
      <3>1. \A d \in Alone : pdus'[d] \in Seq(Pdus)
        BY <1>7 DEF RdpInv, Rdp!TypeOK
      <3> QED BY <1>1, <1>7, <2>1, <3>1 DEF RdpInv, Rdp!TypeOK
    <2>5. RdpLog(c)' /\ Sequences(Alone, events')
      BY <1>1, <1>2, <2>1 DEF RdpLog, RdpInv
    <2> QED BY <1>1, <1>7, <2>1, <2>2, <2>3, <2>4, <2>5, RdpFrame
  <1>8. ASSUME NEW pdu \in Pdus, Rdp!Raises(c, pdu) PROVE RdpInv'
    <2>1. Rdp!Take(c, pdu) /\ Rdp!Disconnect(c) /\ UNCHANGED joined /\ pdu.kind # "short"
      BY <1>8 DEF Rdp!Raises
    <2> QED BY <1>4, <1>5, <1>7, <2>1
  <1>9. CASE Rdp!LoopEnds(c)
    <2>1. Rdp!Disconnect(c) /\ UNCHANGED <<joined, pdus>>
      BY <1>9 DEF Rdp!LoopEnds
    <2> QED BY <1>2, <1>7, <2>1 DEF RdpInv
  <1> QED BY <1>6, <1>8, <1>9

LEMMA RdpKeeps ==
    ASSUME RdpInv, Rdp!Next \/ UNCHANGED <<thread, gone, joined, pdus, replies, events>>
    PROVE  RdpInv'
  <1>1. CASE UNCHANGED <<thread, gone, joined, pdus, replies, events>>
    BY <1>1 DEF RdpInv, RdpOK, RdpLog, Rdp!TypeOK
  <1> QED BY <1>1, RdpCloses, RdpRuns, RdpOpens, RdpJoins DEF Rdp!Next, Rdp!HandlerStep

\* What follows the opening.
LEMMA AfterOpening ==
    ASSUME NEW t \in Seq(Replies)
    PROVE  SubSeq(Opening \o t, 4, Len(Opening \o t)) = t
  <1> DEFINE u == Opening \o t
             m == Len(t)
             w == SubSeq(u, 4, Len(u))
  <1>1. Opening \in Seq(Replies) /\ Len(Opening) = 3
    BY Three DEF Opening, Replies
  <1>2. /\ u \in Seq(Replies) /\ Len(u) = 3 + m /\ m \in Nat
        /\ \A i \in 1 .. 3 + m : u[i] \in Replies
        /\ \A i \in 1 .. m : u[3 + i] = t[i]
    <2>1. /\ Len(Opening \o t) = Len(Opening) + Len(t)
          /\ \A i \in 1 .. Len(Opening) + Len(t) :
                (Opening \o t)[i] = IF i <= Len(Opening) THEN Opening[i] ELSE t[i - Len(Opening)]
      BY <1>1, ConcatProperties
    <2>2. u \in Seq(Replies) /\ m \in Nat
      BY <1>1, ConcatProperties
    <2>3. Len(u) = 3 + m
      BY <1>1, <2>1
    <2>4. ASSUME NEW i \in 1 .. m PROVE u[3 + i] = t[i]
      <3>1. 3 + i \in 1 .. Len(Opening) + Len(t) /\ ~(3 + i <= Len(Opening))
            /\ (3 + i) - Len(Opening) = i
        BY <1>1, <2>2
      <3> QED BY <2>1, <3>1
    <2> HIDE DEF u
    <2> QED BY <2>2, <2>3, <2>4
  <1> HIDE DEF u, m
  <1>3. 4 \in Int /\ Len(u) \in Int /\ \A i \in 4 .. Len(u) : u[i] \in Replies
    BY <1>2
  <1>4. /\ w \in Seq(Replies) /\ Len(w) = (IF 4 <= Len(u) THEN Len(u) - 4 + 1 ELSE 0)
        /\ \A i \in 1 .. Len(u) - 4 + 1 : w[i] = u[4 + i - 1]
    BY <1>2, <1>3, SubSeqProperties
  <1> HIDE DEF w
  <1>5. Len(w) = m
    BY <1>2, <1>4
  <1>6. ASSUME NEW i \in 1 .. m PROVE w[i] = t[i]
    <2>1. i \in 1 .. Len(u) - 4 + 1 /\ 4 + i - 1 = 3 + i
      BY <1>2
    <2> QED BY <1>2, <1>4, <2>1
  <1>7. w = t
    BY <1>4, <1>5, <1>6, SeqEqual DEF m
  <1> QED BY <1>7 DEF w, u

\* Reply by reply: nothing but the last word is a disconnection.
LEMMA RepliesDiffer ==
    /\ User # Confirm /\ User # Conference
    /\ Disconnected \notin {Confirm, Conference, User} \union Joinings
  <1>1. /\ Confirm.pdu = "confirm" /\ Conference.pdu = "conference" /\ User.pdu = "user"
        /\ Disconnected.pdu = "disconnect"
    BY DEF Confirm, Conference, User, Disconnected, Rdp!Pdu
  <1>2. \A x \in Joinings : x.pdu = "join"
    BY DEF Joinings, Rdp!Confirmed
  <1> QED BY <1>1, <1>2

\* The operators that RdpServer takes from other modules are those of this one.
LEMMA RdpSame ==
    /\ \A s, I : Rdp!At(s, I) = At(s, I)
    /\ \A f : Rdp!Range(f) = Range(f)
  BY DEF Rdp!At, At, Rdp!Range, Range

LEMMA RdpDialogues == RdpInv => Rdp!DialogueIsClosed
  <1> SUFFICES ASSUME RdpInv, NEW c \in Alone
               PROVE  User \in Range(replies[c]) =>
                        SubSeq(replies[c], 4, Len(replies[c])) =
                          Confirmations(pdus[c]) \o
                          (IF thread[c] = "done" /\ (~gone[c] \/ Disconnected \in Range(replies[c]))
                           THEN <<Disconnected>> ELSE <<>>)
    BY RdpSame DEF Rdp!DialogueIsClosed, Confirmations, Short, User, Disconnected
  <1> DEFINE t == Confirmations(pdus[c])
             R == {Confirm, Conference, User} \union Joinings
  <1>1. RdpOK(c) /\ thread[c] \in Rdp!Places
    BY DEF RdpInv, Rdp!TypeOK
  <1>2. pdus[c] \in Seq(Pdus)
    BY <1>1 DEF RdpOK
  <1>3. /\ t \in Seq(Joinings) /\ t \in Seq(R) /\ t \in Seq(Replies)
        /\ Opening \in Seq(R) /\ Opening \o t \in Seq(R) /\ Opening \o t \in Seq(Replies)
        /\ Opening \in Seq(Replies) /\ Disconnected \in Replies
    <2>1. t \in Seq(Joinings) /\ Joinings \subseteq R /\ Joinings \subseteq Replies
      BY <1>2, ConfirmationsAre DEF Replies
    <2>2. Confirm \in R /\ Conference \in R /\ User \in R /\ R \subseteq Replies /\ Disconnected \in Replies
      BY DEF Replies
    <2> HIDE DEF R, t
    <2>3. t \in Seq(R) /\ t \in Seq(Replies)
      BY <2>1
    <2>4. Opening \in Seq(R) /\ Opening \in Seq(Replies)
      BY <2>2 DEF Opening
    <2> QED BY <2>1, <2>2, <2>3, <2>4, ConcatProperties
  <1>4. Disconnected \notin R
    BY RepliesDiffer
  <1> HIDE DEF t, R
  <1>5. CASE \/ replies[c] = <<>> \/ replies[c] = <<Confirm>> \/ replies[c] = <<Confirm, Conference>>
    <2>1. User \notin Range(replies[c])
      <3>1. CASE replies[c] = <<>>
        <4>1. Range(replies[c]) = {}
          BY <3>1 DEF Range
        <4> QED BY <4>1
      <3>2. CASE replies[c] = <<Confirm>>
        <4>1. Range(replies[c]) = {Confirm}
          BY <3>2, One DEF Range
        <4> QED BY <4>1, RepliesDiffer
      <3>3. CASE replies[c] = <<Confirm, Conference>>
        <4>1. DOMAIN replies[c] = 1 .. 2 /\ replies[c][1] = Confirm /\ replies[c][2] = Conference
          BY <3>3, Two
        <4>2. Range(replies[c]) = {Confirm, Conference}
          BY <4>1 DEF Range
        <4> QED BY <4>2, RepliesDiffer
      <3> QED BY <1>5, <3>1, <3>2, <3>3
    <2> QED BY <2>1
  <1>6. CASE replies[c] = Spoken(pdus[c]) /\ (thread[c] # "done" \/ gone[c])
    <2>1. replies[c] = Opening \o t
      BY <1>6 DEF Spoken, t
    <2>2. Disconnected \notin Range(replies[c])
      <3>1. \A i \in DOMAIN replies[c] : replies[c][i] \in R
        BY <1>3, <2>1
      <3> QED BY <1>4, <3>1 DEF Range
    <2>3. SubSeq(replies[c], 4, Len(replies[c])) = t
      BY <1>3, <2>1, AfterOpening
    <2>4. t \o <<>> = t
      BY <1>3, ConcatEmptySeq
    <2> QED BY <1>6, <2>2, <2>3, <2>4 DEF t
  <1>7. CASE replies[c] = Append(Spoken(pdus[c]), Disconnected) /\ thread[c] = "done"
    <2> DEFINE v == Append(t, Disconnected)
    <2>1. v \in Seq(Replies) /\ v = t \o <<Disconnected>>
      BY <1>3, AppendProperties, AppendIsConcat
    <2>2. replies[c] = Opening \o v
      <3>1. Opening \o v = Append(Opening \o t, Disconnected)
        BY <1>3, ConcatAppend
      <3> QED BY <1>7, <3>1 DEF Spoken, t
    <2>3. Disconnected \in Range(replies[c])
      <3> DEFINE u == Opening \o t
      <3>1. u \in Seq(Replies) /\ replies[c] = Append(u, Disconnected)
        BY <1>3, <1>7 DEF Spoken, t
      <3> HIDE DEF u
      <3>2. Len(u) + 1 \in DOMAIN replies[c] /\ replies[c][Len(u) + 1] = Disconnected
        BY <1>3, <3>1, AppendProperties
      <3> QED BY <3>2 DEF Range
    <2> HIDE DEF v
    <2>4. SubSeq(replies[c], 4, Len(replies[c])) = v
      BY <2>1, <2>2, AfterOpening
    <2> QED BY <1>7, <2>1, <2>3, <2>4 DEF t
  <1> QED BY <1>1, <1>5, <1>6, <1>7 DEF RdpOK, Rdp!Places

-------------------------------------------------------------------------------
(* socks5 *)

Bytes == 0 .. 255

\* Every part of a sequence.
LEMMA Part ==
    ASSUME NEW S, NEW s \in Seq(S), NEW a \in Nat \ {0}, NEW b \in Nat, b <= Len(s)
    PROVE  /\ SubSeq(s, a, b) \in Seq(S)
           /\ Len(SubSeq(s, a, b)) = (IF a <= b THEN b - a + 1 ELSE 0)
           /\ \A i \in 1 .. Len(SubSeq(s, a, b)) : SubSeq(s, a, b)[i] = s[a + i - 1]
  <1>1. a \in Int /\ b \in Int /\ \A i \in a .. b : s[i] \in S
    OBVIOUS
  <1> DEFINE t == SubSeq(s, a, b)
  <1>2. /\ t \in Seq(S) /\ Len(t) = (IF a <= b THEN b - a + 1 ELSE 0)
        /\ \A i \in 1 .. b - a + 1 : t[i] = s[a + i - 1]
    BY <1>1, SubSeqProperties
  <1> HIDE DEF t
  <1>3. \A i \in 1 .. Len(t) : i \in 1 .. b - a + 1
    BY <1>2
  <1> QED BY <1>2, <1>3 DEF t

\* A part of a part.
LEMMA PartOfPart ==
    ASSUME NEW S, NEW s \in Seq(S), NEW p \in Nat, p <= Len(s), NEW m \in Nat, p + m <= Len(s)
    PROVE  SubSeq(SubSeq(s, p + 1, Len(s)), 1, m) = SubSeq(s, p + 1, p + m)
  <1> DEFINE n == Len(s)
             t == SubSeq(s, p + 1, n)
             u == SubSeq(t, 1, m)
             v == SubSeq(s, p + 1, p + m)
  <1>1. n \in Nat /\ p + 1 \in Nat \ {0} /\ p + m \in Nat /\ 1 \in Nat \ {0}
    OBVIOUS
  <1>2. /\ t \in Seq(S) /\ Len(t) = (IF p + 1 <= n THEN n - (p + 1) + 1 ELSE 0)
        /\ \A i \in 1 .. Len(t) : t[i] = s[(p + 1) + i - 1]
    BY <1>1, Part
  <1>3. /\ v \in Seq(S) /\ Len(v) = (IF p + 1 <= p + m THEN (p + m) - (p + 1) + 1 ELSE 0)
        /\ \A i \in 1 .. Len(v) : v[i] = s[(p + 1) + i - 1]
    BY <1>1, Part
  <1> HIDE DEF t, v
  <1>4. m <= Len(t)
    BY <1>1, <1>2 DEF n
  <1>5. /\ u \in Seq(S) /\ Len(u) = (IF 1 <= m THEN m - 1 + 1 ELSE 0)
        /\ \A i \in 1 .. Len(u) : u[i] = t[1 + i - 1]
    BY <1>1, <1>2, <1>4, Part
  <1> HIDE DEF u, n
  <1>6. Len(u) = m /\ Len(v) = m
    BY <1>3, <1>5
  <1>7. ASSUME NEW i \in 1 .. m PROVE u[i] = v[i]
    <2>1. i \in 1 .. Len(t) /\ 1 + i - 1 = i
      BY <1>2, <1>4, <1>7
    <2> QED BY <1>2, <1>3, <1>5, <1>6, <2>1
  <1>8. u = v
    BY <1>3, <1>5, <1>6, <1>7, SeqEqual
  <1> QED BY <1>8 DEF u, t, v, n

\* What has arrived stays when more arrives.
Extends(t, s) == Len(s) <= Len(t) /\ \A i \in 1 .. Len(s) : t[i] = s[i]

LEMMA SamePart ==
    ASSUME NEW S, NEW s \in Seq(S), NEW t \in Seq(S), Extends(t, s),
           NEW a \in Nat \ {0}, NEW b \in Nat, b <= Len(s)
    PROVE  SubSeq(t, a, b) = SubSeq(s, a, b)
  <1> DEFINE u == SubSeq(s, a, b)
             v == SubSeq(t, a, b)
  <1>1. Len(s) \in Nat /\ Len(t) \in Nat /\ b <= Len(t)
    BY DEF Extends
  <1>2. /\ u \in Seq(S) /\ Len(u) = (IF a <= b THEN b - a + 1 ELSE 0)
        /\ \A i \in 1 .. Len(u) : u[i] = s[a + i - 1]
    BY Part
  <1>3. /\ v \in Seq(S) /\ Len(v) = (IF a <= b THEN b - a + 1 ELSE 0)
        /\ \A i \in 1 .. Len(v) : v[i] = t[a + i - 1]
    BY <1>1, Part
  <1> HIDE DEF u, v
  <1>4. ASSUME NEW i \in 1 .. Len(u) PROVE u[i] = v[i]
    <2>1. a + i - 1 \in 1 .. Len(s) /\ i \in 1 .. Len(v)
      BY <1>1, <1>2, <1>3
    <2> QED BY <1>2, <1>3, <2>1 DEF Extends
  <1>5. u = v
    BY <1>2, <1>3, <1>4, SeqEqual
  <1> QED BY <1>5 DEF u, v

SocksLogin(name, password) ==
    [action |-> "login", username |-> name, password |-> password,
     status |-> IF <<name, password>> = Socks5Login THEN "success" ELSE "failed"]

\* Where handle() is in the stream, place by place: what makes LoginIsExact inductive.
SocksPlace(place, s, p, n, name, cut) ==
    /\ place \notin {"none", "greeting", "done"} => 2 <= p /\ s[2] \in Bytes
    /\ place \in {"none", "greeting", "methods", "auth", "username_len", "username"} => ~cut
    /\ place = "none" => p = 0
    /\ place = "greeting" => p = 0 /\ n = 2
    /\ place = "methods" => p = 2 /\ n = s[2]
    /\ place = "auth" => p = 2 + s[2] /\ n = 1
    /\ place = "username_len" => p = 3 + s[2] /\ n = 1
    /\ place = "username" => p = 4 + s[2] /\ n = s[p]
    /\ place = "password_len" =>
          /\ p >= 4 + s[2] /\ n = 1 /\ name = SubSeq(s, 5 + s[2], p)
          /\ ~cut => p = 4 + s[2] + s[4 + s[2]]
    /\ place = "password" =>
          /\ p >= 5 + s[2] /\ n = s[p] /\ name = SubSeq(s, 5 + s[2], p - 1)
          /\ ~cut => p = 5 + s[2] + s[4 + s[2]]

\* What may be a login in a stream.
Halves(s) ==
    {<<SubSeq(s, i, j), SubSeq(s, j + 2, k)>> :
        i \in 1 .. Len(s), j \in 0 .. Len(s) - 1, k \in 0 .. Len(s)}

LEMMA SocksOffers == ASSUME NEW c PROVE Socks5!Offered(c) = Halves(sent[c])
  BY DEF Socks5!Offered, Halves

SocksLog(place, s, cut, log) ==
    /\ place = "none" => log = <<>>
    /\ place \notin {"none", "done"} => log = <<Connection>>
    /\ place = "done" =>
          \/ log = <<Connection>>
          \/ \E name, password :
                /\ <<name, password>> \in Halves(s)
                /\ log = <<Connection, SocksLogin(name, password)>>
                /\ ~cut => <<name, password>> = Socks5!Fields(s)

SocksState(place, s, p, n, name, cut, log) ==
    /\ s \in Seq(Bytes) /\ p \in 0 .. Len(s) /\ n \in Bytes
    /\ SocksPlace(place, s, p, n, name, cut)
    /\ SocksLog(place, s, cut, log)

SocksOK(c) ==
    SocksState(thread[c], sent[c], pos[c], asked[c], username[c], short[c], events[c])

SocksInv ==
    /\ Socks5!TypeOK
    /\ DOMAIN sent = Alone /\ DOMAIN pos = Alone /\ DOMAIN asked = Alone
    /\ DOMAIN username = Alone /\ DOMAIN events = Alone
    /\ \A c \in Alone : SocksOK(c)

LEMMA SocksBegins == Socks5!Init => SocksInv
  <1> SUFFICES ASSUME Socks5!Init PROVE SocksInv
    OBVIOUS
  <1>1. \A c \in Alone : /\ thread[c] = "none" /\ sent[c] = <<>> /\ pos[c] = 0 /\ asked[c] = 0
                         /\ events[c] = <<>> /\ short[c] = FALSE
    BY DEF Socks5!Init
  <1>2. \A c \in Alone : sent[c] \in Seq(Bytes)
    <2>1. <<>> \in Seq(Bytes)
      BY EmptySeq
    <2> QED BY <1>1, <2>1, Zenon
  <1>3. \A c \in Alone : pos[c] \in 0 .. Len(sent[c]) /\ asked[c] \in 0 .. 255
    BY <1>1
  <1>4. Socks5!TypeOK
    BY <1>3 DEF Socks5!Init, Socks5!TypeOK
  <1>5. \A c \in Alone : SocksOK(c)
    BY <1>1, <1>2, <1>3 DEF SocksOK, SocksState, SocksPlace, SocksLog, Bytes
  <1> QED BY <1>4, <1>5 DEF Socks5!Init, SocksInv

\* Only the connection that takes a step changes.
LEMMA SocksFrame ==
    ASSUME SocksInv, NEW c \in Alone,
           thread' \in [Alone -> {"none", "greeting", "methods", "auth", "username_len",
                                  "username", "password_len", "password", "done"}],
           gone' \in [Alone -> {"no", "closed", "reset"}], short' \in [Alone -> BOOLEAN],
           DOMAIN sent' = Alone, DOMAIN pos' = Alone, DOMAIN asked' = Alone,
           DOMAIN username' = Alone, DOMAIN events' = Alone,
           \A d \in Alone \ {c} :
              /\ thread'[d] = thread[d] /\ sent'[d] = sent[d] /\ pos'[d] = pos[d]
              /\ asked'[d] = asked[d] /\ username'[d] = username[d] /\ short'[d] = short[d]
              /\ events'[d] = events[d],
           SocksState(thread'[c], sent'[c], pos'[c], asked'[c], username'[c], short'[c], events'[c])
    PROVE  SocksInv'
  <1>1. ASSUME NEW d \in Alone \ {c} PROVE SocksOK(d)'
    <2>1. SocksState(thread[d], sent[d], pos[d], asked[d], username[d], short[d], events[d])
      BY DEF SocksInv, SocksOK
    <2>2. SocksState(thread'[d], sent'[d], pos'[d], asked'[d], username'[d], short'[d], events'[d])
      BY <2>1, Zenon
    <2> QED BY <2>2 DEF SocksOK
  <1>2. \A d \in Alone : SocksOK(d)'
    BY <1>1 DEF SocksOK
  <1>3. Socks5!TypeOK'
    BY <1>2 DEF SocksOK, SocksState, Socks5!TypeOK, Bytes
  <1> QED BY <1>2, <1>3 DEF SocksInv

\* What recv() gets: as much as was asked for, or all there is.
Reach(s, p, n) == IF n < Len(s) - p THEN n ELSE Len(s) - p

LEMMA ReachIs ==
    ASSUME NEW s \in Seq(Bytes), NEW p \in 0 .. Len(s), NEW n \in Bytes
    PROVE  /\ Reach(s, p, n) \in Nat /\ Reach(s, p, n) <= n /\ p + Reach(s, p, n) \in 0 .. Len(s)
           /\ SubSeq(s, p + 1, p + Reach(s, p, n)) \in Seq(Bytes)
           /\ Len(SubSeq(s, p + 1, p + Reach(s, p, n))) = Reach(s, p, n)
           /\ \A i \in 1 .. Reach(s, p, n) :
                 SubSeq(s, p + 1, p + Reach(s, p, n))[i] = s[p + i] /\ s[p + i] \in Bytes
  <1> DEFINE m == Reach(s, p, n)
             t == SubSeq(s, p + 1, p + m)
  <1>1. Len(s) \in Nat /\ p \in Nat /\ n \in Nat /\ p <= Len(s)
    BY DEF Bytes
  <1>2. m \in Nat /\ m <= n /\ p + m <= Len(s)
    BY <1>1 DEF Reach
  <1> HIDE DEF m
  <1>3. p + 1 \in Nat \ {0} /\ p + m \in Nat
    BY <1>1, <1>2
  <1>4. /\ t \in Seq(Bytes) /\ Len(t) = (IF p + 1 <= p + m THEN (p + m) - (p + 1) + 1 ELSE 0)
        /\ \A i \in 1 .. Len(t) : t[i] = s[(p + 1) + i - 1]
    BY <1>2, <1>3, Part
  <1> HIDE DEF t
  <1>5. Len(t) = m
    BY <1>1, <1>2, <1>4
  <1>6. ASSUME NEW i \in 1 .. m PROVE t[i] = s[p + i] /\ s[p + i] \in Bytes
    <2>1. (p + 1) + i - 1 = p + i /\ p + i \in 1 .. Len(s)
      BY <1>1, <1>2
    <2> QED BY <1>4, <1>5, <2>1
  <1>7. p + m \in 0 .. Len(s)
    BY <1>1, <1>2
  <1> QED BY <1>2, <1>4, <1>5, <1>6, <1>7 DEF m, t

LEMMA GotIs ==
    ASSUME SocksInv, NEW c \in Alone
    PROVE  /\ Socks5!Got(c) =
                SubSeq(sent[c], pos[c] + 1, pos[c] + Reach(sent[c], pos[c], asked[c]))
           /\ Len(Socks5!Got(c)) = Reach(sent[c], pos[c], asked[c])
  <1> DEFINE s == sent[c]
             p == pos[c]
             n == asked[c]
             t == SubSeq(s, p + 1, Len(s))
             m == Reach(s, p, n)
  <1>1. s \in Seq(Bytes) /\ p \in 0 .. Len(s) /\ n \in Bytes
    BY DEF SocksInv, SocksOK, SocksState
  <1>2. Socks5!Got(c) = SubSeq(t, 1, IF n < Len(t) THEN n ELSE Len(t))
    BY DEF Socks5!Got, Socks5!Arrived
  <1> HIDE DEF s, p, n
  <1>3. p + 1 \in Nat \ {0} /\ Len(s) \in Nat /\ p \in Nat /\ p <= Len(s)
    BY <1>1
  <1>4. Len(t) = IF p + 1 <= Len(s) THEN Len(s) - (p + 1) + 1 ELSE 0
    BY <1>1, <1>3, Part
  <1> HIDE DEF t
  <1>5. Len(t) = Len(s) - p
    BY <1>3, <1>4
  <1>6. Socks5!Got(c) = SubSeq(t, 1, m)
    BY <1>2, <1>5 DEF Reach
  <1>7. m \in Nat /\ p + m \in 0 .. Len(s) /\ Len(SubSeq(s, p + 1, p + m)) = m
    BY <1>1, ReachIs
  <1> HIDE DEF m
  <1>8. p + m <= Len(s)
    BY <1>3, <1>7
  <1>9. Socks5!Got(c) = SubSeq(s, p + 1, p + m)
    BY <1>1, <1>3, <1>6, <1>7, <1>8, PartOfPart DEF t
  <1> QED BY <1>7, <1>9 DEF s, p, n, m

SocksPlaces == {"none", "greeting", "methods", "auth", "username_len", "username",
                "password_len", "password", "done"}

\* A recv() and what comes behind it.
LEMMA SocksReads ==
    ASSUME SocksInv, NEW c \in Alone, NEW place, NEW next \in SocksPlaces, NEW n, NEW name, NEW log,
           Socks5!Recv(c, place), Socks5!Goto(c, next, n),
           DOMAIN username' = Alone, username'[c] = name,
           DOMAIN events' = Alone, events'[c] = log,
           \A d \in Alone \ {c} : username'[d] = username[d] /\ events'[d] = events[d],
           SocksState(next, sent[c], pos[c] + Reach(sent[c], pos[c], asked[c]), n, name,
                      short[c] \/ Reach(sent[c], pos[c], asked[c]) < asked[c], log)
    PROVE  SocksInv'
  <1> DEFINE m == Reach(sent[c], pos[c], asked[c])
             cut == short[c] \/ m < asked[c]
  <1>1. Len(Socks5!Got(c)) = m
    BY GotIs
  <1> HIDE DEF m
  <1>2. /\ pos' = [pos EXCEPT ![c] = @ + m] /\ short' = [short EXCEPT ![c] = @ \/ m < asked[c]]
        /\ sent' = sent /\ gone' = gone
    BY <1>1 DEF Socks5!Recv, Socks5!client
  <1>3. /\ DOMAIN sent = Alone /\ DOMAIN pos = Alone /\ DOMAIN asked = Alone
        /\ thread \in [Alone -> SocksPlaces] /\ short \in [Alone -> BOOLEAN]
        /\ gone \in [Alone -> {"no", "closed", "reset"}]
    BY DEF SocksInv, Socks5!TypeOK, SocksPlaces
  <1>4. /\ thread' = [thread EXCEPT ![c] = next] /\ asked' = [asked EXCEPT ![c] = n]
    BY DEF Socks5!Goto
  <1>5. /\ thread'[c] = next /\ asked'[c] = n /\ pos'[c] = pos[c] + m /\ sent'[c] = sent[c]
        /\ thread' \in [Alone -> SocksPlaces]
        /\ DOMAIN pos' = Alone /\ DOMAIN asked' = Alone /\ DOMAIN sent' = Alone
    BY <1>2, <1>3, <1>4
  <1>6. short'[c] = cut /\ short' \in [Alone -> BOOLEAN] /\ gone' \in [Alone -> {"no", "closed", "reset"}]
    <2>1. short[c] \in BOOLEAN /\ (m < asked[c]) \in BOOLEAN
      BY <1>3
    <2> DEFINE more == m < asked[c]
    <2> HIDE DEF more
    <2>2. short' = [short EXCEPT ![c] = short[c] \/ more]
      BY <1>2 DEF more
    <2>3. short'[c] = (short[c] \/ more) /\ short' \in [Alone -> BOOLEAN]
      BY <1>3, <2>1, <2>2, Zenon
    <2> QED BY <1>2, <1>3, <2>3 DEF more
  <1>7. \A d \in Alone \ {c} :
           /\ thread'[d] = thread[d] /\ sent'[d] = sent[d] /\ pos'[d] = pos[d]
           /\ asked'[d] = asked[d] /\ short'[d] = short[d]
    BY <1>2, <1>3, <1>4
  <1>8. SocksState(next, sent[c], pos[c] + m, n, name, cut, log)
    BY DEF m
  <1> HIDE DEF cut
  <1>9. SocksState(thread'[c], sent'[c], pos'[c], asked'[c], username'[c], short'[c], events'[c])
    BY <1>5, <1>6, <1>8, Zenon
  <1> QED BY <1>5, <1>6, <1>7, <1>9, SocksFrame DEF SocksPlaces

\* The connection is over and nobody has logged in.
LEMMA SocksEnds ==
    ASSUME SocksInv, NEW c \in Alone, thread[c] \notin {"none", "done"},
           Socks5!Recv(c, thread[c]), Socks5!Finish(c), UNCHANGED <<username, events>>
    PROVE  SocksInv'
  <1> DEFINE m == Reach(sent[c], pos[c], asked[c])
  <1>1. /\ sent[c] \in Seq(Bytes) /\ pos[c] \in 0 .. Len(sent[c]) /\ asked[c] \in Bytes
        /\ events[c] = <<Connection>>
    BY DEF SocksInv, SocksOK, SocksState, SocksLog
  <1>2. pos[c] + m \in 0 .. Len(sent[c])
    BY <1>1, ReachIs
  <1> HIDE DEF m
  <1>3. \A cut : SocksState("done", sent[c], pos[c] + m, 0, username[c], cut, events[c])
    BY <1>1, <1>2 DEF SocksState, SocksPlace, SocksLog, Bytes
  <1>4. /\ Socks5!Goto(c, "done", 0) /\ "done" \in SocksPlaces
        /\ DOMAIN username' = Alone /\ DOMAIN events' = Alone
        /\ username'[c] = username[c] /\ events'[c] = events[c]
        /\ \A d \in Alone \ {c} : username'[d] = username[d] /\ events'[d] = events[d]
    BY DEF Socks5!Finish, SocksPlaces, SocksInv
  <1>5. SocksState("done", sent[c], pos[c] + m, 0, username[c],
                   short[c] \/ m < asked[c], events[c])
    BY <1>3, Zenon
  <1> QED BY <1>4, <1>5, SocksReads DEF m

\* The connection goes on.
LEMMA SocksGoesOn ==
    ASSUME SocksInv, NEW c \in Alone, NEW next \in SocksPlaces \ {"none", "done"}, NEW n \in Bytes,
           NEW name, thread[c] \notin {"none", "done"},
           Socks5!Recv(c, thread[c]), Socks5!Goto(c, next, n), UNCHANGED events,
           DOMAIN username' = Alone, username'[c] = name,
           \A d \in Alone \ {c} : username'[d] = username[d],
           SocksPlace(next, sent[c], pos[c] + Reach(sent[c], pos[c], asked[c]), n, name,
                      short[c] \/ Reach(sent[c], pos[c], asked[c]) < asked[c])
    PROVE  SocksInv'
  <1> DEFINE m == Reach(sent[c], pos[c], asked[c])
             cut == short[c] \/ m < asked[c]
  <1>1. /\ sent[c] \in Seq(Bytes) /\ pos[c] \in 0 .. Len(sent[c]) /\ asked[c] \in Bytes
        /\ events[c] = <<Connection>>
    BY DEF SocksInv, SocksOK, SocksState, SocksLog
  <1>2. pos[c] + m \in 0 .. Len(sent[c])
    BY <1>1, ReachIs
  <1>3. SocksPlace(next, sent[c], pos[c] + m, n, name, cut)
    OBVIOUS
  <1> HIDE DEF m, cut
  <1>4. SocksLog(next, sent[c], cut, events[c])
    BY <1>1 DEF SocksLog
  <1>5. SocksState(next, sent[c], pos[c] + m, n, name, cut, events[c])
    BY <1>1, <1>2, <1>3, <1>4 DEF SocksState
  <1>6. /\ DOMAIN events' = Alone /\ events'[c] = events[c]
        /\ \A d \in Alone \ {c} : username'[d] = username[d] /\ events'[d] = events[d]
    BY DEF SocksInv
  <1> QED BY <1>5, <1>6, SocksReads DEF m, cut

\* What is known of a connection whose thread waits for bytes.
LEMMA SocksWaits ==
    ASSUME SocksInv, NEW c \in Alone, thread[c] \notin {"none", "done"}
    PROVE  LET s == sent[c]
               p == pos[c]
               n == asked[c]
               m == Reach(s, p, n)
           IN  /\ s \in Seq(Bytes) /\ p \in Nat /\ n \in Nat /\ m \in Nat /\ m <= n
               /\ p + m <= Len(s) /\ Len(s) \in Nat
               /\ short[c] \in BOOLEAN
               /\ SocksPlace(thread[c], s, p, n, username[c], short[c])
               /\ Socks5!Got(c) = SubSeq(s, p + 1, p + m) /\ Len(Socks5!Got(c)) = m
               /\ Socks5!Got(c) \in Seq(Bytes)
               /\ \A i \in 1 .. m : Socks5!Got(c)[i] = s[p + i] /\ s[p + i] \in Bytes
  <1> DEFINE s == sent[c]
             p == pos[c]
             n == asked[c]
             m == Reach(s, p, n)
             t == SubSeq(s, p + 1, p + m)
  <1>1. s \in Seq(Bytes) /\ p \in 0 .. Len(s) /\ n \in Bytes
        /\ SocksPlace(thread[c], s, p, n, username[c], short[c])
    BY DEF SocksInv, SocksOK, SocksState
  <1>2. short[c] \in BOOLEAN
    BY DEF SocksInv, Socks5!TypeOK
  <1>3. Socks5!Got(c) = t /\ Len(Socks5!Got(c)) = m
    BY GotIs
  <1> HIDE DEF s, p, n
  <1>4. /\ m \in Nat /\ m <= n /\ p + m \in 0 .. Len(s)
        /\ t \in Seq(Bytes) /\ \A i \in 1 .. m : t[i] = s[p + i] /\ s[p + i] \in Bytes
    BY <1>1, ReachIs
  <1> HIDE DEF m, t
  <1>5. p \in Nat /\ n \in Nat /\ Len(s) \in Nat /\ p + m <= Len(s)
    BY <1>1, <1>4 DEF Bytes
  <1> QED BY <1>1, <1>2, <1>3, <1>4, <1>5 DEF s, p, n, m, t

LEMMA SocksGreets == ASSUME SocksInv, NEW c \in Alone, Socks5!Greeting(c) PROVE SocksInv'
  <1> DEFINE s == sent[c]
             p == pos[c]
             n == asked[c]
             m == Reach(s, p, n)
             got == Socks5!Got(c)
  <1>1. thread[c] = "greeting" /\ Socks5!Recv(c, thread[c]) /\ UNCHANGED <<username, events>>
    BY DEF Socks5!Greeting, Socks5!Recv
  <1>2. CASE Len(got) = 2 /\ got[1] = 5
    <2>1. Socks5!Goto(c, "methods", got[2])
      BY <1>2 DEF Socks5!Greeting
    <2>2. /\ m \in Nat /\ Len(got) = m /\ ~short[c] /\ p = 0 /\ n = 2
          /\ \A i \in 1 .. m : got[i] = s[p + i] /\ s[p + i] \in Bytes
      BY <1>1, SocksWaits DEF SocksPlace
    <2> HIDE DEF s, m, n, p, got
    <2>3. m = 2 /\ got[2] = s[2] /\ s[2] \in Bytes
      BY <1>2, <2>2
    <2>4. SocksPlace("methods", s, p + m, got[2], username[c], short[c] \/ m < n)
      BY <2>2, <2>3 DEF SocksPlace
    <2>5. "methods" \in SocksPlaces \ {"none", "done"} /\ thread[c] \notin {"none", "done"}
          /\ DOMAIN username' = Alone /\ username'[c] = username[c]
          /\ \A d \in Alone \ {c} : username'[d] = username[d]
      BY <1>1 DEF SocksPlaces, SocksInv
    <2>6. got[2] \in Bytes
      BY <2>3
    <2> QED BY <1>1, <2>1, <2>4, <2>5, <2>6, SocksGoesOn DEF s, m, n, p
  <1>3. CASE ~(Len(got) = 2 /\ got[1] = 5)
    <2>1. Socks5!Finish(c)
      BY <1>3 DEF Socks5!Greeting
    <2> QED BY <1>1, <2>1, SocksEnds
  <1> QED BY <1>2, <1>3

LEMMA SocksMethods == ASSUME SocksInv, NEW c \in Alone, Socks5!Methods(c) PROVE SocksInv'
  <1> DEFINE s == sent[c]
             p == pos[c]
             n == asked[c]
             m == Reach(s, p, n)
             got == Socks5!Got(c)
  <1>1. thread[c] = "methods" /\ Socks5!Recv(c, thread[c]) /\ UNCHANGED <<username, events>>
    BY DEF Socks5!Methods, Socks5!Recv
  <1>2. CASE Len(got) = n /\ Socks5!Goto(c, "auth", 1)
    <2>2. /\ m \in Nat /\ Len(got) = m /\ ~short[c] /\ p = 2 /\ n = s[2] /\ s[2] \in Bytes
      BY <1>1, SocksWaits DEF SocksPlace
    <2> HIDE DEF s, m, n, p, got
    <2> DEFINE b == s[2]
    <2> HIDE DEF b
    <2>a. b \in Nat /\ p = 2 /\ n = b /\ Len(got) = n /\ Len(got) = m
      BY <1>2, <2>2 DEF Bytes, b
    <2>b. m = n /\ p + m = 2 + b /\ 2 <= p + m
      BY <2>a
    <2>3. m = n /\ p + m = 2 + s[2] /\ 2 <= p + m
      BY <2>b DEF b
    <2>4. SocksPlace("auth", s, p + m, 1, username[c], short[c] \/ m < n)
      BY <2>2, <2>3 DEF SocksPlace, Bytes
    <2>5. "auth" \in SocksPlaces \ {"none", "done"} /\ thread[c] \notin {"none", "done"}
          /\ DOMAIN username' = Alone /\ username'[c] = username[c] /\ 1 \in Bytes
          /\ \A d \in Alone \ {c} : username'[d] = username[d]
      BY <1>1 DEF SocksPlaces, SocksInv, Bytes
    <2> QED BY <1>1, <1>2, <2>4, <2>5, SocksGoesOn DEF s, m, n, p
  <1>3. CASE Socks5!Finish(c)
    BY <1>1, <1>3, SocksEnds
  <1> QED BY <1>2, <1>3 DEF Socks5!Methods

LEMMA SocksAuth == ASSUME SocksInv, NEW c \in Alone, Socks5!AuthVersion(c) PROVE SocksInv'
  <1> DEFINE s == sent[c]
             p == pos[c]
             n == asked[c]
             m == Reach(s, p, n)
             got == Socks5!Got(c)
  <1>1. thread[c] = "auth" /\ Socks5!Recv(c, thread[c]) /\ UNCHANGED <<username, events>>
    BY DEF Socks5!AuthVersion, Socks5!Recv
  <1>2. CASE got = <<1>>
    <2>1. Socks5!Goto(c, "username_len", 1) /\ Len(got) = 1
      BY <1>2, One DEF Socks5!AuthVersion
    <2>2. /\ m \in Nat /\ Len(got) = m /\ ~short[c] /\ p = 2 + s[2] /\ n = 1 /\ s[2] \in Bytes
      BY <1>1, SocksWaits DEF SocksPlace
    <2> HIDE DEF s, m, n, p, got
    <2> DEFINE b == s[2]
    <2> HIDE DEF b
    <2>a. b \in Nat /\ p = 2 + b /\ m = 1
      <3>1. m = 1
        BY <2>1, <2>2, Zenon
      <3>2. b \in Nat
        <4>1. b \in Bytes
          BY <2>2, Zenon DEF b
        <4> QED BY <4>1 DEF Bytes
      <3>3. p = 2 + b
        BY <2>2 DEF b
      <3> QED BY <3>1, <3>2, <3>3
    <2>b. p + m = 3 + b /\ 2 <= p + m
      BY <2>a
    <2>3. m = 1 /\ p + m = 3 + s[2] /\ 2 <= p + m
      BY <2>a, <2>b DEF b
    <2>4. SocksPlace("username_len", s, p + m, 1, username[c], short[c] \/ m < n)
      BY <2>2, <2>3 DEF SocksPlace, Bytes
    <2>5. "username_len" \in SocksPlaces \ {"none", "done"} /\ thread[c] \notin {"none", "done"}
          /\ DOMAIN username' = Alone /\ username'[c] = username[c] /\ 1 \in Bytes
          /\ \A d \in Alone \ {c} : username'[d] = username[d]
      BY <1>1 DEF SocksPlaces, SocksInv, Bytes
    <2> QED BY <1>1, <2>1, <2>4, <2>5, SocksGoesOn DEF s, m, n, p
  <1>3. CASE got # <<1>>
    <2>1. Socks5!Finish(c)
      BY <1>3 DEF Socks5!AuthVersion
    <2> QED BY <1>1, <2>1, SocksEnds
  <1> QED BY <1>2, <1>3

LEMMA SocksNameLength ==
    ASSUME SocksInv, NEW c \in Alone, Socks5!FieldLength(c, "username_len", "username")
    PROVE  SocksInv'
  <1> DEFINE s == sent[c]
             p == pos[c]
             n == asked[c]
             m == Reach(s, p, n)
             got == Socks5!Got(c)
             b == s[2]
  <1>1. /\ thread[c] = "username_len" /\ Socks5!Recv(c, thread[c])
        /\ UNCHANGED <<username, events>>
    BY DEF Socks5!FieldLength, Socks5!Recv
  <1>2. CASE got # <<>>
    <2>1. Socks5!Goto(c, "username", got[1])
      BY <1>2 DEF Socks5!FieldLength
    <2>2. /\ m \in Nat /\ n \in Nat /\ p \in Nat /\ m <= n
      BY <1>1, SocksWaits
    <2>3. b \in Bytes /\ ~short[c] /\ p = 3 + b /\ n = 1
      BY <1>1, SocksWaits DEF SocksPlace
    <2>4. /\ Len(got) = m /\ got \in Seq(Bytes)
          /\ \A i \in 1 .. m : got[i] = s[p + i] /\ s[p + i] \in Bytes
      BY <1>1, SocksWaits
    <2> HIDE DEF s, m, n, p, got, b
    <2>5. Len(got) # 0
      BY <1>2, <2>4, EmptySeq
    <2>6. m = 1
      BY <2>2, <2>3, <2>4, <2>5
    <2>7. got[1] = s[p + m] /\ got[1] \in Bytes
      <3>1. 1 \in 1 .. m
        BY <2>6
      <3> QED BY <2>4, <2>6, <3>1
    <2>8. b \in Nat
      <3>1. b \in Bytes
        BY <2>3
      <3> QED BY <3>1 DEF Bytes
    <2>9. p + m = 4 + b /\ 2 <= p + m
      BY <2>3, <2>6, <2>8
    <2>10. SocksPlace("username", s, p + m, got[1], username[c], short[c] \/ m < n)
      BY <2>3, <2>6, <2>7, <2>9 DEF SocksPlace, b
    <2>11. "username" \in SocksPlaces \ {"none", "done"} /\ thread[c] \notin {"none", "done"}
          /\ DOMAIN username' = Alone /\ username'[c] = username[c]
          /\ \A d \in Alone \ {c} : username'[d] = username[d]
      BY <1>1 DEF SocksPlaces, SocksInv
    <2> QED BY <1>1, <2>1, <2>7, <2>10, <2>11, SocksGoesOn DEF s, m, n, p
  <1>3. CASE got = <<>>
    <2>1. Socks5!Finish(c)
      BY <1>3 DEF Socks5!FieldLength
    <2> QED BY <1>1, <2>1, SocksEnds
  <1> QED BY <1>2, <1>3

LEMMA SocksPasswordLength ==
    ASSUME SocksInv, NEW c \in Alone, Socks5!FieldLength(c, "password_len", "password")
    PROVE  SocksInv'
  <1> DEFINE s == sent[c]
             p == pos[c]
             n == asked[c]
             m == Reach(s, p, n)
             got == Socks5!Got(c)
             b == s[2]
             l == s[4 + b]
  <1>1. /\ thread[c] = "password_len" /\ Socks5!Recv(c, thread[c])
        /\ UNCHANGED <<username, events>>
    BY DEF Socks5!FieldLength, Socks5!Recv
  <1>2. CASE got # <<>>
    <2>1. Socks5!Goto(c, "password", got[1])
      BY <1>2 DEF Socks5!FieldLength
    <2>2. /\ m \in Nat /\ n \in Nat /\ p \in Nat /\ m <= n /\ Len(s) \in Nat /\ p + m <= Len(s)
      BY <1>1, SocksWaits
    <2>3. b \in Bytes /\ p >= 4 + b /\ n = 1 /\ username[c] = SubSeq(s, 5 + b, p)
      BY <1>1, SocksWaits DEF SocksPlace
    <2>4. ~short[c] => p = 4 + b + l
      BY <1>1, SocksWaits DEF SocksPlace
    <2>5. /\ Len(got) = m /\ got \in Seq(Bytes) /\ s \in Seq(Bytes)
          /\ \A i \in 1 .. m : got[i] = s[p + i] /\ s[p + i] \in Bytes
      BY <1>1, SocksWaits
    <2> HIDE DEF l
    <2> HIDE DEF s, m, n, p, got, b
    <2>6. Len(got) # 0
      BY <1>2, <2>5, EmptySeq
    <2>7. m = 1
      BY <2>2, <2>3, <2>5, <2>6
    <2>8. got[1] = s[p + m] /\ got[1] \in Bytes
      <3>1. 1 \in 1 .. m
        BY <2>7
      <3> QED BY <2>5, <2>7, <3>1
    <2>9. b \in Nat
      <3>1. b \in Bytes
        BY <2>3
      <3> QED BY <3>1 DEF Bytes
    <2>10. l \in Nat
      <3>1. 4 + b \in 1 .. Len(s)
        BY <2>2, <2>3, <2>9
      <3>2. s[4 + b] \in Bytes
        BY <2>5, <3>1
      <3>3. l \in Bytes
        BY <3>2 DEF l
      <3> QED BY <3>3 DEF Bytes
    <2>11. /\ p + m >= 5 + b /\ 2 <= p + m /\ (p + m) - 1 = p
           /\ ~short[c] => p + m = 5 + b + l
      BY <2>2, <2>3, <2>4, <2>7, <2>9, <2>10
    <2>12. SocksPlace("password", s, p + m, got[1], username[c], short[c] \/ m < n)
      BY <2>3, <2>7, <2>8, <2>11 DEF SocksPlace, b, l
    <2>13. "password" \in SocksPlaces \ {"none", "done"} /\ thread[c] \notin {"none", "done"}
          /\ DOMAIN username' = Alone /\ username'[c] = username[c]
          /\ \A d \in Alone \ {c} : username'[d] = username[d]
      BY <1>1 DEF SocksPlaces, SocksInv
    <2> QED BY <1>1, <2>1, <2>8, <2>12, <2>13, SocksGoesOn DEF s, m, n, p
  <1>3. CASE got = <<>>
    <2>1. Socks5!Finish(c)
      BY <1>3 DEF Socks5!FieldLength
    <2> QED BY <1>1, <2>1, SocksEnds
  <1> QED BY <1>2, <1>3

LEMMA SocksNames == ASSUME SocksInv, NEW c \in Alone, Socks5!Username(c) PROVE SocksInv'
  <1> DEFINE s == sent[c]
             p == pos[c]
             n == asked[c]
             m == Reach(s, p, n)
             got == Socks5!Got(c)
             b == s[2]
  <1>1. /\ thread[c] = "username" /\ Socks5!Recv(c, thread[c]) /\ UNCHANGED events
        /\ username' = [username EXCEPT ![c] = got] /\ Socks5!Goto(c, "password_len", 1)
    BY DEF Socks5!Username, Socks5!Recv
  <1>2. m \in Nat /\ m <= n /\ n \in Nat /\ p \in Nat /\ got = SubSeq(s, p + 1, p + m)
    BY <1>1, SocksWaits
  <1>a. ~short[c] /\ p = 4 + b /\ n = s[p] /\ b \in Bytes
    BY <1>1, SocksWaits DEF SocksPlace
  <1>3. "password_len" \in SocksPlaces \ {"none", "done"} /\ thread[c] \notin {"none", "done"}
        /\ 1 \in Bytes
    BY <1>1 DEF SocksPlaces, Bytes
  <1>b. /\ DOMAIN username' = Alone /\ username'[c] = got
        /\ \A d \in Alone \ {c} : username'[d] = username[d]
    BY <1>1 DEF SocksInv
  <1> HIDE DEF s, m, n, p, got, b
  <1>4. b \in Nat
    <2>1. b \in Bytes
      BY <1>a
    <2> QED BY <2>1 DEF Bytes
  <1>5. /\ p + m >= 4 + b /\ 2 <= p + m /\ p + 1 = 5 + b
        /\ ~(m < n) => p + m = 4 + b + n
    BY <1>2, <1>a, <1>4
  <1>6. got = SubSeq(s, 5 + b, p + m) /\ n = s[4 + b]
    BY <1>2, <1>a, <1>5
  <1>7. SocksPlace("password_len", s, p + m, 1, got, short[c] \/ m < n)
    BY <1>a, <1>5, <1>6 DEF SocksPlace, b
  <1> QED BY <1>1, <1>3, <1>b, <1>7, SocksGoesOn DEF s, m, n, p

\* The two fields of a login, when nothing fell short.
LEMMA FieldsAre ==
    ASSUME NEW s \in Seq(Bytes), NEW p \in Nat, NEW n \in Nat, s[2] \in Bytes, s[4 + s[2]] \in Bytes,
           p = 5 + s[2] + s[4 + s[2]], n = s[p]
    PROVE  Socks5!Fields(s) = <<SubSeq(s, 5 + s[2], p - 1), SubSeq(s, p + 1, p + n)>>
  <1> DEFINE b == s[2]
             l == s[4 + b]
             at == Socks5!NameAt(s)
             then == Socks5!PasswordAt(s)
  <1>1. b \in Nat /\ l \in Nat /\ p = 5 + b + l
    <2>1. b \in Bytes /\ l \in Bytes /\ p = 5 + b + l
      OBVIOUS
    <2> HIDE DEF b, l
    <2> QED BY <2>1 DEF Bytes
  <1>2. at = b + 5
    BY DEF Socks5!NameAt
  <1>3. then = at + s[at - 1] + 1
    BY DEF Socks5!PasswordAt
  <1> HIDE DEF at, then
  <1>4. at - 1 = 4 + b /\ at = 5 + b
    <2> HIDE DEF b, l
    <2> QED BY <1>1, <1>2
  <1>5. then = at + l + 1
    BY <1>3, <1>4 DEF l
  <1>6. then = p + 1 /\ then - 2 = p - 1 /\ then - 1 = p
    <2> HIDE DEF b, l
    <2> QED BY <1>1, <1>4, <1>5
  <1>7. then + s[then - 1] - 1 = p + n
    BY <1>6
  <1>8. Socks5!Fields(s) = <<SubSeq(s, at, then - 2), SubSeq(s, then, then + s[then - 1] - 1)>>
    BY DEF Socks5!Fields, at, then
  <1> QED BY <1>4, <1>6, <1>7, <1>8

LEMMA SocksLogsIn == ASSUME SocksInv, NEW c \in Alone, Socks5!Password(c) PROVE SocksInv'
  <1> DEFINE s == sent[c]
             p == pos[c]
             n == asked[c]
             m == Reach(s, p, n)
             got == Socks5!Got(c)
             name == username[c]
             b == s[2]
             l == s[4 + b]
             log == <<Connection, SocksLogin(name, got)>>
             cut == short[c] \/ m < n
  <1>1. /\ thread[c] = "password" /\ Socks5!Recv(c, thread[c]) /\ UNCHANGED username
        /\ Socks5!Login(c, name, got) /\ Socks5!Goto(c, "done", 0)
    BY DEF Socks5!Password, Socks5!Recv, Socks5!Finish
  <1>2. events[c] = <<Connection>> /\ DOMAIN events = Alone /\ DOMAIN username = Alone
    BY <1>1 DEF SocksInv, SocksOK, SocksState, SocksLog
  <1>3. /\ events'[c] = log /\ DOMAIN events' = Alone
        /\ \A d \in Alone \ {c} : events'[d] = events[d] /\ username'[d] = username[d]
    <2> DEFINE entry == SocksLogin(name, got)
    <2>1. events' = [events EXCEPT ![c] = Append(@, entry)]
      BY <1>1 DEF Socks5!Login, SocksLogin
    <2> HIDE DEF entry
    <2>2. events'[c] = Append(<<Connection>>, entry)
      BY <1>2, <2>1
    <2>3. <<Connection, entry>> = Append(<<Connection>>, entry)
      BY Two
    <2>4. events'[c] = log
      BY <2>2, <2>3 DEF entry
    <2> QED BY <1>1, <1>2, <2>1, <2>4
  <1>4. /\ m \in Nat /\ n \in Nat /\ p \in Nat /\ m <= n /\ Len(s) \in Nat /\ p + m <= Len(s)
        /\ s \in Seq(Bytes) /\ got = SubSeq(s, p + 1, p + m)
        /\ \A i \in 1 .. Len(s) : s[i] \in Bytes
    BY <1>1, SocksWaits
  <1>5. b \in Bytes /\ p >= 5 + b /\ n = s[p] /\ name = SubSeq(s, 5 + b, p - 1)
    BY <1>1, SocksWaits DEF SocksPlace
  <1>6. ~short[c] => p = 5 + b + l
    BY <1>1, SocksWaits DEF SocksPlace
  <1>7. n \in Bytes
    BY DEF SocksInv, SocksOK, SocksState
  <1> HIDE DEF l
  <1> HIDE DEF s, p, n, m, got, b, log
  <1>8. b \in Nat
    BY <1>5 DEF Bytes
  <1>9. l \in Bytes
    <2>1. 4 + b \in 1 .. Len(s)
      BY <1>4, <1>5, <1>8
    <2> QED BY <1>4, <2>1 DEF l
  <1>10. <<name, got>> \in Halves(s)
    <2>a. p >= 5 + b
      BY <1>5
    <2>1. 5 + b \in 1 .. Len(s) /\ p - 1 \in 0 .. Len(s) - 1 /\ p + m \in 0 .. Len(s)
          /\ (p - 1) + 2 = p + 1
      BY <1>4, <1>8, <2>a
    <2>2. <<name, got>> = <<SubSeq(s, 5 + b, p - 1), SubSeq(s, (p - 1) + 2, p + m)>>
      BY <1>4, <1>5, <2>1
    <2>3. \A i \in 1 .. Len(s), j \in 0 .. Len(s) - 1, k \in 0 .. Len(s) :
             <<SubSeq(s, i, j), SubSeq(s, j + 2, k)>> \in Halves(s)
      BY DEF Halves
    <2>4. <<SubSeq(s, 5 + b, p - 1), SubSeq(s, (p - 1) + 2, p + m)>> \in Halves(s)
      BY <2>1, <2>3, Zenon
    <2> QED BY <2>2, <2>4, Zenon
  <1>11. ASSUME ~cut PROVE <<name, got>> = Socks5!Fields(s)
    <2>1. ~short[c] /\ m = n
      BY <1>4, <1>11
    <2>2. Socks5!Fields(s) = <<SubSeq(s, 5 + b, p - 1), SubSeq(s, p + 1, p + n)>>
      BY <1>4, <1>5, <1>6, <1>9, <2>1, FieldsAre DEF b, l
    <2> QED BY <1>4, <1>5, <2>1, <2>2
  <1> HIDE DEF cut
  <1>12. SocksLog("done", s, cut, log)
    BY <1>10, <1>11 DEF SocksLog, log
  <1>13. SocksPlace("done", s, p + m, 0, name, cut)
    BY DEF SocksPlace
  <1>14. SocksState("done", s, p + m, 0, name, cut, log)
    BY <1>4, <1>12, <1>13 DEF SocksState, Bytes
  <1>15. "done" \in SocksPlaces /\ DOMAIN username' = Alone /\ username'[c] = name
    BY <1>1, <1>2 DEF SocksPlaces
  <1> QED BY <1>1, <1>3, <1>14, <1>15, SocksReads DEF s, p, n, m, cut, log

LEMMA SocksRaises == ASSUME SocksInv, NEW c \in Alone, Socks5!RecvRaises(c) PROVE SocksInv'
  <1>1. /\ thread[c] \notin {"none", "done"} /\ Socks5!Goto(c, "done", 0)
        /\ sent' = sent /\ gone' = gone /\ pos' = pos /\ username' = username /\ short' = short
        /\ events' = events
    BY DEF Socks5!RecvRaises, Socks5!Finish, Socks5!client
  <1>2. /\ thread \in [Alone -> SocksPlaces] /\ short \in [Alone -> BOOLEAN]
        /\ gone \in [Alone -> {"no", "closed", "reset"}]
        /\ DOMAIN sent = Alone /\ DOMAIN pos = Alone /\ DOMAIN asked = Alone
        /\ DOMAIN username = Alone /\ DOMAIN events = Alone
    BY DEF SocksInv, Socks5!TypeOK, SocksPlaces
  <1>3. /\ sent[c] \in Seq(Bytes) /\ pos[c] \in 0 .. Len(sent[c]) /\ events[c] = <<Connection>>
    BY <1>1 DEF SocksInv, SocksOK, SocksState, SocksLog
  <1>4. thread'[c] = "done" /\ asked'[c] = 0 /\ thread' \in [Alone -> SocksPlaces]
        /\ DOMAIN asked' = Alone
        /\ \A d \in Alone \ {c} : thread'[d] = thread[d] /\ asked'[d] = asked[d]
    BY <1>1, <1>2 DEF Socks5!Goto, SocksPlaces
  <1>5. SocksState("done", sent[c], pos[c], 0, username[c], short[c], events[c])
    BY <1>3 DEF SocksState, SocksPlace, SocksLog, Bytes
  <1>6. SocksState(thread'[c], sent'[c], pos'[c], asked'[c], username'[c], short'[c], events'[c])
    BY <1>1, <1>4, <1>5, Zenon
  <1> QED BY <1>1, <1>2, <1>4, <1>6, SocksFrame DEF SocksPlaces

LEMMA SocksHandles == ASSUME SocksInv, NEW c \in Alone, Socks5!Handle(c) PROVE SocksInv'
  <1>1. /\ thread[c] = "none" /\ Socks5!Goto(c, "greeting", 2)
        /\ sent' = sent /\ gone' = gone /\ pos' = pos /\ username' = username /\ short' = short
        /\ events' = [events EXCEPT ![c] = <<Connection>>]
    BY DEF Socks5!Handle, Socks5!client, Connection
  <1>2. /\ thread \in [Alone -> SocksPlaces] /\ short \in [Alone -> BOOLEAN]
        /\ gone \in [Alone -> {"no", "closed", "reset"}]
        /\ DOMAIN sent = Alone /\ DOMAIN pos = Alone /\ DOMAIN asked = Alone
        /\ DOMAIN username = Alone /\ DOMAIN events = Alone
    BY DEF SocksInv, Socks5!TypeOK, SocksPlaces
  <1>3. sent[c] \in Seq(Bytes) /\ pos[c] \in 0 .. Len(sent[c]) /\ pos[c] = 0 /\ ~short[c]
    BY <1>1 DEF SocksInv, SocksOK, SocksState, SocksPlace
  <1>4. thread'[c] = "greeting" /\ asked'[c] = 2 /\ thread' \in [Alone -> SocksPlaces]
        /\ DOMAIN asked' = Alone /\ DOMAIN events' = Alone /\ events'[c] = <<Connection>>
        /\ \A d \in Alone \ {c} :
              thread'[d] = thread[d] /\ asked'[d] = asked[d] /\ events'[d] = events[d]
    BY <1>1, <1>2 DEF Socks5!Goto, SocksPlaces
  <1>5. SocksState("greeting", sent[c], pos[c], 2, username[c], short[c], <<Connection>>)
    BY <1>3 DEF SocksState, SocksPlace, SocksLog, Bytes
  <1>6. SocksState(thread'[c], sent'[c], pos'[c], asked'[c], username'[c], short'[c], events'[c])
    BY <1>1, <1>4, <1>5, Zenon
  <1> QED BY <1>1, <1>2, <1>4, <1>6, SocksFrame DEF SocksPlaces

LEMMA SocksLeaves == ASSUME SocksInv, NEW c \in Alone, Socks5!Leave(c) PROVE SocksInv'
  <1>1. /\ thread' = thread /\ sent' = sent /\ pos' = pos /\ asked' = asked
        /\ username' = username /\ short' = short /\ events' = events
        /\ \E how \in {"closed", "reset"} : gone' = [gone EXCEPT ![c] = how]
    BY DEF Socks5!Leave
  <1>2. /\ thread \in [Alone -> SocksPlaces] /\ short \in [Alone -> BOOLEAN]
        /\ gone' \in [Alone -> {"no", "closed", "reset"}]
        /\ DOMAIN sent = Alone /\ DOMAIN pos = Alone /\ DOMAIN asked = Alone
        /\ DOMAIN username = Alone /\ DOMAIN events = Alone
    BY <1>1 DEF SocksInv, Socks5!TypeOK, SocksPlaces
  <1>3. SocksState(thread[c], sent[c], pos[c], asked[c], username[c], short[c], events[c])
    BY DEF SocksInv, SocksOK
  <1>4. SocksState(thread'[c], sent'[c], pos'[c], asked'[c], username'[c], short'[c], events'[c])
    BY <1>1, <1>3, Zenon
  <1> QED BY <1>1, <1>2, <1>4, SocksFrame DEF SocksPlaces

\* More bytes arrive: the place in the stream stays what it is.
LEMMA SocksMore ==
    ASSUME NEW s \in Seq(Bytes), NEW t \in Seq(Bytes), Extends(t, s),
           NEW place \in SocksPlaces \ {"none", "done"}, NEW p, NEW n, NEW name, NEW cut, NEW log,
           SocksState(place, s, p, n, name, cut, log)
    PROVE  SocksState(place, t, p, n, name, cut, log)
  <1> DEFINE b == s[2]
  <1>1. /\ p \in Nat /\ p <= Len(s) /\ Len(s) \in Nat /\ n \in Bytes /\ Len(t) \in Nat /\ Len(s) <= Len(t)
        /\ \A i \in 1 .. Len(s) : t[i] = s[i] /\ s[i] \in Bytes
    BY DEF SocksState, Extends
  <1>2. SocksPlace(place, s, p, n, name, cut) /\ SocksLog(place, s, cut, log)
    BY DEF SocksState
  <1>3. SocksLog(place, t, cut, log) /\ p \in 0 .. Len(t)
    BY <1>1, <1>2 DEF SocksLog
  <1>4. CASE place = "greeting"
    BY <1>1, <1>2, <1>3, <1>4 DEF SocksState, SocksPlace
  <1>5. CASE place # "greeting"
    <2>1. 2 <= p /\ b \in Bytes
      BY <1>2, <1>5 DEF SocksPlace, SocksPlaces
    <2>2. b \in Nat /\ t[2] = b
      <3>1. 2 \in 1 .. Len(s)
        BY <1>1, <2>1
      <3>2. t[2] = b
        BY <1>1, <3>1
      <3> HIDE DEF b
      <3> QED BY <2>1, <3>2 DEF Bytes
    <2>3. t[p] = s[p]
      <3>1. p \in 1 .. Len(s)
        BY <1>1, <2>1
      <3> QED BY <1>1, <3>1
    <2>4. CASE place \in {"methods", "auth", "username_len", "username"}
      <3>1. SocksPlace(place, t, p, n, name, cut)
        BY <1>2, <2>1, <2>2, <2>3, <2>4 DEF SocksPlace
      <3> QED BY <1>1, <1>3, <3>1 DEF SocksState
    <2>5. CASE place \in {"password_len", "password"}
      <3>1. p >= 4 + b
        <4>1. p >= 4 + b \/ p >= 5 + b
          BY <1>2, <2>5 DEF SocksPlace
        <4> HIDE DEF b
        <4> QED BY <1>1, <2>2, <4>1
      <3>2. t[4 + b] = s[4 + b]
        <4> HIDE DEF b
        <4>1. 4 + b \in 1 .. Len(s)
          BY <1>1, <2>2, <3>1
        <4> QED BY <1>1, <4>1
      <3>3. \A k \in Nat : k <= p => SubSeq(t, 5 + b, k) = SubSeq(s, 5 + b, k)
        <4> TAKE k \in Nat
        <4> HAVE k <= p
        <4> HIDE DEF b
        <4> DEFINE a == 5 + b
        <4>1. a \in Nat \ {0} /\ k <= Len(s)
          BY <1>1, <2>2
        <4> HIDE DEF a
        <4>2. SubSeq(t, a, k) = SubSeq(s, a, k)
          BY <4>1, SamePart
        <4> QED BY <4>2 DEF a
      <3>4. p - 1 \in Nat /\ p - 1 <= p /\ p <= p
        BY <1>1, <2>1
      <3>5. SubSeq(t, 5 + b, p) = SubSeq(s, 5 + b, p) /\ SubSeq(t, 5 + b, p - 1) = SubSeq(s, 5 + b, p - 1)
        BY <1>1, <3>3, <3>4, Zenon
      <3>6. SocksPlace(place, t, p, n, name, cut)
        BY <1>2, <2>1, <2>2, <2>3, <2>5, <3>2, <3>5 DEF SocksPlace
      <3> QED BY <1>1, <1>3, <3>6 DEF SocksState
    <2> QED BY <1>5, <2>4, <2>5 DEF SocksPlaces
  <1> QED BY <1>4, <1>5

\* What a client sends makes its stream longer.
LEMMA SocksSent ==
    ASSUME SocksInv, NEW c \in Alone, Socks5!Send(c)
    PROVE  /\ sent[c] \in Seq(Bytes) /\ sent'[c] \in Seq(Bytes) /\ Extends(sent'[c], sent[c])
           /\ DOMAIN sent' = Alone /\ \A d \in Alone \ {c} : sent'[d] = sent[d]
           /\ thread[c] \in SocksPlaces \ {"none", "done"}
  <1>1. thread[c] \in SocksPlaces \ {"none", "done"}
    BY DEF Socks5!Send, SocksInv, Socks5!TypeOK, SocksPlaces
  <1>2. DOMAIN sent = Alone
    BY DEF SocksInv
  <1>3. PICK stream \in Streams, k \in 1 .. 255 :
           /\ Len(sent[c]) + k <= Len(stream) /\ Socks5!IsPrefix(sent[c], stream)
           /\ sent' = [sent EXCEPT ![c] = SubSeq(stream, 1, Len(sent[c]) + k)]
    BY DEF Socks5!Send
  <1> DEFINE s == sent[c]
             m == Len(s) + k
             t == SubSeq(stream, 1, m)
  <1>4. s \in Seq(Bytes) /\ stream \in Seq(Bytes)
    BY StreamsAssumption DEF SocksInv, SocksOK, SocksState, Bytes
  <1>5. \A i \in 1 .. Len(s) : stream[i] = s[i]
    <2>a. Len(s) <= Len(stream) /\ SubSeq(s, 1, Len(s)) = SubSeq(stream, 1, Len(s))
      BY <1>3 DEF Socks5!IsPrefix
    <2>b. SubSeq(s, 1, Len(s)) = s
      BY <1>4, SubSeqFull
    <2>1. Len(s) <= Len(stream) /\ s = SubSeq(stream, 1, Len(s))
      BY <2>a, <2>b, Zenon
    <2> HIDE DEF s
    <2>2. Len(s) \in Nat /\ 1 \in Nat \ {0} /\ Len(stream) \in Nat
      BY <1>4
    <2> DEFINE u == SubSeq(stream, 1, Len(s))
    <2>3. \A i \in 1 .. Len(u) : u[i] = stream[1 + i - 1]
      BY <1>4, <2>1, <2>2, Part
    <2>4. u = s
      BY <2>1
    <2> HIDE DEF u
    <2> QED BY <2>2, <2>3, <2>4
  <1>6. sent'[c] = t /\ DOMAIN sent' = Alone /\ \A d \in Alone \ {c} : sent'[d] = sent[d]
    BY <1>2, <1>3
  <1>7. m <= Len(stream)
    BY <1>3
  <1> HIDE DEF s
  <1>8. m \in Nat /\ Len(s) \in Nat /\ Len(s) <= m /\ 1 \in Nat \ {0} /\ k \in Nat
    BY <1>4
  <1> HIDE DEF m
  <1>9. /\ t \in Seq(Bytes) /\ Len(t) = (IF 1 <= m THEN m - 1 + 1 ELSE 0)
        /\ \A i \in 1 .. Len(t) : t[i] = stream[1 + i - 1]
    BY <1>4, <1>7, <1>8, Part
  <1> HIDE DEF t
  <1>10. Len(t) = m
    BY <1>8, <1>9
  <1>11. Extends(t, s)
    <2>1. \A i \in 1 .. Len(s) : i \in 1 .. Len(t) /\ 1 + i - 1 = i
      BY <1>8, <1>10
    <2> QED BY <1>5, <1>8, <1>9, <1>10, <2>1 DEF Extends
  <1> QED BY <1>1, <1>4, <1>6, <1>9, <1>11 DEF s

LEMMA SocksSends == ASSUME SocksInv, NEW c \in Alone, Socks5!Send(c) PROVE SocksInv'
  <1>1. /\ thread' = thread /\ gone' = gone /\ pos' = pos /\ asked' = asked
        /\ username' = username /\ short' = short /\ events' = events
    BY DEF Socks5!Send
  <1>2. /\ thread \in [Alone -> SocksPlaces] /\ short \in [Alone -> BOOLEAN]
        /\ gone \in [Alone -> {"no", "closed", "reset"}]
        /\ DOMAIN pos = Alone /\ DOMAIN asked = Alone /\ DOMAIN username = Alone
        /\ DOMAIN events = Alone
    BY DEF SocksInv, Socks5!TypeOK, SocksPlaces
  <1>3. SocksState(thread[c], sent[c], pos[c], asked[c], username[c], short[c], events[c])
    BY DEF SocksInv, SocksOK
  <1>4. SocksState(thread[c], sent'[c], pos[c], asked[c], username[c], short[c], events[c])
    <2> DEFINE s == sent[c]
               t == sent'[c]
    <2>1. /\ s \in Seq(Bytes) /\ t \in Seq(Bytes) /\ Extends(t, s)
          /\ thread[c] \in SocksPlaces \ {"none", "done"}
      BY SocksSent
    <2>2. SocksState(thread[c], s, pos[c], asked[c], username[c], short[c], events[c])
      BY <1>3
    <2> HIDE DEF s, t
    <2>3. SocksState(thread[c], t, pos[c], asked[c], username[c], short[c], events[c])
      BY <2>1, <2>2, SocksMore
    <2> QED BY <2>3 DEF t
  <1>5. SocksState(thread'[c], sent'[c], pos'[c], asked'[c], username'[c], short'[c], events'[c])
    BY <1>1, <1>4, Zenon
  <1> QED BY <1>1, <1>2, <1>5, SocksSent, SocksFrame DEF SocksPlaces

LEMMA SocksKeeps ==
    ASSUME SocksInv,
           Socks5!Next \/ UNCHANGED <<thread, sent, pos, gone, asked, username, short, events>>
    PROVE  SocksInv'
  <1>1. CASE UNCHANGED <<thread, sent, pos, gone, asked, username, short, events>>
    <2>1. Socks5!TypeOK'
      BY <1>1 DEF SocksInv, Socks5!TypeOK
    <2>2. \A c \in Alone : SocksOK(c)'
      <3> TAKE c \in Alone
      <3>1. SocksState(thread[c], sent[c], pos[c], asked[c], username[c], short[c], events[c])
        BY DEF SocksInv, SocksOK
      <3>2. SocksState(thread'[c], sent'[c], pos'[c], asked'[c], username'[c], short'[c], events'[c])
        BY <1>1, <3>1, Zenon
      <3> QED BY <3>2 DEF SocksOK
    <2> QED BY <1>1, <2>1, <2>2 DEF SocksInv
  <1> QED BY <1>1, SocksHandles, SocksRaises, SocksGreets, SocksMethods, SocksAuth, SocksNameLength,
             SocksPasswordLength, SocksNames, SocksLogsIn, SocksSends, SocksLeaves
          DEF Socks5!Next, Socks5!HandlerStep

LEMMA SocksExact == SocksInv => Socks5!LoginIsExact
  <1> SUFFICES ASSUME SocksInv, NEW c \in Alone, NEW i \in DOMAIN events[c],
                      events[c][i].action = "login", ~short[c]
               PROVE  <<events[c][i].username, events[c][i].password>> = Socks5!Fields(sent[c])
    BY DEF Socks5!LoginIsExact
  <1>1. SocksLog(thread[c], sent[c], short[c], events[c]) /\ thread[c] \in SocksPlaces
    BY DEF SocksInv, SocksOK, SocksState, Socks5!TypeOK, SocksPlaces
  <1>2. Connection.action # "login"
    BY DEF Connection
  <1>3. events[c] # <<>>
    OBVIOUS
  <1>4. events[c] # <<Connection>>
    <2> SUFFICES ASSUME events[c] = <<Connection>> PROVE FALSE
      OBVIOUS
    <2>1. i = 1 /\ events[c][i] = Connection
      BY One
    <2> QED BY <1>2, <2>1
  <1>5. PICK name, password :
           /\ events[c] = <<Connection, SocksLogin(name, password)>>
           /\ <<name, password>> = Socks5!Fields(sent[c])
    BY <1>1, <1>3, <1>4 DEF SocksLog
  <1>6. i \in 1 .. 2 /\ events[c][1] = Connection /\ events[c][2] = SocksLogin(name, password)
    BY <1>5, Two
  <1>7. events[c][i] = SocksLogin(name, password)
    BY <1>2, <1>6
  <1> QED BY <1>5, <1>7 DEF SocksLogin

-------------------------------------------------------------------------------
(* ssh: the lemmas of SshServerProofs, and how the two threads of a connection go together *)

SshPhases(c) ==
    /\ thread[c] \in {"none", "start"} => transport[c] = "none" /\ events[c] = <<>>
    /\ transport[c] \in {"negotiating", "active"} => events[c] # <<>>
    /\ thread[c] = "done" => transport[c] = "down"
    /\ thread[c] \notin {"none", "start", "done"} => events[c] # <<>>

SshAll ==
    /\ Ssh!SshInv /\ Ssh!SessionInv
    /\ \A c \in Alone : SshPhases(c)

LEMMA SshBegins == Ssh!Init => SshAll
  <1>1. Ssh!Init => \A c \in Alone : SshPhases(c)
    BY DEF Ssh!Init, SshPhases
  <1> QED BY <1>1, Ssh!InitEstablishes, Ssh!SessionBegins DEF SshAll

LEMMA SshSafe ==
    ASSUME SshAll
    PROVE  Ssh!TypeOK /\ Ssh!CommandsNeedLogin /\ Ssh!SessionIsLogged
  <1>1. Ssh!SshInv /\ Ssh!SessionInv
    BY DEF SshAll
  <1>2. Ssh!TypeOK /\ Ssh!CommandsNeedLogin
    BY <1>1, Ssh!Halves DEF Ssh!SshInv
  <1>3. Ssh!SessionIsLogged
    BY <1>1, Ssh!SessionsAreLogged
  <1> QED BY <1>2, <1>3

LEMMA SshInvariants ==
    ASSUME SshAll, [Ssh!Next]_(Ssh!sshVars)
    PROVE  Ssh!SshInv' /\ Ssh!SessionInv'
  <1>1. Ssh!PiecesAreTexts
    BY PiecesAssumption DEF Ssh!PiecesAreTexts, Ssh!Texts
  <1>2. Ssh!SshInv /\ Ssh!SessionInv
    BY DEF SshAll
  <1>3. Ssh!SshInv'
    BY <1>2, Ssh!NextKeeps
  <1>4. Ssh!SessionInv'
    BY <1>1, <1>2, Ssh!SessionKeeps
  <1> QED BY <1>3, <1>4

LEMMA SshPhasesKept ==
    ASSUME SshAll, [Ssh!Next]_(Ssh!sshVars), NEW c \in Alone
    PROVE  SshPhases(c)'
  <1> USE DEF Ssh!Goto
  <1>1. /\ thread \in [Alone -> {"none", "start", "negotiating", "accepting", "prompt",
                                 "welcome", "receiving", "waiting", "done"}]
        /\ transport \in [Alone -> {"none", "negotiating", "active", "down"}]
        /\ Ssh!LogsOK /\ \A d \in Alone : SshPhases(d)
    BY DEF SshAll, Ssh!SshInv, Ssh!TypeOK
  <1>2. ASSUME NEW d \in Alone, NEW e, Ssh!Log(d, e)
        PROVE  /\ events'[d] # <<>> /\ \A o \in Alone \ {d} : events'[o] = events[o]
    <2>1. Ssh!Sequences(Alone, events) /\ Appended(events, d, e, events')
      BY <1>1, <1>2 DEF Ssh!LogsOK, Ssh!Log, Appended
    <2>2. Sequences(Alone, events)
      BY <2>1 DEF Ssh!Sequences, Sequences
    <2>3. /\ Len(events[d]) \in Nat /\ Len(events'[d]) = Len(events[d]) + 1
          /\ \A o \in Alone \ {d} : events'[o] = events[o]
      BY <2>1, <2>2, LogAppends
    <2>4. Len(<<>>) = 0
      BY EmptySeq
    <2> QED BY <2>3, <2>4
  <1>3. ASSUME NEW d \in Alone, Ssh!Close(d), events' = events, thread[d] # "none"
        PROVE  SshPhases(c)'
    BY <1>1, <1>3 DEF SshPhases, Ssh!Close
  <1>4. CASE UNCHANGED Ssh!sshVars
    BY <1>1, <1>4 DEF SshPhases, Ssh!sshVars
  <1>5. ASSUME NEW d \in Alone, Ssh!AcceptClient(d) \/ Ssh!Negotiated(d) \/ Ssh!TransportEnds(d)
        PROVE  SshPhases(c)'
    BY <1>1, <1>5 DEF SshPhases, Ssh!AcceptClient, Ssh!Negotiated, Ssh!TransportEnds, Ssh!client
  <1>6. ASSUME NEW d \in Alone, Ssh!StartServer(d) PROVE SshPhases(c)'
    <2>1. events'[d] # <<>> /\ \A o \in Alone \ {d} : events'[o] = events[o]
      BY <1>2, <1>6 DEF Ssh!StartServer
    <2> QED BY <1>1, <1>6, <2>1 DEF SshPhases, Ssh!StartServer
  <1>7. ASSUME NEW d \in Alone,
               \/ Ssh!HasGone(d) \/ Ssh!NoChannel(d) \/ Ssh!Waited(d) \/ Ssh!SendRaises(d)
        PROVE  SshPhases(c)'
    BY <1>3, <1>7 DEF Ssh!HasGone, Ssh!NoChannel, Ssh!Waited, Ssh!SendRaises
  <1>8. ASSUME NEW d \in Alone, Ssh!Started(d) PROVE SshPhases(c)'
    <2>1. CASE Ssh!Close(d)
      BY <1>3, <1>8, <2>1 DEF Ssh!Started
    <2>2. CASE transport[d] = "active" /\ Ssh!Goto(d, "accepting") /\ UNCHANGED transport
      BY <1>1, <1>8, <2>2 DEF SshPhases, Ssh!Started
    <2> QED BY <1>8, <2>1, <2>2 DEF Ssh!Started
  <1>9. ASSUME NEW d \in Alone,
               \/ Ssh!ChannelAccepted(d) \/ Ssh!Welcome(d) \/ Ssh!Prompt(d)
               \/ Ssh!SessionExpired(d)
        PROVE  SshPhases(c)'
    BY <1>1, <1>9 DEF SshPhases, Ssh!ChannelAccepted, Ssh!Welcome, Ssh!Prompt, Ssh!SessionExpired,
                      Ssh!client
  <1>10. ASSUME NEW d \in Alone, Ssh!ReceivePiece(d) PROVE SshPhases(c)'
    <2>1. /\ thread[d] = "receiving" /\ UNCHANGED transport
          /\ \/ thread' = thread \/ \E place \in {"waiting", "prompt"} : Ssh!Goto(d, place)
      BY <1>10 DEF Ssh!ReceivePiece
    <2>2. events' = events \/ \E e : Ssh!Log(d, e)
      BY <1>10 DEF Ssh!ReceivePiece
    <2>3. \/ events' = events
          \/ events'[d] # <<>> /\ \A o \in Alone \ {d} : events'[o] = events[o]
      BY <1>2, <2>2
    <2> QED BY <1>1, <2>1, <2>3 DEF SshPhases
  <1>11. ASSUME NEW d \in Alone, Ssh!ClientStep(d) PROVE SshPhases(c)'
    <2>1. thread' = thread
      BY <1>11 DEF Ssh!ClientStep, Ssh!CheckAuthPassword, Ssh!CheckAuthPublickey, Ssh!Tried,
                   Ssh!CheckAuthDefault, Ssh!CheckChannelRequest, Ssh!CheckChannelExecRequest,
                   Ssh!Type, Ssh!client, Ssh!shell
    <2>2. /\ transport[d] = "active"
          /\ \/ transport' = transport \/ transport' = [transport EXCEPT ![d] = "down"]
      <3>1. ASSUME NEW user, NEW secret, NEW result, NEW event, Ssh!Tried(d, user, secret, result, event)
            PROVE  /\ transport[d] = "active"
                   /\ \/ transport' = transport \/ transport' = [transport EXCEPT ![d] = "down"]
        BY <1>1, <3>1 DEF Ssh!Tried, Ssh!Count
      <3>2. CASE Ssh!CheckAuthDefault(d)
        BY <1>1, <3>2 DEF Ssh!CheckAuthDefault, Ssh!Count
      <3> QED BY <1>11, <3>1, <3>2 DEF Ssh!ClientStep, Ssh!CheckAuthPassword, Ssh!CheckAuthPublickey,
                   Ssh!CheckChannelRequest, Ssh!CheckChannelExecRequest, Ssh!Type
    <2>3. events' = events \/ \E e : Ssh!Log(d, e)
      BY <1>11 DEF Ssh!ClientStep, Ssh!CheckAuthPassword, Ssh!CheckAuthPublickey, Ssh!Tried,
                   Ssh!CheckAuthDefault, Ssh!CheckChannelRequest, Ssh!CheckChannelExecRequest,
                   Ssh!Type, Ssh!client, Ssh!shell
    <2>4. \/ events' = events
          \/ events'[d] # <<>> /\ \A o \in Alone \ {d} : events'[o] = events[o]
      BY <1>2, <2>3
    <2> QED BY <1>1, <2>1, <2>2, <2>4 DEF SshPhases
  <1> QED BY <1>4, <1>5, <1>6, <1>7, <1>8, <1>9, <1>10, <1>11 DEF Ssh!Next, Ssh!HandlerStep

LEMMA SshKeeps == ASSUME SshAll, [Ssh!Next]_(Ssh!sshVars) PROVE SshAll'
  BY SshInvariants, SshPhasesKept DEF SshAll

-------------------------------------------------------------------------------
(* The honeypot that was chosen *)

\* The inductive invariant: that of the honeypot.
Inv ==
    /\ server = "ssh" => SshAll
    /\ server = "socks5" => SocksInv
    /\ server = "rdp" => RdpInv
    /\ server = "elastic" => ElasticInv

LEMMA Begins == Init => Inv
  <1> SUFFICES ASSUME Init PROVE Inv
    OBVIOUS
  <1>1. \/ server = "ssh" /\ Ssh!Init
        \/ server = "socks5" /\ Socks5!Init
        \/ server = "rdp" /\ Rdp!Init
        \/ server = "elastic" /\ Elastic!Init
    BY DEF Init
  <1> QED BY <1>1, SshBegins, SocksBegins, RdpBegins, ElasticBegins DEF Inv

\* What a step is to the honeypot.
LEMMA StepOf ==
    ASSUME [Next]_everything
    PROVE  /\ server' = server
           /\ server = "ssh" => [Ssh!Next]_(Ssh!sshVars)
           /\ server = "socks5" =>
                Socks5!Next \/ UNCHANGED <<thread, sent, pos, gone, asked, username, short, events>>
           /\ server = "rdp" => Rdp!Next \/ UNCHANGED <<thread, gone, joined, pdus, replies, events>>
           /\ server = "elastic" =>
                Elastic!Next \/ UNCHANGED <<thread, accepting, gone, pdus, events>>
  <1>1. CASE UNCHANGED everything
    BY <1>1 DEF everything, sshRest, socksRest, rdpRest, Ssh!sshVars
  <1>2. CASE SshStep(Ssh!Next)
    BY <1>2 DEF SshStep
  <1>3. CASE Socks5Step(Socks5!Next)
    BY <1>3 DEF Socks5Step
  <1>4. CASE RdpStep(Rdp!Next)
    BY <1>4 DEF RdpStep
  <1>5. CASE ElasticStep(Elastic!Next)
    BY <1>5 DEF ElasticStep
  <1> QED BY <1>1, <1>2, <1>3, <1>4, <1>5 DEF Next

LEMMA Keeps == Inv /\ [Next]_everything => Inv'
  <1> SUFFICES ASSUME Inv, [Next]_everything PROVE Inv'
    OBVIOUS
  <1>1. server' = server
    BY StepOf
  <1>2. ASSUME server = "ssh" PROVE SshAll'
    BY <1>2, StepOf, SshKeeps DEF Inv
  <1>3. ASSUME server = "socks5" PROVE SocksInv'
    BY <1>3, StepOf, SocksKeeps DEF Inv
  <1>4. ASSUME server = "rdp" PROVE RdpInv'
    BY <1>4, StepOf, RdpKeeps DEF Inv
  <1>5. ASSUME server = "elastic" PROVE ElasticInv'
    BY <1>5, StepOf, ElasticKeeps DEF Inv
  <1> QED BY <1>1, <1>2, <1>3, <1>4, <1>5 DEF Inv

LEMMA Safe ==
    Inv => /\ TypeOK /\ CommandsNeedLogin /\ SessionIsLogged
           /\ LoginIsExact /\ DialogueIsClosed /\ RefusalsAreDumped
  <1>1. ASSUME Inv, server = "ssh"
        PROVE  Ssh!TypeOK /\ Ssh!CommandsNeedLogin /\ Ssh!SessionIsLogged
    BY <1>1, SshSafe DEF Inv
  <1>2. ASSUME Inv, server = "socks5" PROVE Socks5!TypeOK /\ Socks5!LoginIsExact
    BY <1>2, SocksExact DEF Inv, SocksInv
  <1>3. ASSUME Inv, server = "rdp" PROVE Rdp!TypeOK /\ Rdp!DialogueIsClosed
    BY <1>3, RdpDialogues DEF Inv, RdpInv
  <1>4. ASSUME Inv, server = "elastic" PROVE Elastic!TypeOK /\ Elastic!RefusalsAreDumped
    BY <1>4, ElasticRefusals DEF Inv, ElasticInv
  <1> QED BY <1>1, <1>2, <1>3, <1>4
          DEF TypeOK, CommandsNeedLogin, SessionIsLogged, LoginIsExact, DialogueIsClosed,
              RefusalsAreDumped

\* What the theorems below follow from: the whole log and the state of every connection,
\* place by place of its thread (handle_connection, handle(), run() and do_GET).
THEOREM Invariant == Spec => []Inv
  <1> QED BY Begins, Keeps, PTL DEF Spec

\* The variables of the honeypot are well-typed: of elastic, the main thread shakes hands
\* with one client at most; of socks5, nothing is read that has not arrived.
THEOREM TypesAreKept == Spec => []TypeOK
  <1> QED BY Invariant, Safe, PTL

\* ssh: every password and every key presented is in the log, and nobody gets a shell or runs
\* a command without an earlier login that grants it (ssh_server.py:103-136), when it is one
\* of the honeypots as well.
THEOREM CommandsAlwaysNeedLogin == Spec => []CommandsNeedLogin
  <1> QED BY Invariant, Safe, PTL

\* ssh: of what ANSI_REGEX leaves of a session nothing but white space is lost on its way to
\* the log, and nothing is invented (ssh_server.py:179-259).
THEOREM SessionsAreLogged == Spec => []SessionIsLogged
  <1> QED BY Invariant, Safe, PTL

\* socks5: however the stream of a client is cut into pieces, and whatever the lengths in
\* it say, a login that is logged consists of the two fields of RFC 1929 unless some recv()
\* fell short (socks5_server.py:36-61).
THEOREM LoginsAreExact == Spec => []LoginIsExact
  <1> QED BY Invariant, Safe, PTL

\* rdp: every channel join is confirmed, in order, and whoever stays is told at the end that
\* it is disconnected, whatever PDUs arrive (rdp_server.py:160-186).
THEOREM DialoguesAreClosed == Spec => []DialogueIsClosed
  <1> QED BY Invariant, Safe, PTL

\* elastic: the log shows a success exactly for the configured credentials under Basic, a
\* failed login and a dump for every other name and password without a colon, or without
\* any, and nothing for all other requests (elastic_server.py:65-69, 96-116, 246-264).
THEOREM RefusalsAreAlwaysDumped == Spec => []RefusalsAreDumped
  <1> QED BY Invariant, Safe, PTL

-------------------------------------------------------------------------------
(* The promise of LoginCapture *)

\* What LoginCapture sees of a connection that is present.
Phase(c) ==
    IF events[c] = <<>> THEN "none" ELSE IF thread[c] = "done" THEN "lost" ELSE "open"
Seen(c) == <<Phase(c), Offered(c), Captured(c)>>

\* What a step may do to one connection.
Admitted(c) ==
    /\ Phase(c) = "none" /\ Phase(c)' = "open"
    /\ Offered(c)' = Offered(c) /\ Captured(c)' = Captured(c)
Handled(c) ==
    /\ Phase(c) = "open" /\ Phase(c)' \in {"open", "lost"}
    /\ Offered(c) \subseteq Offered(c)'
    /\ \/ Captured(c)' = Captured(c)
       \/ \E x \in Offered(c)' : Captured(c)' = Append(Captured(c), x)

phases == [c \in Conns |-> IF c \notin Present \/ events[c] = <<>> THEN "none"
                           ELSE IF thread[c] = "done" THEN "lost" ELSE "open"]
offers == [c \in Conns |-> IF c \in Present THEN Offered(c) ELSE {}]
captures == [c \in Conns |-> IF c \in Present THEN Captured(c) ELSE <<>>]

LEMMA PhasesAre ==
    /\ \A c \in Conns : /\ phases[c] = IF c \in Present THEN Phase(c) ELSE "none"
                        /\ offers[c] = IF c \in Present THEN Offered(c) ELSE {}
                        /\ captures[c] = IF c \in Present THEN Captured(c) ELSE <<>>
    /\ DOMAIN phases = Conns /\ DOMAIN offers = Conns /\ DOMAIN captures = Conns
  BY DEF phases, offers, captures, Phase

LEMMA PhasesWillBe ==
    ASSUME server' = server
    PROVE  /\ \A c \in Conns : /\ phases'[c] = IF c \in Present THEN Phase(c)' ELSE "none"
                               /\ offers'[c] = IF c \in Present THEN Offered(c)' ELSE {}
                               /\ captures'[c] = IF c \in Present THEN Captured(c)' ELSE <<>>
           /\ DOMAIN phases' = Conns /\ DOMAIN offers' = Conns /\ DOMAIN captures' = Conns
           /\ phases' = [c \in Conns |-> phases'[c]] /\ offers' = [c \in Conns |-> offers'[c]]
           /\ captures' = [c \in Conns |-> captures'[c]]
           /\ phases = [c \in Conns |-> phases[c]] /\ offers = [c \in Conns |-> offers[c]]
           /\ captures = [c \in Conns |-> captures[c]]
  <1>1. Present' = Present
    BY DEF Present
  <1> QED BY <1>1 DEF phases, offers, captures, Phase

LEMMA PresentAreConns == Present \subseteq Conns
  BY AloneAssumption DEF Present

LEMMA CaptureStep ==
    ASSUME server' = server, NEW c \in Present,
           \A d \in Present \ {c} : Seen(d)' = Seen(d),
           Seen(c)' = Seen(c) \/ Admitted(c) \/ Handled(c)
    PROVE  [Capture!CaptureNext]_(Capture!captureVars)
  <1>1. c \in Conns
    BY PresentAreConns
  <1>2. \A d \in Conns \ {c} :
           phases'[d] = phases[d] /\ offers'[d] = offers[d] /\ captures'[d] = captures[d]
    <2> TAKE d \in Conns \ {c}
    <2>1. CASE d \in Present
      <3>1. Phase(d)' = Phase(d) /\ Offered(d)' = Offered(d) /\ Captured(d)' = Captured(d)
        BY <2>1 DEF Seen
      <3> QED BY <2>1, <3>1, PhasesAre, PhasesWillBe
    <2>2. CASE d \notin Present
      BY <2>2, PhasesAre, PhasesWillBe
    <2> QED BY <2>1, <2>2
  <1>3. /\ phases[c] = Phase(c) /\ offers[c] = Offered(c) /\ captures[c] = Captured(c)
        /\ phases'[c] = Phase(c)' /\ offers'[c] = Offered(c)' /\ captures'[c] = Captured(c)'
    BY <1>1, PhasesAre, PhasesWillBe
  <1>4. CASE Seen(c)' = Seen(c)
    <2>1. phases'[c] = phases[c] /\ offers'[c] = offers[c] /\ captures'[c] = captures[c]
      BY <1>3, <1>4 DEF Seen
    <2>2. /\ \A d \in Conns : phases'[d] = phases[d]
          /\ \A d \in Conns : offers'[d] = offers[d]
          /\ \A d \in Conns : captures'[d] = captures[d]
      BY <1>2, <2>1
    <2>3. phases' = phases /\ offers' = offers /\ captures' = captures
      BY <2>2, PhasesWillBe
    <2> QED BY <2>3 DEF Capture!captureVars, phases, offers, captures
  <1>5. CASE Admitted(c)
    <2>1. /\ phases[c] = "none" /\ phases'[c] = "open"
          /\ offers'[c] = offers[c] /\ captures'[c] = captures[c]
      BY <1>3, <1>5 DEF Admitted
    <2>2. phases' = [phases EXCEPT ![c] = "open"]
      BY <1>2, <2>1, PhasesWillBe, PhasesAre
    <2>3. /\ \A d \in Conns : offers'[d] = offers[d]
          /\ \A d \in Conns : captures'[d] = captures[d]
      BY <1>2, <2>1
    <2>4. offers' = offers /\ captures' = captures
      BY <2>3, PhasesWillBe
    <2>5. Capture!Admit(c)
      BY <2>1, <2>2, <2>4 DEF Capture!Admit, phases, offers, captures
    <2> QED BY <1>1, <2>5 DEF Capture!CaptureNext
  <1>6. CASE Handled(c)
    <2>1. /\ phases[c] = "open" /\ phases'[c] \in {"open", "lost"}
          /\ offers[c] \subseteq offers'[c]
          /\ \/ captures'[c] = captures[c]
             \/ \E x \in offers'[c] : captures'[c] = Append(captures[c], x)
      BY <1>3, <1>6 DEF Handled
    <2>2. Capture!Handle(c)
      BY <1>2, <2>1 DEF Capture!Handle, phases, offers, captures
    <2> QED BY <1>1, <2>2 DEF Capture!CaptureNext
  <1> QED BY <1>4, <1>5, <1>6

\* The credentials in a log of ssh; Names has those of the others.
SshNames(log) ==
    LET logins == Matching(log, "login")
    IN  [i \in DOMAIN logins |-> <<logins[i].username, logins[i].secret>>]

LEMMA CapturedIs ==
    ASSUME NEW c
    PROVE  Captured(c) = IF server = "ssh" THEN SshNames(events[c]) ELSE Names(events[c])
  <1>1. Ssh!Matching(events[c], "login") = Matching(events[c], "login")
    BY DEF Ssh!Matching, Matching, Ssh!Positions, Positions, Ssh!At, At
  <1> QED BY <1>1 DEF Captured, Ssh!Captured, Ssh!Logins, SshNames, Names

LEMMA NoNames == SshNames(<<>>) = <<>> /\ Names(<<>>) = <<>>
  <1>1. /\ SshNames(<<>>) = [i \in DOMAIN <<>> |-> <<<<>>[i].username, <<>>[i].secret>>]
        /\ Names(<<>>) = [i \in DOMAIN <<>> |-> <<<<>>[i].username, <<>>[i].password>>]
    BY NoMatching DEF SshNames, Names
  <1> QED BY <1>1

LEMMA SameNames ==
    ASSUME NEW S, NEW log \in Seq(S), NEW e \in S, e.action # "login"
    PROVE  SshNames(Append(log, e)) = SshNames(log) /\ Names(Append(log, e)) = Names(log)
  <1>1. Matching(Append(log, e), "login") = Matching(log, "login")
    BY MatchingAppend
  <1> QED BY <1>1, Zenon DEF SshNames, Names

LEMMA MoreNames ==
    ASSUME NEW S, NEW log \in Seq(S), NEW e \in S, e.action = "login"
    PROVE  /\ SshNames(Append(log, e)) = Append(SshNames(log), <<e.username, e.secret>>)
           /\ Names(Append(log, e)) = Append(Names(log), <<e.username, e.password>>)
  <1> DEFINE logins == Matching(log, "login")
             more == Matching(Append(log, e), "login")
             n == Len(logins)
  <1>1. logins \in Seq(S) /\ more = Append(logins, e)
    BY MatchingAppend, MatchingType
  <1> HIDE DEF more
  <1>2. /\ SshNames(log) = [i \in DOMAIN logins |-> <<logins[i].username, logins[i].secret>>]
        /\ Names(log) = [i \in DOMAIN logins |-> <<logins[i].username, logins[i].password>>]
    BY DEF SshNames, Names
  <1>3. /\ SshNames(Append(log, e)) = [i \in DOMAIN more |-> <<more[i].username, more[i].secret>>]
        /\ Names(Append(log, e)) = [i \in DOMAIN more |-> <<more[i].username, more[i].password>>]
    BY DEF SshNames, Names, more
  <1> HIDE DEF logins
  <1>4. /\ n \in Nat /\ DOMAIN logins = 1 .. n /\ DOMAIN more = 1 .. n + 1
        /\ more[n + 1] = e /\ \A i \in 1 .. n : more[i] = logins[i]
    BY <1>1, AppendProperties
  <1> HIDE DEF n
  <1> DEFINE f == [i \in 1 .. n + 1 |-> <<more[i].username, more[i].secret>>]
             g == [i \in 1 .. n |-> <<logins[i].username, logins[i].secret>>]
             h == [i \in 1 .. n + 1 |-> <<more[i].username, more[i].password>>]
             k == [i \in 1 .. n |-> <<logins[i].username, logins[i].password>>]
  <1>5. f = Append(g, f[n + 1])
    <2>1. f = [i \in 1 .. n + 1 |-> f[i]] /\ g = [i \in 1 .. n |-> f[i]]
      BY <1>4
    <2> HIDE DEF f, g
    <2> QED BY <1>4, <2>1, OneMore
  <1>6. h = Append(k, h[n + 1])
    <2>1. h = [i \in 1 .. n + 1 |-> h[i]] /\ k = [i \in 1 .. n |-> h[i]]
      BY <1>4
    <2> HIDE DEF h, k
    <2> QED BY <1>4, <2>1, OneMore
  <1>7. f[n + 1] = <<e.username, e.secret>> /\ h[n + 1] = <<e.username, e.password>>
    BY <1>4
  <1>8. /\ SshNames(log) = g /\ Names(log) = k
        /\ SshNames(Append(log, e)) = f /\ Names(Append(log, e)) = h
    BY <1>2, <1>3, <1>4
  <1> HIDE DEF f, g, h, k
  <1> QED BY <1>5, <1>6, <1>7, <1>8

\* Logs of one, two and three entries.
LEMMA FirstNames ==
    ASSUME NEW a, NEW b, NEW d, a.action # "login", b.action = "login", d.action # "login"
    PROVE  /\ Names(<<a>>) = <<>>
           /\ Names(<<a, b>>) = <<<<b.username, b.password>>>>
           /\ Names(<<a, b, d>>) = <<<<b.username, b.password>>>>
  <1> DEFINE S == {a, b, d}
  <1>1. a \in S /\ b \in S /\ d \in S
    OBVIOUS
  <1> HIDE DEF S
  <1>2. <<>> \in Seq(S) /\ <<a>> \in Seq(S) /\ <<a, b>> \in Seq(S)
    BY <1>1
  <1>3. <<a>> = Append(<<>>, a) /\ <<a, b>> = Append(<<a>>, b) /\ <<a, b, d>> = Append(<<a, b>>, d)
    BY Two, Three
  <1>4. Names(Append(<<>>, a)) = Names(<<>>)
    BY <1>1, <1>2, SameNames
  <1>5. Names(Append(<<a>>, b)) = Append(Names(<<a>>), <<b.username, b.password>>)
    BY <1>1, <1>2, MoreNames
  <1>6. Names(Append(<<a, b>>, d)) = Names(<<a, b>>)
    BY <1>1, <1>2, SameNames
  <1>7. Append(<<>>, <<b.username, b.password>>) = <<<<b.username, b.password>>>>
    OBVIOUS
  <1> QED BY <1>3, <1>4, <1>5, <1>6, <1>7, NoNames, Zenon

\* A log that only knows of the connection.
LEMMA NoneYet == Names(<<Connection>>) = <<>>
  <1> DEFINE e == [action |-> "login"]
  <1>1. e.action = "login" /\ Connection.action # "login"
    BY DEF Connection
  <1> QED BY <1>1, FirstNames

\* elastic: an answer logs nothing, or one login that the request offered.
Offer(r) ==
    IF r.kind = "anonymous" THEN {<<"", "">>}
    ELSE IF r.kind \in {"basic", "scheme"}
    THEN {<<SubSeq(r.parts, 1, i), SubSeq(r.parts, i + 1, Len(r.parts))>> : i \in DOMAIN r.parts}
    ELSE {}

ElasticOffers(s) == UNION {Offer(r) : r \in Elastic!ToSet(s)}

LEMMA OneRequest == ElasticOffers(<<>>) = {} /\ \A r : ElasticOffers(<<r>>) = Offer(r)
  <1>1. Elastic!ToSet(<<>>) = {} /\ \A r : Elastic!ToSet(<<r>>) = {r}
    <2>1. \A r : DOMAIN <<r>> = 1 .. 1 /\ <<r>>[1] = r
      BY One
    <2> QED BY <2>1 DEF Elastic!ToSet
  <1> HIDE DEF Offer
  <1> QED BY <1>1 DEF ElasticOffers

\* What the others are offered, in terms of what was read.
SshOffers(s) == {<<s[i].user, s[i].secret>> : i \in DOMAIN s}
RdpOffers(s) == {<<x.user, x.password>> : x \in {y \in Rdp!Range(s) : y.kind = "creds"}}

Offers(c) ==
    IF server = "ssh" THEN SshOffers(tries[c])
    ELSE IF server = "socks5" THEN Halves(sent[c])
    ELSE IF server = "rdp" THEN RdpOffers(pdus[c])
    ELSE ElasticOffers(pdus[c])
Credentials(c) == IF server = "ssh" THEN SshNames(events[c]) ELSE Names(events[c])

LEMMA OfferedIs == ASSUME NEW c PROVE Offered(c) = Offers(c)
  BY DEF Offered, Offers, Ssh!Offered, Socks5!Offered, Rdp!Offered, Elastic!Offered,
         SshOffers, Halves, RdpOffers, ElasticOffers, Offer

\* What is seen of a connection before and after a step.
LEMMA SeenIs ==
    ASSUME NEW c
    PROVE  /\ Offered(c) = Offers(c) /\ Captured(c) = Credentials(c)
           /\ Offered(c)' = Offers(c)' /\ Captured(c)' = Credentials(c)'
  <1>1. ASSUME NEW d PROVE Offered(d) = Offers(d) /\ Captured(d) = Credentials(d)
    BY OfferedIs, CapturedIs DEF Credentials
  <1>2. (Offered(c) = Offers(c) /\ Captured(c) = Credentials(c))'
    <2>1. (Offered(c) = Offers(c))'
      BY DEF Offered, Offers, Ssh!Offered, Socks5!Offered, Rdp!Offered, Elastic!Offered,
             SshOffers, Halves, RdpOffers, ElasticOffers, Offer
    <2>2. (Ssh!Matching(events[c], "login") = Matching(events[c], "login"))'
      BY DEF Ssh!Matching, Matching, Ssh!Positions, Positions, Ssh!At, At
    <2>3. (Captured(c) = Credentials(c))'
      BY <2>2 DEF Captured, Ssh!Captured, Ssh!Logins, SshNames, Names, Credentials
    <2> QED BY <2>1, <2>3
  <1> QED BY <1>1, <1>2

\* The parts of a text with n colons, divided at one of them.
LEMMA Divided ==
    ASSUME NEW a \in Seq(STRING) \ {<<>>}, NEW b \in Seq(STRING)
    PROVE  /\ Len(a) \in DOMAIN (a \o b)
           /\ SubSeq(a \o b, 1, Len(a)) = a
           /\ SubSeq(a \o b, Len(a) + 1, Len(a \o b)) = b
  <1> DEFINE s == a \o b
             n == Len(a)
             m == Len(b)
  <1>1. /\ s \in Seq(STRING) /\ Len(s) = n + m
        /\ \A i \in 1 .. n + m : s[i] = IF i <= n THEN a[i] ELSE b[i - n]
    BY ConcatProperties
  <1>2. n \in Nat \ {0} /\ m \in Nat
    BY EmptySeq
  <1> HIDE DEF s
  <1>3. n \in DOMAIN s
    BY <1>1, <1>2
  <1>4. SubSeq(s, 1, n) = a
    <2> DEFINE t == SubSeq(s, 1, n)
    <2> HIDE DEF n, m
    <2>1. n <= Len(s) /\ 1 \in Nat \ {0}
      BY <1>1, <1>2
    <2>2. t \in Seq(STRING) /\ Len(t) = (IF 1 <= n THEN n - 1 + 1 ELSE 0)
          /\ \A i \in 1 .. Len(t) : t[i] = s[1 + i - 1]
      BY <1>1, <1>2, <2>1, Part
    <2> HIDE DEF t
    <2>3. Len(t) = n
      BY <1>2, <2>2
    <2>4. \A i \in 1 .. Len(t) : t[i] = a[i]
      BY <1>1, <1>2, <2>2, <2>3
    <2> QED BY <2>2, <2>3, <2>4, SeqEqual DEF n, t
  <1>5. SubSeq(s, n + 1, Len(s)) = b
    <2> DEFINE t == SubSeq(s, n + 1, Len(s))
    <2> HIDE DEF n, m
    <2>1. n + 1 \in Nat \ {0} /\ Len(s) \in Nat
      BY <1>1, <1>2
    <2>2. t \in Seq(STRING) /\ Len(t) = (IF n + 1 <= Len(s) THEN Len(s) - (n + 1) + 1 ELSE 0)
          /\ \A i \in 1 .. Len(t) : t[i] = s[(n + 1) + i - 1]
      BY <1>1, <2>1, Part
    <2> HIDE DEF t
    <2>3. Len(t) = m
      BY <1>1, <1>2, <2>2
    <2>4. ASSUME NEW i \in 1 .. Len(t) PROVE t[i] = b[i]
      <3>1. (n + 1) + i - 1 = n + i /\ n + i \in 1 .. n + m /\ ~(n + i <= n) /\ (n + i) - n = i
        BY <1>2, <2>3
      <3> QED BY <1>1, <2>2, <3>1
    <2> QED BY <2>2, <2>3, <2>4, SeqEqual DEF m, t
  <1> QED BY <1>3, <1>4, <1>5 DEF s, n

LEMMA Single ==
    ASSUME NEW S, NEW s \in Seq(S), NEW i \in 1 .. Len(s)
    PROVE  SubSeq(s, i, i) = <<s[i]>>
  <1> DEFINE t == SubSeq(s, i, i)
  <1>1. i \in Nat \ {0} /\ i <= Len(s) /\ s[i] \in S
    OBVIOUS
  <1>2. t \in Seq(S) /\ Len(t) = (IF i <= i THEN i - i + 1 ELSE 0)
        /\ \A k \in 1 .. Len(t) : t[k] = s[i + k - 1]
    BY <1>1, Part
  <1> HIDE DEF t
  <1>3. Len(t) = 1 /\ t[1] = s[i]
    BY <1>1, <1>2
  <1>4. <<s[i]>> \in Seq(S) /\ Len(<<s[i]>>) = 1 /\ <<s[i]>>[1] = s[i]
    BY <1>1
  <1>5. \A k \in 1 .. Len(t) : t[k] = <<s[i]>>[k]
    BY <1>3
  <1> QED BY <1>2, <1>3, <1>4, <1>5, SeqEqual DEF t

LEMMA AnswersAreOffered ==
    ASSUME NEW r \in Requests, NEW log, AnswerLog(r, log)
    PROVE  log # <<>> /\ (Names(log) = <<>> \/ \E x \in Offer(r) : Names(log) = <<x>>)
  <1> DEFINE right == Elastic!Login(ElasticLogin[1], ElasticLogin[2], TRUE)
             empty == Elastic!Login("", "", FALSE)
             wrong == Elastic!Login(<<r.parts[1]>>, <<r.parts[2]>>, FALSE)
             dump == Elastic!Dump
  <1>1. /\ Connection.action # "login" /\ dump.action # "login"
        /\ right.action = "login" /\ empty.action = "login" /\ wrong.action = "login"
        /\ <<right.username, right.password>> = <<ElasticLogin[1], ElasticLogin[2]>>
        /\ <<empty.username, empty.password>> = <<"", "">>
        /\ <<wrong.username, wrong.password>> = <<<<r.parts[1]>>, <<r.parts[2]>>>>
    BY DEF Connection, Elastic!Dump, Elastic!Login
  <1>2. \/ r.kind = "anonymous" /\ log = <<Connection, empty, dump>>
        \/ Elastic!IsRight(r) /\ (log = <<Connection, right>> \/ log = <<Connection, right, dump>>)
        \/ /\ r.kind \in {"basic", "scheme"} /\ Len(r.parts) = 2
           /\ log = <<Connection, wrong, dump>>
        \/ log = <<Connection>>
    BY DEF AnswerLog
  <1> HIDE DEF right, empty, wrong, dump
  <1>3. log # <<>>
    BY <1>2, One, Two, Three
  <1>4. CASE r.kind = "anonymous" /\ log = <<Connection, empty, dump>>
    <2>0. Names(log) = <<<<empty.username, empty.password>>>>
      BY <1>1, <1>4, FirstNames
    <2>1. Names(log) = <<<<"", "">>>>
      BY <1>1, <2>0, Zenon
    <2>2. <<"", "">> \in Offer(r)
      BY <1>4 DEF Offer
    <2> QED BY <1>3, <2>1, <2>2
  <1>5. CASE Elastic!IsRight(r) /\ (log = <<Connection, right>> \/ log = <<Connection, right, dump>>)
    <2> DEFINE a == ElasticLogin[1]
               b == ElasticLogin[2]
    <2>0. Names(log) = <<<<right.username, right.password>>>>
      <3>1. /\ Names(<<Connection, right>>) = <<<<right.username, right.password>>>>
            /\ Names(<<Connection, right, dump>>) = <<<<right.username, right.password>>>>
        BY <1>1, FirstNames
      <3> QED BY <1>5, <3>1, Zenon
    <2>1. Names(log) = <<<<a, b>>>>
      BY <1>1, <2>0, Zenon
    <2>2. a \in Seq(STRING) \ {<<>>} /\ b \in Seq(STRING)
      BY ElasticAssumption
    <2>3. r.kind = "basic" /\ r.parts = a \o b
      BY <1>5 DEF Elastic!IsRight, Elastic!Key
    <2> HIDE DEF a, b
    <2>4. \A i \in DOMAIN r.parts :
             <<SubSeq(r.parts, 1, i), SubSeq(r.parts, i + 1, Len(r.parts))>> \in Offer(r)
      BY <2>3 DEF Offer
    <2>5. Len(a) \in DOMAIN r.parts
          /\ SubSeq(r.parts, 1, Len(a)) = a /\ SubSeq(r.parts, Len(a) + 1, Len(r.parts)) = b
      <3>1. /\ Len(a) \in DOMAIN (a \o b) /\ SubSeq(a \o b, 1, Len(a)) = a
            /\ SubSeq(a \o b, Len(a) + 1, Len(a \o b)) = b
        BY <2>2, Divided
      <3> QED BY <2>3, <3>1, Zenon
    <2>6. <<a, b>> \in Offer(r)
      BY <2>4, <2>5, Zenon
    <2> QED BY <1>3, <2>1, <2>6
  <1>6. CASE /\ r.kind \in {"basic", "scheme"} /\ Len(r.parts) = 2
             /\ log = <<Connection, wrong, dump>>
    <2>0. Names(log) = <<<<wrong.username, wrong.password>>>>
      BY <1>1, <1>6, FirstNames
    <2>1. Names(log) = <<<<<<r.parts[1]>>, <<r.parts[2]>>>>>>
      BY <1>1, <2>0, Zenon
    <2>2. r.parts \in Seq(STRING)
      BY <1>6, ElasticAssumption
    <2> DEFINE s == r.parts
    <2>3. \A i \in DOMAIN s : <<SubSeq(s, 1, i), SubSeq(s, i + 1, Len(s))>> \in Offer(r)
      BY <1>6 DEF Offer
    <2>4. s \in Seq(STRING) /\ Len(s) = 2
      BY <1>6, <2>2
    <2> HIDE DEF s
    <2>5. SubSeq(s, 1, 1) = <<s[1]>> /\ SubSeq(s, 2, 2) = <<s[2]>>
      <3>1. 1 \in 1 .. Len(s) /\ 2 \in 1 .. Len(s)
        BY <2>4
      <3> QED BY <2>4, <3>1, Single
    <2>6. 1 \in DOMAIN s /\ 1 + 1 = 2
      BY <2>4
    <2>7. <<SubSeq(s, 1, 1), SubSeq(s, 2, Len(s))>> \in Offer(r)
      BY <2>3, <2>6
    <2>8. <<<<s[1]>>, <<s[2]>>>> \in Offer(r)
      BY <2>4, <2>5, <2>7, Zenon
    <2> QED BY <1>3, <2>1, <2>8 DEF s
  <1>7. CASE log = <<Connection>>
    <2>2. Names(<<Connection>>) = <<>>
      BY NoneYet
    <2> QED BY <1>3, <1>7, <2>2
  <1> QED BY <1>2, <1>4, <1>5, <1>6, <1>7

\* A step of one connection, seen by LoginCapture.
OthersStay(c) ==
    \A d \in Present \ {c} : thread'[d] = thread[d] /\ events'[d] = events[d] /\ Offers(d)' = Offers(d)

LEMMA Framed ==
    ASSUME server' = server, NEW c \in Present, OthersStay(c),
           Seen(c)' = Seen(c) \/ Admitted(c) \/ Handled(c)
    PROVE  [Capture!CaptureNext]_(Capture!captureVars)
  <1>1. ASSUME NEW d \in Present \ {c} PROVE Seen(d)' = Seen(d)
    <2>1. thread'[d] = thread[d] /\ events'[d] = events[d] /\ Offers(d)' = Offers(d)
      BY DEF OthersStay
    <2>2. Credentials(d)' = Credentials(d) /\ Phase(d)' = Phase(d)
      BY <2>1 DEF Credentials, Phase
    <2> QED BY <2>1, <2>2, SeenIs DEF Seen
  <1> QED BY <1>1, CaptureStep

\* Nothing is read and nothing is logged: at most the thread ends.
LEMMA Quiet ==
    ASSUME server' = server, NEW c \in Present, events' = events,
           \A d \in Present : Offers(d)' = Offers(d),
           \A d \in Present \ {c} : thread'[d] = thread[d],
           thread[c] = "done" => thread'[c] = "done"
    PROVE  [Capture!CaptureNext]_(Capture!captureVars)
  <1>1. Offers(c)' = Offers(c) /\ Credentials(c)' = Credentials(c)
    BY DEF Credentials
  <1>2. Phase(c)' = Phase(c) \/ (Phase(c) = "open" /\ Phase(c)' \in {"open", "lost"})
    BY DEF Phase
  <1>3. Seen(c)' = Seen(c) \/ Handled(c)
    BY <1>1, <1>2, SeenIs DEF Seen, Handled
  <1>4. OthersStay(c)
    BY DEF OthersStay
  <1> QED BY <1>3, <1>4, Framed

\* The connection is logged.
LEMMA Admits ==
    ASSUME server' = server, NEW c \in Present, OthersStay(c), events[c] = <<>>, events'[c] # <<>>,
           thread'[c] # "done", Offers(c)' = Offers(c), Credentials(c)' = Credentials(c)
    PROVE  [Capture!CaptureNext]_(Capture!captureVars)
  <1>1. Phase(c) = "none" /\ Phase(c)' = "open"
    BY DEF Phase
  <1>2. Admitted(c)
    BY <1>1, SeenIs DEF Admitted
  <1> QED BY <1>2, Framed

\* Something is read of the client, and perhaps a login is logged.
LEMMA Handles ==
    ASSUME server' = server, NEW c \in Present, OthersStay(c),
           events[c] # <<>>, events'[c] # <<>>, thread[c] # "done",
           Offers(c) \subseteq Offers(c)',
           \/ Credentials(c)' = Credentials(c)
           \/ \E x \in Offers(c)' : Credentials(c)' = Append(Credentials(c), x)
    PROVE  [Capture!CaptureNext]_(Capture!captureVars)
  <1>1. Phase(c) = "open" /\ Phase(c)' \in {"open", "lost"}
    BY DEF Phase
  <1>2. Handled(c)
    BY <1>1, SeenIs DEF Handled
  <1> QED BY <1>2, Framed

LEMMA ElasticCaptures ==
    ASSUME ElasticInv, ElasticInv', Elastic!Next, server = "elastic", server' = server
    PROVE  [Capture!CaptureNext]_(Capture!captureVars)
  <1>1. PICK c \in Conns :
           \/ Elastic!Connect(c) \/ Elastic!Leave(c) \/ Elastic!Accept(c) \/ Elastic!ShakeHands(c)
           \/ Elastic!HandshakeFails(c) \/ Elastic!HandlerStep(c)
    BY DEF Elastic!Next
  <1>2. c \in Present /\ \A d : d \in Present <=> d \in Conns
    BY DEF Present
  <1>3. /\ thread \in [Conns -> {"none", "queued", "handshake", "started", "reading", "done"}]
        /\ DOMAIN events = Conns /\ DOMAIN pdus = Conns
        /\ \A d \in Conns : ElasticOK(d) /\ ElasticOK(d)'
    BY DEF ElasticInv, Elastic!TypeOK
  <1>4. \A d \in Conns : pdus'[d] = pdus[d] => Offers(d)' = Offers(d)
    BY DEF Offers
  <1>5. CASE \/ Elastic!Connect(c) \/ Elastic!Leave(c) \/ Elastic!Accept(c) \/ Elastic!ShakeHands(c)
             \/ Elastic!HandshakeFails(c) \/ Elastic!ReadEnds(c)
    <2>1. /\ pdus' = pdus /\ events' = events /\ \A d \in Conns \ {c} : thread'[d] = thread[d]
          /\ thread[c] = "done" => thread'[c] = "done"
      BY <1>3, <1>5
         DEF Elastic!Connect, Elastic!Leave, Elastic!Accept, Elastic!ShakeHands,
             Elastic!HandshakeFails, Elastic!ReadEnds, Elastic!Goto
    <2> QED BY <1>2, <1>4, <2>1, Quiet
  <1>6. CASE Elastic!HandleOneRequest(c)
    <2>1. /\ thread[c] = "started" /\ thread'[c] = "reading" /\ pdus' = pdus
          /\ \A d \in Conns \ {c} :
                thread'[d] = thread[d] /\ pdus'[d] = pdus[d] /\ events'[d] = events[d]
      BY <1>3, <1>6 DEF Elastic!HandleOneRequest, Elastic!LogAll, Elastic!Goto
    <2>2. events[c] = <<>> /\ events'[c] = <<Connection>> /\ events'[c] # <<>>
      BY <1>3, <2>1, One DEF ElasticOK
    <2>3. Credentials(c)' = Credentials(c)
      BY <2>2, NoNames, NoneYet DEF Credentials
    <2>4. OthersStay(c) /\ Offers(c)' = Offers(c)
      BY <1>2, <1>4, <2>1 DEF OthersStay
    <2> QED BY <1>2, <2>1, <2>2, <2>3, <2>4, Admits
  <1>7. ASSUME NEW r \in Requests,
               \/ Elastic!Anonymous(c, r) \/ Elastic!Authenticated(c, r)
               \/ Elastic!Refused(c, r) \/ Elastic!Unlogged(c, r)
        PROVE  [Capture!CaptureNext]_(Capture!captureVars)
    <2>1. Elastic!Read(c, r) /\ (UNCHANGED events \/ \E es : Elastic!LogAll(c, es))
      BY <1>7 DEF Elastic!Anonymous, Elastic!Authenticated, Elastic!Refused, Elastic!Unlogged
    <2>2. /\ thread[c] = "reading" /\ thread'[c] = "done" /\ pdus'[c] = <<r>>
          /\ \A d \in Conns \ {c} :
                thread'[d] = thread[d] /\ pdus'[d] = pdus[d] /\ events'[d] = events[d]
      BY <1>3, <2>1 DEF Elastic!Read, Elastic!LogAll, Elastic!Goto
    <2>3. events[c] = <<Connection>> /\ events[c] # <<>> /\ pdus[c] = <<>>
      BY <1>3, <2>2, One DEF ElasticOK
    <2>4. AnswerLog(r, events'[c])
      <3>1. <<r>> # <<>> /\ \A q : <<q>> = <<r>> => q = r
        BY One
      <3>2. ElasticOK(c)'
        BY <1>3
      <3>3. PICK q \in Requests : pdus'[c] = <<q>> /\ AnswerLog(q, events'[c])
        BY <2>2, <3>1, <3>2 DEF ElasticOK, Answered
      <3> QED BY <2>2, <3>1, <3>3
    <2>5. events'[c] # <<>> /\ (Names(events'[c]) = <<>> \/ \E x \in Offer(r) : Names(events'[c]) = <<x>>)
      BY <2>4, AnswersAreOffered
    <2>6. Offers(c) = {} /\ Offers(c)' = Offer(r)
      BY <2>2, <2>3, OneRequest DEF Offers
    <2>7. Credentials(c) = <<>> /\ Credentials(c)' = Names(events'[c])
      BY <2>3, NoneYet DEF Credentials
    <2>8. \A x : Append(<<>>, x) = <<x>>
      OBVIOUS
    <2>9. \/ Credentials(c)' = Credentials(c)
          \/ \E x \in Offers(c)' : Credentials(c)' = Append(Credentials(c), x)
      BY <2>5, <2>6, <2>7, <2>8, Zenon
    <2>10. OthersStay(c) /\ Offers(c) \subseteq Offers(c)' /\ thread[c] # "done"
      BY <1>2, <1>4, <2>2, <2>6 DEF OthersStay
    <2> QED BY <1>2, <2>3, <2>5, <2>9, <2>10, Handles
  <1> QED BY <1>1, <1>5, <1>6, <1>7 DEF Elastic!HandlerStep

\* socks5: what is offered grows with the stream.
LEMMA HalvesGrow ==
    ASSUME NEW s \in Seq(Bytes), NEW t \in Seq(Bytes), Extends(t, s)
    PROVE  Halves(s) \subseteq Halves(t)
  <1>1. Len(s) \in Nat /\ Len(t) \in Nat /\ Len(s) <= Len(t)
    BY DEF Extends
  <1>2. ASSUME NEW i \in 1 .. Len(s), NEW j \in 0 .. Len(s) - 1, NEW k \in 0 .. Len(s)
        PROVE  <<SubSeq(s, i, j), SubSeq(s, j + 2, k)>> \in Halves(t)
    <2>1. /\ i \in Nat \ {0} /\ j \in Nat /\ j <= Len(s) /\ j + 2 \in Nat \ {0}
          /\ k \in Nat /\ k <= Len(s)
      BY <1>1
    <2> DEFINE a == j + 2
    <2>2. SubSeq(t, i, j) = SubSeq(s, i, j)
      BY <2>1, SamePart
    <2>3. SubSeq(t, a, k) = SubSeq(s, a, k)
      <3>1. a \in Nat \ {0}
        BY <2>1
      <3> HIDE DEF a
      <3> QED BY <2>1, <3>1, SamePart
    <2>4. i \in 1 .. Len(t) /\ j \in 0 .. Len(t) - 1 /\ k \in 0 .. Len(t)
      BY <1>1, <2>1
    <2>5. <<SubSeq(t, i, j), SubSeq(t, j + 2, k)>> \in Halves(t)
      BY <2>4 DEF Halves
    <2> QED BY <2>2, <2>3, <2>5, Zenon
  <1>3. ASSUME NEW x \in Halves(s) PROVE x \in Halves(t)
    <2>1. PICK i \in 1 .. Len(s), j \in 0 .. Len(s) - 1, k \in 0 .. Len(s) :
             x = <<SubSeq(s, i, j), SubSeq(s, j + 2, k)>>
      BY DEF Halves
    <2> QED BY <1>2, <2>1, Zenon
  <1> QED BY <1>3

LEMMA SocksCaptures ==
    ASSUME SocksInv, SocksInv', Socks5!Next, server = "socks5", server' = server
    PROVE  [Capture!CaptureNext]_(Capture!captureVars)
  <1>1. PICK c \in Alone :
           Socks5!Handle(c) \/ Socks5!HandlerStep(c) \/ Socks5!Send(c) \/ Socks5!Leave(c)
    BY DEF Socks5!Next
  <1>2. c \in Present /\ \A d : d \in Present <=> d \in Alone
    BY DEF Present
  <1>3. /\ thread \in [Alone -> SocksPlaces] /\ DOMAIN events = Alone
        /\ \A d \in Alone : /\ SocksLog(thread[d], sent[d], short[d], events[d])
                            /\ SocksLog(thread'[d], sent'[d], short'[d], events'[d])
    BY DEF SocksInv, Socks5!TypeOK, SocksPlaces, SocksOK, SocksState
  <1>4. \A d \in Alone : sent'[d] = sent[d] => Offers(d)' = Offers(d)
    BY DEF Offers
  <1>5. CASE Socks5!Handle(c)
    <2>1. /\ thread[c] = "none" /\ thread'[c] = "greeting" /\ sent' = sent
          /\ \A d \in Alone \ {c} : thread'[d] = thread[d] /\ events'[d] = events[d]
      BY <1>3, <1>5 DEF Socks5!Handle, Socks5!Goto, Socks5!client
    <2>2. events[c] = <<>> /\ events'[c] = <<Connection>> /\ events'[c] # <<>>
      BY <1>3, <2>1, One DEF SocksLog
    <2>3. Credentials(c)' = Credentials(c)
      BY <2>2, NoNames, NoneYet DEF Credentials
    <2>4. OthersStay(c) /\ Offers(c)' = Offers(c)
      BY <1>2, <1>4, <2>1 DEF OthersStay
    <2> QED BY <1>2, <2>1, <2>2, <2>3, <2>4, Admits
  <1>6. CASE \/ Socks5!Leave(c) \/ Socks5!RecvRaises(c) \/ Socks5!Greeting(c) \/ Socks5!Methods(c)
             \/ Socks5!AuthVersion(c) \/ Socks5!FieldLength(c, "username_len", "username")
             \/ Socks5!FieldLength(c, "password_len", "password") \/ Socks5!Username(c)
    <2>1. /\ sent' = sent /\ events' = events
          /\ thread' = thread \/ \E place, n : Socks5!Goto(c, place, n)
      BY <1>6 DEF Socks5!Leave, Socks5!RecvRaises, Socks5!Greeting, Socks5!Methods,
                  Socks5!AuthVersion, Socks5!FieldLength, Socks5!Username, Socks5!Recv,
                  Socks5!client, Socks5!Finish
    <2>2. thread[c] # "done" \/ thread' = thread
      BY <1>6 DEF Socks5!Leave, Socks5!RecvRaises, Socks5!Greeting, Socks5!Methods,
                  Socks5!AuthVersion, Socks5!FieldLength, Socks5!Username, Socks5!Recv
    <2>3. \A d \in Alone \ {c} : thread'[d] = thread[d]
      BY <1>3, <2>1 DEF Socks5!Goto
    <2> QED BY <1>2, <1>4, <2>1, <2>2, <2>3, Quiet
  <1>7. CASE Socks5!Send(c)
    <2>1. thread' = thread /\ events' = events /\ thread[c] \notin {"none", "done"}
      BY <1>7 DEF Socks5!Send
    <2>2. /\ sent[c] \in Seq(Bytes) /\ sent'[c] \in Seq(Bytes) /\ Extends(sent'[c], sent[c])
          /\ \A d \in Alone \ {c} : sent'[d] = sent[d]
      BY <1>7, SocksSent
    <2>3. Halves(sent[c]) \subseteq Halves(sent'[c])
      <3> DEFINE s == sent[c]
                 t == sent'[c]
      <3>1. s \in Seq(Bytes) /\ t \in Seq(Bytes) /\ Extends(t, s)
        BY <2>2
      <3> HIDE DEF s, t
      <3>2. Halves(s) \subseteq Halves(t)
        BY <3>1, HalvesGrow
      <3> QED BY <3>2 DEF s, t
    <2>4. Offers(c) = Halves(sent[c]) /\ Offers(c)' = Halves(sent'[c])
      BY DEF Offers, Halves
    <2>5. events[c] = <<Connection>> /\ events[c] # <<>> /\ events'[c] # <<>>
      BY <1>3, <2>1, One DEF SocksLog
    <2>6. Credentials(c)' = Credentials(c)
      BY <2>1 DEF Credentials
    <2>7. OthersStay(c) /\ Offers(c) \subseteq Offers(c)'
      BY <1>2, <1>4, <2>1, <2>2, <2>3, <2>4 DEF OthersStay
    <2> QED BY <1>2, <2>1, <2>5, <2>6, <2>7, Handles
  <1>8. CASE Socks5!Password(c)
    <2>1. /\ thread[c] = "password" /\ thread'[c] = "done" /\ sent' = sent
          /\ \A d \in Alone \ {c} : thread'[d] = thread[d] /\ events'[d] = events[d]
      BY <1>3, <1>8 DEF Socks5!Password, Socks5!Recv, Socks5!client, Socks5!Finish, Socks5!Goto,
                        Socks5!Login
    <2>2. events[c] = <<Connection>> /\ events[c] # <<>>
      BY <1>3, <2>1, One DEF SocksLog
    <2>3. Credentials(c) = <<>>
      BY <2>2, NoneYet DEF Credentials
    <2>4. Credentials(c)' = Names(events'[c]) /\ Offers(c)' = Halves(sent'[c])
      BY DEF Credentials, Offers, Halves
    <2>5. \/ events'[c] = <<Connection>>
          \/ \E name, password :
                /\ <<name, password>> \in Halves(sent'[c])
                /\ events'[c] = <<Connection, SocksLogin(name, password)>>
      <3>1. SocksLog("done", sent'[c], short'[c], events'[c])
        BY <1>3, <2>1, Zenon
      <3>2. \/ events'[c] = <<Connection>>
            \/ \E name, password :
                  /\ <<name, password>> \in Halves(sent'[c])
                  /\ events'[c] = <<Connection, SocksLogin(name, password)>>
                  /\ ~short'[c] => <<name, password>> = Socks5!Fields(sent'[c])
        BY <3>1 DEF SocksLog
      <3> QED BY <3>2, Zenon
    <2>6. CASE events'[c] = <<Connection>>
      <3>1. events'[c] # <<>> /\ Credentials(c)' = Credentials(c)
        BY <2>3, <2>4, <2>6, NoneYet, One
      <3>2. OthersStay(c) /\ Offers(c)' = Offers(c)
        BY <1>2, <1>4, <2>1 DEF OthersStay
      <3> QED BY <1>2, <2>1, <2>2, <3>1, <3>2, Handles
    <2>7. ASSUME NEW name, NEW password, <<name, password>> \in Halves(sent'[c]),
                 events'[c] = <<Connection, SocksLogin(name, password)>>
          PROVE  [Capture!CaptureNext]_(Capture!captureVars)
      <3> DEFINE e == SocksLogin(name, password)
                 x == <<name, password>>
      <3>1. e.action = "login" /\ e.username = name /\ e.password = password
            /\ Connection.action # "login"
        BY DEF SocksLogin, Connection
      <3>2. events'[c] # <<>>
        BY <2>7, Two
      <3> HIDE DEF e
      <3>3. Names(<<Connection, e>>) = <<<<e.username, e.password>>>>
        BY <3>1, FirstNames
      <3>4. Names(events'[c]) = <<x>>
        <4>1. Names(events'[c]) = Names(<<Connection, e>>)
          BY <2>7, Zenon DEF e
        <4> QED BY <3>1, <3>3, <4>1, Zenon
      <3> HIDE DEF x
      <3>5. Credentials(c)' = Append(Credentials(c), x)
        <4>1. Append(<<>>, x) = <<x>>
          OBVIOUS
        <4> QED BY <2>3, <2>4, <3>4, <4>1, Zenon
      <3>6. x \in Offers(c)'
        BY <2>4, <2>7, Zenon DEF x
      <3>7. OthersStay(c) /\ Offers(c)' = Offers(c)
        BY <1>2, <1>4, <2>1 DEF OthersStay
      <3> QED BY <1>2, <2>1, <2>2, <3>2, <3>5, <3>6, <3>7, Handles
    <2> QED BY <2>5, <2>6, <2>7
  <1> QED BY <1>1, <1>5, <1>6, <1>7, <1>8 DEF Socks5!HandlerStep

\* rdp: no login, no credentials.
LEMMA NoLogins ==
    ASSUME NEW S, NEW log \in Seq(S), \A i \in DOMAIN log : log[i].action # "login"
    PROVE  Names(log) = <<>>
  <1> DEFINE X == {log[i] : i \in DOMAIN log}
             P == {t \in Seq(X) : Matching(t, "login") = <<>>}
  <1>1. log \in Seq(X) /\ \A e \in X : e.action # "login"
    <2>1. log \in [1 .. Len(log) -> X] /\ Len(log) \in Nat
      OBVIOUS
    <2> HIDE DEF X
    <2>2. log \in Seq(X)
      BY <2>1
    <2> QED BY <2>2 DEF X
  <1> HIDE DEF X
  <1>2. <<>> \in P
    <2>1. <<>> \in Seq(X)
      BY EmptySeq
    <2> QED BY <2>1, NoMatching
  <1>3. ASSUME NEW t \in Seq(X), NEW e \in X, t \in P PROVE Append(t, e) \in P
    <2>1. Matching(Append(t, e), "login") = Matching(t, "login")
      BY <1>1, MatchingAppend
    <2>2. Append(t, e) \in Seq(X)
      OBVIOUS
    <2> QED BY <1>3, <2>1, <2>2
  <1> HIDE DEF P
  <1>4. log \in P
    BY <1>1, <1>2, <1>3, GrowingSequence
  <1>5. Matching(log, "login") = Matching(<<>>, "login")
    BY <1>4, NoMatching DEF P
  <1>6. Names(log) = Names(<<>>)
    BY <1>5, Zenon DEF Names
  <1> QED BY <1>6, NoNames

LEMMA RdpOffersGrow ==
    ASSUME NEW S, NEW s \in Seq(S), NEW e \in S
    PROVE  RdpOffers(s) \subseteq RdpOffers(Append(s, e))
  <1>1. Rdp!Range(s) \subseteq Rdp!Range(Append(s, e))
    <2> DEFINE t == Append(s, e)
    <2>1. \A i \in DOMAIN s : i \in DOMAIN t /\ t[i] = s[i]
      BY AppendProperties
    <2> HIDE DEF t
    <2> QED BY <2>1 DEF Rdp!Range, t
  <1> QED BY <1>1 DEF RdpOffers

LEMMA RdpCaptures ==
    ASSUME RdpInv, RdpInv', Rdp!Next, server = "rdp", server' = server
    PROVE  [Capture!CaptureNext]_(Capture!captureVars)
  <1>1. PICK c \in Alone : Rdp!Run(c) \/ Rdp!Leave(c) \/ Rdp!HandlerStep(c)
    BY DEF Rdp!Next
  <1>2. c \in Present /\ \A d : d \in Present <=> d \in Alone
    BY DEF Present
  <1>3. /\ thread \in [Alone -> Rdp!Places] /\ DOMAIN events = Alone /\ DOMAIN pdus = Alone
        /\ pdus[c] \in Seq(Pdus) /\ RdpLog(c) /\ RdpLog(c)'
    BY DEF RdpInv, Rdp!TypeOK, Sequences
  <1>4. Credentials(c)' = Credentials(c)
    <2>1. (\E S : events[c] \in Seq(S)) /\ \E S : events'[c] \in Seq(S)
      BY DEF RdpInv, Sequences
    <2>2. Names(events[c]) = <<>> /\ Names(events'[c]) = <<>>
      BY <1>3, <2>1, NoLogins DEF RdpLog
    <2> QED BY <2>2 DEF Credentials
  <1>5. \A d \in Alone : pdus'[d] = pdus[d] => Offers(d)' = Offers(d)
    BY DEF Offers
  <1>6. ASSUME NEW action, Rdp!Log(c, action) PROVE \A d \in Alone \ {c} : events'[d] = events[d]
    BY <1>3, <1>6 DEF Rdp!Log
  <1>7. CASE Rdp!Run(c)
    <2>1. thread[c] = "none" /\ pdus' = pdus /\ events[c] = <<>>
      BY <1>3, <1>7 DEF Rdp!Run, RdpLog
    <2>2. CASE Rdp!Log(c, "connection") /\ Rdp!Goto(c, "request")
      <3>1. /\ thread'[c] = "request" /\ events'[c] # <<>>
            /\ \A d \in Alone \ {c} : thread'[d] = thread[d] /\ events'[d] = events[d]
        BY <1>3, <1>6, <2>2 DEF Rdp!Goto, RdpLog
      <3>2. OthersStay(c) /\ Offers(c)' = Offers(c)
        BY <1>2, <1>5, <2>1, <3>1 DEF OthersStay
      <3> QED BY <1>2, <1>4, <2>1, <3>1, <3>2, Admits
    <2>3. CASE Rdp!Goto(c, "done") /\ UNCHANGED events
      <3>1. thread'[c] = "done" /\ \A d \in Alone \ {c} : thread'[d] = thread[d]
        BY <1>3, <2>3 DEF Rdp!Goto
      <3> QED BY <1>2, <1>5, <2>1, <2>3, <3>1, Quiet
    <2> QED BY <1>7, <2>2, <2>3 DEF Rdp!Run
  <1>8. CASE Rdp!Leave(c) \/ Rdp!HandlerStep(c)
    <2>1. /\ thread[c] \notin {"none", "done"}
          /\ \/ events' = events
             \/ Rdp!Log(c, "stshash") /\ Rdp!Goto(c, "tls")
          /\ thread' = thread \/ \E place : Rdp!Goto(c, place)
          /\ \/ pdus' = pdus
             \/ \E pdu \in Pdus : pdus' = [pdus EXCEPT ![c] = Append(@, pdu)]
      BY <1>3, <1>8 DEF Rdp!Leave, Rdp!HandlerStep, Rdp!Fails, Rdp!SendFails, Rdp!Handshake, Rdp!Skip,
           Rdp!LoopEnds, Rdp!ConnectionRequest, Rdp!Join, Rdp!Raises, Rdp!Take, Rdp!Close,
           Rdp!Disconnect
    <2>2. events[c] # <<>> /\ events'[c] # <<>>
      BY <1>3, <2>1 DEF RdpLog, Rdp!Goto
    <2>3. \A d \in Alone \ {c} :
             thread'[d] = thread[d] /\ events'[d] = events[d] /\ pdus'[d] = pdus[d]
      BY <1>3, <1>6, <2>1 DEF Rdp!Goto
    <2>4. OthersStay(c)
      BY <1>2, <1>5, <2>3 DEF OthersStay
    <2>5. Offers(c) \subseteq Offers(c)'
      <3>1. RdpOffers(pdus[c]) \subseteq RdpOffers(pdus'[c])
        <4>1. pdus' = pdus \/ \E pdu \in Pdus : pdus'[c] = Append(pdus[c], pdu)
          BY <1>3, <2>1
        <4>2. \A pdu \in Pdus : RdpOffers(pdus[c]) \subseteq RdpOffers(Append(pdus[c], pdu))
          BY <1>3, RdpOffersGrow
        <4>3. CASE pdus' = pdus
          BY <4>3
        <4>4. ASSUME NEW pdu \in Pdus, pdus'[c] = Append(pdus[c], pdu)
              PROVE  RdpOffers(pdus[c]) \subseteq RdpOffers(pdus'[c])
          BY <4>2, <4>4, Zenon
        <4> QED BY <4>1, <4>3, <4>4
      <3>2. Offers(c) = RdpOffers(pdus[c]) /\ Offers(c)' = RdpOffers(pdus'[c])
        BY DEF Offers, RdpOffers, Rdp!Range
      <3> QED BY <3>1, <3>2
    <2> QED BY <1>2, <1>4, <2>1, <2>2, <2>4, <2>5, Handles
  <1> QED BY <1>1, <1>7, <1>8

\* ssh: an entry of the log, which is a login or not.
LEMMA SshLogged ==
    ASSUME SshAll, NEW c \in Alone, NEW e, Ssh!Log(c, e)
    PROVE  /\ events'[c] # <<>> /\ \A d \in Alone \ {c} : events'[d] = events[d]
           /\ e.action # "login" => SshNames(events'[c]) = SshNames(events[c])
           /\ e.action = "login" =>
                SshNames(events'[c]) = Append(SshNames(events[c]), <<e.username, e.secret>>)
  <1>1. PICK S : events \in [Alone -> Seq(S)]
    BY DEF SshAll, Ssh!SshInv, Ssh!LogsOK, Ssh!Sequences
  <1> DEFINE T == S \union {e}
             log == events[c]
  <1>2. log \in Seq(T) /\ e \in T
    BY <1>1
  <1>3. events'[c] = Append(log, e) /\ \A d \in Alone \ {c} : events'[d] = events[d]
    BY <1>1 DEF Ssh!Log
  <1> HIDE DEF T, log
  <1>4. /\ e.action # "login" => SshNames(Append(log, e)) = SshNames(log)
        /\ e.action = "login" =>
             SshNames(Append(log, e)) = Append(SshNames(log), <<e.username, e.secret>>)
    BY <1>2, SameNames, MoreNames
  <1>5. Append(log, e) # <<>>
    <2>1. Len(Append(log, e)) = Len(log) + 1 /\ Len(log) \in Nat /\ Len(<<>>) = 0
      BY <1>2
    <2> QED BY <2>1
  <1> QED BY <1>3, <1>4, <1>5, Zenon DEF log

LEMMA SshOffersGrow ==
    ASSUME NEW S, NEW s \in Seq(S), NEW t
    PROVE  SshOffers(s) \subseteq SshOffers(Append(s, t))
           /\ <<t.user, t.secret>> \in SshOffers(Append(s, t))
  <1> DEFINE u == Append(s, t)
             n == Len(s)
  <1>1. /\ n \in Nat /\ DOMAIN s = 1 .. n /\ DOMAIN u = 1 .. n + 1
        /\ (\A i \in 1 .. n : u[i] = s[i]) /\ u[n + 1] = t
    <2>1. s \in Seq(S \union {t}) /\ t \in S \union {t}
      OBVIOUS
    <2> QED BY <2>1, AppendProperties
  <1> HIDE DEF u, n
  <1>2. \A i \in DOMAIN s : <<s[i].user, s[i].secret>> \in SshOffers(u)
    <2>1. \A i \in DOMAIN u : <<u[i].user, u[i].secret>> \in SshOffers(u)
      BY DEF SshOffers
    <2>2. \A i \in DOMAIN s : i \in DOMAIN u /\ u[i] = s[i]
      BY <1>1
    <2> QED BY <2>1, <2>2, Zenon
  <1>3. \A x \in SshOffers(s) : x \in SshOffers(u)
    BY <1>2 DEF SshOffers
  <1>4. <<t.user, t.secret>> \in SshOffers(u)
    <2>1. \A i \in DOMAIN u : <<u[i].user, u[i].secret>> \in SshOffers(u)
      BY DEF SshOffers
    <2>2. n + 1 \in DOMAIN u
      BY <1>1
    <2> QED BY <1>1, <2>1, <2>2, Zenon
  <1> QED BY <1>3, <1>4 DEF u

LEMMA SshCaptures ==
    ASSUME SshAll, Ssh!Next, server = "ssh", server' = server
    PROVE  [Capture!CaptureNext]_(Capture!captureVars)
  <1>1. PICK c \in Alone : \/ Ssh!AcceptClient(c) \/ Ssh!HandlerStep(c) \/ Ssh!ClientStep(c)
                           \/ Ssh!Welcome(c) \/ Ssh!Negotiated(c) \/ Ssh!TransportEnds(c)
    BY DEF Ssh!Next
  <1>2. c \in Present /\ \A d : d \in Present <=> d \in Alone
    BY DEF Present
  <1>3. /\ thread \in [Alone -> {"none", "start", "negotiating", "accepting", "prompt",
                                 "welcome", "receiving", "waiting", "done"}]
        /\ SshPhases(c) /\ \E S : tries \in [Alone -> Seq(S)]
    BY DEF SshAll, Ssh!SshInv, Ssh!TypeOK, Ssh!LogsOK, Ssh!Sequences
  <1>4. /\ \A d \in Alone : tries'[d] = tries[d] => Offers(d)' = Offers(d)
        /\ Credentials(c) = SshNames(events[c]) /\ Credentials(c)' = SshNames(events'[c])
        /\ Offers(c) = SshOffers(tries[c]) /\ Offers(c)' = SshOffers(tries'[c])
    BY DEF Offers, Credentials, SshNames, SshOffers
  <1>5. ASSUME tries' = tries, events' = events, thread[c] # "done" \/ thread' = thread,
               thread' = thread \/ \E place : Ssh!Goto(c, place)
        PROVE  [Capture!CaptureNext]_(Capture!captureVars)
    <2>1. \A d \in Alone \ {c} : thread'[d] = thread[d]
      BY <1>3, <1>5 DEF Ssh!Goto
    <2> QED BY <1>2, <1>4, <1>5, <2>1, Quiet
  <1>6. CASE \/ Ssh!AcceptClient(c) \/ Ssh!HasGone(c) \/ Ssh!Started(c) \/ Ssh!ChannelAccepted(c)
             \/ Ssh!NoChannel(c) \/ Ssh!Waited(c) \/ Ssh!SendRaises(c) \/ Ssh!Prompt(c)
             \/ Ssh!SessionExpired(c) \/ Ssh!Welcome(c)
    BY <1>5, <1>6 DEF Ssh!AcceptClient, Ssh!HasGone, Ssh!Started, Ssh!ChannelAccepted, Ssh!NoChannel,
         Ssh!Waited, Ssh!SendRaises, Ssh!Prompt, Ssh!Welcome, Ssh!SessionExpired, Ssh!Close, Ssh!client
  <1>7. CASE \/ Ssh!Negotiated(c) \/ Ssh!TransportEnds(c) \/ Ssh!CheckChannelRequest(c)
             \/ Ssh!CheckAuthDefault(c) \/ \E piece \in Pieces : Ssh!Type(c, piece)
    BY <1>5, <1>7 DEF Ssh!Negotiated, Ssh!TransportEnds, Ssh!CheckChannelRequest, Ssh!CheckAuthDefault,
                      Ssh!Type, Ssh!client
  <1>8. CASE Ssh!StartServer(c)
    <2> DEFINE e == [action |-> "connection"]
    <2>1. /\ thread[c] = "start" /\ thread'[c] = "negotiating" /\ tries' = tries /\ Ssh!Log(c, e)
          /\ \A d \in Alone \ {c} : thread'[d] = thread[d]
      BY <1>3, <1>8 DEF Ssh!StartServer, Ssh!Goto, Ssh!client
    <2>2. e.action # "login"
      OBVIOUS
    <2> HIDE DEF e
    <2>3. /\ events[c] = <<>> /\ events'[c] # <<>> /\ Credentials(c)' = Credentials(c)
          /\ \A d \in Alone \ {c} : events'[d] = events[d]
      BY <1>3, <1>4, <2>1, <2>2, SshLogged DEF SshPhases
    <2>4. OthersStay(c) /\ Offers(c)' = Offers(c)
      BY <1>2, <1>4, <2>1, <2>3 DEF OthersStay
    <2> QED BY <1>2, <2>1, <2>3, <2>4, Admits
  <1>9. ASSUME NEW e, Ssh!Log(c, e), e.action # "login", tries' = tries,
               events[c] # <<>>, thread[c] # "done",
               thread' = thread \/ \E place : Ssh!Goto(c, place)
        PROVE  [Capture!CaptureNext]_(Capture!captureVars)
    <2>1. /\ events'[c] # <<>> /\ Credentials(c)' = Credentials(c)
          /\ \A d \in Alone \ {c} : events'[d] = events[d]
      BY <1>4, <1>9, SshLogged
    <2>2. \A d \in Alone \ {c} : thread'[d] = thread[d]
      BY <1>3, <1>9 DEF Ssh!Goto
    <2>3. OthersStay(c) /\ Offers(c) \subseteq Offers(c)'
      BY <1>2, <1>4, <1>9, <2>1, <2>2 DEF OthersStay
    <2> QED BY <1>2, <1>9, <2>1, <2>3, Handles
  <1>10. CASE Ssh!ReceivePiece(c)
    <2>1. /\ thread[c] = "receiving" /\ tries' = tries
          /\ thread' = thread \/ \E place : Ssh!Goto(c, place)
          /\ events' = events \/ \E data : Ssh!Log(c, [action |-> "interactive", data |-> data])
      BY <1>10 DEF Ssh!ReceivePiece, Ssh!client
    <2>2. events[c] # <<>> /\ thread[c] # "done"
      BY <1>3, <2>1 DEF SshPhases
    <2>3. \A data : [action |-> "interactive", data |-> data].action # "login"
      OBVIOUS
    <2> QED BY <1>5, <1>9, <2>1, <2>2, <2>3
  <1>11. ASSUME NEW command \in Commands, Ssh!CheckChannelExecRequest(c, command)
         PROVE  [Capture!CaptureNext]_(Capture!captureVars)
    <2>1. /\ transport[c] = "active" /\ tries' = tries /\ thread' = thread
          /\ \E e : Ssh!Log(c, e) /\ e.action # "login"
      BY <1>11 DEF Ssh!CheckChannelExecRequest, Ssh!client
    <2>2. events[c] # <<>> /\ thread[c] # "done"
      BY <1>3, <2>1 DEF SshPhases
    <2> QED BY <1>5, <1>9, <2>1, <2>2
  <1>12. ASSUME NEW user, NEW secret, NEW result, NEW e, Ssh!Tried(c, user, secret, result, e),
                e.action = "login", e.username = user, e.secret = secret
         PROVE  [Capture!CaptureNext]_(Capture!captureVars)
    <2>1. /\ transport[c] = "active" /\ thread' = thread /\ Ssh!Log(c, e)
          /\ tries' = [tries EXCEPT ![c] =
                         Append(@, [user |-> user, secret |-> secret])]
      BY <1>12 DEF Ssh!Tried
    <2>2. events[c] # <<>> /\ thread[c] # "done"
      BY <1>3, <2>1 DEF SshPhases
    <2>3. /\ events'[c] # <<>> /\ \A d \in Alone \ {c} : events'[d] = events[d]
          /\ SshNames(events'[c]) = Append(SshNames(events[c]), <<e.username, e.secret>>)
      BY <1>12, <2>1, SshLogged
    <2> DEFINE t == [user |-> user, secret |-> secret]
    <2>4. tries'[c] = Append(tries[c], t) /\ \A d \in Alone \ {c} : tries'[d] = tries[d]
      BY <1>3, <2>1
    <2>5. t.user = user /\ t.secret = secret
      OBVIOUS
    <2> HIDE DEF t
    <2>6. /\ SshOffers(tries[c]) \subseteq SshOffers(Append(tries[c], t))
          /\ <<t.user, t.secret>> \in SshOffers(Append(tries[c], t))
      BY <1>3, SshOffersGrow
    <2>7. <<user, secret>> \in Offers(c)' /\ Offers(c) \subseteq Offers(c)'
      BY <1>4, <2>4, <2>5, <2>6, Zenon
    <2>8. Credentials(c)' = Append(Credentials(c), <<user, secret>>)
      BY <1>4, <1>12, <2>3, Zenon
    <2>9. OthersStay(c)
      BY <1>2, <1>4, <2>1, <2>3, <2>4 DEF OthersStay
    <2> QED BY <1>2, <2>2, <2>3, <2>7, <2>8, <2>9, Handles
  <1>13. ASSUME NEW user \in Users, NEW password \in Passwords, Ssh!CheckAuthPassword(c, user, password)
         PROVE  [Capture!CaptureNext]_(Capture!captureVars)
    <2>1. PICK result, e : /\ Ssh!Tried(c, user, password, result, e)
                           /\ e.action = "login" /\ e.username = user /\ e.secret = password
      BY <1>13 DEF Ssh!CheckAuthPassword
    <2> QED BY <1>12, <2>1
  <1>14. ASSUME NEW user \in Users, NEW key \in Keys, NEW r \in {"probe", "valid", "invalid"},
                Ssh!CheckAuthPublickey(c, user, key, r)
         PROVE  [Capture!CaptureNext]_(Capture!captureVars)
    <2>1. PICK result, e : /\ Ssh!Tried(c, user, key, result, e)
                           /\ e.action = "login" /\ e.username = user /\ e.secret = key
      BY <1>14 DEF Ssh!CheckAuthPublickey
    <2> QED BY <1>12, <2>1
  <1> QED BY <1>1, <1>6, <1>7, <1>8, <1>10, <1>11, <1>13, <1>14 DEF Ssh!HandlerStep, Ssh!ClientStep

-------------------------------------------------------------------------------
(* The refinement *)

LEMMA NothingOffered ==
    SshOffers(<<>>) = {} /\ Halves(<<>>) = {} /\ RdpOffers(<<>>) = {} /\ ElasticOffers(<<>>) = {}
  <1>1. SshOffers(<<>>) = {}
    BY DEF SshOffers
  <1>2. Halves(<<>>) = {}
    <2>1. ASSUME NEW x \in Halves(<<>>) PROVE FALSE
      <3>1. \E i \in 1 .. Len(<<>>) : TRUE
        <4>1. \E i \in 1 .. Len(<<>>), j \in 0 .. Len(<<>>) - 1, k \in 0 .. Len(<<>>) :
                 x = <<SubSeq(<<>>, i, j), SubSeq(<<>>, j + 2, k)>>
          BY <2>1 DEF Halves
        <4> QED BY <4>1
      <3>2. Len(<<>>) = 0
        BY EmptySeq
      <3> QED BY <3>1, <3>2
    <2> QED BY <2>1
  <1>3. RdpOffers(<<>>) = {}
    <2>1. Rdp!Range(<<>>) = {}
      BY DEF Rdp!Range
    <2> QED BY <2>1 DEF RdpOffers
  <1> QED BY <1>1, <1>2, <1>3, OneRequest

LEMMA Starts == Init => Capture!CaptureInit
  <1> SUFFICES ASSUME Init PROVE Capture!CaptureInit
    OBVIOUS
  <1>1. ASSUME NEW c \in Present
        PROVE  /\ events[c] = <<>>
               /\ server = "ssh" => tries[c] = <<>>
               /\ server = "socks5" => sent[c] = <<>>
               /\ server \notin {"ssh", "socks5"} => pdus[c] = <<>>
    BY DEF Init, Present, Ssh!Init, Socks5!Init, Rdp!Init, Elastic!Init
  <1>2. ASSUME NEW c \in Present
        PROVE  Phase(c) = "none" /\ Offered(c) = {} /\ Captured(c) = <<>>
    <2>1. Phase(c) = "none"
      BY <1>1 DEF Phase
    <2>2. Offers(c) = {}
      BY <1>1, NothingOffered DEF Offers
    <2>3. Credentials(c) = <<>>
      BY <1>1, NoNames DEF Credentials
    <2> QED BY <2>1, <2>2, <2>3, SeenIs
  <1>3. \A c \in Conns : phases[c] = "none" /\ offers[c] = {} /\ captures[c] = <<>>
    BY <1>2, PhasesAre
  <1>4. /\ phases = [c \in Conns |-> phases[c]] /\ offers = [c \in Conns |-> offers[c]]
        /\ captures = [c \in Conns |-> captures[c]]
    BY DEF phases, offers, captures
  <1>5. /\ phases = [c \in Conns |-> "none"] /\ offers = [c \in Conns |-> {}]
        /\ captures = [c \in Conns |-> <<>>]
    BY <1>3, <1>4
  <1> QED BY <1>5 DEF Capture!CaptureInit, phases, offers, captures

\* A step that changes nothing the map of Capture looks at.
LEMMA Stutters == UNCHANGED everything => UNCHANGED Capture!captureVars
  <1> SUFFICES ASSUME UNCHANGED everything PROVE UNCHANGED Capture!captureVars
    OBVIOUS
  <1>1. /\ server' = server /\ thread' = thread /\ events' = events /\ tries' = tries
        /\ sent' = sent /\ pdus' = pdus
    BY DEF everything, sshRest, socksRest, rdpRest
  <1>2. ASSUME NEW c \in Present
        PROVE  Phase(c)' = Phase(c) /\ Offered(c)' = Offered(c) /\ Captured(c)' = Captured(c)
    <2>1. Offers(c)' = Offers(c) /\ Credentials(c)' = Credentials(c) /\ Phase(c)' = Phase(c)
      BY <1>1 DEF Offers, Credentials, Phase
    <2> QED BY <2>1, SeenIs
  <1>3. \A c \in Conns :
           phases'[c] = phases[c] /\ offers'[c] = offers[c] /\ captures'[c] = captures[c]
    BY <1>1, <1>2, PhasesAre, PhasesWillBe
  <1>4. phases' = phases /\ offers' = offers /\ captures' = captures
    BY <1>1, <1>3, PhasesWillBe
  <1> QED BY <1>4 DEF Capture!captureVars, phases, offers, captures

LEMMA StepsCapture ==
    Inv /\ Inv' /\ [Next]_everything => [Capture!CaptureNext]_(Capture!captureVars)
  <1> SUFFICES ASSUME Inv, Inv', Next PROVE [Capture!CaptureNext]_(Capture!captureVars)
    BY Stutters
  <1>1. \/ server = "ssh" /\ Ssh!Next
        \/ server = "socks5" /\ Socks5!Next
        \/ server = "rdp" /\ Rdp!Next
        \/ server = "elastic" /\ Elastic!Next
    BY DEF Next, SshStep, Socks5Step, RdpStep, ElasticStep
  <1>2. server' = server
    BY StepOf
  <1>3. CASE server = "ssh" /\ Ssh!Next
    BY <1>2, <1>3, SshCaptures DEF Inv
  <1>4. CASE server = "socks5" /\ Socks5!Next
    BY <1>2, <1>4, SocksCaptures DEF Inv
  <1>5. CASE server = "rdp" /\ Rdp!Next
    BY <1>2, <1>5, RdpCaptures DEF Inv
  <1>6. CASE server = "elastic" /\ Elastic!Next
    BY <1>2, <1>6, ElasticCaptures DEF Inv
  <1> QED BY <1>1, <1>3, <1>4, <1>5, <1>6

\* ssh, socks5, rdp and elastic implement LoginCapture: the log names credentials that this
\* very peer has offered by then, at most one pair per thing read, none of another peer's
\* thread and none after the handler has ended (ssh_server.py:105-140,
\* socks5_server.py:36-61, rdp_server.py:70-186, elastic_server.py:96-116).
THEOREM PromiseIsKept == Spec => KeepsPromise
  <1> QED BY Starts, StepsCapture, Invariant, PTL DEF Spec, KeepsPromise, Capture!CaptureSpec
===============================================================================
