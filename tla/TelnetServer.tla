----------------------------- MODULE TelnetServer -----------------------------
(***************************************************************************)
(* honeypots/telnet_server.py: CustomTelnetProtocol under Twisted's        *)
(* TelnetTransport.  The transport takes telnet commands out of a TCP      *)
(* chunk and calls dataReceived for every run of text between them, also   *)
(* when the protocol has called loseConnection in the meantime.            *)
(* A chunk is a sequence of                                                *)
(*   [kind |-> "text", data |-> s]   a run of text, s the sequence of its  *)
(*       characters, of which "NL" is the end of a line                    *)
(*   [kind |-> "command"]            a telnet command                      *)
(***************************************************************************)
EXTENDS Connections

VARIABLES state, user,
          buffer,  \* what the transport has not passed on yet of a TCP chunk
          answers  \* history: the runs of text that were read

telnetVars == <<tcpVars, state, user, buffer, answers>>

TypeOK ==
    /\ ConnectionsTypeOK
    /\ state \in [Conns -> {"none", "Username", "Password"}]
    /\ \A c \in Conns : link[c] = "lost" => buffer[c] = <<>>
    /\ \A c \in Conns : state[c] = "Username" => user[c] = <<>>

Init ==
    /\ ConnectionsInit
    /\ state = [c \in Conns |-> "none"]
    /\ user = [c \in Conns |-> <<>>]
    /\ buffer = [c \in Conns |-> <<>>]
    /\ answers = [c \in Conns |-> <<>>]

\* Python's strip().
Strip(data) ==
    LET text == {i \in DOMAIN data : data[i] # "NL"}
    IN  IF text = {} THEN <<>>
        ELSE SubSeq(data, Earliest(text), Latest(text))

\* The runs of text in a chunk.
Texts(chunk) == Dropping(chunk, {[kind |-> "command"]})

\* The reactor is busy with one chunk at a time.
Idle == \A c \in Conns : buffer[c] = <<>>

ConnectionMade(c) ==
    /\ Idle /\ Accept(c)
    /\ state' = [state EXCEPT ![c] = "Username"]
    /\ user' = [user EXCEPT ![c] = <<>>]
    /\ UNCHANGED <<buffer, answers>>

TransportReads(c, chunk) ==
    /\ Idle /\ Received(c, chunk)
    /\ buffer' = [buffer EXCEPT ![c] = chunk]
    /\ answers' = [answers EXCEPT ![c] = @ \o Texts(chunk)]
    /\ UNCHANGED <<link, events, state, user>>

Command(c) ==
    /\ buffer[c] # <<>> /\ Head(buffer[c]).kind = "command"
    /\ buffer' = [buffer EXCEPT ![c] = Tail(@)]
    /\ UNCHANGED <<tcpVars, state, user, answers>>

DataReceived(c) ==
    /\ buffer[c] # <<>> /\ Head(buffer[c]).kind = "text"
    /\ buffer' = [buffer EXCEPT ![c] = Tail(@)]

\* What dataReceived takes for the answer: data.strip().
Answer(run) == Strip(run.data)

\* MUTANT of UsernameReceived: the name is kept in the class and not in the object.
UsernameIsShared(c) ==
    /\ DataReceived(c) /\ state[c] = "Username"
    /\ user' = [d \in Conns |-> Answer(Head(buffer[c]))]
    /\ state' = [state EXCEPT ![c] = "Password"]
    /\ UNCHANGED <<tcpVars, answers>>

UsernameReceived(c) ==
    /\ DataReceived(c) /\ state[c] = "Username"
    /\ user' = [user EXCEPT ![c] = Answer(Head(buffer[c]))]
    /\ state' = [state EXCEPT ![c] = "Password"]
    /\ UNCHANGED <<tcpVars, answers>>

PasswordReceived(c) ==
    /\ DataReceived(c) /\ state[c] = "Password"
    /\ CheckLogin(c, user[c], Answer(Head(buffer[c])))
    /\ LoseConnection(c)
    /\ UNCHANGED <<read, state, user, answers>>

\* MUTANT of Lost: the connection is lost between two runs of text.
LostAtOnce(c) ==
    /\ ConnectionLost(c)
    /\ state' = [state EXCEPT ![c] = "none"]
    /\ user' = [user EXCEPT ![c] = <<>>]
    /\ UNCHANGED <<buffer, answers>>

Lost(c) ==
    /\ Idle /\ ConnectionLost(c)
    /\ state' = [state EXCEPT ![c] = "none"]
    /\ user' = [user EXCEPT ![c] = <<>>]
    /\ UNCHANGED <<buffer, answers>>

Next == \E c \in Conns :
    \/ ConnectionMade(c) \/ Command(c)
    \/ \E chunk \in Chunks : TransportReads(c, chunk)
    \/ UsernameReceived(c) \/ PasswordReceived(c) \/ Lost(c)

-------------------------------------------------------------------------------
(* Properties *)

\* The first run of text a peer sends is its user name, every later one may be
\* tried as its password (telnet_server.py:48-61).
Offered(c) ==
    {<<Answer(answers[c][1]), Answer(answers[c][i])>> : i \in 2 .. Len(answers[c])}

\* Whoever has answered both prompts is in the log, exactly as often as it has sent
\* passwords, with the text it has sent (telnet_server.py:54-59), and is
\* being disconnected.
AnswersAreLogged ==
    \A c \in Conns : buffer[c] = <<>> =>
        LET given == answers[c]
        IN  /\ Captured(c) = [i \in 1 .. Len(given) - 1 |-> <<Answer(given[1]), Answer(given[i + 1])>>]
            /\ Len(given) > 1 => link[c] # "open"
===============================================================================
