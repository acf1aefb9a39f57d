------------------------------ MODULE IrcServer ------------------------------
(***************************************************************************)
(* honeypots/irc_server.py: CustomIRCProtocol on Twisted's IRCUser, which  *)
(* catches what the handler of a command raises.  A chunk is a line        *)
(* <<command, parameter>> or <<command>>, or <<"binary">>: bytes that are  *)
(* not UTF-8, with the lines among them.                                   *)
(***************************************************************************)
EXTENDS Connections

CONSTANTS NoUser, CaptureCommands

VARIABLE user   \* IRCUser.password: the parameter of the last PASS, or NoUser

ircVars == <<tcpVars, user>>

TypeOK ==
    /\ ConnectionsTypeOK
    /\ \A c \in Conns : user[c] # NoUser => \E i \in DOMAIN read[c] : read[c][i] = <<"PASS", user[c]>>

Init == ConnectionsInit /\ user = [c \in Conns |-> NoUser]

ConnectionMade(c) == Accept(c) /\ UNCHANGED user

Command(line) ==
    IF CaptureCommands THEN <<[action |-> "command", data |-> line]>> ELSE <<>>
LogAll(c, es) == events' = [events EXCEPT ![c] = @ \o es]

Pass(c, line) ==
    /\ Received(c, line) /\ line[1] = "PASS" /\ Len(line) = 2
    /\ LogAll(c, Command(line))
    /\ user' = [user EXCEPT ![c] = line[2]]
    /\ UNCHANGED link

\* irc_NICK: a password that was never set is the text None.  It logs every time.
PasswordText(c) == IF user[c] = NoUser THEN "None" ELSE user[c]
NickName(line) == IF Len(line) = 2 THEN line[2] ELSE ""

Nick(c, line) ==
    /\ Received(c, line) /\ line[1] = "NICK"
    /\ LogAll(c, Command(line) \o
                 <<LoginEvent(NickName(line), PasswordText(c),
                              LoginIsCorrect(NickName(line), PasswordText(c)))>>)
    /\ UNCHANGED <<link, user>>

Undecodable(c, line) ==
    /\ Received(c, line) /\ line = <<"binary">>
    /\ UNCHANGED <<link, events, user>>

OtherCommand(c, line) ==
    /\ Received(c, line) /\ line[1] \notin {"NICK", "binary"} /\ ~(line[1] = "PASS" /\ Len(line) = 2)
    /\ LogAll(c, Command(line))
    /\ UNCHANGED <<link, user>>

Lost(c) == ConnectionLost(c) /\ UNCHANGED user

Next == \E c \in Conns :
    \/ ConnectionMade(c) \/ Lost(c)
    \/ \E line \in Chunks :
          Pass(c, line) \/ Nick(c, line) \/ Undecodable(c, line) \/ OtherCommand(c, line)
-------------------------------------------------------------------------------
(* Properties *)

\* What should be logged of the lines: dataReceived drops a chunk that does not decode, with
\* every line in it.
Decoded(c) ==
    IF CaptureCommands THEN Dropping(read[c], {<<"binary">>}) ELSE <<>>

\* A nick with any password sent before it, or with none.
Offered(c) ==
    {<<NickName(read[c][i]), "None">> : i \in {k \in DOMAIN read[c] : read[c][k][1] = "NICK"}}
    \union
    {<<NickName(read[c][x[2]]), read[c][x[1]][2]>> : x \in
        {y \in (DOMAIN read[c]) \X (DOMAIN read[c]) :
            /\ y[1] < y[2] /\ read[c][y[1]][1] = "PASS" /\ Len(read[c][y[1]]) = 2
            /\ read[c][y[2]][1] = "NICK"}}

\* There is one login per NICK, with the password of the last PASS before it and
\* "None" only where there was none (irc_server.py:57-61).
EveryNickIsLogged ==
    \A c \in Conns :
        LET nicks == {i \in DOMAIN read[c] : read[c][i][1] = "NICK"}
            passes == {i \in DOMAIN read[c] : read[c][i][1] = "PASS" /\ Len(read[c][i]) = 2}
        IN  /\ Len(Captured(c)) = Cardinality(nicks)
            /\ \A n \in nicks :
                  LET before == {p \in passes : p < n}
                      login == Captured(c)[Cardinality({m \in nicks : m <= n})]
                  IN  login = <<NickName(read[c][n]),
                                IF before = {} THEN "None" ELSE read[c][Latest(before)][2]>>
===============================================================================
