------------------------------ MODULE Pop3Server ------------------------------
(***************************************************************************)
(* honeypots/pop3_server.py: CustomPOP3Protocol on Twisted's POP3, which   *)
(* calls processCommand with the words of every line and answers an        *)
(* exception with an error response.  A chunk is a line: the command (in   *)
(* upper case) followed by its arguments; an empty argument is "".         *)
(***************************************************************************)
EXTENDS Connections

CONSTANT NoUser
CONSTANT CaptureCommands   \* "capture_commands" in options

VARIABLES user,     \* _user
          replies   \* how many lines were answered "+OK" and "-ERR"

pop3Vars == <<tcpVars, user, replies>>

TypeOK ==
    /\ ConnectionsTypeOK
    /\ \A c \in Conns : user[c] # NoUser => \E i \in DOMAIN read[c] : read[c][i] = <<"USER", user[c]>>
    /\ \A c \in Conns : replies[c].ok + replies[c].err = Len(read[c])

Init ==
    /\ ConnectionsInit
    /\ user = [c \in Conns |-> NoUser]
    /\ replies = [c \in Conns |-> [ok |-> 0, err |-> 0]]

ConnectionMade(c) ==
    /\ Accept(c)
    /\ user' = [user EXCEPT ![c] = NoUser]
    /\ UNCHANGED replies

Ok(c) == replies' = [replies EXCEPT ![c].ok = @ + 1]
Error(c) == replies' = [replies EXCEPT ![c].err = @ + 1]

\* What a line appends to the log besides a login.
Command(line) ==
    IF CaptureCommands THEN <<[action |-> "command", data |-> line]>> ELSE <<>>
LogAll(c, es) == events' = [events EXCEPT ![c] = @ \o es]

\* do_USER takes one argument; with none or several the call raises TypeError.
DoUser(c, line) ==
    /\ Received(c, line)
    /\ line[1] = "USER" /\ Len(line) = 2
    /\ LogAll(c, Command(line))
    /\ user' = [user EXCEPT ![c] = line[2]]
    /\ Ok(c)
    /\ UNCHANGED link

\* MUTANT of DoPass: the user is kept for another PASS.
DoPassKeepsUser(c, line) ==
    /\ Received(c, line)
    /\ line[1] = "PASS" /\ Len(line) > 1
    /\ LET login == <<LoginEvent(user[c], Tail(line), LoginIsCorrect(user[c], Tail(line)))>>
       IN  LogAll(c, Command(line) \o (IF user[c] \in {NoUser, ""} THEN <<>> ELSE login))
    /\ Error(c)
    /\ UNCHANGED <<link, user>>

\* do_PASS joins its arguments; without a (nonempty) user nothing is logged.
DoPass(c, line) ==
    /\ Received(c, line)
    /\ line[1] = "PASS" /\ Len(line) > 1
    /\ LET login == <<LoginEvent(user[c], Tail(line), LoginIsCorrect(user[c], Tail(line)))>>
       IN  LogAll(c, Command(line) \o (IF user[c] \in {NoUser, ""} THEN <<>> ELSE login))
    /\ user' = [user EXCEPT ![c] = NoUser]
    /\ Error(c)
    /\ UNCHANGED link

\* An unknown command, or one with the wrong number of arguments: refused, by
\* processCommand itself or for the exception it raises.
BadCommand(c, line) ==
    /\ Received(c, line)
    /\ ~(line[1] = "USER" /\ Len(line) = 2) /\ ~(line[1] = "PASS" /\ Len(line) > 1)
    /\ LogAll(c, Command(line))
    /\ Error(c)
    /\ UNCHANGED <<link, user>>

Lost(c) == ConnectionLost(c) /\ UNCHANGED <<user, replies>>

Next == \E c \in Conns :
    \/ ConnectionMade(c) \/ Lost(c)
    \/ \E line \in Chunks : DoUser(c, line) \/ DoPass(c, line) \/ BadCommand(c, line)

-------------------------------------------------------------------------------
(* Properties *)

IsUser(line) == line[1] = "USER" /\ Len(line) = 2
IsPass(line) == line[1] = "PASS" /\ Len(line) > 1

\* The i-th line answers the USER at j: nothing between them is a USER or PASS.
Answers(c, i, j) ==
    /\ j < i /\ IsUser(read[c][j]) /\ IsPass(read[c][i])
    /\ \A k \in j + 1 .. i - 1 : ~IsUser(read[c][k]) /\ ~IsPass(read[c][k])

Pairs(c) == {p \in (DOMAIN read[c]) \X (DOMAIN read[c]) :
                Answers(c, p[1], p[2]) /\ read[c][p[2]][2] # ""}

Offered(c) == {<<read[c][p[2]][2], Tail(read[c][p[1]])>> : p \in Pairs(c)}

\* Every PASS that answers a USER is logged once, with that user and the whole
\* password; a USER serves one PASS, and bad commands in between change nothing
\* (pop3_server.py:71-85).
EveryPairIsLogged ==
    \A c \in Conns :
        /\ Len(Captured(c)) = Cardinality(Pairs(c))
        /\ {Captured(c)[i] : i \in DOMAIN Captured(c)} = Offered(c)

\* What the log should hold of the peer's commands.
ToCapture(c) == IF CaptureCommands THEN read[c] ELSE <<>>
===============================================================================
