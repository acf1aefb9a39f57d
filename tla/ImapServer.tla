------------------------------ MODULE ImapServer ------------------------------
(***************************************************************************)
(* honeypots/imap_server.py: CustomIMAP4Server on Twisted's IMAP4Server.   *)
(* lineReceived lets lines through whose second word starts with "login"   *)
(* or "capability", and applies that also to the rest of a command whose   *)
(* first argument came as a literal.  Chunks:                              *)
(*   [kind |-> "login", user |-> u, password |-> p]  tag LOGIN u p         *)
(*   [kind |-> "literal", user |-> u]                tag LOGIN {n}, then u *)
(*   [kind |-> "rest", password |-> p, passes |-> b] what follows u; b if  *)
(*       p itself starts with one of the two words                         *)
(*   [kind |-> "capability"], [kind |-> "unknown"]   let through           *)
(*   [kind |-> "other"]                              not let through       *)
(***************************************************************************)
EXTENDS Connections

CONSTANTS NoUser, CaptureCommands

VARIABLE user   \* of a LOGIN whose literal has been read, or NoUser

imapVars == <<tcpVars, user>>

TypeOK ==
    /\ ConnectionsTypeOK
    /\ \A c \in Conns : user[c] # NoUser =>
          \E i \in DOMAIN read[c] : read[c][i] = [kind |-> "literal", user |-> user[c]]

Init == ConnectionsInit /\ user = [c \in Conns |-> NoUser]

ConnectionMade(c) == Accept(c) /\ UNCHANGED user

\* The filter of lineReceived.
Passes(line) ==
    line.kind \in {"login", "literal", "capability", "unknown"} \/ (line.kind = "rest" /\ line.passes)

Command(line) ==
    IF CaptureCommands THEN <<[action |-> "command", data |-> line]>> ELSE <<>>
LogAll(c, es) == events' = [events EXCEPT ![c] = @ \o es]

\* parse_command and authenticateLogin, which logs and refuses.
Login(c, line) ==
    /\ Received(c, line) /\ line.kind = "login" /\ user[c] = NoUser
    /\ LogAll(c, Command(line) \o
                 <<LoginEvent(line.user, line.password, LoginIsCorrect(line.user, line.password))>>)
    /\ UNCHANGED <<link, user>>

LoginWithLiteral(c, line) ==
    /\ Received(c, line) /\ line.kind = "literal" /\ user[c] = NoUser
    /\ LogAll(c, Command(line))
    /\ user' = [user EXCEPT ![c] = line.user]
    /\ UNCHANGED link

\* MUTANT of RestOfLogin: the user stays for the next line.
RestKeepsUser(c, line) ==
    /\ Received(c, line) /\ line.kind = "rest" /\ line.passes /\ user[c] # NoUser
    /\ CheckLogin(c, user[c], line.password)
    /\ UNCHANGED <<link, user>>

\* The line that ends a LOGIN with a literal, if the filter lets it through.
RestOfLogin(c, line) ==
    /\ Received(c, line) /\ line.kind = "rest" /\ line.passes /\ user[c] # NoUser
    /\ CheckLogin(c, user[c], line.password)
    /\ user' = [user EXCEPT ![c] = NoUser]
    /\ UNCHANGED link

\* Any other line that is let through then is taken for that end, and refused.
Swallowed(c, line) ==
    /\ Received(c, line) /\ Passes(line) /\ line.kind # "rest" /\ user[c] # NoUser
    /\ user' = [user EXCEPT ![c] = NoUser]
    /\ UNCHANGED <<link, events>>

Capability(c, line) ==
    /\ Received(c, line) /\ line.kind \in {"capability", "unknown"} /\ user[c] = NoUser
    /\ LogAll(c, Command(line))
    /\ UNCHANGED <<link, user>>

\* Filtered out, or too short to be a command.
Ignored(c, line) ==
    /\ Received(c, line) /\ (~Passes(line) \/ (line.kind = "rest" /\ user[c] = NoUser))
    /\ UNCHANGED <<link, events, user>>

Lost(c) == ConnectionLost(c) /\ UNCHANGED user

Next == \E c \in Conns :
    \/ ConnectionMade(c) \/ Lost(c)
    \/ \E line \in Chunks :
          \/ Login(c, line) \/ LoginWithLiteral(c, line) \/ RestOfLogin(c, line)
          \/ Swallowed(c, line) \/ Capability(c, line) \/ Ignored(c, line)
-------------------------------------------------------------------------------
(* Properties *)

Sent(c, kind) == {i \in DOMAIN read[c] : read[c][i].kind = kind}

\* A whole LOGIN, or a literal with any later end of a line.
Offered(c) ==
    {<<read[c][i].user, read[c][i].password>> :
        i \in {k \in DOMAIN read[c] : read[c][k].kind = "login"}}
    \union
    {<<read[c][x[1]].user, read[c][x[2]].password>> : x \in
        {y \in (DOMAIN read[c]) \X (DOMAIN read[c]) :
            y[1] < y[2] /\ read[c][y[1]].kind = "literal" /\ read[c][y[2]].kind = "rest"}}

\* A literal uses up at most one later command, and there is a login in the log for
\* every other LOGIN and for no more than were begun (imap_server.py:94-98).
LiteralCostsOneLogin ==
    \A c \in Conns :
        LET whole == Cardinality(Sent(c, "login"))  begun == Cardinality(Sent(c, "literal"))
        IN  Len(Captured(c)) \in (whole - begun) .. (whole + begun)
===============================================================================
