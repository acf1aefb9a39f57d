------------------------------ MODULE FtpServer ------------------------------
(***************************************************************************)
(* honeypots/ftp_server.py: CustomFTPProtocol on Twisted's FTP, which      *)
(* splits a line at its first space and answers what a command returns or  *)
(* raises.  A chunk is a line: the command (in upper case) and at most one *)
(* argument.                                                               *)
(***************************************************************************)
EXTENDS Connections

CONSTANTS NoUser, CaptureCommands,
          Anonymous   \* the factory's userAnonymous

VARIABLES state,
          user    \* _user; NoUser where the attribute does not exist

ftpVars == <<tcpVars, state, user>>

Shell == {"AUTHED", "RENAMING"}

TypeOK ==
    /\ ConnectionsTypeOK
    /\ state \in [Conns -> {"none", "UNAUTH", "INAUTH"} \union Shell]
    /\ \A c \in Conns : state[c] = "INAUTH" <=> user[c] # NoUser

Init ==
    /\ ConnectionsInit
    /\ state = [c \in Conns |-> "none"]
    /\ user = [c \in Conns |-> NoUser]

Goto(c, next) == state' = [state EXCEPT ![c] = next]

ConnectionMade(c) == Accept(c) /\ Goto(c, "UNAUTH") /\ UNCHANGED user

\* MUTANT of Command: commands of clients that are logged in are not captured.
CommandBeforeLogin(c, line) ==
    IF CaptureCommands /\ state[c] \notin Shell
    THEN <<[action |-> "command", data |-> line]>> ELSE <<>>

\* processCommand: what a line appends to the log besides a login.
Command(c, line) ==
    IF CaptureCommands THEN <<[action |-> "command", data |-> line]>> ELSE <<>>
LogAll(c, es) == events' = [events EXCEPT ![c] = @ \o es]

IsUser(c, line) ==
    state[c] \in {"UNAUTH", "AUTHED"} /\ line[1] = "USER" /\ Len(line) = 2 /\ line[2] # ""
IsPass(c, line) == state[c] = "INAUTH" /\ line[1] = "PASS" /\ Len(line) = 2
IsRename(c, line) ==
    Len(line) = 2 /\ <<state[c], line[1]>> \in {<<"AUTHED", "RNFR">>, <<"RENAMING", "RNTO">>}

\* Also from within a session, whose shell is lost by it.
FtpUser(c, line) ==
    /\ Received(c, line) /\ IsUser(c, line)
    /\ LogAll(c, Command(c, line))
    /\ user' = [user EXCEPT ![c] = line[2]]
    /\ Goto(c, "INAUTH")
    /\ UNCHANGED link

\* MUTANT of FtpPass: anonymous users are let in.
FtpPassAnonymous(c, line) ==
    /\ Received(c, line) /\ IsPass(c, line)
    /\ LET ok == LoginIsCorrect(user[c], line[2])
       IN  /\ LogAll(c, Command(c, line) \o <<LoginEvent(user[c], line[2], ok)>>)
           /\ Goto(c, IF ok \/ user[c] = Anonymous THEN "AUTHED" ELSE "UNAUTH")
    /\ user' = [user EXCEPT ![c] = NoUser]
    /\ UNCHANGED link

\* ftp_PASS and requestAvatarId: the anonymous user has no username attribute and is
\* refused, even if check_login has just found the login correct.
FtpPass(c, line) ==
    /\ Received(c, line) /\ IsPass(c, line)
    /\ LET ok == LoginIsCorrect(user[c], line[2])
       IN  /\ LogAll(c, Command(c, line) \o <<LoginEvent(user[c], line[2], ok)>>)
           /\ Goto(c, IF ok /\ user[c] # Anonymous THEN "AUTHED" ELSE "UNAUTH")
    /\ user' = [user EXCEPT ![c] = NoUser]
    /\ UNCHANGED link

FtpRename(c, line) ==
    /\ Received(c, line) /\ IsRename(c, line)
    /\ LogAll(c, Command(c, line))
    /\ Goto(c, IF line[1] = "RNFR" THEN "RENAMING" ELSE "AUTHED")
    /\ UNCHANGED <<link, user>>

FtpQuit(c, line) ==
    /\ Received(c, line) /\ line[1] = "QUIT" /\ Len(line) = 1
    /\ LogAll(c, Command(c, line))
    /\ LoseConnection(c)
    /\ UNCHANGED <<state, user>>

\* Any other line: out of sequence, incomplete, unknown, or without effect on the login.
\* (PASS within a session raises, as there is no _user.)
FtpOther(c, line) ==
    /\ Received(c, line)
    /\ ~IsUser(c, line) /\ ~IsPass(c, line) /\ ~IsRename(c, line)
    /\ ~(line[1] = "QUIT" /\ Len(line) = 1)
    /\ LogAll(c, Command(c, line))
    /\ UNCHANGED <<link, state, user>>

Lost(c) == ConnectionLost(c) /\ UNCHANGED <<state, user>>

Next == \E c \in Conns :
    \/ ConnectionMade(c) \/ Lost(c)
    \/ \E line \in Chunks :
          \/ FtpUser(c, line) \/ FtpPass(c, line) \/ FtpRename(c, line)
          \/ FtpQuit(c, line) \/ FtpOther(c, line)

Spec == Init /\ [][Next]_ftpVars

-------------------------------------------------------------------------------
(* Properties *)

\* A user name and any later password, out of what a peer has sent.
Offered(c) ==
    {<<read[c][x[1]][2], read[c][x[2]][2]>> : x \in
        {y \in (DOMAIN read[c]) \X (DOMAIN read[c]) :
            /\ y[1] < y[2] /\ Len(read[c][y[1]]) = 2 /\ Len(read[c][y[2]]) = 2
            /\ read[c][y[1]][1] = "USER" /\ read[c][y[2]][1] = "PASS"}}

\* What the log should hold of the peer's commands.
ToCapture(c) == IF CaptureCommands THEN read[c] ELSE <<>>

\* Whoever has a shell is in the log with the configured credentials as the last login,
\* and is not the anonymous user (ftp_server.py:70-79, 111-139).
ShellNeedsLogin ==
    \A c \in Conns : state[c] \in Shell =>
        /\ Configured[1] # Anonymous
        /\ \E i \in DOMAIN events[c] :
              /\ events[c][i].action = "login" /\ events[c][i].status = "success"
              /\ <<events[c][i].username, events[c][i].password>> = Configured
              /\ \A j \in i + 1 .. Len(events[c]) : events[c][j].action # "login"
===============================================================================
