----------------------------- MODULE MysqlServer -----------------------------
(***************************************************************************)
(* honeypots/mysql_server.py: CustomMysqlProtocol.  A chunk is taken for a *)
(* login packet, the first one and all later ones.  Chunks:                *)
(* [user |-> u, hash |-> h], where h is what parse_data finds behind the   *)
(* user name: the scrambled form of a word, "cut" if only its length is    *)
(* there, or "absent" if there is no 20-byte field (u is "" if there is no *)
(* user name either).                                                      *)
(* The `except BaseException' and the states other than 1 of dataReceived  *)
(* are unreachable: parse_data and decode suppress what they raise.        *)
(***************************************************************************)
EXTENDS Connections

CONSTANTS
    Words,        \* the candidates decode() tries
    WordsAreText  \* they come from a file: str, on which strip(b"\n") raises

VARIABLE replies   \* what the server sent

mysqlVars == <<tcpVars, replies>>

TypeOK ==
    /\ ConnectionsTypeOK
    /\ \A c \in Conns : replies[c] \in Seq({"greeting", "denied", "too_many"})
    /\ \A c \in Conns : Len(replies[c]) = Len(events[c])

Init == ConnectionsInit /\ replies = [c \in Conns |-> <<>>]

Reply(c, packet) == replies' = [replies EXCEPT ![c] = Append(@, packet)]

ConnectionMade(c) == Accept(c) /\ Reply(c, "greeting")

\* decode(): the word whose scramble this is, if it is a known one.  The password is
\* logged as a word, as the hash, as a dump of the packet or as the raw field.
Decodes(hash) == ~WordsAreText /\ hash \in Words

\* MUTANT of KnownPassword: decoded, but of whatever user.
KnownPasswordOfAnyone(c, chunk) ==
    /\ Received(c, chunk)
    /\ Decodes(chunk.hash)
    /\ Log(c, LoginEvent(chunk.user, <<"word", chunk.hash>>, TRUE))
    /\ Reply(c, "too_many")
    /\ UNCHANGED link

KnownPassword(c, chunk) ==
    /\ Received(c, chunk)
    /\ Decodes(chunk.hash) /\ chunk.user = Configured[1]
    /\ Log(c, LoginEvent(chunk.user, <<"word", chunk.hash>>, TRUE))
    /\ Reply(c, "too_many")
    /\ UNCHANGED link

WrongPassword(c, chunk) ==
    /\ Received(c, chunk)
    /\ chunk.hash \notin {"cut", "absent"}
    /\ ~(Decodes(chunk.hash) /\ chunk.user = Configured[1])
    /\ Log(c, LoginEvent(chunk.user, <<"hash", chunk.hash>>, FALSE))
    /\ Reply(c, "denied")
    /\ UNCHANGED link

CutPassword(c, chunk) ==
    /\ Received(c, chunk)
    /\ chunk.hash = "cut"
    /\ Log(c, LoginEvent(chunk.user, <<"packet", chunk.hash>>, FALSE))
    /\ Reply(c, "denied")
    /\ UNCHANGED link

NoPassword(c, chunk) ==
    /\ Received(c, chunk)
    /\ chunk.hash = "absent"
    /\ Log(c, LoginEvent(chunk.user, <<"field", chunk.hash>>, FALSE))
    /\ Reply(c, "too_many")
    /\ UNCHANGED link

Lost(c) == ConnectionLost(c) /\ UNCHANGED replies

Next == \E c \in Conns :
    \/ ConnectionMade(c) \/ Lost(c)
    \/ \E chunk \in Chunks :
          \/ KnownPassword(c, chunk) \/ WrongPassword(c, chunk)
          \/ CutPassword(c, chunk) \/ NoPassword(c, chunk)

-------------------------------------------------------------------------------
(* Properties *)

Offered(c) ==
    {<<read[c][i].user, <<form, read[c][i].hash>>>> :
        i \in DOMAIN read[c], form \in {"word", "hash", "packet", "field"}}

\* Every chunk a peer sends is a login in the log, in order, with its own user and
\* hash; only the configured user with a known password succeeds, and that one
\* always does unless the words are text (mysql_server.py:105-138).
EveryTryIsLogged ==
    \A c \in Conns :
        LET tries == Logins(c)
        IN  /\ Len(tries) = Len(read[c])
            /\ \A i \in DOMAIN tries :
                  /\ tries[i].username = read[c][i].user
                  /\ tries[i].password[2] = read[c][i].hash
                  /\ tries[i].status = "success" <=>
                        /\ ~WordsAreText
                        /\ read[c][i].user = Configured[1]
                        /\ read[c][i].hash \in Words
===============================================================================
