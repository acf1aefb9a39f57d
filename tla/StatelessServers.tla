-------------------------- MODULE StatelessServers --------------------------
(***************************************************************************)
(* The honeypots that keep nothing of a peer from one call of their        *)
(* handler to the next: what a chunk does to the log, the answers and the  *)
(* connection depends on that chunk alone.  memcache_server.py,            *)
(* pjl_server.py and oracle_server.py hang up after the first chunk;       *)
(* http_proxy_server.py and smb_server.py (the lines of impacket's log)    *)
(* may go on.                                                              *)
(*                                                                         *)
(* Memcache (CustomRedisProtocol): a chunk is a sequence of lines, each a  *)
(* sequence of words; only the first line is looked at.                    *)
(*                                                                         *)
(* PJL (Custompjlrotocol): a chunk is a sequence of pieces, of which "UEL" *)
(* is the escape sequence that the server removes wherever it stands.      *)
(*                                                                         *)
(* Oracle (CustomRedisProtocol and its parse_payload): a chunk is the      *)
(* sequence of the items between parentheses of a connect descriptor:      *)
(*   [name |-> the text before its first "=", or all of it,                *)
(*    begins |-> the field the name begins with, "other", or "bare" for an *)
(*    item without "=", value |-> the text behind it, cut |-> whether the  *)
(*    item ends in "=", as one without a value does].                      *)
(* A chunk without a descriptor is the empty sequence.                     *)
(*                                                                         *)
(* HTTP proxy (CustomProtocolParent): a chunk is [lines |-> whether it has *)
(* a line end, host |-> the name in its Host header or "none"].  The       *)
(* look-up of the name blocks the reactor, so it is one step with the rest *)
(* of the handler; any name may fail.  The attributes buffer and client    *)
(* have no effect: client is never set.                                    *)
(*                                                                         *)
(* SMB (SMBServer.log()): the thread of a connection carries its address   *)
(* in its name; lines of other threads have none and are left out.  A      *)
(* chunk is a line of the connection's thread:                             *)
(*   [kind |-> "connection"]  a connection or an authentication            *)
(*   [kind |-> "hash", user |-> the texts between the colons of its name]  *)
(*   [kind |-> "other"]                                                    *)
(***************************************************************************)
EXTENDS Queries

CONSTANT Undecodable   \* memcache, oracle: words and values that are not UTF-8

TypeOK ==
    /\ ConnectionsTypeOK
    /\ QueriesTypeOK
    /\ \A c \in Conns : link[c] = "open" => read[c] = <<>>

Init == TcpInit

-------------------------------------------------------------------------------
(* Memcache *)

Answer(words) ==
    CASE words[1] = "stats" -> "STAT"
      [] words[1] = "get" -> IF words[2] \in Undecodable THEN "" ELSE "VALUE"
      [] words[1] = "set" /\ Len(words) > 4 -> "STORED"
      [] OTHER -> "ERROR"

\* MUTANT of GetWithoutKey: the exception leaves dataReceived early.
GetWithoutKeyStays(c, chunk) ==
    /\ Received(c, chunk) /\ Head(chunk) = <<"get">>
    /\ UNCHANGED <<link, events, replies>>

\* The missing key raises before anything is sent or logged.
GetWithoutKey(c, chunk) ==
    /\ Received(c, chunk) /\ Head(chunk) = <<"get">>
    /\ LoseConnection(c)
    /\ UNCHANGED <<events, replies>>

\* The name of the command is logged as the action, after the answer; an empty one is
\* not logged, and one that is not UTF-8 raises there.
Command(c, chunk) ==
    LET words == Head(chunk)
    IN  /\ Received(c, chunk) /\ words # <<"get">>
        /\ Reply(c, Answer(words))
        /\ LogAll(c, IF words[1] \in Undecodable \union {""} THEN <<>>
                     ELSE <<[action |-> words[1]]>>)
        /\ LoseConnection(c)

MemcacheNext == \E c \in Conns :
    \/ ConnectionMade(c) \/ Lost(c)
    \/ \E chunk \in Chunks : GetWithoutKey(c, chunk) \/ Command(c, chunk)

\* The log has the name of the first command of a connection if it is text and, for a get,
\* complete; of its keys and data, of pipelined commands and later chunks it has nothing.
\* Everybody but a get without a key is answered: a command whose name is empty or is not
\* UTF-8 gets its answer and is not in the log (memcache_server.py:131-150).
CommandsAreLogged ==
    \A c \in Conns :
        LET names == [i \in DOMAIN events[c] |-> events[c][i].action]
            first == read[c][1][1]
            isLogged == /\ read[c] # <<>> /\ first[1] \notin Undecodable \union {""}
                        /\ first[1] = "get" => Len(first) > 1
        IN  /\ link[c] # "none" =>
                  names = IF isLogged THEN <<"connection", first[1]>> ELSE <<"connection">>
            /\ Len(replies[c]) = IF read[c] # <<>> /\ first # <<"get">> THEN 1 ELSE 0

-------------------------------------------------------------------------------
(* PJL *)

WithoutEscapes(chunk) == Dropping(chunk, {"UEL"})

Known == {"@pjl echo", "@pjl info id", "@pjl prodinfo"}

PrinterDataReceived(c, chunk) ==
    LET data == WithoutEscapes(chunk)
    IN  /\ Received(c, chunk)
        /\ IF data # <<>> /\ data[1] \in Known THEN Reply(c, data[1]) ELSE UNCHANGED replies
        /\ Log(c, Query(data))
        /\ LoseConnection(c)

PjlNext == \E c \in Conns :
    \/ ConnectionMade(c) \/ Lost(c)
    \/ \E chunk \in Chunks : PrinterDataReceived(c, chunk)

\* What a peer has sent is in the log, known or not, with every text but no escape.
TextsAreLogged ==
    LET Texts(s) == {s[i] : i \in DOMAIN s}
    IN  \A c \in Conns :
            /\ Len(Queried(c)) = Len(read[c])
            /\ \A i \in DOMAIN read[c] : Texts(Queried(c)[i]) = Texts(read[c][i]) \ {"UEL"}

-------------------------------------------------------------------------------
(* Oracle *)

Fields == {"SERVICE_NAME", "PROGRAM", "USER"}

\* An item that cannot be split or decoded raises, which ends the loop.  Those that end in
\* "=" are left out before: those that hold others, empty fields, and values that do.
Raising(item) ==
    /\ ~item.cut
    /\ \/ item.begins = "bare"
       \/ item.begins \in Fields /\ item.value \in Undecodable

\* Where items are looked at.
Parsed(items) ==
    {i \in DOMAIN items : ~items[i].cut /\ \A j \in 1 .. i : ~Raising(items[j])}

\* A name need only begin like that of a field.  A field that is not found is the empty
\* text: no field is read as empty.
ParsePayload(items) ==
    [f \in Fields |-> LET own == {i \in Parsed(items) : items[i].begins = f}
                      IN  IF own = {} THEN "" ELSE items[Latest(own)].value]

\* Everybody is refused; a login is logged if something was found.
DescriptorReceived(c, chunk) ==
    LET found == ParsePayload(chunk)
    IN  /\ Received(c, chunk)
        /\ LogAll(c, IF \A f \in Fields : found[f] = "" THEN <<>>
                     ELSE <<[action |-> "login", data |-> found]>>)
        /\ Reply(c, "refuse")
        /\ LoseConnection(c)

OracleNext == \E c \in Conns :
    \/ ConnectionMade(c) \/ Lost(c)
    \/ \E chunk \in Chunks : DescriptorReceived(c, chunk)

\* What is logged is in the descriptor, if only under a name that begins like the field's.
\* Of a descriptor without a raising item every field that is there is logged with its last
\* value; what loses it is a value that ends in "=", and a later item of a longer name that
\* begins like it (oracle_server.py:48-92).
FieldsAreLogged ==
    \A c \in Conns : read[c] # <<>> =>
        LET items == read[c][1]
            logged == Logins(c)
            Given(f, v) == \E i \in DOMAIN items : items[i].begins = f /\ items[i].value = v
            Hides(j, i) == items[j].begins = items[i].name /\ ~items[j].cut
        IN  /\ \A i \in DOMAIN logged : \A f \in Fields :
                  logged[i].data[f] = "" \/ Given(f, logged[i].data[f])
            /\ (\A i \in DOMAIN items : ~Raising(items[i])) =>
                  \A i \in DOMAIN items :
                      /\ items[i].name \in Fields /\ ~items[i].cut
                      /\ \A j \in DOMAIN items : j > i => ~Hides(j, i)
                      => logged # <<>> /\ logged[1].data[items[i].name] = items[i].value

-------------------------------------------------------------------------------
(* HTTP proxy *)

HttpProxyTypeOK ==
    /\ QueriesTypeOK
    /\ \A c \in Conns : link[c] = "none" => events[c] = <<>>

HasHost(chunk) == chunk.lines /\ chunk.host # "none"

NoHost(c, chunk) ==
    /\ Received(c, chunk) /\ ~HasHost(chunk)
    /\ Log(c, Connection)
    /\ LoseConnection(c)
    /\ UNCHANGED replies

Unresolved(c, chunk) ==
    /\ Received(c, chunk) /\ HasHost(chunk)
    /\ LogAll(c, <<Connection, Query(chunk.host)>>)
    /\ LoseConnection(c)
    /\ UNCHANGED replies

Resolved(c, chunk) ==
    /\ Received(c, chunk) /\ HasHost(chunk)
    /\ LogAll(c, <<Connection, Query(chunk.host)>>)
    /\ Reply(c, "dummy page")
    /\ UNCHANGED link

HttpProxyNext == \E c \in Conns :
    \/ ConnectionMadeUnlogged(c) \/ Lost(c)
    \/ \E chunk \in Chunks : NoHost(c, chunk) \/ Unresolved(c, chunk) \/ Resolved(c, chunk)

\* Every host that was asked for is logged, also if it does not exist, and only a client
\* that got an answer to all it has sent stays (http_proxy_server.py:49-82).
HostsAreLogged ==
    \A c \in Conns :
        LET asked == At(read[c], {i \in DOMAIN read[c] : HasHost(read[c][i])})
        IN  /\ Queried(c) = [i \in DOMAIN asked |-> asked[i].host]
            /\ Len(events[c]) = Len(read[c]) + Len(asked)
            /\ link[c] = "open" => Len(replies[c]) = Len(read[c])

-------------------------------------------------------------------------------
(* SMB *)

SmbTypeOK == QueriesTypeOK /\ \A c \in Conns : Len(events[c]) <= Len(read[c])

ConnectionLine(c, line) ==
    /\ Received(c, line) /\ line.kind = "connection"
    /\ Log(c, Connection)
    /\ UNCHANGED <<link, replies>>

\* The line of the hash has six parts; with a colon in the name there are more, and it is
\* dropped.
HashLine(c, line) ==
    /\ Received(c, line) /\ line.kind = "hash"
    /\ LogAll(c, IF Len(line.user) = 1 THEN <<[action |-> "login", username |-> line.user[1]]>>
                 ELSE <<>>)
    /\ UNCHANGED <<link, replies>>

OtherLine(c, line) ==
    /\ Received(c, line) /\ line.kind = "other"
    /\ UNCHANGED <<link, events, replies>>

SmbNext == \E c \in Conns :
    \/ ConnectionMadeUnlogged(c) \/ Lost(c)
    \/ \E line \in Chunks : ConnectionLine(c, line) \/ HashLine(c, line) \/ OtherLine(c, line)

\* The logins are those of the connection's own lines, in order, except names with a colon.
HashesAreLogged ==
    \A c \in Conns :
        LET hashes == At(read[c], {i \in DOMAIN read[c] :
                                      read[c][i].kind = "hash" /\ Len(read[c][i].user) = 1})
        IN  [i \in DOMAIN Logins(c) |-> Logins(c)[i].username] =
            [i \in DOMAIN hashes |-> hashes[i].user[1]]
===============================================================================
