---------------------------- MODULE MCLogPipeline ----------------------------
(* The events of the servers and the configs of the README and of T-Pot. *)
EXTENDS LogPipeline

Dict(body) == [kind |-> "dict", body |-> body]

Process == Dict([action |-> "process", status |-> "plain", src_ip |-> "plain"])
Failed == Dict([action |-> "process", status |-> "error", src_ip |-> "plain"])
Login == Dict([action |-> "plain", src_ip |-> "plain", username |-> "plain", password |-> "plain"])
OddLogin == Dict([action |-> "plain", src_ip |-> "plain", username |-> "bytes", password |-> "error"])
Command == Dict([action |-> "plain", src_ip |-> "plain", data |-> "nested"])
Error == Dict([action |-> "plain", error |-> "plain"])
Dated == Dict([action |-> "plain", status |-> "process", src_ip |-> "error", timestamp |-> "plain"])
Packet == [kind |-> "list", body |-> [action |-> "plain", payload |-> "nested"]]

SqliteEvents == {Login, Command}
AllEvents == {Process, Failed, Login, OddLogin, Command, Error, Dated, Packet}

Config(logs, filter, options, change, remove, contains) ==
    [logs |-> logs, filter |-> filter, options |-> options, change |-> change,
     remove |-> remove, contains |-> contains, address |-> TRUE]

Change(x, y) == [old |-> x, new |-> y]
ToProtocol == <<Change("server", "protocol")>>
Chain == <<Change("a", "b"), Change("action", "a")>>
Required == {"protocol", "action", "src_ip", "dest_ip", "dest_port"}

LogsAsked == SUBSET {"terminal", "file", "syslog", "db_sqlite"}

NoFilter == {Config(l, FALSE, {}, <<>>, {}, {}) : l \in LogsAsked}
Tpot == {Config(l, TRUE, {"remove_errors", "remove_init", "remove_word_server"},
                ToProtocol, {}, Required) : l \in LogsAsked}
Others == {Config(l, TRUE, o, c, r, {}) :
              l \in LogsAsked,
              o \in {{}, {"remove_init"}, {"dump_json_to_file"}},
              c \in {<<Change("action", "act")>>, Chain},
              r \in {{}, {"password", "act"}}}
\* Renamed to the action, and renamed or removed what the text has again.
Overlaps == {Config(l, TRUE, {"remove_init"}, <<c>>, r, {}) :
                l \in LogsAsked, r \in {{}, {"timestamp", "server"}},
                c \in {Change("status", "action"), Change("timestamp", "time"), Change("src_ip", "error")}}
NoAddress == {[Config(l, FALSE, {}, <<>>, {}, {}) EXCEPT !.address = FALSE] : l \in LogsAsked}

AllConfigs == NoFilter \union Tpot \union Others \union Overlaps \union NoAddress

\* "logs" of the README's example for a sqlite database
SqliteOnly == {Config({"db_sqlite"}, FALSE, {}, <<>>, {}, {})}
===============================================================================
