----------------------------- MODULE LogPipeline -----------------------------
(***************************************************************************)
(* honeypots/helper.py: what becomes of one event a server logs.           *)
(*                                                                         *)
(* setup_logger() hangs handlers on the server's logger, in a fixed order. *)
(* All of them get the same LogRecord, and the first ones change it: the   *)
(* filter renames and removes keys of the event itself, and the terminal   *)
(* branch replaces the event by its JSON text.  What a later handler sees  *)
(* therefore depends on the handlers before it.                            *)
(*                                                                         *)
(* An event is a function from keys to values; a value is the little the   *)
(* handlers can tell apart about it.                                       *)
(***************************************************************************)
EXTENDS Naturals, Sequences, FiniteSets, SequencesExt

CONSTANTS
    Events,   \* the events: [kind |-> "dict" or "list", body |-> keys to values]
    Configs   \* what config files ask for, see ConfigType

\* "plain": text or number; "process", "error": such text; "suffixed": text with
\* "_server"; "bytes"; "nested": a dict or list; "none": None.
Value == {"plain", "process", "error", "suffixed", "bytes", "nested", "none"}

Sinks == {"sqlite", "stdout", "file", "syslog"}
Columns == {"server", "action", "status", "src_ip", "src_port", "dest_ip",
            "dest_port", "username", "password", "data", "error"}

ConfigType(c) ==
    /\ c.logs \subseteq {"terminal", "file", "syslog", "db_sqlite", "db_postgres"}
    /\ c.filter \in BOOLEAN                     \* custom_filter is not empty
    /\ c.options \subseteq {"remove_errors", "remove_init", "remove_word_server",
                            "dump_json_to_file"}
    /\ c.change \in Seq([old : STRING, new : STRING])   \* a dict: each old key once
    /\ \A i, j \in DOMAIN c.change : c.change[i].old = c.change[j].old => i = j
    /\ c.remove \subseteq STRING
    /\ c.contains \subseteq STRING
    /\ c.address \in BOOLEAN                    \* syslog_address is empty or valid

ASSUME PipelineAssumption ==
    /\ \A e \in Events :
          /\ e.kind \in {"dict", "list"} /\ DOMAIN e.body \subseteq STRING
          /\ e.body = [k \in DOMAIN e.body |-> e.body[k]]
          /\ \A k \in DOMAIN e.body : e.body[k] \in Value
    /\ \A c \in Configs : ConfigType(c)

VARIABLES
    config,   \* of the server's logger
    event,    \* as the server passed it to log()
    msg,      \* record.msg: kind, body and how often it was turned into JSON
    step,     \* the handler (or branch of CustomHandler) that is next
    out       \* what every sink got

logVars == <<config, event, msg, step, out>>

Steps == <<"sqlite", "terminal", "print", "file", "syslog", "done">>

LogTypeOK ==
    /\ config \in Configs
    /\ event \in Events
    /\ msg.kind = event.kind /\ msg.layers \in Nat
    /\ \A k \in DOMAIN msg.body : msg.body[k] \in Value
    /\ step \in Range(Steps)
    /\ DOMAIN out = Sinks

\* BaseServer.log() adds the server and the address it listens on.
Stamped(e) ==
    IF e.kind = "dict"
    THEN [k \in DOMAIN e.body \union {"server", "dest_ip", "dest_port"} |->
             IF k = "server" THEN "suffixed"
             ELSE IF k \in {"dest_ip", "dest_port"} THEN "plain" ELSE e.body[k]]
    ELSE e.body

LogInit ==
    /\ config \in Configs
    /\ event \in Events
    /\ msg = [kind |-> event.kind, body |-> Stamped(event), layers |-> 0]
    /\ step = "sqlite"
    /\ out = [s \in Sinks |-> <<>>]

-------------------------------------------------------------------------------
(* _serialize_message: c is the config with the custom filter *)

Wants(c, option) == c.filter /\ option \in c.options

IsText(m) == m.layers > 0
IsDict(m) == m.kind = "dict" /\ ~IsText(m)

\* "error" in record.msg: a key of a dict, any part of a text.  (A list is asked for
\* an element, and its elements are the name of the table and a dict.)
HasError(m) ==
    IF IsText(m)
    THEN "error" \in DOMAIN m.body \/ \E k \in DOMAIN m.body : m.body[k] = "error"
    ELSE m.kind = "dict" /\ "error" \in DOMAIN m.body

\* MUTANT of Rename: the old key is kept.
Copy(body, c) ==
    IF c.old \in DOMAIN body
    THEN [k \in DOMAIN body \union {c.new} |-> IF k = c.new THEN body[c.old] ELSE body[k]]
    ELSE body

Rename(body, c) ==
    IF c.old \in DOMAIN body
    THEN [k \in (DOMAIN body \ {c.old}) \union {c.new} |->
             IF k = c.new THEN body[c.old] ELSE body[k]]
    ELSE body

\* All changes a config asks for, one after the other.
Renamed(c, body) ==
    LET after[n \in 0 .. Len(c.change)] ==
            IF n = 0 THEN body ELSE Rename(after[n - 1], c.change[n])
    IN  after[Len(c.change)]

Without(body, keys) == [k \in DOMAIN body \ keys |-> body[k]]

\* MUTANT of Shorten: whatever the server is, it becomes the empty name.
ShortenAll(c, body) ==
    [k \in DOMAIN body |-> IF k = "server" /\ Wants(c, "remove_word_server") THEN "" ELSE body[k]]

\* remove_word_server
Shorten(c, body) ==
    [k \in DOMAIN body |->
        IF k = "server" /\ Wants(c, "remove_word_server") /\ body[k] = "suffixed"
        THEN "plain" ELSE body[k]]

\* Options that drop the event before it is changed.
DroppedAtOnce(c, m) ==
    \/ Wants(c, "remove_errors") /\ HasError(m)
    \/ Wants(c, "remove_init") /\ IsDict(m)
       /\ "action" \in DOMAIN m.body /\ m.body["action"] = "process"

\* MUTANT of Changed: the event is changed before it is known to be dropped.
ChangedFirst(c, m) ==
    IF ~c.filter \/ ~IsDict(m)
    THEN m
    ELSE [m EXCEPT !.body = Without(Renamed(c, Shorten(c, @)), c.remove)]

\* The changes a filter makes to the event (to record.msg itself).
Changed(c, m) ==
    IF ~c.filter \/ ~IsDict(m) \/ DroppedAtOnce(c, m)
    THEN m
    ELSE [m EXCEPT !.body = Without(Renamed(c, Shorten(c, @)), c.remove)]

\* _serialize_message returns None (it returns no empty message: a timestamp is
\* added to a dict).
Dropped(c, m) ==
    \/ DroppedAtOnce(c, m)
    \/ /\ c.filter /\ IsDict(m)
       /\ ~(c.contains \subseteq DOMAIN Changed(c, m).body)

\* json.dumps of the serialized message: bytes and other objects become text.
Json(m) ==
    LET flat == [k \in DOMAIN m.body |->
                    IF m.body[k] \in {"bytes", "none"} THEN "plain" ELSE m.body[k]]
        time == IF IsDict(m) THEN {"timestamp"} ELSE {}
    IN  [m EXCEPT !.layers = @ + 1,
                  !.body = [k \in DOMAIN flat \union time |->
                               IF k \in DOMAIN flat THEN flat[k] ELSE "plain"]]

-------------------------------------------------------------------------------
(* The handlers, in the order setup_logger() adds them *)

\* MUTANT of Handles: a file only where there is no terminal.
HandlesElif(s) ==
    CASE s = "sqlite"   -> "db_sqlite" \in config.logs
      [] s = "terminal" -> "terminal" \in config.logs
      [] s = "print"    -> FALSE
      [] s = "file"     -> "file" \in config.logs /\ "terminal" \notin config.logs
      [] s = "syslog"   -> "syslog" \in config.logs /\ config.address

\* The handlers and branches a config asks for.  CustomHandler, which has the first
\* three, is there only for a terminal or a sqlite database.
Handles(s) ==
    CASE s = "sqlite"   -> "db_sqlite" \in config.logs
      [] s = "terminal" -> "terminal" \in config.logs
      [] s = "print"    -> /\ "syslog" \in config.logs
                           /\ config.logs \intersect {"terminal", "db_sqlite"} # {}
      [] s = "file"     -> "file" \in config.logs
      [] s = "syslog"   -> "syslog" \in config.logs /\ config.address

Goto(s) == step' = s /\ UNCHANGED <<config, event>>

Write(sink, m) == out' = [out EXCEPT ![sink] = Append(@, m)]

\* insert_into_data_safe: the raw event is bound to the columns; a list has no
\* items(), and a dict or list in a column cannot be bound.
Insertable(m) ==
    IsDict(m) /\ \A k \in DOMAIN m.body \intersect Columns : m.body[k] # "nested"

SqliteBranch ==
    /\ step = "sqlite" /\ Goto("terminal")
    /\ IF ~Handles("sqlite") THEN UNCHANGED <<msg, out>>
       ELSE /\ msg' = Changed(config, msg)
            /\ \/ ~Dropped(config, msg) /\ Insertable(msg') /\ Write("sqlite", msg')
               \/ (Dropped(config, msg) \/ ~Insertable(msg')) /\ UNCHANGED out

\* The insert may also fail because another process holds the database: that
\* exception is suppressed as well.
SqliteLocked ==
    /\ step = "sqlite" /\ Goto("terminal")
    /\ Handles("sqlite") /\ ~Dropped(config, msg)
    /\ msg' = Changed(config, msg) /\ Insertable(msg')
    /\ UNCHANGED out

\* MUTANT of ToStdout: the text is printed, the record stays as it is.
ToStdoutOnly(s) ==
    IF ~Handles(s) THEN UNCHANGED <<msg, out>>
    ELSE /\ msg' = Changed(config, msg)
         /\ IF Dropped(config, msg) THEN UNCHANGED out ELSE Write("stdout", Json(msg'))

\* The event is printed as JSON, and is JSON from then on.
ToStdout(s) ==
    IF ~Handles(s) THEN UNCHANGED <<msg, out>>
    ELSE IF Dropped(config, msg) THEN msg' = Changed(config, msg) /\ UNCHANGED out
    ELSE msg' = Json(Changed(config, msg)) /\ Write("stdout", msg')

TerminalBranch == step = "terminal" /\ Goto("print") /\ ToStdout("terminal")

SyslogBranch == step = "print" /\ Goto("file") /\ ToStdout("print")

FileHandler ==
    /\ step = "file" /\ Goto("syslog")
    /\ IF ~Handles("file") THEN UNCHANGED <<msg, out>>
       ELSE IF Dropped(config, msg) THEN msg' = Changed(config, msg) /\ UNCHANGED out
       ELSE /\ msg' = IF Wants(config, "dump_json_to_file")
                      THEN Json(Changed(config, msg)) ELSE Changed(config, msg)
            /\ Write("file", msg')

\* logging.handlers.SysLogHandler: no filter.
SyslogHandler ==
    /\ step = "syslog" /\ Goto("done")
    /\ IF Handles("syslog") THEN Write("syslog", msg) ELSE UNCHANGED out
    /\ UNCHANGED msg

LogNext == SqliteBranch \/ SqliteLocked \/ TerminalBranch \/ SyslogBranch
           \/ FileHandler \/ SyslogHandler

LogSpec == LogInit /\ [][LogNext]_logVars
-------------------------------------------------------------------------------
(* Properties.  Filters are applied once per handler and not once per event; what *)
(* the handlers agree on is stated for filters for which that makes no difference.*)

OnePass == \A c, d \in Range(config.change) : c.new # d.old

\* No renamed key becomes one that an option of the filter looks for.
NamesAreKept ==
    \A c \in Range(config.change) :
        /\ Wants(config, "remove_init") => c.new # "action"
        /\ Wants(config, "remove_errors") => c.new # "error"

Entries(sink) == Range(out[sink])

Original == [kind |-> event.kind, body |-> Stamped(event), layers |-> 0]

\* How often the event in the file has been dumped: by the terminal's branch, by the syslog
\* branch (helper.py:276-279), which dumps the text again, and once more on demand (:106-110).
Dumps ==
    1 + (IF Handles("print") THEN 1 ELSE 0)
      + (IF Wants(config, "dump_json_to_file") THEN 1 ELSE 0)

\* With a terminal, the file holds the event that the terminal showed, although the file handler
\* (helper.py:106-110) writes JSON on demand only; but as the text of a text when syslog or
\* dump_json_to_file is configured as well.  tests/utils.py load_logs_from_file, which parses
\* a line once, gets the event from a file of terminal and file alone.
FileIsTerminal ==
    OnePass /\ {"terminal", "file"} \subseteq config.logs =>
        \A m \in Entries("file") :
            m.layers = Dumps /\ \E t \in Entries("stdout") : m.body = t.body

\* Terminal, file and database show a filtered event: no replaced or removed key
\* is left but the timestamp of the text, no renamed value is missing, all required keys
\* are there (helper.py:87-93, applied once per handler to the same event).
FilterReachesSinks ==
    OnePass /\ config.filter /\ event.kind = "dict" =>
        \A m \in Entries("stdout") \union Entries("file") \union Entries("sqlite") :
            /\ \A c \in Range(config.change) :
                  /\ c.old \notin DOMAIN m.body \ {"timestamp"}
                  /\ c.old \in DOMAIN event.body => c.new \in DOMAIN m.body \union config.remove
            /\ config.remove \intersect DOMAIN m.body \subseteq {"timestamp"}
            /\ config.contains \subseteq DOMAIN m.body

\* An event the filter drops is dropped by every handler that filters: none sees it
\* in a shape in which it passes because an earlier one has already changed it.
DroppedEverywhere ==
    OnePass /\ Dropped(config, Original) =>
        \A s \in Sinks \ {"syslog"} : out[s] = <<>>

\* An event that is not dropped gets to every configured terminal, file and syslog, with one
\* exception: remove_errors (helper.py:80), which asks a dict for the key "error", asks the
\* text that the terminal's (or syslog's) branch has made of it for the word, so an event that
\* was shown is missing in the file exactly when its text holds it, in a password, say.
ReachesSinks ==
    OnePass /\ NamesAreKept /\ step = "done" /\ ~Dropped(config, Original) =>
        /\ "terminal" \in config.logs => out["stdout"] # <<>>
        /\ "file" \in config.logs =>
              (out["file"] = <<>> <=>
                 Wants(config, "remove_errors") /\ \E t \in Entries("stdout") : HasError(t))
        /\ "syslog" \in config.logs /\ config.address => out["syslog"] # <<>>

\* README.md:153 "config.json (Output to sqlite db)", with the option that captures
\* commands: a server's event is in the database, unless another process held it (an
\* event that could be inserted is missing only for that reason).
SqliteKeepsEvents ==
    step = "terminal" /\ "db_sqlite" \in config.logs /\ ~Dropped(config, Original)
        => out["sqlite"] # <<>> \/ Insertable(msg)
===============================================================================
