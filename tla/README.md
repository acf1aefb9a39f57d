# A formal model of honeypots

This directory holds TLA+ modules that model the Python package `honeypots` (a set of
low- and medium-interaction honeypot servers with one manager), the TLC configurations
that check them on small instances, and theorems about the life cycle of a server, the
manager, the log pipeline, the threaded honeypots (ssh, socks5, rdp, elastic), the thirteen
login honeypots in Twisted's reactor and the query honeypots that TLAPS proves for instances of
every size. Paths of sources are relative to
`honeypots/` unless they start with another directory.

Contents: [the system](#1-the-system) · [modules and code](#2-the-modules-and-the-code) ·
[runs](#3-the-runs) · [bounds](#4-bounds-and-why-they-are-enough) ·
[fairness](#5-fairness) · [proofs](#6-what-is-proved) ·
[what the code does that one would not expect](#7-what-the-code-does-that-its-documents-do-not-say) ·
[what is left out](#8-what-is-left-out) · [plan](#9-plan)

## 1. The system

A script (or the manager, `python3 -m honeypots`) builds one object of a server class per
honeypot and calls `run_server(process=True, auto=...)` on it. That forks a child process,
which runs `server_main()`: it binds the port and serves clients, in Twisted's reactor or
with a thread per connection. The parent sees the child only through the operating system.
Whatever a client does, the child logs through the logger of its server.

| component | state | operations | with whom it interacts | what makes it hard | what makes it correct |
|---|---|---|---|---|---|
| life cycle, `base_server.py`, the socket helpers of `helper.py` | `port`, `process`, the process and socket tables of the host | `__init__`, `run_server`, `close_port`, `kill_server`, `get_free_port`, `service_has_started` | child processes, foreign processes, through signals and ports | the parent acts on observations that are old when it acts; processes ignore signals, die, come up late | a started honeypot has its port, a failed one leaves nothing, nobody else is killed, calls return |
| manager, `__main__.py` | the arguments (which it changes), `honeypots`, the sniffer's process | start all / the configured ones / those of the config (chameleon mode), the sniffer; test; report; wait for Enter or a signal, or write statistics; stop | one server life cycle per entry, signals, alarms, interpreter exit | failures in the middle, signals at any time, arguments leaking from one entry to the next, an exit that joins all children | who was started is reported and stopped, a signal ends the manager, a test ends |
| log pipeline, `helper.py` | one `LogRecord` that all handlers share | filters, terminal, file, syslog, sqlite | every server logs through it | handlers change the record the next one gets | an event that passes the filter reaches every sink |
| Twisted login honeypots: telnet, postgres, mysql, vnc, ldap, mssql, pop3, ftp, imap, redis, smtp, irc, http(s) | one protocol object per connection | `connectionMade`, `dataReceived`, commands, `connectionLost` | peers, the reactor, the log | chunks in any order, torn, malformed; several peers at once | who offers credentials is logged with them, and with nothing else |
| threaded login honeypots: ssh, socks5, rdp, elastic | one thread per connection (ssh: two) | `handle`, `run`, `handle_connection`, paramiko's callbacks | peers, paramiko, the log | timeouts, short reads, resets, one thread that accepts for all | as above; and no thread stays for ever |
| query honeypots: dns, dhcp, ntp, snmp, sip, memcache, pjl, ipp, oracle, http proxy | little or none between requests; sip and dns: messages and look-ups that wait | one handler each | peers, the log, Twisted's sip and names, scapy | hand-written parsers of binary data, exceptions before or after the log, answers that come late | every request is logged under its sender, the parser ends at the right place |
| smb, `smb_server.py` | impacket's server | its log lines are read back | impacket | the address travels in a thread's name | logins are those of the connection's own lines |
| sniffer, `sniffer.py` | nothing between packets | a callback per packet | scapy, the log | its own packets come back | each scan is logged once and answered at most once |

The hazards of each component, at their lines, are in `PROJECT.json` under `hazards`, each
with the properties that would catch it. The common shape of all login honeypots is one
promise, `LoginCapture`: *a login that is logged was offered by that very peer, while it
was connected; what was logged stays.* Every protocol module is checked to implement it.

## 2. The modules and the code

| module | models | state and actions in terms of the code |
|---|---|---|
| `BaseServer` | `base_server.py:28-134`, `helper.py:198-205, 527-546` | `port`: `self.port`; `proc`, `sock`: the host; `current`, `at`: where the parent's thread is; one action per observation or act of the parent on the host (`ClosePortConnect` … `KillServerJoin`). `ChildBind` is one bind of `server_main`: a server of both transports binds UDP, then TCP (`dns_server.py:69-70`), and may be seen by the poll, fail (`ChildBindFails`) or be killed between the two. |
| `HoneypotsManager` | `__main__.py:94-178, 196-361, 419-422` | EXTENDS `BaseServer`; `pc`: where `main()` is; `argPort`: `options.port`, which entries change; `honeypots`, `pending`, `fence`, `sniffer`; `unkilled`: whose `kill_server()` has raised (`StopFails`). While `pc` is `running` or `stopping`, `InMethod` takes the steps of `run_server` and `kill_server`. |
| `LifeCycleProofs` | | theorems about `BaseServer` and, in its second part, about `HoneypotsManager`, which rests on them |
| `SshServerProofs` | | theorems about `SshServer`: no shell without a login in the log, nothing lost between two lines of a shell |
| `LogPipeline` | `helper.py:72-180, 208-304, 306-390`, `base_server.py:152-161` | `msg` is `record.msg`; one action per handler in the order in which `setup_logger` adds them; `Renamed` is the loop over a filter's `change` |
| `LogPipelineProofs` | | theorems about `LogPipeline` |
| `Logs`, `LogsProofs` | | the entries of a log with some action, the first and last of some positions, a sequence without some elements, sequences joined; lemmas about them |
| `LoginCapture` | the promise | `offered`, `captured`; `Admit`, `Handle` |
| `Connections` | the reactor's side of a connection, `base_server.py:136-161` | `link` per connection, `read` (history), `events` (the log); `Log`, `CheckLogin` |
| `TelnetServer` … `IrcServer`, `HttpServer` (13 modules) | one `*_server.py` each | EXTENDS `Connections`; the attributes of the protocol object per connection; one action per branch of `dataReceived` (or command handler), with its early returns and exceptions |
| `LoginServers` | | composes these thirteen: the server that was chosen, the variables of the others stay empty. Its assumptions say what arrives in each protocol |
| `PacketServersProofs`, `LoginServersProofs` | | theorems about `LoginServers`, the refinement of `LoginCapture` among them; the first has what all share and the invariants of postgres, mysql, vnc, ldap, mssql and redis, the second those of the other seven and the theorems |
| `SshServer` | `ssh_server.py:85-245` | `thread`: where `handle_connection` is; `transport`, `channel`, `failures`: paramiko's; the callbacks of `SSHHandle`, and of `ServerInterface` where it overrides none, are actions of the client that may come between any two steps of the thread; `Welcome` is a step that the client allows |
| `Socks5Server` | `socks5_server.py` | one action per `recv()`, of any part of what has arrived |
| `RdpServer` | `rdp_server.py` | one action per PDU or suppressed exception of `ConnectionHandle.run` |
| `ElasticServer` | `elastic_server.py` | the main thread, which accepts and shakes hands for all, and a thread per connection |
| `ThreadServers` | | composes `SshServer`, `Socks5Server`, `RdpServer` and `ElasticServer`: the server that was chosen, the variables of the others stay empty |
| `ThreadServersProofs` | | theorems about `ThreadServers`, the refinement of `LoginCapture` among them |
| `Queries` | a request handled at once in the reactor | EXTENDS `Connections`; `replies` (history). Over UDP each address may send at any time, so losses and reorderings are among the behaviours |
| `StatelessServers` | `memcache_server.py`, `pjl_server.py`, `oracle_server.py`; `http_proxy_server.py`; `smb_server.py` | one action per way through the handler |
| `DatagramServers`, `IppServer` | `snmp_server.py`, `ntp_server.py`, `dhcp_server.py`; `ipp_server.py` | `ParseAttributes` and `ParseOptions` are the loops of the code over bytes as folds, checked against the request the bytes were made of |
| `PendingServers` | `sip_server.py`, `dns_server.py` | `pending`: Twisted's list of messages, the look-ups that wait. An answer of sip may raise after the log (`Answerable`) |
| `Sniffer` | `sniffer.py` | `pending`: the sniffer's own answers, which it will see as well if they could be sent |
| `QueryServers` | | composes these: the honeypot that was chosen, with what may arrive at each of them. Its assumptions say how that looks |
| `QueryServersProofs` | | theorems about `QueryServers` |
| `MC*` | | constants for TLC. Which honeypot of `LoginServers`, `ThreadServers` or `QueryServers` runs is chosen in the initial state |

Definitions keep the names of the code where TLA+ has them free. Comments that start with
`MUTANT of X` mark a variant of `X` with a plausible bug, which shows that a property is
able to fail; nothing else uses them.

Abstractions that are common to the modules:

* **Life cycle.** All servers listen on one address. Time is not modelled: a wait with a
  timeout ends by its condition or, while that is false, by the timeout. A socket in
  TIME_WAIT appears as a bind that fails for no visible reason. `run_server` is called once
  per server object, as every caller in the repository does. Ctrl-C, which reaches the
  children as well, is `Interrupt` together with `Crash` of the children.
* **Connections.** A chunk is what one call of the handler gets. For protocols whose handler
  takes a chunk for a message whatever it contains (postgres, mysql, vnc, ldap, mssql), the
  chunks are messages, wrong ones included; telnet, imap, redis, ldap and socks5 have chunks that
  cut messages. Passwords, names and commands are members of small sets, with their lengths
  where the code reads lengths (redis, ldap); of an LDAP name or password it is logged which
  bytes were taken for it. Wording, banners
  and the contents of replies are left out, but that a reply is sent is kept where the
  dialogue depends on it.
* **Libraries** (Twisted's protocols, paramiko, the socket module, ssl) are modelled from how
  the code uses them and marked external in the map.

## 3. The runs

| run | asks |
|---|---|
| `MCBaseServerHost` | Two servers (one needs TCP and UDP, with a port in its config) and a foreign process compete for two ports. In every interleaving, that of two binds of one child included: sockets have live owners, who serves owns all it needs and who starts at most its UDP half (`SocketsOwned`), a failed run leaves no child that serves or may come up (`FailedRunLeavesNothing`), the parent terminates only processes on the port it wants (`OnlyOccupantsTerminated`), and `run_server` and `kill_server` return although nobody is obliged to react to SIGTERM (`CallsReturn`). |
| `MCBaseServerTrusted` | Three TCP servers on a host where nobody else binds: at most one child is on its way (`StartExclusive`), and success means that this server's child has the port (`SuccessMeansBound`). Both need the assumption, since `service_has_started` asks only whether *somebody* listens; `tests/test_vnc_server.py` waits for the same reason. |
| `MCHoneypotsManager` | Fifteen command lines: `--setup` with all, with ports, unknown services and an entry that raises, both strategies, `--test`, `--sniffer`, and the chameleon mode. After `_stop_servers` nothing serves but those whose own `kill_server()` has failed (`StopReachesAll`), the list is that of the entries that were run (`HoneypotsAreTheEntriesRun`), nobody is taken down but for a shared port (`TakeoverNeedsSharedPort`), a signal ends the manager (`SignalEndsManager`), a test ends (`TestEnds`). |
| `MCHoneypotsManagerSharedPort` | refutes `PortIsPerHoneypot` (README.md:65): the port of `x:p` is used for the later entry `y` too, and shuts `x` down. |
| `MCHoneypotsManagerDefault` | refutes `DefaultPortUnlessAuto` (README.md:44-53): `--setup ssh` runs on a random port. |
| `MCLogPipeline` | Eight kinds of events under all combinations of handlers and six families of filters: the file has the event the terminal showed, as the text of a text if it is dumped twice (`FileIsTerminal`), filters are applied, a dropped event is dropped everywhere, a kept one arrives, with the exception that `remove_errors` makes (`ReachesSinks`). |
| `MCLogPipelineSqlite` | refutes `SqliteKeepsEvents` (README.md:153): captured commands never reach the database. |
| `MCLoginServers` | Thirteen honeypots in the reactor, each with two peers: who has answered the dialogue is logged with the answers (`EveryDialogueIsLogged`), every try is a login with its own verdict (`EveryTryIsLogged`; of redis and ldap it says which are logged as they were sent), and what is particular to vnc, ftp and imap; for all of them the refinement `KeepsPromise`, and which of the commands and requests sent are captured (`CommandsAreLogged`). |
| `MCLoginServersRedis` | refutes `PasswordIsTheOneSent` (README.md:294): ten bytes and more become the empty string. |
| `MCThreadServers` | ssh, socks5, rdp with one client and elastic with two: as above, which refused requests leave something in the log (`RefusalsAreDumped`), and `HandlerEnds`, the liveness of the threads. |
| `MCQueryServers` | Eleven honeypots that answer queries and the sniffer, each with two peers: which requests are logged under which sender, which are answered without being logged and which are logged without being answered, as each module states (`RequestsAreLogged`); the two parsers against the requests they were sent (`AttributesAreRead`, `OptionsAreRead`); late and shared answers of the resolver (`AnswersGoToAskers`); the sniffer's own packets (`OneAnswerPerScan`). |
| `MCThreadServersRdp` | refutes `CredentialsAreLogged` (README.md:390): RDP never logs a login. |

A run "refutes" a sentence of the repository's documentation by a behaviour of the code;
each is listed under `findings` with both places.

## 4. Bounds and why they are enough

* *Two ports, two or three servers, one foreign process.* Every conflict of the life cycle is
  between two parties about one port; the third server lets a run that has ended meet one
  that starts while another is cleaned up after. No counter needs a bound: processes and
  sockets are finite, and a server is run once. The theorems of section 6 do without
  these bounds.
* *Four entries on a command line*: one before, one that fails, one after, one that ends the
  loop. Every kind of entry occurs. The fifteen lines are one of each kind of `--setup` and all
  combinations of `--sniffer`, `--test` and `--auto` in the chameleon mode.
* *Query honeypots*: `MaxChunks = 3` for both peers together (2 and 1 for oracle, and for ipp
  and dhcp, which keep nothing between requests): a peer's request between two of another
  one's. IPP requests have up to three attributes out of seven (long and short, with and
  without a name, several values, numbers, an unknown tag), DHCP datagrams up to four options
  out of six, whose values look like tags and lengths; so each loop goes wrong in the middle,
  recovers, and ends at, before and after the end of the data. DNS has two questions, each with
  two possible answers. `Len(replies[c]) <= MaxChunks` bounds a sniffer that answers its own
  answers, which happens in a mutated form only.
* *Events and filters*: one event for each branch that looks at one; filters with one renaming,
  a chain of renamings, a removal of the renamed key, T-Pot's own filter. All subsets of the
  handlers.
* *`MaxChunks = 4`, for both peers together.* The longest dialogues (postgres, vnc, ldap, ftp
  with RNFR and RNTO) take three or four chunks; a second peer's chunk can come anywhere
  among three of the first. Every protocol has chunks that are right, wrong, empty, and
  (where the code reassembles nothing) torn. Symmetry over the two peers is sound: no
  module tells them apart.
* *`MaxPieces = 3`* for ssh: a line in two pieces and a third piece that is a control key. A
  client that types nothing more is a silent client; the 300 seconds of a session are looked
  at between two lines only. `AuthLimit = 2`, `MaxTries = 2`: a failure before the limit and
  the one that reaches it, by a password, a key or a method that is not logged. `MaxCommands = 1`: a command
  leaves nothing behind that a second one could meet. Pieces hold letters, white space, control
  keys and an ANSI sequence that ends with the next letter.
* *Streams of socks5*: other versions, no methods, several methods, empty fields, and fields
  whose bytes look like lengths; every way to cut each of them is considered.
* *RDP*: the loop's bound of eight turns is the code's own.

## 5. Fairness

* `MCBaseServerHost`: weak fairness of the parent's steps only. The parent is one thread and
  each of its waits has a timeout in the code; nothing is assumed about children or foreign
  processes, so `CallsReturn` holds for processes that ignore SIGTERM.
* `MCHoneypotsManager`: weak fairness of `main()`'s steps, and that a child that was told to
  stop does stop (the reactor's shutdown or the signal's default action). The latter is needed
  as the interpreter's exit handler joins the children without a timeout. `SignalEndsManager`
  excludes runs that were left by an exception, whose child is in no list, and ends of which
  a `kill_server()` has failed: there the code does wait for ever. For `TestEnds` the same fairness is enough: a test is one step, since the
  alarm ends a client after five seconds. `TestEnds` excludes the manager that was left by an
  exception of a test while a sniffer runs, and the sniffer whose `kill_server()` has failed:
  both are joined without having been told to stop.
* `MCThreadServers`: weak fairness of each connection's thread, and that paramiko's negotiation
  ends one way or the other (it has its own timeouts). A transport that is active need not end.
  Clients are obliged to nothing: an SSH client may stop typing and an RDP client may send
  anything. `Welcome` is not fair: `conn.send()` of `ssh_server.py:178` comes before
  `settimeout(10)`, so a client that opens a channel without a window keeps the thread as
  long as it likes, and `HandlerEnds` excludes just that (`IsHeld`). A SOCKS5 thread waits for ever
  for a silent client (no timeout in the code), so its liveness is stated for clients
  that close or reset; that of elastic is conditional, see section 7.
* The other runs check safety only.

## 6. What is proved

`LifeCycleProofs` proves for any sets of servers, ports, foreign processes, and any
assignment of transports, default ports and configured ports that satisfies
`ServersAssumption`:

| theorem | property |
|---|---|
| `TypeCorrect` | `TypeOK` |
| `MethodAlwaysConsistent` | `MethodConsistent` |
| `SocketsAlwaysOwned` | `SocketsOwned` |
| `FailedRunsLeaveNothing` | `FailedRunLeavesNothing` |
| `OnlyOccupantsAreTerminated` | `OnlyOccupantsTerminated` |
| `StartsExclusive` | `StartExclusive` |
| `SuccessAlwaysMeansBound` | `SuccessMeansBound`, under `TrustedHost` |

The argument. `TypeOK /\ MethodConsistent` is inductive: `MethodConsistent` relates the
parent's position in a method to the process of the method's server, in particular that a
server has no process before its fork and that a process that was told to terminate does not
come up. With it, a step that binds or forks concerns a process nobody else refers to;
`SocketsOwned` is split into `OwnersLive` (who owns a socket is alive and owns only its
own, and who starts at most the UDP half of two) and `ServersOwn` (who serves owns all it needs),
each of which is preserved given the other: the bind that makes a child serve is that of the last
socket it needs. `FailedRunLeavesNothing` is inductive relative to these: no action revives
a process. The action property `OnlyOccupantsTerminated` follows from the invariants in one
step, by the cases of `BaseNext`. On a trusted host the invariant `Exclusive` strengthens
`StartExclusive`: the child that is being awaited is the only one in `starting`, and the port
it will bind is free or its own; it is preserved since a bind by a server needs `starting`
and a failed run ends in a cleanup. `SuccessMeansBound` is then a property of one step:
the poll that succeeds sees a holder of the port, and there is only one candidate. (It is about
TCP servers. Of one with both transports the poll is content with the UDP half, as
`_service_runs` asks for the number of the port only.)

The second part of `LifeCycleProofs` proves for any set of command lines that satisfies
`CommandLinesAssumption`, on the same hosts:

| theorem | property |
|---|---|
| `ManagerIsAScript` | the manager implements `BaseSpec`: it calls `Construct`, `RunServer` and `KillServer` only when and with what they may be called, so all theorems above hold of its honeypots |
| `ManagerTypeCorrect` | `ManagerTypeOK` |
| `StopAlwaysReachesAll` | `StopReachesAll` |
| `ListIsTheEntriesRun` | `HoneypotsAreTheEntriesRun` |
| `TakeoversNeedSharedPorts` | `TakeoverNeedsSharedPort` |

The argument. `OwnTypeOK` types the manager's own state and adds that an entry that is being
run exists; under it every step of the manager is a step of `BaseNext` or leaves the servers
alone. `StopReachesAll` is not inductive: at `ending = "stop"` it speaks of all servers, and
what makes it true happened in the loop before. `StopInv` says which method the manager is in
(`InCall`), that every child that serves or may come up is a recorded honeypot or the one
being started (`AwakeKnown`), and that during the loop it is one of those still pending, the one whose `terminate()` comes
next, or one that could not be killed (`AwakePending`). The environment never wakes a
child, a method wakes only its own server's, and `kill_server` does not wake any.

For the other two: the list alone says nothing of entries that are being run or come later, so
`EntriesInv` adds to the property that only entries before `next` are in the list
(`EntriesUpToNext`), which results the entry `next` may have at each place of `main()`
(`ResultOfNext`), and that an entry is in the list exactly when it was run, at any time and not
only after the start (`ListIsComplete`). The lemmas `EntriesNextEntry`, `EntriesRun`,
`EntriesInMethod`, `EntriesStarted` and `EntriesSniffer` take the steps that change the list,
the results or `next`; all others leave them alone (`EntriesStay`, `EntriesLeft`).
`TakeoverInv` replaces "some other server with that port" by one that was run or is being run
(`Displaced`), whose port is never changed again, and adds that the server whose start is
polled was not told to stop. Before the stop, a server is told to stop only by `close_port`
for another one's port (`StoppingParentStep`, from `SocketsOwned`) or in its own clean-up,
which makes its result an error.

`LogPipelineProofs` proves for any events and configs that satisfy `PipelineAssumption` (events
are dicts or lists whose keys are text; a filter's `change` is a dict, so it names each old
key once):

| theorem | property |
|---|---|
| `TypeCorrect` | `LogTypeOK` |
| `DroppedIsDropped` | `DroppedEverywhere` |
| `FilteredIsClean` | `FilterReachesSinks` |
| `FileShowsTerminal` | `FileIsTerminal` |
| `KeptIsShown` | `ReachesSinks` |

The argument. Every handler applies the whole filter to the record that the handlers before it
have changed, so all rest on what a second application does. The filter's loop over
`change` is a recursive function (`Renamed`); what holds after each of its rounds is proved by
`SetInduction`, which takes the set of rounds for which it holds instead of a predicate and
follows from the least element of its complement. So `RenamedKeys` says which keys the loop
leaves and adds, `RenamedIdle` that it does nothing where no old key is left, and
`FilteredTwice` that a filter without chains is idempotent. From there `StaysDropped` and
`StaysKept` carry the filter's verdict over a change and over `json.dumps`, where a key becomes
part of a text. The inductive invariants add to each property what the handlers that are
still to come will find: `DroppedInv` that the record is dropped as it is now, `ReachInv` that it is not, or is a text that was shown and holds the word of `remove_errors`,
`FilterInv` that a text is already clean, and `FileInv` that behind the terminal's branch the record is a
text that was shown, and how often it was dumped, or dropped.

`SshServerProofs` proves for any clients, any input of theirs, any credentials and options,
whatever the bounds of the runs:

| theorem | property |
|---|---|
| `SshTypeCorrect` | `TypeOK` of `SshServer` |
| `CommandsAlwaysNeedLogin` | `CommandsNeedLogin` |
| `SessionsLogged` | `SessionIsLogged`, if what arrives consists of keys (`PiecesAreTexts`) |

The argument. `CommandsNeedLogin` compares what a client may do now with what the log holds of
earlier steps, so the proofs are about growing sequences: `LogAppends` and `LogExtends` say
what appended entries leave alone, and `NewEvent`, `OtherEntries` and `LoginEntry` what it
means for the logins in a log. `CommandsNeedLogin` speaks of entries that are in the log
already; what makes it inductive is `StagesOK`: who is authenticated or has a channel has a
login in the log that grants it, and only who has a channel is at the prompt. After a
successful authentication no further request is answered (`Tried`), so nobody loses what was
granted.

`SessionIsLogged` compares two texts, the lines in the log joined and what ANSI_REGEX has left of
the pieces received joined, both without white space. `SessionInv` adds that nothing was received
before the session and that a line begins empty. The proof of `PieceKeeps`, the only step
that receives, rests on what the operators do: `Dropping` distributes over concatenation
(`DroppingConcat`), stripping a line takes away only white space, which `Ink` leaves out anyway
(`StripKeepsInk`), and one more entry or piece adds its own text at the end (`NewLine`,
`OnePieceMore`).

The log is filtered by `At`, `Matching` and `Dropping` of `Logs`, recursive functions that say
what `SelectSeq` says; `LogsProofs` proves what they do with one more element, by
`SetInduction` and, for sequences, `GrowingSequence`: a set that has the empty sequence and
with a sequence its extensions has them all. Both take a set where the library's induction
theorems take a predicate, which no prover here can instantiate.

`ThreadServersProofs` proves for any choice of honeypots, any connections, clients,
credentials and options of the composed module:

| theorem | property |
|---|---|
| `TypesAreKept` | `TypeOK` |
| `CommandsAlwaysNeedLogin` | `CommandsNeedLogin` |
| `SessionsAreLogged` | `SessionIsLogged` |
| `LoginsAreExact` | `LoginIsExact` |
| `DialoguesAreClosed` | `DialogueIsClosed` |
| `RefusalsAreAlwaysDumped` | `RefusalsAreDumped` |
| `PromiseIsKept` | `KeepsPromise`: the refinement of `LoginCapture` |

The assumptions say what arrives and what is configured: pieces of keys (`PiecesAssumption`),
streams of bytes (`StreamsAssumption`), texts between colons in a header and a configured name
of elastic that has at least one, the empty one if need be (`ElasticAssumption`), that socks5, ssh and rdp
have connections among all (`AloneAssumption`), and that `Nobody` is none (`NobodyAssumption`).

The argument. `Inv` is the inductive invariant of the server that was chosen.

* ssh: that of `SshServerProofs`, whose lemmas are cited through the instance, and `SshPhases`:
  what the two threads of a connection know of each other. Who is negotiating or active has
  been logged, and a handler that has ended has left a transport that is down.
* socks5: `SocksState` says at each `recv()` how much of the stream has been read and how much
  is asked for. Both depend on the lengths in the stream itself: before the password the
  position is 5 plus the number of methods plus the length of the name, unless a
  `recv()` fell short before. `SocksMore` says that what the client adds changes none of it.
* rdp: `RdpOK` is the whole sequence of replies at each place, in the loop the opening and a
  confirmation per short PDU (`Confirmations`, with `OneMoreConfirmation`).
* elastic: `ElasticOK` has the one request of a connection and the log that it leads to
  (`AnswerLog`), which names all ways through `do_GET`, those that raise included.

For the refinement `PhasesAre` and `PhasesWillBe` unfold the map, and `CaptureStep` reduces a
step to one connection: what is seen of it stays, or it is admitted, or it is handled.
`Quiet`, `Admits` and `Handles` are the three cases in terms of `thread` and `events`, and
`SshCaptures`, `SocksCaptures`, `RdpCaptures` and `ElasticCaptures` sort the actions into them.
What a peer has offered only grows (`HalvesGrow`, `RdpOffersGrow`, `SshOffersGrow`): in socks5
because parts of a stream are parts of every longer one. What is logged is offered: of
elastic since a name and a password that are logged are two parts of the header
(`AnswersAreOffered`), of socks5 by the invariant after the step, of ssh since a request and
its entry are one step. Nothing is logged after the end: the handler of ssh closes the
transport before it ends, which is what `SshPhases` is for; without that conjunct a
callback could still log a try of a peer that is gone.

`LoginServersProofs`, on top of `PacketServersProofs`, proves for any choice of honeypots, any
connections, chunks, credentials, word lists and options of the composed module, and any bound
on the number of chunks:

| theorem | property |
|---|---|
| `TypesAreKept` | `TypeOK` |
| `DialoguesAreLogged` | `EveryDialogueIsLogged` |
| `TriesAreLogged` | `EveryTryIsLogged` |
| `SuccessAlwaysConfigured` | `SuccessIsConfigured` |
| `ShellsNeedLogin` | `ShellNeedsLogin` |
| `LiteralsCostOneLogin` | `LiteralCostsOneLogin` |
| `CommandsAreCaptured` | `CommandsAreLogged` |
| `PromiseIsKept` | `KeepsPromise`: the refinement of `LoginCapture` |

The assumptions say what may arrive: telnet chunks are runs of text and commands
(`TelnetAssumption`), LDAP names and passwords have a length of two bytes at most, of which some may
be missing (`LdapAssumption`), MSSQL
passwords are of ASCII characters (`MssqlAssumption`), redis fields have a length and arrays a count of
less than a million (`RedisAssumption`), lines have a word, forms have pairs of a name and a value, and no word is
the mark `NoUser` of "no user yet" (`LinesAssumption`); and what may be configured: hashes are
no words for a missing hash (`MysqlAssumption`), the word list is a sequence of texts
(`VncAssumption`).

The argument. A step changes one connection, so the invariants are stated of values and not of
variables: `XOK(l, r, e, ...)` says of one connection of honeypot X what its link `l`, what was
read of it `r`, its log `e` and the attributes of its protocol object have to do with each
other, and `XInv` says so of all connections. For every action there is a lemma about `XOK`
alone, with sequences that grow by one element; the lemma `XFrame` takes it to `XInv`, since
the other connections keep their values. `XOK` is the part that makes the properties
inductive, none of which is so by itself:

* telnet: what was read splits into runs that were answered and those in the buffer
  (`TelnetSplit`), for TCP chunks with any number of runs; the logins are the first answered
  run with each later one (`TelnetDone`), and only a closing connection has more than one answer.
* postgres, vnc, ldap: the state is a function of what was read, and the log is known at each
  state: in postgres the user of the second chunk with the password of the third, if both can be
  read. In ldap a chunk that is plain (`IsPlain`) is read as it was sent, by arithmetic on the
  bytes of a length, and any other one gives parts of what was sent or nothing. In vnc the response that `SuccessIsConfigured` speaks of was matched against the word
  list by an earlier step (`VncTried`).
* mysql, smtp, irc, http: the log is a function of what was read (`MysqlLog`, `SmtpNames`,
  `IrcNames`, `HttpNames`), with verdicts (`HttpVerdicts`); in smtp with the exception of a
  malformed AUTH, after which nothing is read (`SmtpGood`). irc keeps the password of the last
  PASS, which is a fact about all lines so far (`IrcUser`).
* pop3: a user is kept exactly while a USER waits for its PASS (`Pop3Pending`), and the logins are
  the pairs found so far (`Pop3Found`).
* ftp: who is in a shell has the configured credentials as last login (`FtpLast`); lines of
  commands logged after it do not hide it, and a `USER` leaves the shell.
* imap: `ImapCounts` counts whole and begun logins against the log with the literal that still
  waits on its own side, without which the property is not preserved.
* mssql: as many refusals as logins (`MssqlCount`), and by arithmetic on the two halves of a
  byte that of an ASCII password all characters but Z survive encryption, removal of 0 and A5,
  and decryption. redis: a connection that is open has sent nothing
  yet, and a field that is short is read whole, as its length is its first digit.

For the refinement `Moves` states of one connection what a step of `LoginCapture` may do to it;
each protocol shows it of its actions (`XMoves`): what is offered only grows, as a function
of what was read, and a login that is logged is among what is offered after the step, one at
most, while the phase is open. `Viewed` and `Sees` say that what `LoginCapture` sees is what the
invariants speak of (of vnc, passwords stand for the responses they give), and `CaptureStep` puts
the connections together. `NoneOffered` is the initial state, `Stutters` the rest.

`QueryServersProofs` proves for any choice of honeypots, any addresses, any requests and any bound
on their number:

| theorem | property |
|---|---|
| `TypesAreKept` | `TypeOK` |
| `RequestsAlwaysLogged` | `RequestsAreLogged` |
| `OptionsAlwaysRead` | `OptionsAreRead` |
| `AnswersReachAskers` | `AnswersGoToAskers` |
| `ScansAnsweredOnce` | `OneAnswerPerScan` |

The assumptions say how requests look: the first line of a memcache chunk has words
(`MemcacheAssumption`), PJL chunks are pieces of text (`PjlAssumption`), descriptors have items
with a name and a value, of which what ends in "=" is known (`OracleAssumption`), DHCP options have a tag and a value of bytes or are a
pad (`DhcpAssumption`), what NTP looks at is a byte (`NtpAssumption`), SIP messages are requests
or responses with a Via header, none, or one that cannot always be answered (`SipAssumption`), IPP
requests consist of bytes (`IppAssumption`); and every DNS question has some answer, if an empty one
(`DnsAssumption`).

The argument. As for the login honeypots, `XOK` relates the link, what was read, the log and the
answers of one connection; `Changed` and `Stepped` put the connections together, and `Reads`,
`Comes` and `Goes` are the three things that happen to one. Most logs are a function of what
was read, request by request (`Through`) or of those that say something (`Selected`); what makes
the rest inductive:

* oracle: the parser is a choice among positions of items, so `OracleParses` says of any descriptor
  that a field that is logged is one of its items.
* dhcp: the parser is a recursion over bytes and the property speaks of options. `OptionIsRead`
  goes through the bytes of one value, `ParsedMore` through the options: behind each the loop is
  idle and has the last values, or it has met an option that ends it (`Ended`) and keeps its
  state whatever follows.
* sip: `AllSent` and `AllTold` are what all peers together have sent and what the log has of it under
  any address. `Accounted` says that what was told was sent and that what was due was told or is in
  the list, whichever answers have raised; `Even`, that as long as every message sent is
  sound, the list is empty and the log is exact, which one message that raises ends for good.
* dns: `Balanced` is one equation per address and question: asked as often as waiting and answered
  together, and the items in the log are between the least and the most that so many answers
  may have (`Fair`). An answer moves all that wait at once, so the lemmas count selected elements of
  sequences (`CountSelected`, `SelectedCopies`, `CopiesAre`).
* sniffer: scans in the log are as many as the scans read, answers at most as many, and at most as
  many answers as were sent are still to be seen (`SniffOK`); an own answer is not a scan
  (`ScansLogged`).

Model-checked only: `DefaultPortUnlessAuto` and `PortIsPerHoneypot`, which the code refutes;
`SqliteKeepsEvents`, `CredentialsAreLogged` and `PasswordIsTheOneSent`, which it refutes as well;
`AttributesAreRead`, of the IPP parser, which is a fold of the community modules over an operator
of its own; all liveness
(`CallsReturn`, `SignalEndsManager`, `TestEnds`, `HandlerEnds`), as the prover has no fairness
reasoning for ENABLED. `MethodConsistent` is proved and not checked in a run of its own.

## 7. What the code does that its documents do not say

Besides the five runs that refute a sentence of the documentation, modelling showed:

* `__main__.py:201, 294` warn that the config overrides `--port`; `base_server.py:39-47`
  lets the argument win (`InitPort`).
* `--kill` (README.md:30) kills nothing: `clean_all()` looks for `--custom` in command lines,
  which forked children do not have (`ExitHandler` is therefore a stutter on processes).
* A server with both transports counts as started when only its UDP half is bound: `_service_runs`
  looks for the number of the port. If the TCP half fails then, `run_server` has reported a success.
* `kill_server()` expects `join()` to raise `TimeoutError`, which it does not, so a child that
  ignores SIGTERM stays (`KillServerJoin`); `FailedRunLeavesNothing` therefore says "told to
  stop", not "gone".
* "db_postgres" (README.md:131-134) adds no handler: nothing is logged.
* A terminal together with `dump_json_to_file` (or syslog) dumps an event twice: a line of the
  file is then the JSON text of a JSON text. With `remove_errors` an event whose text holds the
  word "error", in a password, say, is on the terminal and not in the file, as the filter asks
  a text for the word where it asked a dict for the key.
* Filters are applied once per handler to the same record; what they agree on holds for
  filters without chains (`OnePass`).
* Telnet takes every run of text for an answer, so a client that sends key by key
  is logged by its first keys; MSSQL passwords lose the letter Z
  (mssql_server.py:99), IMAP drops most literals' continuations; SOCKS5 logs wrong fields after a
  short read.
* Redis reads one digit of every number: an array of twenty fields counts as one of two, and a
  field of ten bytes or more is logged as the empty one, as is one that is torn or not of ASCII
  (its length in bytes is compared with that of a decoded text).
* LDAP takes the length of a name from one byte (`ldap_server.py:53`): of names of 128 bytes and more
  a part is logged, and what follows them is looked for at the wrong place. Of passwords of 128 to
  255 bytes the end is missing and a byte of the length is in front, although README.md:341 promises the
  password; `IsPlain` says which are read as they were sent.
* IRC: a chunk that does not decode is dropped with all its lines before anything is captured
  (`irc_server.py:47-53`), although README.md:373 says all commands and data. HTTP: of a request method
  and address are captured and not the body, against README.md:262. `CommandsAreLogged` is
  stated of what is captured (`Decoded`, `RequestLines`).
* HTTP: only urlencoded forms are read (the header names are bytes, so the content type is
  never found); a POST with a field given twice, or a field left empty, is not a login.
  Templates are text where Twisted wants bytes.
* Elastic: the TLS handshake is done by the thread that accepts, without a timeout: a client
  that connects and says nothing stops the server for all later ones. Credentials with more
  colons than one, or none, raise before anything is logged: no login, no dump, no answer.
* SSH: the methods none, with which OpenSSH begins, and keyboard-interactive are answered by paramiko's
  `ServerInterface` and not logged, but they count as failures. Of further channels nothing is
  logged but their commands. A line loses the white space at its ends and everything ANSI_REGEX matches in
  a piece, a letter that was typed after a lone ESC included. The welcome is sent without a
  timeout, so a client without a window keeps the thread.
* VNC: `check_bytes(None)` is the text "None", so the branch of `vnc_server.py:84` for an unknown
  password, which means to keep the response in hex, is never taken: two different
  responses are logged alike.
* IPP: the loop ends ten bytes before the data does (`ipp_server.py:249`), so the last attributes
  may be missing (`AttributesAreRead` says which). A header that raises is answered with OK and is
  not in the log. The request id is taken from the bytes 3 to 7 instead of 4 to 8.
* DHCP: an option of length zero hides all that follows, padding bytes are read as tags.
* NTP: a byte above 127 where the server looks for the precision cannot be packed, nor can the
  time in any answer after February 2036; `IsPacked`. Such datagrams are logged as failed.
* SIP: a message whose handling raises stays in Twisted's list with all before and behind it;
  each later datagram, of any sender, has those before it logged again under its own address.
  It may also raise behind its log, when the answer is delivered (a `received` that is no address,
  a port that is none); then it is itself among those that are logged again.
* SNMP version 1 is the number 0, so that an empty request of it is not logged as a query.
* Memcache logs the name of the first command and neither keys nor data, although README.md:351 promises
  data; a name that is empty or not UTF-8 is answered and not logged (`memcache_server.py:141-150`).
* DNS over TCP: the query is logged with the source "None" (`dns_server.py:38`).
* SMB: a login whose name has a colon is not logged.
* The HTTP proxy logs a connection for every chunk; its look-up blocks the reactor; `buffer` and
  `client` have no effect.
* Oracle refuses everybody; items behind one that cannot be decoded are lost, and so is a value
  that ends in "="; `USER_ID` and `PROGRAM_X` are read as user and program (`oracle_server.py:60-65`).
* The sniffer's `current_ip` is bytes, so its own packets are never left out. An answer that cannot be
  sent raises after the scan was logged, and the error is suppressed. That it does not
  answer itself for ever is due to its looking for SYN alone, and so it misses a SYN
  with ECN flags.
* Chameleon mode: `server.process` is always `None`, so the load statistics fail in every round
  (`__main__.py:376`), and the manager never comes to `_stop_servers` without `--test`.

## 8. What is left out

Each component without a module is in `PROJECT.json` under `components` with the reason: the
test clients (`test_server`, `testing.py`, `tests/`) are clients; `--list`, `--kill` and
`clean_all()` start nothing and reach none of the processes of this program; packaging has
no behaviour. Inside the modelled components: redis fields that
hold line ends, bytes of SSH input that are not UTF-8 (they become replacement characters), binds of
LDAP with a message id of 3 (whose encoding the code takes for the protocol version) and LDAP names and
passwords beyond ASCII; file rotation, certificate creation, the
wording of replies, the replies of the fake SSH shell, canned answers, statistics, the
tables' names of IPP, and what Twisted, paramiko, scapy and impacket do by themselves.

## 9. Plan

Done: life cycle, manager with chameleon mode, sniffer and tests, log pipeline, all honeypots,
and the theorems about life cycle, manager, log pipeline, the login honeypots, with threads
and in the reactor, with their refinement of `LoginCapture`, and the query honeypots. What could
follow, in this order:

1. `AttributesAreRead` as a theorem: the parser of IPP over any attributes, as that of DHCP
   over any options.
2. The log pipeline composed with a session, so that what reaches a file is stated in terms of
   what a peer has sent.
3. A larger life cycle run: a server that is run again on the same object, should a caller of
   the repository ever do so.
