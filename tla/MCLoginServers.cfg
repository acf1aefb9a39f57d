\* Thirteen protocols, each with two clients.
SPECIFICATION Spec
CONSTANTS
    c1 = c1
    c2 = c2
    Conns = {c1, c2}
    MaxChunks = 4
    NoUser = NoUser
    Honeypots = {"telnet", "postgres", "mysql", "vnc", "ldap", "mssql", "pop3", "ftp", "imap",
                 "redis", "smtp", "irc", "http"}
    Chunks <- Sent
    Configured <- Logins
    CaptureCommands = TRUE
    MysqlWords = {"p"}
    WordsAreText = FALSE
    VncWords <- Words
    Encode <- Responses
    Anonymous = "anonymous"
SYMMETRY Peers
INVARIANTS TypeOK EveryDialogueIsLogged EveryTryIsLogged SuccessIsConfigured ShellNeedsLogin
           LiteralCostsOneLogin CommandsAreLogged
PROPERTIES KeepsPromise
CHECK_DEADLOCK FALSE
