\* Redis clients, some with long passwords.
SPECIFICATION Spec
CONSTANTS
    c1 = c1
    c2 = c2
    Conns = {c1, c2}
    MaxChunks = 2
    NoUser = NoUser
    Honeypots = {"redis"}
    Chunks <- Sent
    Configured <- Logins
    CaptureCommands = TRUE
    MysqlWords = {"p"}
    WordsAreText = FALSE
    VncWords <- Words
    Encode <- Responses
    Anonymous = "anonymous"
SYMMETRY Peers
INVARIANTS PasswordIsTheOneSent
CHECK_DEADLOCK FALSE
