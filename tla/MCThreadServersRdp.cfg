\* RDP clients.
SPECIFICATION Spec
CONSTANTS
    c1 = c1
    Conns = {c1}
    Alone = {c1}
    Nobody = Nobody
    Honeypots = {"rdp"}
    MaxPieces = 1
    Users = {"u"}
    Passwords = {"p", "q"}
    Keys = {"k"}
    Commands = {"id"}
    Pieces <- Typed
    SshLogin <- SshUser
    Interactive = TRUE
    CaptureCommands = TRUE
    AuthLimit = 2
    MaxTries = 2
    MaxCommands = 1
    Streams <- Clients
    Socks5Login <- Socks5User
    Pdus <- AnyPdu
    Requests <- AnyRequest
    ElasticLogin <- ElasticUser
INVARIANTS CredentialsAreLogged
CHECK_DEADLOCK FALSE
