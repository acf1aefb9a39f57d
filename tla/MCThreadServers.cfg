\* Four protocols: three with one client, elastic with two.
SPECIFICATION Spec
CONSTANTS
    c1 = c1
    c2 = c2
    Conns = {c1, c2}
    Alone = {c1}
    Nobody = Nobody
    Honeypots = {"ssh", "socks5", "rdp", "elastic"}
    MaxPieces = 3
    Users = {"u"}
    Passwords = {"p", "q"}
    Keys = {"k"}
    Commands = {"id"}
    Pieces <- Typed
    SshLogin <- SshUser
    Interactive = TRUE
    CaptureCommands = TRUE
    AuthLimit = 2
    MaxTries = 2
    MaxCommands = 1
    Streams <- Clients
    Socks5Login <- Socks5User
    Pdus <- AnyPdu
    Requests <- AnyRequest
    ElasticLogin <- ElasticUser
INVARIANTS TypeOK CommandsNeedLogin SessionIsLogged LoginIsExact DialogueIsClosed RefusalsAreDumped
PROPERTIES KeepsPromise HandlerEnds
CHECK_DEADLOCK FALSE
