\* A shared host: a foreign process that may be signalled competes for the ports.
CONSTANTS
    a = a  b = b  p = p  q = q
    NoPort = NoPort  Free = Free  Nobody = Nobody
    Servers = {a, b}
    Foreign = {f}
    Ports = {p, q}
    Transports <- Mixed
    DefaultPort <- Defaults
    ConfigPort <- ConfigB
    Bindable = {p, q}
    Killable = {f}
SPECIFICATION FairBaseSpec
INVARIANTS TypeOK SocketsOwned FailedRunLeavesNothing
PROPERTIES OnlyOccupantsTerminated CallsReturn
CHECK_DEADLOCK FALSE
