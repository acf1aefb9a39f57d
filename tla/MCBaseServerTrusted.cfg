\* A host of its own: nobody but the honeypots binds ports, all are TCP.
CONSTANTS
    a = a  b = b  p = p  q = q
    NoPort = NoPort  Free = Free  Nobody = Nobody
    Servers = {a, b, c}
    Foreign = {}
    Ports = {p, q}
    Transports <- TcpOnly
    DefaultPort <- Defaults
    ConfigPort <- NoConfig
    Bindable = {p, q}
    Killable = {}
SPECIFICATION BaseSpec
INVARIANTS StartExclusive
PROPERTIES SuccessMeansBound
CHECK_DEADLOCK FALSE
