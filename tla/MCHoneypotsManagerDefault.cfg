\* --setup x
CONSTANTS
    p = p  q = q
    NoPort = NoPort  Free = Free  Nobody = Nobody
    Sniffer = Sniffer
    CommandLines <- OnlyOne
    Servers <- Entries
    Foreign = {}
    Ports = {p, q}
    Transports <- TcpOnly
    DefaultPort <- DefaultEach
    ConfigPort <- NoConfig
    Bindable = {p, q}
    Killable = {}
SPECIFICATION Spec
INVARIANTS DefaultPortUnlessAuto
CHECK_DEADLOCK FALSE
