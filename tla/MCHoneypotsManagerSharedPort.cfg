\* --setup x:p,y
CONSTANTS
    p = p  q = q
    NoPort = NoPort  Free = Free  Nobody = Nobody
    Sniffer = Sniffer
    CommandLines <- OnlyFirstPort
    Servers <- Entries
    Foreign = {}
    Ports = {p, q}
    Transports <- TcpOnly
    DefaultPort <- DefaultEach
    ConfigPort <- NoConfig
    Bindable = {p, q}
    Killable = {}
SPECIFICATION Spec
INVARIANTS PortIsPerHoneypot
CHECK_DEADLOCK FALSE
