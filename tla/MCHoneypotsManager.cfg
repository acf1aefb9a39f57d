\* Fifteen command lines on a host where a foreign process competes for the ports.
CONSTANTS
    p = p  q = q
    NoPort = NoPort  Free = Free  Nobody = Nobody
    Sniffer = Sniffer
    CommandLines <- EveryLine
    Servers <- Entries
    Foreign = {f}
    Ports = {p, q}
    Transports <- TcpOnly
    DefaultPort <- DefaultEach
    ConfigPort <- NoConfig
    Bindable = {p, q}
    Killable = {f}
SPECIFICATION FairSpec
INVARIANTS ManagerTypeOK StopReachesAll TakeoverNeedsSharedPort HoneypotsAreTheEntriesRun
PROPERTIES SignalEndsManager TestEnds
CHECK_DEADLOCK FALSE
