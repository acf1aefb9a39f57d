\* Eleven protocols and the sniffer, each with two peers.
SPECIFICATION Spec
CONSTANTS
    c1 = c1
    c2 = c2
    Conns = {c1, c2}
    Honeypots = {"memcache", "pjl", "oracle", "httpproxy", "ipp", "dhcp", "snmp", "ntp", "sip",
                 "dns", "smb", "sniffer"}
    MaxChunks <- MCMaxChunks
    Chunks <- MCChunks
    Undecodable <- MCUndecodable
    Eras = {0, 1}
    NoAddress = NoAddress
    Answers <- MCAnswers
SYMMETRY Peers
INVARIANTS TypeOK RequestsAreLogged AttributesAreRead OptionsAreRead AnswersGoToAskers OneAnswerPerScan
CHECK_DEADLOCK FALSE
