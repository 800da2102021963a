SPECIFICATION Spec
CONSTANTS
    Keys <- MCKeys
    KeyType <- MCKeyType
    MaxEntries = 2
    MaxPatternsPerLine = 2
    MaxLookupNameBytes = 7
    HashedHosts = TRUE
    CommandLines <- MCCommandLines
    Hosts <- MCHosts
    Ports <- MCPorts
    Pins = {"k1", "r1"}
    Files <- MCFiles
INVARIANTS
    TrustAsConfigured
    PolicyExact
    ReportsAuthenticated
PROPERTIES
    OutcomeFinal
    ProgramExits
