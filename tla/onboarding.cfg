SPECIFICATION Spec
CONSTANTS
    Commands = {c1, c2}
    Bodies <- MCBodies
    EnvNames = {"db"}
    Falsy <- MCFalsy
    Requests <- MCRequests
    AccountLists <- MCAccountLists
    Edits <- MCEdits
    Found <- MCFound
    Hosts <- MCHosts
    Numerals <- MCNumerals
    MaxEdits = 1
    MaxChanges = 2
    MaxLoops = 1
    Absent = Absent
    Unreadable = Unreadable
    None = None
    NotAName = NotAName
SYMMETRY Symmetric
INVARIANTS
    TypeOK
    FileLoads
    EgressIsConfigured
    RefusedUnseen
PROPERTIES
    BootstrapIsAtomic
    InitKeepsAccounts
    RegistersWhatItWrote
CHECK_DEADLOCK FALSE
