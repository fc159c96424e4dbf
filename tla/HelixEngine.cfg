SPECIFICATION Spec
CONSTANTS
    ir1 = ir1
    ir2 = ir2
    a1 = a1
    a2 = a2
    s1 = s1
    s2 = s2
    Ir = {ir1, ir2}
    NoIr = NoIr
    Addr = {a1, a2}
    Bytes = {s1, s2}
    NoBytes = NoBytes
    StringsOf <- MCStringsOf
    StartsOf <- MCStartsOf
    CallerSections <- MCCallerSections
    StartTables <- MCStartTables
    DebugInfos = {d1}
    NoDebug = NoDebug
    OldNames = {v0}
    NewNames = {n1}
    NoName = NoName
    Nightly = {"HelixLowSimplify"}
    UnknownPass = UnknownPass
    TextSize <- MCTextSize
    HastSize <- MCHastSize
    Capacities = {0, 2}
    MaxSections = 2
INVARIANTS
    TypeOK
    LoweredForEmitter
    ProviderScoped
    ErrorTellsOutcome
PROPERTIES
    ImplementsContract
