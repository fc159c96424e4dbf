SPECIFICATION Spec
CONSTANTS
    f = f
    g = g
    Functions = {f, g}
    NoFunction = none
    Reads <- MCReads
    Programs <- MCPrograms
    Inferred = {"int32_t", "int64_t", "uint64_t", "void*", "uint8_t*"}
    Scalars <- MCScalars
    Pointers = {"void*", "uint8_t*"}
INVARIANTS
    TypeOK
    ConvergesWithinBound
    NothingInvented
    ReadsNoWider
