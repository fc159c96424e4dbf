CONSTANTS
  Functions <- MCFunctions
  Operations <- MCOperations
  Lifted <- MCLifted
  Printable <- MCPrintable
  Framed <- MCFramed
  FrameRegisters <- MCFrameRegisters
  PassedOnStack <- MCPassedOnStack
  StackHome <- MCStackHome
  Lane <- MCLane
  NonVolatile = {"RBX", "RBP", "RDI", "RSI"}
  Volatile = {"RAX", "RCX", "RDX", "R10"}
  VectorNames = {"YMM0"}
  StackSlots = {"local_8", "var_8", "var_16"}
  MaxSweeps = 16
  Inputs <- MCInputs
  Answers <- MCAnswers
  ReturnNames <- MCReturnNames
  ParamNames <- MCParamNames
  SuffixOf <- MCSuffixOf
  Results = {"scf_r1", "scf_r2", "scf_r3", "scf_r950000", "scf_r950001"}
  Guards = {"scf_w1"}
  Registers = {"rax", "rbx", "rcx", "rbp", "rsp", "rsi", "r10", "_promoted_1"}
  Temporaries = {"v1", "v2", "v3"}
  StackOffset <- MCStackOffset
  SemanticMap <- MCSemanticMap
  Unsuffixed <- MCUnsuffixed
  RepWrapped <- MCRepWrapped
  DoWrapped <- MCDoWrapped
  Mnemonics = {"ADCmem", "ADDPS", "MOVSB"}
  Promoted = {"_promoted_1"}
  FlagVariables = {"__flags"}
  PostCalls = {"__helix_post_call_f"}
  FloatNames = {"ymm0"}
  BlockArguments = {"block_arg0"}
  Numbered = {"v1", "v2", "v3", "v4", "v5", "v6", "v7", "v8"}
  LowOnes = 65535
  TypedNames = {"param_2"}
  PointerNames = {"ptr"}
  NumberNames = {"local_1", "local_2", "local_3"}
  RegisterNamed = {"rax", "rbx", "rcx"}
  OpcodeNames = {"add_with_carry"}
  UnhandledCalls = {"__helix_unhandled_f", "__helix_unhandled_cf_scf_if",
                    "__helix_unhandled_cf_scf_index_switch"}
  Irreducible = {"loc_irr_1"}
  CalleeAt <- MCCalleeAt
  Indirect <- MCIndirect
  Virtual <- MCVirtual
  CodeLabels <- MCCodeLabels
  Window = 64
  CodeBase = 128
  Strings <- MCStrings
  ReadOnly <- MCReadOnly
  RegisterReads <- MCRegisterReads
  RegisterWrites <- MCRegisterWrites
  VoidCallees = {"nothing"}
  MemoryReads = {"__remill_read"}
  UpperCase = {"MOVSB"}
  MaxSimpleDepth = 3
  MaxTotalDepth = 8
  MaxRounds = 8
  MaxIterations = 8
  Fuel = 6
SPECIFICATION Spec
INVARIANTS TypeOK NoRegisterShown
PROPERTIES PrintsAsC MeaningKept ScoreIsHonest
CHECK_DEADLOCK FALSE
