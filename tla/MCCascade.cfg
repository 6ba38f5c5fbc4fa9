SPECIFICATION FairSpec
CONSTANTS
  Entity <- MCEntity
  Mem = {"mem"}
  Reg <- MCReg
  Input <- MCInput
  Canon <- MCCanon
  Action <- MCAction
  Target <- MCTarget
  Plain <- MCPlain
  Events <- MCEvents
  Guard <- MCGuard
  Addr <- MCAddr
  Exec <- MCExec
  Group = {3}
  Value = {0, 1}
  Row = {0, 1}
  Fn <- MCFn
  WordBits = 3
  SccIterCap = 4
  RoundCap = 5
  Drive <- MCDrive
  Clock = {"clk"}
  Convention = "settle_then_pulse"
  Switches = {}
  WordSizes = {1}
  ByteRegs = {{}}
INVARIANTS
  NothingLeftBehind
  Quiescent
PROPERTIES
  ImplementsEvalSpec
