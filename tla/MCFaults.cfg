SPECIFICATION FairSpec
CONSTANTS
  Entity <- MCEntity
  Mem = {"mem"}
  Reg <- MCReg
  Input <- MCInput
  Canon <- MCCanon
  Action <- MCAction
  Target <- MCTarget
  Plain <- MCPlain
  Events <- MCEvents
  Guard <- MCGuard
  Addr <- MCAddr
  Exec <- MCExec
  Group = {1}
  Value = {0, 1}
  Row = {0}
  Fn <- MCFn
  WordBits = 2
  SccIterCap = 2
  RoundCap = 3
  Drive <- MCDrive
  Clock = {"clk"}
  Convention = "free"
  Switches = {"mutex"}
  WordSizes = {1}
  ByteRegs = {{}}
INVARIANTS
  TypeOK
  CleanIsSettled
PROPERTIES
  Returns
VIEW MCView
