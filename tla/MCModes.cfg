SPECIFICATION Spec
CONSTANTS
  Entity <- MCEntity
  Mem = {}
  Reg <- MCReg
  Input <- MCInput
  Canon <- MCCanon
  Action <- MCAction
  Target <- MCTarget
  Plain <- MCPlain
  Events <- MCEvents
  Guard <- MCGuard
  Addr <- MCAddr
  Exec <- MCExec
  Group = {}
  Value = {0, 1}
  Row = {0, 1}
  Fn <- MCFn
  WordBits = 2
  SccIterCap = 3
  RoundCap = 4
  Drive <- MCDrive
  Clock = {"clk"}
  Convention = "free"
  Switches = {"trace", "other", "mutex"}
  WordSizes = {1, 2}
  ByteRegs <- MCByteRegs
INVARIANTS
  SampleSettled
  NonBlocking
  StrandedOnlyByMutex
  WaysAgree
