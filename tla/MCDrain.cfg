SPECIFICATION DrainSpec
CONSTANTS
  T = {0, 1}
  Zero = 0
  N = 3
  Stages = 3
  Mode <- MCMode
INVARIANT TypeOK
PROPERTIES
  ImplementsFifo
  ImplementsDelay
