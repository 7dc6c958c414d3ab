CONSTANTS
  LimbBits = 6
  ByteBits = 2
  LimbBase = 64
  MaxDepth = 2
  Subtargets = {TRUE, FALSE}
  Inputs <- MCInputs
  Moduli <- MCModuli
SPECIFICATION Spec
CONSTRAINT MCChain
CHECK_DEADLOCK FALSE
INVARIANTS LoweringExact RangeSound DivideNeverTraps

