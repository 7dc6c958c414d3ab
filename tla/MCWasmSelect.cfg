CONSTANTS
  Types <- MCTypes
  Funcs <- MCFuncs
  Bodies <- MCBodies
  Globals <- MCGlobals
  Table <- MCTable
  MaxPages = 4
  InitPages = 1
  StackCells = 48
  Main = 3
  Skeletons <- SelectSkeletons
  Fuel = 60
  JitFuel = 150
  NativeFuel = 400
SPECIFICATION Spec
CHECK_DEADLOCK FALSE
INVARIANTS
  FramesIntact
