CONSTANTS
  w1 = w1  w2 = w2  a = a  b = b  c = c  d = d
  Main = Main  NoTask = NoTask  MaxSpurious = 0
  Workers <- TwoWorkers
  TaskIds <- AllTasks
  TailWorkers = {}
  Spawned <- DispatchSpawn
  Scripts <- InterruptScripts
SPECIFICATION FairSpec
PROPERTIES ScriptReturns
CHECK_DEADLOCK FALSE
