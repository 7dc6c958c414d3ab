CONSTANTS
  w1 = w1  w2 = w2  a = a  b = b  c = c  d = d
  Main = Main  NoTask = NoTask  MaxSpurious = 2
  Workers <- TwoWorkers
  TaskIds <- AllTasks
  TailWorkers <- TwoWorkers
  Spawned <- DispatchSpawn
  Scripts <- CompilerScripts
SPECIFICATION FairSpec
INVARIANTS TasksConserved PopsFromNonEmpty WaitMeansDone
PROPERTIES ImplementsTaskQueue WaitMeansEmitted ScriptReturns PushedFinishes
CHECK_DEADLOCK FALSE
