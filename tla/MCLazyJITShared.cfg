CONSTANTS
  f1 = f1  f2 = f2  w1 = w1  w2 = w2  c1 = c1  c2 = c2
  MainContext = MainContext  Dispatch = Dispatch  None = None
  Funcs <- TwoFuncs
  Workers = {w1}
  Callers = {c1, c2}
  Modules <- CallGraphs
SPECIFICATION Spec
INVARIANTS EntersReadyCode
CHECK_DEADLOCK FALSE
