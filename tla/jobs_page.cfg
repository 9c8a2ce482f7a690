SPECIFICATION Spec
CONSTANTS
  Nil = Nil
  Jobs = {j1, j2}
  Outcomes = {"success"}
  MaxRuns = 1
  MaxCalls = 2
INVARIANTS
  ListIsAccountedFor
  BusyMeansCalls
  
PROPERTIES
  SpinnersStop
