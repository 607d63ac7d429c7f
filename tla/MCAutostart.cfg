SPECIFICATION FairSpec
CONSTANTS
  p1 = p1
  p2 = p2
  g1 = g1
  Client = {p1, p2, g1}
  Role <- MCRole
  Faulty = {}
  InitNbMax <- MCNbMax
  InitNbTurnsMax = 2
  Autostart = TRUE
  Fast = TRUE
  NewTurnCap = 3
  PromptCommands = {}
  PromptSets = {}
  Signals = FALSE
  ServerFails = FALSE
PROPERTIES
  AutostartStarts
CHECK_DEADLOCK FALSE
