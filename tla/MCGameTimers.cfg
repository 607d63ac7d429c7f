SPECIFICATION FairSpec
CONSTANTS
  p1 = p1
  p2 = p2
  g1 = g1
  Client = {p1, p2, g1}
  Role <- MCRole
  Faulty = {}
  InitNbMax <- MCNbMax
  InitNbTurnsMax = 2
  Autostart = FALSE
  Fast = FALSE
  NewTurnCap = 3
  PromptCommands = {"start"}
  PromptSets = {}
  Signals = FALSE
  ServerFails = FALSE
PROPERTIES
  GameCompletes
CHECK_DEADLOCK FALSE
