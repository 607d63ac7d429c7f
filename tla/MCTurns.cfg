SPECIFICATION FairSpec
CONSTANTS
  p1 = p1
  v1 = v1
  g1 = g1
  Client = {p1, v1, g1}
  Role <- MCRole
  Faulty = {v1}
  InitNbMax <- MCNbMax
  InitNbTurnsMax = 3
  Autostart = FALSE
  Fast = FALSE
  NewTurnCap = 2
  PromptCommands = {"start"}
  PromptSets = {}
  Signals = FALSE
  ServerFails = FALSE
INVARIANTS
  LateTurnOnlyOnAbort
PROPERTIES
  TurnsPlayed
CHECK_DEADLOCK FALSE
