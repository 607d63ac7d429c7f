SPECIFICATION FairSpec
CONSTANTS
  p1 = p1
  p2 = p2
  g1 = g1
  Client = {p1, p2, g1}
  Role <- MCRole
  Faulty = {}
  InitNbMax <- MCNbMax
  InitNbTurnsMax = 2
  Autostart = FALSE
  Fast = TRUE
  NewTurnCap = 3
  PromptCommands = {"start"}
  PromptSets = {}
  Signals = FALSE
  ServerFails = FALSE
INVARIANTS
  GameEndsDelivered
CHECK_DEADLOCK FALSE
