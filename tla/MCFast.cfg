SPECIFICATION FairSpec
CONSTANTS
  p1 = p1
  s1 = s1
  g1 = g1
  Client = {p1, s1, g1}
  Role <- MCRole
  Faulty = {p1, s1}
  InitNbMax <- MCNbMax
  InitNbTurnsMax = 4
  Autostart = FALSE
  Fast = TRUE
  NewTurnCap = 3
  PromptCommands = {"start"}
  PromptSets = {}
  Signals = TRUE
  ServerFails = FALSE
INVARIANTS
  ProtoInv
  NoNilGameLogic
  FastBarrier
  NoGhostAwaited
  StartOrderedOnce
  NobodyLockedOut
PROPERTIES
  TurnsPlayed
CHECK_DEADLOCK FALSE
