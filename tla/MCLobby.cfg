SPECIFICATION Spec
CONSTANTS
  p1 = p1
  p2 = p2
  g1 = g1
  Client = {p1, p2, g1}
  Role <- MCRole
  Faulty = {p1, p2, g1}
  InitNbMax <- MCNbMax
  InitNbTurnsMax = 1
  Autostart = TRUE
  Fast = FALSE
  NewTurnCap = 1
  PromptCommands = {"start", "quit", "set"}
  PromptSets <- MCSets
  Signals = FALSE
  ServerFails = TRUE
SYMMETRY MCSymmetry
INVARIANTS
  TypeOK
  SessionInv
  NobodyMissesTheStart
  NoNilGameLogic
  RosterExact
CHECK_DEADLOCK FALSE
