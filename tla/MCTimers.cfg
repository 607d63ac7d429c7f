SPECIFICATION Spec
CONSTANTS
  p1 = p1
  p2 = p2
  g1 = g1
  Client = {p1, p2, g1}
  Role <- MCRole
  Faulty = {}
  InitNbMax <- MCNbMax
  InitNbTurnsMax = 3
  Autostart = FALSE
  Fast = FALSE
  NewTurnCap = 1
  PromptCommands = {"start", "set"}
  PromptSets <- MCSets
  Signals = FALSE
  ServerFails = FALSE
SYMMETRY MCSymmetry
INVARIANTS
  OneActionPerPlayer
PROPERTIES
  ClientsSeeProtocol
CHECK_DEADLOCK FALSE
