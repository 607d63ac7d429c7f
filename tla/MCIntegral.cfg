SPECIFICATION MessagesSpec
CONSTANTS
  Base = 3
  FirstLimit = 4
  Limit = 7
  Newline = 2
  Content <- MCContent
  Json <- MCJson
  Object <- MCObject
  MaxSent = 3
  expectedTurnNumber = 0
  nbPlayers = 2
INVARIANTS
  AcceptedNumbersIntegral
CHECK_DEADLOCK FALSE
