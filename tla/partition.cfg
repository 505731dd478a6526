SPECIFICATION Spec
CONSTANTS
  team = team
  duo = duo
  Chats = {team, duo}
  PerTable = 2
  BatchSize = 1
  MaxMessages <- MostlyTeam
  MaxFaults = 2
INVARIANTS TypeOK NothingLost FoundById FoundByIndex CountsEachOnce SwapEndsDoubling IdsAreUnique
PROPERTIES CatchesUp
CHECK_DEADLOCK FALSE
