SPECIFICATION Spec
CONSTANTS
  team = team
  duo = duo
  Chats = {team, duo}
  PerTable = 2
  BatchSize = 1
  MaxMessages <- MostlyTeam
  MaxFaults = 0
INVARIANTS KeepsWhatIsNeeded
CHECK_DEADLOCK FALSE
