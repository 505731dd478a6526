SPECIFICATION Spec
CONSTANTS
  g1 = g1
  other = other
  Own <- OneMessage
  Other = other
  Backlog = 1
  MaxMessages = 3
  MaxLogins = 2
  MaxRestarts = 1
INVARIANTS TypeOK NoFalseRollback ListWhole ShownOnce KeptUntilSent
CHECK_DEADLOCK FALSE
