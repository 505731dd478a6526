SPECIFICATION Spec
CONSTANTS
  duo = duo
  team = team
  ann = ann
  bob = bob
  cat = cat
  g1 = g1
  g2 = g2
  r1 = r1
  r2 = r2
  Chats = {duo}
  One2One = {duo}
  Users = {ann, bob}
  Gids = {g1}
  Reqs = {r1, r2}
  MembersOf <- WhoIsIn
  ChatOf <- ToDuo
  SenderOf <- FromAnn
  Batch <- One
  Roamers = {bob}
  MaxFaults = 1
  MaxLogins = 1
  MaxCrashes = 0
SYMMETRY EitherSend
INVARIANTS TypeOK IndexesContiguous LastMessageIsNewest ResendIsRecognised AnsweredIsAddressed
PROPERTIES ImplementsChatLog
CHECK_DEADLOCK FALSE
