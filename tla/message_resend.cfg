SPECIFICATION FairSpec
CONSTANTS
  duo = duo
  team = team
  ann = ann
  bob = bob
  cat = cat
  g1 = g1
  g2 = g2
  r1 = r1
  r2 = r2
  Chats = {team}
  One2One = {}
  Users = {ann, bob, cat}
  Gids = {g1, g2}
  Reqs = {r1, r2}
  MembersOf <- WhoIsIn
  ChatOf <- ToTeam
  SenderOf <- FromAnn
  Batch <- Two
  Roamers = {cat}
  MaxFaults = 1
  MaxLogins = 0
  MaxCrashes = 1
INVARIANTS AnsweredIsAddressed
PROPERTIES RequestsEnd
CHECK_DEADLOCK FALSE
