SPECIFICATION Spec
CONSTANTS
  c1 = c1
  c2 = c2
  c3 = c3
  ann = ann
  bob = bob
  desktop = desktop
  zentaoweb = zentaoweb
  other = other
  Conns = {c1, c2}
  Users = {ann}
  Devices <- AllDevices
  Plats <- AllPlats
  Web = zentaoweb
  UserOf <- SameUser
  PlatOf <- AllWeb
  SendCap = 1
  MaxOnlineUser = 1
  Inputs = {"subscribe"}
  Leavers = {c1}
  Requesters = {c2}
  MaxClock = 1
  Casts = {"publish"}
  MaxCasts = 1
  MaxPolls = 1
INVARIANTS TypeOK OwnEntryGone
PROPERTIES MapStableWhilePolling
CHECK_DEADLOCK FALSE
