SPECIFICATION FairSpec
CONSTANTS
  c1 = c1
  c2 = c2
  c3 = c3
  ann = ann
  bob = bob
  desktop = desktop
  zentaoweb = zentaoweb
  other = other
  Conns = {c1, c2}
  Users = {ann}
  Devices <- AllDevices
  Plats <- AllPlats
  Web = zentaoweb
  UserOf <- SameUser
  PlatOf <- AllDesktop
  SendCap = 1
  MaxOnlineUser = 0
  Inputs = {}
  Leavers = {c1}
  Requesters = {}
  MaxClock = 0
  Casts = {}
  MaxCasts = 0
  MaxPolls = 0
PROPERTIES FailedSocketUnregistered
CHECK_DEADLOCK FALSE
