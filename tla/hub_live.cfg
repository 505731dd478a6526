SPECIFICATION FairSpec
CONSTANTS
  c1 = c1
  c2 = c2
  c3 = c3
  ann = ann
  bob = bob
  desktop = desktop
  zentaoweb = zentaoweb
  other = other
  Conns = {c1, c2}
  Users = {ann}
  Devices <- AllDevices
  Plats <- AllPlats
  Web = zentaoweb
  UserOf <- SameUser
  PlatOf <- AllDesktop
  SendCap = 1
  MaxOnlineUser = 0
  Inputs = {"userlogout", "failing login"}
  Leavers = {c1}
  Requesters = {c1}
  MaxClock = 0
  Casts = {"users", "others"}
  MaxCasts = 1
  MaxPolls = 0
PROPERTIES SuccessorStays DisplacedIsTold QuietDisconnectEnds
CHECK_DEADLOCK FALSE
