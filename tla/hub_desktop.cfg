SPECIFICATION Spec
CONSTANTS
  c1 = c1
  c2 = c2
  c3 = c3
  ann = ann
  bob = bob
  desktop = desktop
  zentaoweb = zentaoweb
  other = other
  Conns = {c1, c2, c3}
  Users = {ann, bob}
  Devices <- AllDevices
  Plats <- AllPlats
  Web = zentaoweb
  UserOf <- AlsoBob
  PlatOf <- OneOther
  SendCap = 1
  MaxOnlineUser = 0
  Inputs = {"failing session", "failing logout"}
  Leavers = {c1, c2}
  Requesters = {}
  MaxClock = 0
  Casts = {}
  MaxCasts = 0
  MaxPolls = 0
SYMMETRY EitherConn
INVARIANTS OneSessionPerDevice OwnEntryGone AllEndedIsOffline
CHECK_DEADLOCK FALSE
