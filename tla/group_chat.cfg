SPECIFICATION Spec
CONSTANTS
  ann = ann
  bob = bob
  cat = cat
  r1 = r1
  r2 = r2
  Users = {ann, bob, cat}
  Owner = ann
  Start = {ann, bob}
  Strangers = {cat}
  Public = TRUE
  AdminInvite = TRUE
  Msgs = {1, 2}
  Pinned = {1}
  MaxPins = 2
  Losable = {1}
  Reqs = {r1, r2}
  Ops <- AllKinds
  MaxEvents = 2
SYMMETRY EitherRequest
INVARIANTS TypeOK MemberCacheAccounted RollIsRight ChatCacheAccounted
PROPERTIES PinsKept ImplementsMembership
CHECK_DEADLOCK FALSE
