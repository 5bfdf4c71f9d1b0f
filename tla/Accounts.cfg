SPECIFICATION BothSpec
CONSTANTS
  u1 = u1  s1 = s1  s2 = s2  i1 = i1  l1 = l1
  Users <- OneUser
  Slots <- TwoSlots
  Sessions <- OneSession
  Links <- OneLink
  MaxPassword = 2
  FreeAttempts = 1
  BaseSeconds = 1
  MaxSeconds = 2
  SessionTtl = 1
  LinkTtl = 1
  MaxFailures = 3
  MaxTime = 3
  self = self  ann = ann  bob = bob  c1 = c1  c2 = c2  k1 = k1  b1 = b1
  Tokens = {k1}
  People = {self, ann, bob}
  Captures = {c1, c2}
  Bans = {b1}
  Registration = registration
  Self = self
  PlaceOf <- Places
  Nobody = Nobody
  PageHandlers = {1, 2, 3, 4}
  MaxOverlap = 2
  AuditRows = 1
  MaxClicks = 2
  Contested = {ann, c1}
  MaxTroubles = 1
SYMMETRY Symmetric
INVARIANTS SessionsAreEntitled LinksWorkOnce LockAdmitsNobody CapturesAreTheirHeadings
PROPERTY OwnChangeIsShown
