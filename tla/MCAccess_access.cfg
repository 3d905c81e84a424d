CONSTANTS
  p1 = p1
  p2 = p2
  g1 = g1
  g2 = g2
  n1 = n1
  n2 = n2
  n3 = n3
  i1 = i1
  s1 = s1
  d1 = d1
  old = old
  new = new
  None = None
  Proc = {p1, p2}
  Group = {g1, g2}
  Name = {n1, n2, n3}
  Invite = {i1}
  Session = {s1}
  DeviceToken = {d1}
  Password = {old, new}
  MaxResets = 1
  MaxEntries = 2
  FreeAttempts = 1
  BaseDelay = 1
  MaxDelay = 2
  FailureCeiling = 3
  MaxFailures = 3
CONSTRAINT Instance
SPECIFICATION Spec
INVARIANTS TypeOK OneFirstGroup OneMemberPerInvite ResetCutsOff
CHECK_DEADLOCK FALSE
PROPERTY Unblocks
