SPECIFICATION Spec
CONSTANTS
  d1 = d1
  d2 = d2
  u1 = u1
  u2 = u2
  u3 = u3
  Devices = {d1, d2}
  Uids = {u1, u2, u3}
  Requests = {q1}
  FirstUid <- MCFirstUid
  None = none
  MaxDrawn = 1
  MaxEdits = 2
INVARIANT TopicsAreOwn
