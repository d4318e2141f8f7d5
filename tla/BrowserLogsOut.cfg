SPECIFICATION Spec
CONSTANTS
  Tabs = {t1}
  Pages = {p1}
  Restores = {r1}
  Requests = {q1}
  MaxToken = 2
  NoRequest = norequest
INVARIANT LogsOut
