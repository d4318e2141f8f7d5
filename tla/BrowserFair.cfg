SPECIFICATION FairSpec
CONSTANTS
  Tabs = {t1}
  Pages = {p1}
  Restores = {r1}
  Requests = {q1}
  MaxToken = 2
  NoRequest = norequest
PROPERTY CallsSettle
