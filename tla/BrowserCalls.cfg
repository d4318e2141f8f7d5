SPECIFICATION Spec
CONSTANTS
  Tabs = {t1}
  Pages = {p1}
  Restores = {r1, r2}
  Requests = {q1, q2}
  MaxToken = 2
  NoRequest = norequest
INVARIANT TypeOK NeverReused NobodyWaitsInVain
PROPERTY ImplementsChain SentTwiceAtMost
SYMMETRY Symmetry
