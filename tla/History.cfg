SPECIFICATION Spec
CONSTANTS
  d1 = d1
  d2 = d2
  s1 = s1
  m1 = m1
  m2 = m2
  k1 = k1
  k2 = k2
  u1 = u1
  u2 = u2
  a1 = a1
  a2 = a2
  Devices = {d1, d2}
  Sensors = {s1}
  Definitions = {m1, m2}
  Keys = {k1, k2}
  Units = {u1, u2}
  Messages = {a1, a2}
  DeviceOf <- MCDeviceOf
  Seeded <- MCSeeded
  Payloads <- MCPayloads
  Envelopes <- MCEnvelopes
  RowId <- MCRowId
  Filters <- MCFilters
  NoEnvelope = noenvelope
  AnyChannel = anychannel
  NoCursor = nocursor
  MaxEdits = 2
  MaxReadings = 2
  Skew = 1
  MaxTime = 1
  Limit = 1
INVARIANT TypeOK NoRepeat NoneSkipped
PROPERTY ImplementsLog StoredAsConfigured NothingDropped NewestFirst LatestNeverOlder
