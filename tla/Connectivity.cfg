SPECIFICATION FairSpec
CONSTANTS
  Devices = {d1}
  Requests = {q1, q2}
  Timeout = 1
  Interval = 1
  MaxQueue = 1
  NoDevice = nodevice
INVARIANT TypeOK ActiveIsNotDisabled OfflineMeansSilent
PROPERTY OfflineDetected HeartbeatsBringOnline
