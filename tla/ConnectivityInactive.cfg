SPECIFICATION Spec
CONSTANTS
  Devices = {d1}
  Requests = {q1}
  Timeout = 1
  Interval = 1
  MaxQueue = 1
  NoDevice = nodevice
INVARIANT InactiveIsDisabled
