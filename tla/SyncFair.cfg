SPECIFICATION FairSpec
CONSTANTS
  Sensors = {s1}
  Configurations = {good, bad}
  Supported = {good}
  Edits = {u1}
  Syncs = {r1}
  MaxVersion = 2
  MaxInbox = 1
  MaxQueue = 2
  NoConfiguration = none
  NoSensor = nosensor
INVARIANT OneCurrent CurrentIsRetained DeviceWillKnow AppliedIsRunning
PROPERTY ImplementsHistory NeverDowngrades DeviceCatchesUp RepublishHeals
