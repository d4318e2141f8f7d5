SPECIFICATION HonestSpec
CONSTANTS
  Sensors = {s1}
  Configurations = {good}
  Supported = {good}
  Edits = {u1}
  Syncs = {r1, r2}
  MaxVersion = 2
  MaxInbox = 1
  MaxQueue = 1
  NoConfiguration = none
  NoSensor = nosensor
INVARIANT PublishedIsRetained
