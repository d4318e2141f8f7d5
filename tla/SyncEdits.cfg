SPECIFICATION BackendSpec
CONSTANTS
  Sensors = {s1}
  Configurations = {good}
  Supported = {good}
  Edits = {u1, u2}
  Syncs = {r1}
  MaxVersion = 2
  MaxInbox = 1
  MaxQueue = 1
  NoConfiguration = none
  NoSensor = nosensor
INVARIANT TypeOK UpdateNeverConflicts IInv AppliedWasAcknowledged PublishedWasAccepted
PROPERTY ImplementsHistory
SYMMETRY Symmetry
