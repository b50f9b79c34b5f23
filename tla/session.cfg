SPECIFICATION FairTunerSpec
CONSTANTS
  RING_BUF_SIZE = 3
  DATA_BUF_SIZE = 2
  Readers = {r1}
  Waiters = {}
  Meters = {}
  BITRATE_PERIOD = 2
  TICK_WORD = 16
  MaxBytes = 3
  MaxPurges = 5
  MaxNow = 0
  Channels = {c1}
  None = None
  MaxCalls = 4
  r1 = r1
  c1 = c1
INVARIANTS
  TunerTypeOK
  NoStaleChannel
  IdleConsistent
PROPERTIES
  CloseOnlyWhenNoReceiver
  StartsClean
  ServiceSpec
  CallReturns
