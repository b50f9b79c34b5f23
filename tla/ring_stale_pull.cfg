SPECIFICATION Spec
CONSTANTS
  RING_BUF_SIZE = 4
  DATA_BUF_SIZE = 2
  Readers = {r1, r2}
  Waiters = {}
  Meters = {}
  BITRATE_PERIOD = 2
  TICK_WORD = 16
  MaxBytes = 4
  MaxPurges = 1
  MaxNow = 0
  r1 = r1
  r2 = r2
PROPERTY StalePullNeverStored
