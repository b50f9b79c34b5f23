SPECIFICATION Spec
CONSTANTS
  RING_BUF_SIZE = 3
  DATA_BUF_SIZE = 1
  Readers = {}
  Waiters = {}
  Meters = {m1, m2}
  BITRATE_PERIOD = 2
  TICK_WORD = 16
  MaxBytes = 2
  MaxPurges = 0
  MaxNow = 4
  m1 = m1
  m2 = m2
INVARIANT NoClockUnderflow
