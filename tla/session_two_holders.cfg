SPECIFICATION TunerSpec
CONSTANTS
  RING_BUF_SIZE = 3
  DATA_BUF_SIZE = 1
  Readers = {r1, r2}
  Waiters = {}
  Meters = {}
  BITRATE_PERIOD = 2
  TICK_WORD = 16
  MaxBytes = 3
  MaxPurges = 3
  MaxNow = 0
  Channels = {c1}
  None = None
  MaxCalls = 2
  r1 = r1
  r2 = r2
  c1 = c1
SYMMETRY ReaderSymmetry
INVARIANT HeldBlockIntact
