SPECIFICATION Spec
CONSTANTS
  RING_BUF_SIZE = 3
  DATA_BUF_SIZE = 2
  Readers = {r1, r2}
  Waiters = {}
  Meters = {m1}
  BITRATE_PERIOD = 2
  TICK_WORD = 16
  MaxBytes = 4
  MaxPurges = 1
  MaxNow = 3
  r1 = r1
  r2 = r2
  m1 = m1
SYMMETRY ReaderSymmetry
INVARIANTS
  DstExclusive
  NoClockUnderflow
  BitrateCountsOnce
