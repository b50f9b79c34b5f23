SPECIFICATION FairSpec
CONSTANTS
  RING_BUF_SIZE = 4
  DATA_BUF_SIZE = 2
  Readers = {r1}
  Waiters = {w1}
  Meters = {}
  BITRATE_PERIOD = 2
  TICK_WORD = 16
  MaxBytes = 7
  MaxPurges = 2
  MaxNow = 0
  r1 = r1
  w1 = w1
INVARIANTS
  TypeOK
  BlockStable
  NoLostRoomSignal
  NoLostDataSignal
PROPERTIES
  PurgeWins
  FifoSpec
  ShutdownEndsPut
