SPECIFICATION Spec
CONSTANTS
  Clients = {c1, c2, c3, c4, c5}
  Addrs = {a1, a2}
  Null = Null
  c1 = c1
  c2 = c2
  c3 = c3
  c4 = c4
  c5 = c5
  a1 = a1
  a2 = a2
INVARIANTS
  TypeOK
  HeldIsLive
  OneInstance
  CountExact
  NothingLeft
