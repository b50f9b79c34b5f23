SPECIFICATION FairSpec
CONSTANTS
  Interims = {i}
  Finals = {f}
  Texts = {t}
  Eol = e
  i = i
  f = f
  t = t
  e = e
  Streams <- MCStreams
  NoCode = NoCode
  BUF = 3
  HEADER_MAX = 5
  BODY_MAX = 2
  REQUEST = 2
  BodySizes = {1, 3}
  Fds = {fd1, fd2}
  NoFd = NoFd
  MaxAddrs = 2
INVARIANTS
  TypeOK
  DescriptorsOwned
  RequestIntact
  LeftoverFits
  MemoryBounded
PROPERTIES
  SilenceEndsNoStream
  ResponseSpec
  RequestReturns
  ShutdownEndsStream
