SPECIFICATION Spec
CONSTANTS
  p1 = p1
  p2 = p2
  c1 = c1
  c2 = c2
  Probers = {p1, p2}
  MayHang = {p1}
  Channels = {c1, c2}
  ChannelsOf <- MCChannelsOf
INVARIANTS
  TypeOK
  SignalsMatchProbers
  StoppedInOrder
  WatchersStopped
PROPERTIES
  ShutdownCompletes
