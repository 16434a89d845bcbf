CONSTANTS
  Streams = {}
  Listeners = {}
  Datagrams = {d1}
  Impl = {i1, i2}
  Stack = {k1}
  Known = {k1}
  Fn = {f1}
  Used = {"onDNS", "onError", "onReadable"}
  AppMay = {"reopen"}
  MaxEvents = 8
  NULL = NULL
  TORN = TORN
  Data = {1, 2, 3, GARBLED}
  EmptyRead = {"NONE", "WOULD_BLOCK"}
  MaxUnsent = 0
  FaultSets = {{}}
  MaxLoops = 3
  GARBLED = GARBLED
SPECIFICATION UdpSpec
INVARIANTS DestructorFrees
CHECK_DEADLOCK FALSE
