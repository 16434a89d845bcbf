CONSTANTS
  Streams = {}
  Listeners = {}
  Datagrams = {d1}
  Impl = {i1, i2}
  Stack = {k1}
  Known = {k1}
  Fn = {f1}
  Used = {"onDNS", "onError", "onReadable"}
  AppMay = {"reopen"}
  MaxEvents = 6
  NULL = NULL
  TORN = TORN
  Data = {1, 2, 3, GARBLED}
  EmptyRead = {"NONE", "WOULD_BLOCK"}
  MaxUnsent = 0
  FaultSets = {{"would_block"}, {"lose", "would_block"},
               {"refuse", "would_block", "error", "lose", "duplicate"}}
  MaxLoops = 3
  GARBLED = GARBLED
SPECIFICATION UdpSpec
INVARIANTS EchoesInStep DeletedOnce UdpTypeOK
PROPERTY LoopsComplete
CHECK_DEADLOCK FALSE
