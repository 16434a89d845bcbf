CONSTANTS
  Streams = {s1}
  Listeners = {}
  Datagrams = {}
  Impl = {i1}
  Stack = {k1}
  Known = {k1}
  Fn = {f1}
  Used = {"onDNS", "onError", "onReadable", "onSent", "onConnect", "onDisconnect"}
  AppMay = {}
  MaxEvents = 9
  NULL = NULL
  TORN = TORN
  Data = {x}
  EmptyRead = {"NONE", "WOULD_BLOCK"}
  MaxUnsent = 0
  FaultSets = {{}, {"would_block"}, {"refuse", "would_block", "error", "disconnect"}}
  Hello = 2
  Success = 2
  Wrap = 8
SPECIFICATION TcpSpec
INVARIANTS UnackedExact SuccessAcknowledged DeletedOnce
PROPERTY EchoCompletes ErrorEndsTest
CHECK_DEADLOCK FALSE
