CONSTANTS
  Streams = {s1}
  Listeners = {}
  Datagrams = {}
  Impl = {i1}
  Stack = {k1}
  Known = {k1}
  Fn = {f1}
  Used = {"onConnect", "onDisconnect"}
  AppMay = {}
  MaxEvents = 2
  NULL = NULL
  TORN = TORN
SPECIFICATION Spec
SYMMETRY Symmetry
INVARIANTS DisconnectAfterOnConnect
CHECK_DEADLOCK FALSE
