CONSTANTS
  Streams = {s1, s2}
  Listeners = {l1}
  Datagrams = {d1}
  Impl = {i1, i2, i3}
  Stack = {k1, k2}
  Known = {k1, k2}
  Fn = {f1, f2}
  Used = {"onDNS", "onError", "onReadable", "onConnect", "onDisconnect", "onIncoming"}
  AppMay = {}
  MaxEvents = 3
  NULL = NULL
  TORN = TORN
SPECIFICATION LayerSpec
SYMMETRY Symmetry
INVARIANTS TypeOK TickExact Ownership HandlersAlive RequestsAnswered TornOnlyDisconnect RoutedByClass
PROPERTY ImplementsTickService ImplementsHandover QuietAfterDeath
CHECK_DEADLOCK FALSE
