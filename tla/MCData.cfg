CONSTANTS
  Streams = {s1}
  Listeners = {}
  Datagrams = {d1}
  Impl = {i1}
  Stack = {k1, k2}
  Known = {k1}
  Fn = {f1}
  Used = {"onReadable", "onConnect"}
  AppMay = {}
  MaxEvents = 3
  NULL = NULL
  TORN = TORN
  Data = {p1, p2}
  MaxUnsent = 1
  EmptyRead = {"WOULD_BLOCK"}
SPECIFICATION AloneSpec
SYMMETRY DataSymmetry
INVARIANTS Ownership NoNullTable UnreadAnnounced
PROPERTY ImplementsInterface
CHECK_DEADLOCK FALSE
