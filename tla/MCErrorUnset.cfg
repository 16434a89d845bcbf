CONSTANTS
  Streams = {s1}
  Listeners = {l1}
  Datagrams = {}
  Impl = {i1, i2}
  Stack = {k1}
  Known = {k1}
  Fn = {f1}
  Used = {"onIncoming"}
  AppMay = {}
  MaxEvents = 1
  NULL = NULL
  TORN = TORN
SPECIFICATION Spec
SYMMETRY Symmetry
INVARIANTS ErrorsIgnoredIfUnset
CHECK_DEADLOCK FALSE
