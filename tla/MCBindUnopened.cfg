CONSTANTS
  Streams = {s1}
  Listeners = {}
  Datagrams = {d1}
  Impl = {i1}
  Stack = {k1}
  Known = {k1}
  Fn = {f1}
  Used = {}
  AppMay = {}
  MaxEvents = 0
  NULL = NULL
  TORN = TORN
SPECIFICATION Spec
SYMMETRY Symmetry
INVARIANTS BindOverloadsAgree
CHECK_DEADLOCK FALSE
