CONSTANTS
  Streams = {s1}
  Listeners = {}
  Datagrams = {}
  Impl = {i1}
  Stack = {k1}
  Known = {k1}
  Fn = {f1, f2}
  Used = {"onDNS"}
  AppMay = {"overlap"}
  MaxEvents = 1
  NULL = NULL
  TORN = TORN
SPECIFICATION Spec
SYMMETRY Symmetry
INVARIANTS AnswerToAsker
CHECK_DEADLOCK FALSE
