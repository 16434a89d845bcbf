CONSTANTS
  Sock = {s1, s2, s3}
  Event = {e1, e2, e3, e4}
  MaxDepth = 3
  Reentrant = {s1}
  NULL = NULL
SPECIFICATION SlotSpec
INVARIANTS ToldAsRaised
CHECK_DEADLOCK FALSE
