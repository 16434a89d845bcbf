CONSTANTS
  Name = {a1, a2}
  Word = {0, 1}
  FFFF = 1
  JUNK = JUNK
SYMMETRY Interchangeable
SPECIFICATION AddrSpec
INVARIANTS PrintsAsSet ReadsBack
