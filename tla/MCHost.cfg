CONSTANTS
  Port = {7, 8}
  HOST = HOST
  MaxSent = 3
  NONE = NONE
SPECIFICATION HostSpec
INVARIANTS ServerKnown
PROPERTY HandshakeCompletes TeardownEnds
CHECK_DEADLOCK FALSE
