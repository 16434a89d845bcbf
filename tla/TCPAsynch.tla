------------------------------ MODULE TCPAsynch ------------------------------
(***************************************************************************)
(* What TCPStream and TCPListener share (TCPAsynch.h, TCPAsynch.cpp): one  *)
(* counter of the TCP sockets that exist, and one periodic task of the     *)
(* stack, scheduled while the counter is not 0.                            *)
(***************************************************************************)
EXTENDS Socket

VARIABLES
  tcpSockets, \* _TCPSockets
  tick,       \* _tick_handle: the stack whose task it stands for, or NULL
  timers      \* how many periodic tasks minar runs for this class

asynchVars == <<tcpSockets, tick, timers>>

AsynchTypeOK ==
  /\ tcpSockets \in Nat
  /\ tick \in Stack \cup {NULL}
  /\ timers \in Nat

AsynchInit ==
  /\ tcpSockets = 0
  /\ tick = NULL
  /\ timers = 0

\* The constructor with the increment inside the test of the counter.
AsynchCtor_CountFirst(st) ==
  IF tcpSockets = 0 /\ st \in Known
  THEN tcpSockets' = 1 /\ tick' = st /\ timers' = timers + 1
  ELSE UNCHANGED <<tcpSockets, tick, timers>>

\* The constructor with the test of the counter left out.
AsynchCtor_Always(st) ==
  /\ tcpSockets' = tcpSockets + 1
  /\ IF st \in Known
     THEN tick' = st /\ timers' = timers + 1
     ELSE UNCHANGED <<tick, timers>>

(* The constructor: the first TCP socket schedules its stack's task, if it *)
(* has an API table at all.                                                *)
AsynchCtor(st) ==
  /\ tcpSockets' = tcpSockets + 1
  /\ IF tcpSockets = 0 /\ st \in Known
     THEN tick' = st /\ timers' = timers + 1
     ELSE UNCHANGED <<tick, timers>>

\* open(af), the one overload of a TCP socket that opens.
AsynchOpen(o) == o \in TCP /\ Open(o)

\* The destructor without the test of the counter.
AsynchDtor_CancelAlways(o) ==
  /\ life[o] = "~TCPAsynch"
  /\ life' = [life EXCEPT ![o] = "~Socket"]
  /\ tcpSockets' = tcpSockets - 1
  /\ IF tick # NULL
     THEN tick' = NULL /\ timers' = timers - 1
     ELSE UNCHANGED <<tick, timers>>
  /\ UNCHANGED <<stack, impl, on, call, posted, missed, netVars, raised>>

(* ~TCPAsynch: the last TCP socket cancels the task, before ~Socket lets   *)
(* the stack destroy the implementation.                                   *)
AsynchDtor(o) ==
  /\ life[o] = "~TCPAsynch"
  /\ life' = [life EXCEPT ![o] = "~Socket"]
  /\ tcpSockets' = tcpSockets - 1
  /\ IF tcpSockets' = 0 /\ tick # NULL
     THEN tick' = NULL /\ timers' = timers - 1
     ELSE UNCHANGED <<tick, timers>>
  /\ UNCHANGED <<stack, impl, on, call, posted, missed, netVars, raised>>
=============================================================================
