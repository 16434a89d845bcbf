------------------------------ MODULE UDPSocket ------------------------------
(***************************************************************************)
(* A datagram socket (UDPSocket.h, UDPSocket.cpp).  It handles events as   *)
(* Socket does and has no part in the TCP counter.                         *)
(***************************************************************************)
EXTENDS Socket

\* UDPSocket(stack)
NewDatagram(o, st) ==
  /\ o \in Datagrams
  /\ SocketCtor(o, st, NULL)
  /\ life' = [life EXCEPT ![o] = "live"]
  /\ UNCHANGED <<call, posted, missed, netVars, raised>>

\* open(af), the one overload of a datagram socket that opens.
DatagramOpen(o) == o \in Datagrams /\ Open(o)

(* connect: BAD_STACK without an API table; else the stack notes the peer, *)
(* no event follows.                                                       *)
ConnectDatagram(o) ==
  /\ o \in Datagrams
  /\ Main(o)
  /\ HasApi(o)
  /\ impl[o] # NULL
  /\ istate[impl[o]] \in {"open", "bound"}
  /\ istate' = [istate EXCEPT ![impl[o]] = "connected"]
  /\ UNCHANGED <<objVars, call, posted, missed, sink, asked, raised>>

\* delete of a datagram socket: ~UDPSocket is empty, ~Socket is next.
DeleteDatagram(o) ==
  /\ o \in Datagrams
  /\ Main(o)
  /\ life' = [life EXCEPT ![o] = "~Socket"]
  /\ call' = [Idle EXCEPT !.op = "delete", !.obj = o]
  /\ UNCHANGED <<stack, impl, on, posted, missed, netVars, raised>>
=============================================================================
