------------------------------ MODULE TCPStream ------------------------------
(***************************************************************************)
(* A TCP connection (TCPStream.h, TCPStream.cpp).                          *)
(***************************************************************************)
EXTENDS TCPAsynch

\* _eventHandler without its default branch.
StreamRoute_NoDefault ==
  [k \in EventKind |->
     CASE k = "CONNECT"    -> "onConnect"
       [] k = "DISCONNECT" -> "onDisconnect"
       [] OTHER            -> NoSlot]

\* TCPStream::_eventHandler: two events of its own, the rest is Socket's.
StreamRoute ==
  [SocketRoute EXCEPT !["CONNECT"] = "onConnect",
                      !["DISCONNECT"] = "onDisconnect"]

\* TCPStream(stack)
NewStream(o, st) ==
  /\ o \in Streams
  /\ SocketCtor(o, st, NULL)
  /\ AsynchCtor(st)
  /\ life' = [life EXCEPT ![o] = "live"]
  /\ UNCHANGED <<call, posted, missed, netVars, raised>>

(* The accepting constructors build the stream around implementation i of  *)
(* a connection that waits to be accepted.                                 *)
StreamAround(o, st, i) ==
  /\ o \in Streams
  /\ SocketCtor(o, st, i)
  /\ AsynchCtor(st)
  /\ UNCHANGED <<missed, asked, raised>>

\* accept() in the stack: i is connected and reports to o from now on.
StackAccepts(o, i) ==
  /\ istate' = [istate EXCEPT ![i] = "connected"]
  /\ sink' = [sink EXCEPT ![i] = o]

\* connect with the call of the stack before the handler is stored.
Connect_StackFirst(o, f) ==
  /\ o \in Streams
  /\ "onConnect" \in Used
  /\ HasApi(o)
  /\ Main(o)
  /\ impl[o] # NULL /\ istate[impl[o]] \in {"open", "bound"}
  /\ istate' = [istate EXCEPT ![impl[o]] = "connecting"]
  /\ asked' = [asked EXCEPT ![impl[o]] = @ \cup {<<"onConnect", f>>}]
  /\ call' = [op |-> "setOnDisconnect", obj |-> o, slot |-> "onConnect",
              fn |-> f, pc |-> "copy"]
  /\ UNCHANGED <<objVars, posted, missed, sink, raised>>

(* connect: BAD_STACK without an API table; else onConnect is replaced,    *)
(* opened or not, and the stack is asked to connect.                       *)
Connect(o, f) ==
  /\ o \in Streams
  /\ "onConnect" \in Used
  /\ HasApi(o)
  /\ "overlap" \notin AppMay =>
       (impl[o] # NULL => istate[impl[o]] # "connecting")
  /\ BeginAssign(o, "connect", "onConnect", f)

ConnectApi ==
  StackAnswers("connect",
    LET i == impl[call.obj] IN
      /\ i # NULL
      /\ istate[i] \in {"open", "bound"}
      /\ istate' = [istate EXCEPT ![i] = "connecting"]
      /\ Request(i)
      /\ UNCHANGED sink)

(* setOnDisconnect: a plain assignment, interrupts stay enabled.           *)
SetOnDisconnect(o, f) ==
  /\ o \in Streams
  /\ "onDisconnect" \in Used
  /\ BeginAssign(o, "setOnDisconnect", "onDisconnect", f)

\* delete of a stream: ~TCPStream does nothing of its own.
DeleteStream(o) ==
  /\ o \in Streams
  /\ Main(o)
  /\ life' = [life EXCEPT ![o] = "~TCPAsynch"]
  /\ call' = [Idle EXCEPT !.op = "delete", !.obj = o]
  /\ UNCHANGED <<stack, impl, on, posted, missed, netVars, raised>>
=============================================================================
