----------------------------- MODULE TCPListener -----------------------------
(***************************************************************************)
(* A TCP server socket (TCPListener.h, TCPListener.cpp) and the hand-over  *)
(* of an incoming connection: the stack announces its implementation, the  *)
(* onIncoming callback carries the bare pointer to the application, which  *)
(* accepts it into a new TCPStream or rejects it.                          *)
(***************************************************************************)
EXTENDS TCPStream

VARIABLE offered \* {<<l, i>>}: onIncoming of l has run with i, no answer yet

ListenerTypeOK == offered \subseteq Listeners \X Impl
ListenerInit == offered = {}

\* TCPListener::_eventHandler: stream events on a listener are errors.
Misplaced == {"RX_DONE", "TX_DONE", "CONNECT", "DISCONNECT"}
ListenerRoute ==
  [k \in EventKind |->
     CASE k \in ErrorEvents \cup Misplaced -> "onError"
       [] k = "DNS"                        -> "onDNS"
       [] k = "ACCEPT"                     -> "onIncoming"
       [] OTHER                            -> NoSlot]
ListenerArg(k, arg) == IF k \in Misplaced THEN "UNIMPLEMENTED" ELSE arg

\* TCPListener(stack)
NewListener(o, st) ==
  /\ o \in Listeners
  /\ SocketCtor(o, st, NULL)
  /\ AsynchCtor(st)
  /\ life' = [life EXCEPT ![o] = "live"]
  /\ UNCHANGED <<call, posted, missed, netVars, raised>>

\* start_listening with the call of the stack before the handler is stored.
StartListening_StackFirst(o, f) ==
  /\ o \in Listeners
  /\ "onIncoming" \in Used
  /\ HasApi(o)
  /\ Main(o)
  /\ impl[o] # NULL /\ istate[impl[o]] \in {"open", "bound"}
  /\ istate' = [istate EXCEPT ![impl[o]] = "listening"]
  /\ call' = [op |-> "setOnDisconnect", obj |-> o, slot |-> "onIncoming",
              fn |-> f, pc |-> "copy"]
  /\ UNCHANGED <<objVars, posted, missed, sink, asked, raised>>

(* start_listening: BAD_STACK without an API table; else onIncoming is     *)
(* replaced and the stack is asked to listen.                              *)
StartListening(o, f) ==
  /\ o \in Listeners
  /\ "onIncoming" \in Used
  /\ HasApi(o)
  /\ "overlap" \notin AppMay =>
       (impl[o] # NULL => istate[impl[o]] # "listening")
  /\ BeginAssign(o, "start_listening", "onIncoming", f)

StartListeningApi ==
  StackAnswers("start_listening",
    LET i == impl[call.obj] IN
      /\ i # NULL
      /\ istate[i] \in {"open", "bound"}
      /\ istate' = [istate EXCEPT ![i] = "listening"]
      /\ UNCHANGED <<sink, asked>>)

\* stop_listen() in the stack: obeyed, or failed (also when not listening).
StackStops(o) ==
  \/ /\ HasApi(o) /\ impl[o] # NULL
     /\ istate[impl[o]] = "listening"
     /\ istate' = [istate EXCEPT ![impl[o]] = "bound"]
     /\ UNCHANGED <<sink, asked>>
  \/ NoStackChange

(* stop_listening: onIncoming stays set, callbacks already posted still run.*)
StopListening(o) ==
  /\ o \in Listeners
  /\ Main(o)
  /\ StackStops(o)
  /\ UNCHANGED <<objVars, call, posted, missed, raised>>

(* delete of a listener: ~TCPListener stops listening, with the API's own  *)
(* verdict ignored.                                                        *)
DeleteListener(o) ==
  /\ o \in Listeners
  /\ Main(o)
  /\ StackStops(o)
  /\ life' = [life EXCEPT ![o] = "~TCPAsynch"]
  /\ call' = [Idle EXCEPT !.op = "delete", !.obj = o]
  /\ UNCHANGED <<stack, impl, on, posted, missed, raised>>

\* accept without the delete of a stream that could not be accepted.
Accept_LeakOnError(l, i, s) ==
  /\ Main(l)
  /\ StreamAround(s, stack[l], i)
  /\ UNCHANGED posted
  /\ \/ /\ StackAccepts(s, i)
        /\ life' = [life EXCEPT ![s] = "live"]
        /\ UNCHANGED call
     \/ /\ life' = [life EXCEPT ![s] = "dead"]
        /\ UNCHANGED <<call, istate, sink>>

(* accept: a stream is built around i; if the stack refuses, the stream is *)
(* deleted again, and i with it.                                           *)
Accept(l, i, s) ==
  /\ Main(l)
  /\ StreamAround(s, stack[l], i)
  /\ UNCHANGED posted
  /\ \/ /\ StackAccepts(s, i)
        /\ life' = [life EXCEPT ![s] = "live"]
        /\ UNCHANGED call
     \/ /\ life' = [life EXCEPT ![s] = "~TCPAsynch"]
        /\ call' = [Idle EXCEPT !.op = "delete", !.obj = s]
        /\ UNCHANGED <<istate, sink>>

(* The deprecated constructor TCPStream(sock): an error is posted to the   *)
(* onError of a stream that has only just been built, and the stream stays.*)
AcceptDeprecated(l, i, s) ==
  /\ Main(l)
  /\ StreamAround(s, stack[l], i)
  /\ life' = [life EXCEPT ![s] = "live"]
  /\ UNCHANGED call
  /\ \/ StackAccepts(s, i) /\ UNCHANGED posted
     \/ ErrorCheck(s, "stack error") /\ UNCHANGED <<istate, sink>>

(* reject: close() on a struct socket made up on the spot.  The result is  *)
(* dropped and nothing destroys the implementation.                        *)
Reject(l, i) ==
  /\ Main(l)
  /\ \/ istate' = [istate EXCEPT ![i] = "closed"] /\ UNCHANGED <<sink, asked>>
     \/ NoStackChange
  /\ UNCHANGED <<objVars, call, posted, missed, raised>>
=============================================================================
