------------------------------- MODULE Sockets -------------------------------
(***************************************************************************)
(* The socket layer as a whole: objects of all three classes, one stack    *)
(* that raises events, one scheduler that runs what was posted, and an     *)
(* application that makes every call its objects allow, in any order.      *)
(***************************************************************************)
EXTENDS TCPListener, UDPSocket

vars == <<socketVars, asynchVars, offered>>

TypeOK == SocketTypeOK /\ AsynchTypeOK /\ ListenerTypeOK

Init == SocketInit /\ AsynchInit /\ ListenerInit

-----------------------------------------------------------------------------
(* The stack raises an event on an implementation: it calls the handler it *)
(* was given for it, _nvEventHandler, which calls the virtual              *)
(* _eventHandler of the class whose destructor has not yet been left.      *)

\* Listeners that do not override _eventHandler.
EventHandler_Inherited(o, k, arg) ==
  CASE o \in Streams /\ life[o] = "live" -> Handle(o, StreamRoute[k], arg)
    [] OTHER                             -> Handle(o, SocketRoute[k], arg)

EventHandler(o, k, arg) ==
  CASE o \in Streams /\ life[o] = "live"   -> Handle(o, StreamRoute[k], arg)
    [] o \in Listeners /\ life[o] = "live" -> Handle(o, ListenerRoute[k], ListenerArg(k, arg))
    [] OTHER                               -> Handle(o, SocketRoute[k], arg)

Raise(i, k, arg) ==
  /\ sink[i] # NULL
  /\ raised < MaxEvents
  /\ raised' = raised + 1
  /\ EventHandler(sink[i], k, arg)
  /\ UNCHANGED <<objVars, call, sink, asynchVars, offered>>

\* Errors and data can show up on anything the stack has a handler for.
RaiseError(i) ==
  /\ \E k \in ErrorEvents : Raise(i, k, "stack error")
  /\ UNCHANGED <<istate, asked>>

RaiseData(i) ==
  /\ \E k \in {"RX_DONE", "TX_DONE"} : Raise(i, k, NULL)
  /\ UNCHANGED <<istate, asked>>

\* A request is answered; arg tells which handler it was made with.
RaiseDNS(i) ==
  \E r \in asked[i] :
    /\ r[1] = "onDNS"
    /\ Raise(i, "DNS", r[2])
    /\ asked' = [asked EXCEPT ![i] = @ \ {r}]
    /\ UNCHANGED istate

RaiseConnect(i) ==
  \E r \in asked[i] :
    /\ r[1] = "onConnect"
    /\ istate[i] = "connecting"
    /\ Raise(i, "CONNECT", r[2])
    /\ asked' = [asked EXCEPT ![i] = @ \ {r}]
    /\ istate' = [istate EXCEPT ![i] = "connected"]

RaiseDisconnect(i) ==
  /\ istate[i] = "connected"
  /\ sink[i] \in TCP
  /\ Raise(i, "DISCONNECT", NULL)
  /\ istate' = [istate EXCEPT ![i] = "down"]
  /\ UNCHANGED asked

\* A new connection on a listening implementation, with an implementation of its own.
RaiseAccept(i) ==
  \E j \in Impl :
    /\ istate[i] = "listening"
    /\ istate[j] = "free"
    /\ Raise(i, "ACCEPT", j)
    /\ istate' = [istate EXCEPT ![j] = "offered"]
    /\ UNCHANGED asked

-----------------------------------------------------------------------------
(* minar runs a posted callback in the main context, in no promised order. *)
(* What the application does in it are calls of its own; only the pointer  *)
(* an onIncoming handler is given has to be kept.                          *)
RunCallback(c) ==
  /\ call = Idle
  /\ posted' = Dequeue(posted, c)
  /\ offered' = IF c.slot = "onIncoming" THEN offered \cup {<<c.obj, c.arg>>}
                                         ELSE offered
  /\ UNCHANGED <<objVars, call, missed, netVars, raised, asynchVars>>

-----------------------------------------------------------------------------
Construct(o) ==
  \E st \in Stack :
    \/ NewStream(o, st) /\ UNCHANGED offered
    \/ NewListener(o, st) /\ UNCHANGED offered
    \/ NewDatagram(o, st) /\ UNCHANGED <<asynchVars, offered>>

AppCall(o) ==
  /\ \/ AsynchOpen(o)
     \/ DatagramOpen(o)
     \/ BindAddress(o)
     \/ Close(o)
     \/ ConnectDatagram(o)
     \/ StopListening(o)
     \/ \E s \in Slot, f \in Fn \cup {NULL} : SetOn(o, s, f)
     \/ \E f \in Fn : Resolve(o, f) \/ Connect(o, f) \/ StartListening(o, f)
     \/ \E f \in Fn \cup {NULL} : SetOnDisconnect(o, f)
     \/ DeleteStream(o)
     \/ DeleteListener(o)
     \/ DeleteDatagram(o)
     \/ SocketDtor(o)
  /\ UNCHANGED <<asynchVars, offered>>

Continue ==
  /\ EndAssign \/ ResolveApi \/ ConnectApi \/ StartListeningApi
  /\ UNCHANGED <<asynchVars, offered>>

\* The application uses the pointer that onIncoming of l was given, and once.
TakeOffer(l, i) ==
  /\ <<l, i>> \in offered
  /\ offered' = offered \ {<<l, i>>}

Answer(l, i) ==
  /\ TakeOffer(l, i)
  /\ \/ \E s \in Streams : Accept(l, i, s) \/ AcceptDeprecated(l, i, s)
     \/ Reject(l, i) /\ UNCHANGED asynchVars

StackEvent(i) ==
  \/ RaiseError(i)
  \/ RaiseData(i)
  \/ RaiseDNS(i)
  \/ RaiseConnect(i)
  \/ RaiseDisconnect(i)
  \/ RaiseAccept(i)

Next ==
  \/ \E o \in Obj : Construct(o)
  \/ \E o \in Obj : AppCall(o)
  \/ \E o \in Obj : AsynchDtor(o) /\ UNCHANGED offered
  \/ Continue
  \/ \E l \in Listeners, i \in Impl : Answer(l, i)
  \/ \E c \in DOMAIN posted : RunCallback(c)
  \/ \E i \in Impl : StackEvent(i)

Spec == Init /\ [][Next]_vars

-----------------------------------------------------------------------------
(* Invariants.                                                             *)

Exists(o) == life[o] \in {"live", "~TCPAsynch", "~Socket"}

\* The TCP sockets whose ~TCPAsynch has not run: those the counter stands for.
Counted == {o \in TCP : life[o] \in {"live", "~TCPAsynch"}}

(* TCPAsynch: the counter is the number of TCP sockets, so it can neither  *)
(* wrap nor go below 0; minar runs the task _tick_handle stands for and no *)
(* other; the task runs only while a TCP socket exists.                    *)
TickExact ==
  /\ tcpSockets = Cardinality(Counted)
  /\ timers = IF tick = NULL THEN 0 ELSE 1
  /\ tick # NULL => Counted # {}

(* TCPAsynch: where every stack has an API table, no TCP socket is ever    *)
(* left without the periodic task.                                         *)
TickRunning == Known = Stack => (Counted # {} => tick # NULL)

Tick == INSTANCE TickService
          WITH Users <- TCP, users <- Counted, running <- tick # NULL

(* TCPAsynch: where every stack has an API table, the counter and the      *)
(* handle implement TickService.                                           *)
ImplementsTickService == Tick!Spec

(* An implementation belongs to at most one object, one that exists, is    *)
(* allocated as long as it belongs to it, and was got through an API table:*)
(* the calls guarded by impl # NULL never go through a null API.           *)
Ownership ==
  /\ \A o \in Obj : impl[o] # NULL =>
       Exists(o) /\ HasApi(o) /\ istate[impl[o]] # "free"
  /\ \A o, p \in Obj : impl[o] # NULL /\ impl[o] = impl[p] => o = p

(* The stack calls only handlers of objects that exist, and an object only *)
(* about its own implementation: no event reaches a destroyed object.      *)
HandlersAlive ==
  \A i \in Impl : sink[i] # NULL => Exists(sink[i]) /\ impl[sink[i]] = i

\* Where the pointer to a connection that nobody has accepted may be.
Announced(i) == {c \in DOMAIN posted : c.slot = "onIncoming" /\ c.arg = i}
Offers(i) == {x \in offered : x[2] = i}

Unclaimed(i) == istate[i] = "offered" /\ \A o \in Obj : impl[o] # i

OnceAtMost(i) ==
  /\ \A c \in Announced(i) : posted[c] = 1
  /\ \A c, d \in Announced(i) : c = d
  /\ \A x, y \in Offers(i) : x = y
  /\ Announced(i) = {} \/ Offers(i) = {}
  /\ Announced(i) \cup Offers(i) # {} => Unclaimed(i)

(* What makes Ownership inductive where accept is called: given that the   *)
(* application answers an offer once, the pointer is in one posted         *)
(* callback or with the application, and while it is, no object owns the   *)
(* implementation and the stack has not reused it.                         *)
HandedOverOnce == \A i \in Impl : OnceAtMost(i)

\* Where an implementation is: with a callback, the application, an object, or lost.
Place(i) ==
  IF Announced(i) # {} THEN "announced"
  ELSE IF Offers(i) # {} THEN "offered"
  ELSE IF \E o \in Obj : impl[o] = i THEN "owned"
  ELSE IF istate[i] = "free" THEN "free" ELSE "abandoned"

Hand == INSTANCE Handover WITH place <- [i \in Impl |-> Place(i)]

(* open, accept, reject and the destructors implement Handover: what an    *)
(* object got is freed with it and by nothing else.  An implementation is  *)
(* lost only if it is rejected or nobody is told of it.                    *)
ImplementsHandover == Hand!Spec

(* resolve and connect: an answer of the stack always finds the handler    *)
(* the request was made with, and a connection finds onIncoming set.       *)
RequestsAnswered ==
  /\ \A c \in DOMAIN posted : c.slot \in {"onDNS", "onConnect"} => c.fn = c.arg
  /\ \A o \in Obj : missed[o] \cap {"onDNS", "onConnect", "onIncoming"} = {}

(* Only onDisconnect, which is assigned with interrupts enabled while its  *)
(* event may come, can be posted half copied.                              *)
TornOnlyDisconnect ==
  \A c \in DOMAIN posted : c.fn = TORN => c.slot = "onDisconnect"

(* A callback is of a kind its object's class has.  A listener may hear of *)
(* data only once ~TCPListener has run and Socket's handler has taken over.*)
RoutedByClass ==
  \A c \in DOMAIN posted :
    /\ c.slot \in {"onConnect", "onDisconnect"} => c.obj \in Streams
    /\ c.slot = "onIncoming" => c.obj \in Listeners
    /\ c.slot \in {"onReadable", "onSent"} /\ c.obj \in Listeners => life[c.obj] # "live"

(* ~Socket: once it is through, no step posts a callback for the object.   *)
(* The error it posts itself, and what was posted before, is the last the  *)
(* scheduler can hold of an object that is gone.                           *)
QuietAfterDeath ==
  [][\A c \in DOMAIN posted' :
       life[c.obj] = "dead" => c \in DOMAIN posted /\ posted'[c] <= posted[c]]_vars

-----------------------------------------------------------------------------
(* What the invariants above need to be inductive.                         *)

\* A call in progress is about an object, and a request carries a handler.
CallOK ==
  /\ call.op \notin {"idle", "delete"} => call.obj \in Obj /\ call.slot \in Slot
  /\ call.op \in {"resolve", "connect"} => call.fn \in Fn
  /\ call.op = "delete" => call.pc = "api"

\* Only TCP sockets have a ~TCPAsynch to run; what is constructed has a stack.
LifeOK ==
  \A o \in Obj :
    /\ life[o] = "~TCPAsynch" => o \in TCP
    /\ life[o] # "raw" => stack[o] \in Stack

\* An onIncoming callback carries an implementation to a listener.
IncomingOK ==
  \A c \in DOMAIN posted :
    c.slot = "onIncoming" => c.obj \in Listeners /\ c.arg \in Impl

BaseInv == SocketTypeOK /\ ListenerTypeOK /\ CallOK /\ LifeOK /\ IncomingOK

TickInv == AsynchTypeOK /\ TickExact

\* A connection on its way to the application came through an API table.
OfferOK ==
  /\ \A c \in DOMAIN posted : c.slot = "onIncoming" => HasApi(c.obj) /\ life[c.obj] # "raw"
  /\ \A x \in offered : HasApi(x[1]) /\ life[x[1]] # "raw"

OwnershipInv == Ownership /\ HandlersAlive /\ HandedOverOnce /\ OfferOK

\* For what the stack may still answer, the handler it was asked with is in place.
AnswerReady(o) ==
  LET i == impl[o] IN
    /\ \A r \in asked[i] : r[1] = "onDNS" => on[o]["onDNS"] = r[2]
    /\ \A r \in asked[i] : r[1] = "onConnect" =>
         /\ istate[i] \in {"connecting", "closed"}
         /\ istate[i] = "connecting" => on[o]["onConnect"] = r[2]
    /\ istate[i] = "listening" => on[o]["onIncoming"] \in Fn

\* A request in progress replaces a handler that no answer can be looking for.
CallReady ==
  LET o == call.obj
      i == impl[o]
  IN  /\ call.op = "resolve" =>
           call.slot = "onDNS" /\ i # NULL /\ \A r \in asked[i] : r[1] # "onDNS"
      /\ call.op = "connect" =>
           call.slot = "onConnect" /\ (i # NULL => istate[i] # "connecting")
      /\ call.op = "start_listening" =>
           call.slot = "onIncoming" /\ call.fn \in Fn /\ (i # NULL => istate[i] # "listening")
      /\ call.op = "setOnDisconnect" => call.slot = "onDisconnect"
      /\ call.op \in {"resolve", "connect", "start_listening"} /\ call.pc = "api" =>
           on[o][call.slot] = call.fn

AnswersReady == \A o \in Obj : impl[o] # NULL => AnswerReady(o)
Unasked == \A i \in Impl : istate[i] = "free" \/ Unclaimed(i) => asked[i] = {}
NeverTorn == \A o \in Obj : \A s \in {"onError", "onReadable", "onSent"} : on[o][s] # TORN

HandlerInv == AnswersReady /\ Unasked /\ CallReady /\ NeverTorn

\* A callback is posted for an object that has been constructed.
PostedBuilt == \A c \in DOMAIN posted : life[c.obj] # "raw"

-----------------------------------------------------------------------------
(* What the documentation says and the code does not do.                   *)

(* Socket.h:115, README.md:9: errors are ignored if onError is not set.    *)
ErrorsIgnoredIfUnset == \A c \in DOMAIN posted : c.fn # NULL

(* TCPStream.h:79: the disconnect handler only needs to be configured once *)
(* onConnect has been called.  So no disconnect is dropped while the call  *)
(* of onConnect is still to come.                                          *)
DisconnectAfterOnConnect ==
  \A o \in Streams : "onDisconnect" \in missed[o] =>
    \A c \in DOMAIN posted : ~(c.obj = o /\ c.slot = "onConnect")

(* Socket.h:103: bind(SocketAddr) is the same as bind(char), which answers *)
(* NULL_PTR if the socket has not been opened (Socket.h:97).               *)
BindOverloadsAgree ==
  \A o \in Obj : life[o] = "live" /\ impl[o] = NULL =>
    BindAddrErrors(o) = BindStrErrors(o)

(* Socket.h:67: onDNS is the handler to call when the name is resolved: a  *)
(* whole handler that is called is the one that this name was asked with.  *)
AnswerToAsker ==
  \A c \in DOMAIN posted : c.slot = "onDNS" /\ c.fn # TORN => c.fn = c.arg
=============================================================================
