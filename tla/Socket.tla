------------------------------- MODULE Socket -------------------------------
(***************************************************************************)
(* The base class of the C++ socket layer (Socket.h, Socket.cpp), the      *)
(* scheduler queue its callbacks are posted to (minar) and the contract of *)
(* the network stack below it (sal), as far as this code relies on them.   *)
(*                                                                         *)
(* Two contexts run.  The main context runs the application: API calls and *)
(* posted callbacks, one at a time, to completion.  The stack interrupts   *)
(* it between any two steps to raise an event; the interrupt only posts a  *)
(* callback.  A step of this module is what the main context does without  *)
(* an interrupt being able to see it half done.                            *)
(***************************************************************************)
EXTENDS Naturals, FiniteSets

CONSTANTS
  Streams, Listeners, Datagrams, \* storage for one object of each class
  Impl,        \* the stack's socket implementations (struct socket .impl)
  Stack,       \* the stack identifiers an application may pass
  Known,       \* those of them for which socket_get_api finds an API table
  Fn,          \* the application's handler functions
  Used,        \* the handlers the application makes use of: it sets them with
               \* setOnXxx, or makes the request they belong to
  AppMay,      \* liberties the application takes: "reopen", "overlap"
  MaxEvents,   \* bound: the events the stack raises in one behaviour
  NULL,        \* null pointer, empty FunctionPointer
  TORN         \* a FunctionPointer of which an interrupt sees half a copy

Obj == Streams \cup Listeners \cup Datagrams
TCP == Streams \cup Listeners

SocketSlot == {"onDNS", "onError", "onReadable", "onSent"}
Slot == SocketSlot \cup {"onConnect", "onDisconnect", "onIncoming"}

ErrorEvents == {"RX_ERROR", "TX_ERROR", "ERROR"}
EventKind == ErrorEvents \cup {"RX_DONE", "TX_DONE", "DNS", "CONNECT",
                               "DISCONNECT", "ACCEPT", "NONE"}

ASSUME ConstantsAssumption ==
  /\ IsFiniteSet(Obj)
  /\ Streams \cap Listeners = {}
  /\ TCP \cap Datagrams = {}
  /\ Known \subseteq Stack
  /\ Used \subseteq Slot
  /\ AppMay \subseteq {"reopen", "overlap"}
  /\ MaxEvents \in Nat
  /\ NULL \notin Obj \cup Impl \cup Stack \cup Fn
  /\ TORN \notin Fn \cup {NULL}

VARIABLES
  life,    \* [Obj -> Life]: how far construction or destruction has got
  stack,   \* [Obj -> Stack or NULL]: _socket.stack; _socket.api follows from it
  impl,    \* [Obj -> Impl or NULL]: _socket.impl
  on,      \* [Obj -> [Slot -> Fn, NULL or TORN]]: the _onXxx members
  call,    \* the API call the main context is inside of, between two steps
  posted,  \* the bag of callbacks posted to minar and not yet run
  missed,  \* history: [Obj -> SUBSET Slot], events dropped for want of a handler
  istate,  \* [Impl -> ImplState]: the stack's view of an implementation
  sink,    \* [Impl -> Obj or NULL]: whose handler the stack calls for it
  asked,   \* [Impl -> SUBSET (Slot \X Fn)]: requests the stack has not answered
  raised   \* how many events the stack has raised

objVars == <<life, stack, impl, on>>
netVars == <<istate, sink, asked>>
socketVars == <<objVars, call, posted, missed, netVars, raised>>

\* "~C": the destructors down to C have yet to run, the vtable is that of C.
Life == {"raw", "live", "~TCPAsynch", "~Socket", "dead"}
ImplState == {"free", "open", "bound", "connecting", "connected", "down",
              "listening", "offered", "closed"}
ErrorCode == {"stack error", "UNIMPLEMENTED"}

Handler == Fn \cup {NULL, TORN}
Callback == [obj : Obj, slot : Slot, fn : Handler,
             arg : {NULL} \cup Impl \cup Fn \cup ErrorCode]
Call == [op : {"idle", "resolve", "connect", "start_listening",
               "setOnDisconnect", "delete"},
         obj : Obj \cup {NULL}, slot : Slot \cup {NULL},
         fn : Fn \cup {NULL}, pc : {"copy", "api"}]

Idle == [op |-> "idle", obj |-> NULL, slot |-> NULL, fn |-> NULL, pc |-> "api"]

SocketTypeOK ==
  /\ life \in [Obj -> Life]
  /\ stack \in [Obj -> Stack \cup {NULL}]
  /\ impl \in [Obj -> Impl \cup {NULL}]
  /\ on \in [Obj -> [Slot -> Handler]]
  /\ call \in Call
  /\ DOMAIN posted \subseteq Callback
  /\ \A c \in DOMAIN posted : posted[c] \in Nat \ {0}
  /\ missed \in [Obj -> SUBSET Slot]
  /\ istate \in [Impl -> ImplState]
  /\ sink \in [Impl -> Obj \cup {NULL}]
  /\ asked \in [Impl -> SUBSET (Slot \X Fn)]
  /\ raised \in 0..MaxEvents

SocketInit ==
  /\ life = [o \in Obj |-> "raw"]
  /\ stack = [o \in Obj |-> NULL]
  /\ impl = [o \in Obj |-> NULL]
  /\ on = [o \in Obj |-> [s \in Slot |-> NULL]]
  /\ call = Idle
  /\ posted = [c \in {} |-> 0]
  /\ missed = [o \in Obj |-> {}]
  /\ istate = [i \in Impl |-> "free"]
  /\ sink = [i \in Impl |-> NULL]
  /\ asked = [i \in Impl |-> {}]
  /\ raised = 0

-----------------------------------------------------------------------------
(* Helpers: who may be called, and what a posted callback holds.           *)

\* The main context is between calls and o is there to be called.
Main(o) == call = Idle /\ life[o] = "live"

\* _socket.api != NULL
HasApi(o) == stack[o] \in Known

\* _onXxx.bind(this, arg): handler and arguments are copied when it is posted.
Bind(o, s, arg) == [obj |-> o, slot |-> s, fn |-> on[o][s], arg |-> arg]

\* minar's queue: a callback is posted as often as it is bound, and one of its
\* occurrences is taken to be run.
Enqueue(q, c) ==
  [d \in DOMAIN q \cup {c} |->
     IF d # c THEN q[d] ELSE IF c \in DOMAIN q THEN q[c] + 1 ELSE 1]
Dequeue(q, c) ==
  IF q[c] = 1 THEN [d \in DOMAIN q \ {c} |-> q[d]] ELSE [q EXCEPT ![c] = @ - 1]

\* A call the stack has failed, or one refused before it reached the stack.
NoStackChange == UNCHANGED netVars

-----------------------------------------------------------------------------
(* The constructor: the handlers are zeroed (they are in SocketInit), the  *)
(* API table is looked up.  i is NULL, or the implementation that the      *)
(* accepting constructors of TCPStream put there.                          *)
SocketCtor(o, st, i) ==
  /\ call = Idle
  /\ life[o] = "raw"
  /\ stack' = [stack EXCEPT ![o] = st]
  /\ impl' = [impl EXCEPT ![o] = i]
  /\ UNCHANGED on

\* open without the test of the API table.
Open_NoApiCheck(o) ==
  /\ Main(o)
  /\ impl[o] = NULL
  /\ \E i \in Impl :
       /\ istate[i] = "free"
       /\ impl' = [impl EXCEPT ![o] = i]
       /\ istate' = [istate EXCEPT ![i] = "open"]
       /\ sink' = [sink EXCEPT ![i] = o]
  /\ UNCHANGED <<life, stack, on, call, posted, missed, asked, raised>>

(* open: BAD_STACK without an API table, else what create() answers.  A    *)
(* refused or failed open changes nothing.  Socket.h forbids reopening; an *)
(* application that may "reopen" does it all the same.                     *)
Open(o) ==
  /\ Main(o)
  /\ impl[o] = NULL \/ "reopen" \in AppMay
  /\ HasApi(o)
  /\ \E i \in Impl :
       /\ istate[i] = "free"
       /\ impl' = [impl EXCEPT ![o] = i]
       /\ istate' = [istate EXCEPT ![i] = "open"]
       /\ sink' = [sink EXCEPT ![i] = o]
  /\ UNCHANGED <<life, stack, on, call, posted, missed, asked, raised>>

(* The error codes each overload of bind can return.  bind(SocketAddr)     *)
(* calls the virtual open(af, pf), which both TCPAsynch and UDPSocket      *)
(* override with a stub: the object is never opened on the way.            *)
AsynchStubErrors == {"UNIMPLEMENTED"}
DatagramStubErrors == {"UNIMPLEMENTED"}
VirtualOpenErrors(o) == IF o \in TCP THEN AsynchStubErrors ELSE DatagramStubErrors
BindAddrErrors(o) ==
  IF impl[o] = NULL THEN VirtualOpenErrors(o) ELSE {"NONE", "stack error"}
BindStrErrors(o) ==
  IF impl[o] = NULL THEN {"NULL_PTR"}
                    ELSE {"stack error"} \cup BindAddrErrors(o)

(* bind, either overload, on an address.                                   *)
BindAddress(o) ==
  /\ Main(o)
  /\ "NONE" \in BindAddrErrors(o)
  /\ istate[impl[o]] = "open"
  /\ istate' = [istate EXCEPT ![impl[o]] = "bound"]
  /\ UNCHANGED <<objVars, call, posted, missed, sink, asked, raised>>

\* close that forgets the implementation, as if the socket had not been opened.
Close_Forget(o) ==
  /\ Main(o)
  /\ impl[o] # NULL
  /\ impl' = [impl EXCEPT ![o] = NULL]
  /\ istate' = [istate EXCEPT ![impl[o]] = "closed"]
  /\ sink' = [sink EXCEPT ![impl[o]] = NULL]
  /\ UNCHANGED <<life, stack, on, call, posted, missed, asked, raised>>

(* close: the implementation stays allocated; the stack drops the handler, *)
(* which is what resolve tests to answer CLOSED.  A failed close changes   *)
(* nothing.                                                                *)
Close(o) ==
  /\ Main(o)
  /\ impl[o] # NULL
  /\ istate' = [istate EXCEPT ![impl[o]] = "closed"]
  /\ sink' = [sink EXCEPT ![impl[o]] = NULL]
  /\ UNCHANGED <<objVars, call, posted, missed, asked, raised>>

-----------------------------------------------------------------------------
(* Assigning a handler.  A FunctionPointer is several words: an assignment *)
(* outside a critical section is a copy that an interrupt can see half of. *)

BeginAssign(o, opname, s, f) ==
  /\ Main(o)
  /\ on' = [on EXCEPT ![o][s] = TORN]
  /\ call' = [op |-> opname, obj |-> o, slot |-> s, fn |-> f, pc |-> "copy"]
  /\ UNCHANGED <<life, stack, impl, posted, missed, netVars, raised>>

EndAssign ==
  /\ call.op # "idle" /\ call.pc = "copy"
  /\ on' = [on EXCEPT ![call.obj][call.slot] = call.fn]
  /\ call' = IF call.op = "setOnDisconnect" THEN Idle ELSE [call EXCEPT !.pc = "api"]
  /\ UNCHANGED <<life, stack, impl, posted, missed, netVars, raised>>

\* What setOnError, setOnReadable and setOnSent would be without the mask.
SetOn_Unmasked(o, s, f) ==
  /\ s \in Used \cap {"onError", "onReadable", "onSent"}
  /\ f # NULL
  /\ BeginAssign(o, "setOnDisconnect", s, f)

(* setOnError, setOnReadable, setOnSent: the copy runs with interrupts     *)
(* disabled, so it is one step.  The application may pass an empty handler.*)
SetOn(o, s, f) ==
  /\ Main(o)
  /\ s \in Used \cap {"onError", "onReadable", "onSent"}
  /\ on' = [on EXCEPT ![o][s] = f]
  /\ UNCHANGED <<life, stack, impl, call, posted, missed, netVars, raised>>

(* resolve: refused if never opened (NULL_PTR) or closed (CLOSED); else    *)
(* the handler is replaced first, whatever the stack then answers.         *)
Resolve(o, f) ==
  /\ "onDNS" \in Used
  /\ impl[o] # NULL
  /\ istate[impl[o]] # "closed"
  /\ "overlap" \notin AppMay => \A r \in asked[impl[o]] : r[1] # "onDNS"
  /\ BeginAssign(o, "resolve", "onDNS", f)

\* The stack takes on the request r of the call in progress, or fails it.
StackAnswers(opname, accept) ==
  /\ call.op = opname /\ call.pc = "api"
  /\ call' = Idle
  /\ \/ accept
     \/ NoStackChange
  /\ UNCHANGED <<objVars, posted, missed, raised>>

Request(i) == asked' = [asked EXCEPT ![i] = @ \cup {<<call.slot, call.fn>>}]

ResolveApi ==
  StackAnswers("resolve", /\ Request(impl[call.obj])
                          /\ UNCHANGED <<istate, sink>>)

-----------------------------------------------------------------------------
(* Events.  _eventHandler runs in the interrupt: it looks the handler up   *)
(* and posts a callback if it is set.                                      *)

NoSlot == "none"

\* _eventHandler with the two data events mixed up.
SocketRoute_Swapped ==
  [k \in EventKind |->
     CASE k \in ErrorEvents -> "onError"
       [] k = "RX_DONE"     -> "onSent"
       [] k = "TX_DONE"     -> "onReadable"
       [] k = "DNS"         -> "onDNS"
       [] OTHER             -> NoSlot]

\* Socket::_eventHandler: the handler each event goes to.
SocketRoute ==
  [k \in EventKind |->
     CASE k \in ErrorEvents -> "onError"
       [] k = "RX_DONE"     -> "onReadable"
       [] k = "TX_DONE"     -> "onSent"
       [] k = "DNS"         -> "onDNS"
       [] OTHER             -> NoSlot]

\* Whether a torn handler tests as set is anybody's guess.
Handle(o, s, arg) ==
  \/ /\ s = NoSlot
     /\ UNCHANGED <<posted, missed>>
  \/ /\ s # NoSlot /\ on[o][s] # NULL
     /\ posted' = Enqueue(posted, Bind(o, s, arg))
     /\ UNCHANGED missed
  \/ /\ s # NoSlot /\ on[o][s] \in {NULL, TORN}
     /\ missed' = [missed EXCEPT ![o] = @ \cup {s}]
     /\ UNCHANGED posted

\* error_check on an error: the callback is posted whether or not onError is set.
ErrorCheck(o, err) == posted' = Enqueue(posted, Bind(o, "onError", err))

-----------------------------------------------------------------------------
(* ~Socket: the implementation is destroyed, an error is reported.  With   *)
(* no API table there is nothing to destroy.  HasApi stands for both tests *)
(* of ~Socket.  Assumptions on the stack: its table, if it has one, has a  *)
(* destroy, and that lets go of the implementation whatever it answers.    *)

\* ~Socket without the call of destroy().
SocketDtor_NoDestroy(o) ==
  /\ life[o] = "~Socket"
  /\ life' = [life EXCEPT ![o] = "dead"]
  /\ impl' = [impl EXCEPT ![o] = NULL]
  /\ call' = Idle
  /\ UNCHANGED <<stack, on, missed, raised, netVars, posted>>

SocketDtor(o) ==
  /\ life[o] = "~Socket"
  /\ life' = [life EXCEPT ![o] = "dead"]
  /\ impl' = [impl EXCEPT ![o] = NULL]
  /\ call' = Idle
  /\ UNCHANGED <<stack, on, missed, raised>>
  /\ IF HasApi(o)
     THEN /\ IF impl[o] = NULL
             THEN NoStackChange
             ELSE /\ istate' = [istate EXCEPT ![impl[o]] = "free"]
                  /\ sink' = [sink EXCEPT ![impl[o]] = NULL]
                  /\ asked' = [asked EXCEPT ![impl[o]] = {}]
          /\ \/ UNCHANGED posted
             \/ ErrorCheck(o, "stack error")
     ELSE NoStackChange /\ UNCHANGED posted
=============================================================================
