---------------------------- MODULE ClientProofs ----------------------------
(***************************************************************************)
(* What applications without a listener have in common: which steps of the *)
(* layer they take, who holds an implementation then, and how a client     *)
(* that deletes itself keeps its pointer.                                  *)
(***************************************************************************)
EXTENDS SocketsProofs, EchoClient

-----------------------------------------------------------------------------
(* The steps of an application without listeners that accept.             *)

\* The steps of the layer without accept and reject: calls and events, callbacks.
Work ==
  \/ \E o \in Obj : Construct(o) \/ AppCall(o)
  \/ \E o \in Obj : AsynchDtor(o) /\ UNCHANGED offered
  \/ Continue
  \/ \E i \in Impl : StackEvent(i)
LayerNext == Work \/ \E c \in DOMAIN posted : RunCallback(c)

(* They are steps of the layer.                                            *)
LEMMA LayerNextIsNext == LayerNext => Next
BY Zenon DEF LayerNext, Work, Next

(* A data event is one of the events the layer knows.                      *)
LEMMA ReceiveIsEvent ==
  ASSUME NEW i \in Impl, NEW units, Receive(i, units) \/ Confirm(i)
  PROVE  StackEvent(i)
BY Zenon DEF Receive, Confirm, StackEvent, RaiseData

-----------------------------------------------------------------------------
(* Who holds an implementation.                                            *)

(* What the rest of a request does to the layer.                           *)
LEMMA ContinueQuiet ==
  ASSUME Continue
  PROVE  /\ UNCHANGED <<life, stack, impl, sink, posted, missed>>
         /\ \/ UNCHANGED istate
            \/ /\ call.op = "connect" /\ impl[call.obj] # NULL
               /\ istate[impl[call.obj]] \in {"open", "bound"}
               /\ istate' = [istate EXCEPT ![impl[call.obj]] = "connecting"]
            \/ /\ call.op = "start_listening" /\ impl[call.obj] # NULL
               /\ istate[impl[call.obj]] \in {"open", "bound"}
               /\ istate' = [istate EXCEPT ![impl[call.obj]] = "listening"]
<1>1. CASE EndAssign BY Zenon, <1>1 DEF EndAssign, netVars
<1>2. CASE ResolveApi
  BY Zenon, <1>2 DEF ResolveApi, StackAnswers, NoStackChange, netVars, objVars
<1>3. CASE ConnectApi
  BY Zenon, <1>3 DEF ConnectApi, StackAnswers, NoStackChange, netVars, objVars
<1>4. CASE StartListeningApi
  BY Zenon, <1>4 DEF StartListeningApi, StackAnswers, NoStackChange, netVars, objVars
<1> QED BY Zenon, <1>1, <1>2, <1>3, <1>4 DEF Continue

(* What an event does to the layer, besides posting.                       *)
LEMMA EventQuiet ==
  ASSUME NEW i \in Impl, StackEvent(i)
  PROVE  /\ UNCHANGED <<life, stack, impl, on, call, sink>>
         /\ sink[i] # NULL
         /\ \/ UNCHANGED istate
            \/ istate[i] = "connecting" /\ istate' = [istate EXCEPT ![i] = "connected"]
            \/ istate[i] = "connected" /\ istate' = [istate EXCEPT ![i] = "down"]
            \/ \E j \in Impl : istate[j] = "free" /\ istate' = [istate EXCEPT ![j] = "offered"]
BY Zenon DEF StackEvent, RaiseError, RaiseData, RaiseDNS, RaiseConnect, RaiseDisconnect,
       RaiseAccept, Raise, objVars

(* Every step keeps HeldByOne.                                             *)
LEMMA HeldNext ==
  ASSUME BaseInv, HeldByOne, [LayerNext]_vars
  PROVE  HeldByOne'
\* A step that gives nobody an implementation and frees none keeps HeldByOne
\* if it makes handlers only go.
<1>HeldQuiet.
  ASSUME UNCHANGED <<stack, impl>>,
         \A i \in Impl : sink'[i] \in {sink[i], NULL},
         \A i \in Impl : istate'[i] = "free" => istate[i] = "free"
  PROVE  HeldByOne'
  <2> USE <1>HeldQuiet
  <2>1. Types BY Zenon, BaseTypes
  <2> QED BY Zenon, <2>1 DEF HeldByOne, HasApi, Types
\* open: a free implementation becomes o's.
<1>HeldOpen.
  ASSUME NEW o \in Obj, Open(o)
  PROVE  HeldByOne'
  <2> USE <1>HeldOpen
  <2>0. Types BY Zenon, BaseTypes
  <2>1. PICK i \in Impl : /\ istate[i] = "free"
                          /\ impl' = [impl EXCEPT ![o] = i]
                          /\ istate' = [istate EXCEPT ![i] = "open"]
                          /\ sink' = [sink EXCEPT ![i] = o]
    BY Zenon DEF Open
  <2>2. HasApi(o) /\ UNCHANGED stack BY Zenon DEF Open
  <2>3. \A p \in Obj : p # o => impl'[p] = impl[p] /\ impl[p] # i
    BY Zenon, <2>0, <2>1, ConstantsAssumption DEF HeldByOne, Types
  <2>4. impl'[o] = i /\ i # NULL BY Zenon, <2>0, <2>1, ConstantsAssumption DEF Types
  <2> QED BY <2>0, <2>1, <2>2, <2>3, <2>4 DEF HeldByOne, HasApi, Types
\* A constructor gives its object nothing to hold, and ~Socket takes away
\* what it held.
<1>HeldLess.
  ASSUME NEW o \in Obj, impl' = [impl EXCEPT ![o] = NULL],
         \A p \in Obj : p # o => stack'[p] = stack[p],
         \A i \in Impl : i # impl[o] => sink'[i] = sink[i] /\ istate'[i] = istate[i]
  PROVE  HeldByOne'
  <2> USE <1>HeldLess
  <2>0. Types BY Zenon, BaseTypes
  <2>1. impl'[o] = NULL /\ \A p \in Obj : p # o => impl'[p] = impl[p] BY Zenon, <2>0 DEF Types
  <2>2. \A p \in Obj : p # o /\ impl[p] # NULL => impl[p] # impl[o] /\ impl[p] \in Impl
    BY <2>0 DEF HeldByOne, Types
  <2> QED BY <2>1, <2>2 DEF HeldByOne, HasApi
\* What a call of the application does to HeldByOne.
<1>HeldCall.
  ASSUME NEW o \in Obj, AppCall(o)
  PROVE  HeldByOne'
  <2> USE <1>HeldCall
  <2>0. Types BY Zenon, BaseTypes
  <2>1. CASE AsynchOpen(o) \/ DatagramOpen(o)
    BY Zenon, <2>1, <1>HeldOpen DEF AsynchOpen, DatagramOpen
  <2>2. CASE SocketDtor(o)
    <3>1. /\ impl' = [impl EXCEPT ![o] = NULL] /\ UNCHANGED stack
          /\ \A i \in Impl : i # impl[o] => sink'[i] = sink[i] /\ istate'[i] = istate[i]
      BY Zenon, <2>0, <2>2 DEF SocketDtor, NoStackChange, netVars, Types
    <3> QED BY Zenon, <3>1, <1>HeldLess
  <2>3. CASE BindAddress(o) \/ Close(o) \/ ConnectDatagram(o)
    <3>1. UNCHANGED <<stack, impl>> /\ impl[o] # NULL
      BY Zenon, <2>3 DEF BindAddress, BindAddrErrors, VirtualOpenErrors, AsynchStubErrors,
                  DatagramStubErrors, Close, ConnectDatagram, objVars
    <3>2. \/ UNCHANGED sink
          \/ sink' = [sink EXCEPT ![impl[o]] = NULL]
      BY Zenon, <2>3 DEF BindAddress, Close, ConnectDatagram
    <3>3. \E x \in {"bound", "closed", "connected"} : istate' = [istate EXCEPT ![impl[o]] = x]
      BY Zenon, <2>3 DEF BindAddress, Close, ConnectDatagram
    <3> QED BY Zenon, <2>0, <3>1, <3>2, <3>3, <1>HeldQuiet DEF Types
  <2>4. CASE StopListening(o) \/ DeleteListener(o)
    <3>1. UNCHANGED <<stack, impl>> /\ StackStops(o)
      BY Zenon, <2>4 DEF StopListening, DeleteListener, objVars
    <3>2. UNCHANGED sink /\ (UNCHANGED istate \/ istate' = [istate EXCEPT ![impl[o]] = "bound"])
      BY Zenon, <3>1 DEF StackStops, NoStackChange, netVars
    <3> QED BY Zenon, <2>0, <3>1, <3>2, <1>HeldQuiet DEF Types
  <2>5. CASE \/ \E s \in Slot, f \in Fn \cup {NULL} : SetOn(o, s, f)
             \/ \E f \in Fn : Resolve(o, f) \/ Connect(o, f) \/ StartListening(o, f)
             \/ \E f \in Fn \cup {NULL} : SetOnDisconnect(o, f)
             \/ DeleteStream(o) \/ DeleteDatagram(o)
    <3>1. UNCHANGED <<stack, impl, netVars>>
      BY Zenon, <2>5 DEF SetOn, Resolve, Connect, StartListening, SetOnDisconnect, BeginAssign,
                  DeleteStream, DeleteDatagram
    <3> QED BY Zenon, <2>0, <3>1, <1>HeldQuiet DEF Types, netVars
  <2> QED BY Zenon, <2>1, <2>2, <2>3, <2>4, <2>5 DEF AppCall
<1>0. Types BY Zenon, BaseTypes
<1>1. ASSUME NEW o \in Obj, Construct(o) PROVE HeldByOne'
  <2>1. /\ impl' = [impl EXCEPT ![o] = NULL] /\ UNCHANGED <<sink, istate>>
        /\ \A p \in Obj : p # o => stack'[p] = stack[p]
    BY Zenon, <1>0, <1>1 DEF Construct, NewStream, NewListener, NewDatagram, SocketCtor, netVars, Types
  <2> QED BY Zenon, <2>1, <1>HeldLess
<1>2. ASSUME NEW o \in Obj, AsynchDtor(o) PROVE HeldByOne'
  BY Zenon, <1>0, <1>2, <1>HeldQuiet DEF AsynchDtor, netVars, Types
<1>3. CASE Continue
  <2>1. \A i \in Impl : istate'[i] = "free" => istate[i] = "free"
    BY Zenon, <1>0, <1>3, ContinueQuiet DEF Types
  <2> QED BY Zenon, <1>3, <2>1, ContinueQuiet, <1>HeldQuiet
<1>4. ASSUME NEW c \in DOMAIN posted, RunCallback(c) PROVE HeldByOne'
  BY Zenon, <1>4, <1>HeldQuiet DEF RunCallback, objVars, netVars
<1>5. ASSUME NEW i \in Impl, StackEvent(i) PROVE HeldByOne'
  <2>1. \A j \in Impl : istate'[j] = "free" => istate[j] = "free"
    BY Zenon, <1>0, <1>5, EventQuiet DEF Types
  <2> QED BY Zenon, <1>5, <2>1, EventQuiet, <1>HeldQuiet
<1>6. CASE UNCHANGED vars
  BY Zenon, <1>6, <1>HeldQuiet DEF vars, socketVars, objVars, netVars
<1> QED BY Zenon, <1>1, <1>2, <1>3, <1>4, <1>5, <1>6, <1>HeldCall DEF LayerNext, Work

-----------------------------------------------------------------------------
(* The echo clients: what both have in common.                             *)

(* There is a socket and a handler function for it.                        *)
LEMMA ClientKnown == Sock \in Obj /\ Func \in Fn
BY Zenon, ClientAssumption DEF Sock, Func

\* Only delete is followed by the verdict, and nothing by new.
WellOrdered(order) ==
  /\ \A x, y : <<x, y>> \in order =>
       y # "new" /\ (x = "delete" <=> y \in {"passed", "failed"})
  /\ {<<"close", "delete">>, <<"delete", "passed">>, <<"delete", "failed">>} \subseteq order

(* A handler that goes on to its next call keeps to the order.             *)
LEMMA TodoTail ==
  ASSUME NEW order, InOrder(order), todo # <<>>, todo' = Tail(todo)
  PROVE  /\ InOrder(order)'
         /\ todo' # <<>> => <<Head(todo), Head(todo')>> \in order
         /\ Head(todo) = "delete" => todo' # <<>>
<1>1. /\ todo \in Seq(Step) /\ Len(todo) \in Nat \ {0}
      /\ todo' \in Seq(Step) /\ Len(todo') = Len(todo) - 1
      /\ \A k \in 1..Len(todo') : todo'[k] = todo[k + 1]
  BY DEF InOrder
<1>2. InOrder(order)'
  <2>1. ASSUME NEW k \in 1..Len(todo')
        PROVE  /\ k + 1 \in 1..Len(todo) /\ todo'[k] = todo[k + 1]
               /\ k < Len(todo') => k + 1 < Len(todo) /\ todo'[k + 1] = todo[(k + 1) + 1]
               /\ k + 1 < Len(todo) => k < Len(todo')
    BY <1>1, <2>1
  <2> QED BY Zenon, <1>1, <2>1 DEF InOrder
<1>3. Head(todo) = todo[1] /\ (todo' # <<>> => Head(todo') = todo[2] /\ 1 < Len(todo))
  BY <1>1
<1>4. todo' # <<>> => <<Head(todo), Head(todo')>> \in order
  BY <1>1, <1>3 DEF InOrder
<1>5. Head(todo) = "delete" => todo' # <<>>
  <2> SUFFICES ASSUME Head(todo) = "delete" PROVE Len(todo') # Len(<<>>)
    BY Zenon
  <2>1. 1 \in 1..Len(todo) BY <1>1
  <2>2. 1 < Len(todo) BY Zenon, <1>3, <2>1 DEF InOrder
  <2> QED BY <1>1, <2>2
<1> QED BY Zenon, <1>2, <1>4, <1>5

(* A handler has a call left to make, of the client that is there.         *)
LEMMA DoingLive ==
  ASSUME BaseInv, PointerInv, todo # <<>>, Head(todo) \notin {"new", "passed", "failed"}
  PROVE  life[Sock] = "live" /\ client = Sock
<1>1. life[Sock] \in Life BY Zenon, ClientKnown DEF BaseInv, SocketTypeOK
<1> QED BY Zenon, <1>1 DEF PointerInv, Doing, Life

(* Between handlers the client is there as long as the test is on.         *)
LEMMA RestingLive ==
  ASSUME BaseInv, PointerInv, todo = <<>>, verdict = "none"
  PROVE  life[Sock] = "live" /\ client = Sock
<1>1. life[Sock] \in Life BY Zenon, ClientKnown DEF BaseInv, SocketTypeOK
<1> QED BY Zenon, <1>1 DEF PointerInv, Doing, Life

(* A client that stays is not about to give its verdict.                   *)
LEMMA StayLive ==
  ASSUME life'[Sock] = "live", client' = Sock,
         todo' = <<>> \/ Head(todo') \notin {"new", "passed", "failed"}
  PROVE  PointerInv'
BY Zenon DEF PointerInv, Doing

(* The client's own steps keep the client's own invariants.                *)
LEMMA ClientKeeps ==
  ASSUME NEW order, WellOrdered(order), InOrder(order), BaseInv, OnlyClient, PointerInv,
         ClientStep
  PROVE  OnlyClient' /\ PointerInv' /\ InOrder(order)'
\* A handler's call that leaves the client alive and calls nothing of the
\* layer, or one of its assignments.
<1>CallKeeps.
  ASSUME NEW step, Doing({step}), step \notin {"new", "delete", "passed", "failed"},
         todo' = Tail(todo), client' = client, life' = life, posted' = posted,
         \A i \in Impl : sink'[i] \in {Sock, NULL},
         ClientCall'
  PROVE  OnlyClient' /\ PointerInv' /\ InOrder(order)'
  <2> USE <1>CallKeeps
  <2>1. Head(todo) = step /\ todo # <<>> BY Zenon DEF Doing
  <2>2. life[Sock] = "live" /\ client = Sock BY Zenon, <2>1, DoingLive
  <2>3. InOrder(order)' /\ (todo' # <<>> => <<Head(todo), Head(todo')>> \in order)
    BY Zenon, <2>1, TodoTail
  <2>4. todo' = <<>> \/ Head(todo') \notin {"new", "passed", "failed"}
    <3>1. ASSUME NEW y, <<step, y>> \in order PROVE y \notin {"new", "passed", "failed"}
      BY Zenon, <3>1 DEF WellOrdered
    <3> QED BY Zenon, <2>1, <2>3, <3>1
  <2>5. PointerInv' BY Zenon, <2>2, <2>4, StayLive
  <2>6. OnlyClient' BY Zenon DEF OnlyClient
  <2> QED BY Zenon, <2>3, <2>5, <2>6
\* Starting to assign a handler is a call of the client.
<1>AssignCall.
  ASSUME NEW x \in {<<"setOnDisconnect", "onDisconnect">>, <<"resolve", "onDNS">>,
                    <<"connect", "onConnect">>},
         BeginAssign(Sock, x[1], x[2], Func)
  PROVE  ClientCall' /\ UNCHANGED <<life, impl, posted, istate, sink>>
  BY <1>AssignCall DEF BeginAssign, ClientCall, netVars
\* LayerCall keeps the client's own invariants.
<1>LayerCallKeeps.
  ASSUME LayerCall
  PROVE  OnlyClient' /\ PointerInv' /\ InOrder(order)'
  <2> USE <1>LayerCallKeeps
  <2>0. Types /\ Sock \in Obj BY Zenon, BaseTypes, ClientKnown
  <2>1. todo' = Tail(todo) /\ client' = client BY Zenon DEF LayerCall
  <2>2. ASSUME NEW step \in {"setOnError", "setOnReadable", "setOnSent"}, NEW s,
               At(step), SetOn(Sock, s, Func)
        PROVE  OnlyClient' /\ PointerInv' /\ InOrder(order)'
    <3>1. UNCHANGED <<life, posted, call, sink>> BY Zenon, <2>2 DEF SetOn, netVars
    <3>2. Doing({step}) BY Zenon, <2>2 DEF At
    <3>3. ClientCall' /\ \A i \in Impl : sink'[i] \in {Sock, NULL}
      BY Zenon, <3>1 DEF OnlyClient, ClientCall
    <3> QED BY Zenon, <2>1, <3>1, <3>2, <3>3, <1>CallKeeps
  <2>3. ASSUME NEW step \in {"setOnDisconnect", "resolve", "connect"}, At(step),
               NEW x \in {<<"setOnDisconnect", "onDisconnect">>, <<"resolve", "onDNS">>,
                          <<"connect", "onConnect">>},
               BeginAssign(Sock, x[1], x[2], Func)
        PROVE  OnlyClient' /\ PointerInv' /\ InOrder(order)'
    <3>1. UNCHANGED <<life, posted, sink>> /\ ClientCall' BY Zenon, <2>3, <1>AssignCall
    <3>2. Doing({step}) BY Zenon, <2>3 DEF At
    <3>3. \A i \in Impl : sink'[i] \in {Sock, NULL} BY Zenon, <3>1 DEF OnlyClient
    <3> QED BY Zenon, <2>1, <3>1, <3>2, <3>3, <1>CallKeeps
  <2>4. CASE At("open") /\ (AsynchOpen(Sock) \/ DatagramOpen(Sock))
    <3>1. UNCHANGED <<life, posted, call>> /\ \E i \in Impl : sink' = [sink EXCEPT ![i] = Sock]
      BY Zenon, <2>4 DEF AsynchOpen, DatagramOpen, Open
    <3>2. Doing({"open"}) BY Zenon, <2>4 DEF At
    <3>3. ClientCall' /\ \A i \in Impl : sink'[i] \in {Sock, NULL}
      BY Zenon, <2>0, <3>1 DEF OnlyClient, ClientCall, Types
    <3> QED BY Zenon, <2>1, <3>1, <3>2, <3>3, <1>CallKeeps
  <2>5. CASE Doing({"close"}) /\ CloseConnected
    <3>1. /\ UNCHANGED <<life, posted, call>>
          /\ UNCHANGED sink \/ sink' = [sink EXCEPT ![impl[Sock]] = NULL]
      BY Zenon, <2>5 DEF CloseConnected, Close, socketVars, objVars, netVars
    <3>3. ClientCall' /\ \A i \in Impl : sink'[i] \in {Sock, NULL}
      BY Zenon, <2>0, <3>1 DEF OnlyClient, ClientCall, Types
    <3> QED BY Zenon, <2>1, <2>5, <3>1, <3>3, <1>CallKeeps
  <2>6. CASE Doing({"delete"}) /\ (DeleteStream(Sock) \/ DeleteDatagram(Sock))
    <3>1. /\ UNCHANGED <<posted, sink>>
          /\ \E x \in {"~TCPAsynch", "~Socket"} : life' = [life EXCEPT ![Sock] = x]
          /\ call' = [Idle EXCEPT !.op = "delete", !.obj = Sock]
      BY Zenon, <2>6 DEF DeleteStream, DeleteDatagram, netVars
    <3>2. call'.op = "delete" /\ call'.obj = Sock BY Zenon, <3>1 DEF Idle
    <3>3. todo # <<>> /\ Head(todo) = "delete" BY Zenon, <2>6 DEF Doing
    <3>4. /\ InOrder(order)' /\ todo' # <<>> /\ <<Head(todo), Head(todo')>> \in order
      BY Zenon, <2>1, <3>3, TodoTail
    <3>5. Head(todo') \in {"passed", "failed"} BY Zenon, <3>3, <3>4 DEF WellOrdered
    <3>6. /\ life'[Sock] \in {"~TCPAsynch", "~Socket"}
          /\ \A o \in Obj \ {Sock} : life'[o] = life[o]
      BY Zenon, <2>0, <3>1 DEF Types
    <3>7. PointerInv' BY Zenon, <3>2, <3>4, <3>5, <3>6 DEF PointerInv, Doing
    <3>8. OnlyClient' BY Zenon, <3>1, <3>2, <3>6 DEF OnlyClient, ClientCall
    <3> QED BY Zenon, <3>4, <3>7, <3>8
  <2> QED BY Zenon, <2>2, <2>3, <2>4, <2>5, <2>6 DEF LayerCall, SetOnDisconnect, Resolve, Connect
\* A handler's assertion failed, or it goes on where it was.
<1>ProceedKeeps.
  ASSUME Proceed
  PROVE  OnlyClient' /\ PointerInv' /\ InOrder(order)'
  <2> USE <1>ProceedKeeps
  <2>0. call \in Call /\ life[Sock] \in Life /\ CallOK
    BY Zenon, ClientKnown DEF BaseInv, SocketTypeOK
  <2>1. Continue /\ UNCHANGED client /\ (todo' = todo \/ todo' = <<>>)
    BY Zenon DEF Proceed, Below, Assert
  <2>2. call.op # "idle" /\ (call.pc = "copy" \/ call.op \in {"resolve", "connect", "start_listening"})
    BY Zenon, <2>1 DEF Continue, EndAssign, ResolveApi, ConnectApi, StartListeningApi, StackAnswers
  <2>3. call # Idle /\ call.op # "delete" BY <2>0, <2>2 DEF CallOK, Idle
  <2>4. life[Sock] = "live" BY Zenon, <2>0, <2>3 DEF PointerInv, Life
  <2>5. UNCHANGED <<life, sink, posted>> BY Zenon, <2>1, ContinueQuiet
  <2>6. PointerInv' BY Zenon, <2>1, <2>4, <2>5, StayLive DEF PointerInv, Doing
  <2>7. call' = Idle \/ call' = [call EXCEPT !.pc = "api"]
    BY Zenon, <2>1 DEF Continue, EndAssign, ResolveApi, ConnectApi, StartListeningApi, StackAnswers
  <2>8. ClientCall'
    <3>1. CASE call' = Idle BY Zenon, <3>1 DEF Idle, ClientCall
    <3>2. CASE call' = [call EXCEPT !.pc = "api"]
      <4>1. /\ call'.op = call.op /\ call'.obj = call.obj
            /\ call'.slot = call.slot /\ call'.fn = call.fn
        BY Zenon, <2>0, <3>2 DEF Call
      <4> QED BY Zenon, <4>1 DEF ClientCall, OnlyClient
    <3> QED BY Zenon, <2>7, <3>1, <3>2
  <2>9. InOrder(order)'
    <3>1. CASE todo' = todo BY Zenon, <3>1 DEF InOrder
    <3>2. CASE todo' = <<>> BY <3>2 DEF InOrder
    <3> QED BY Zenon, <2>1, <3>1, <3>2
  <2> QED BY Zenon, <2>5, <2>6, <2>8, <2>9 DEF OnlyClient
\* The destructors run to their end before anything else is done.
<1>DestroyKeeps.
  ASSUME Destroy
  PROVE  OnlyClient' /\ PointerInv' /\ InOrder(order)'
  <2> USE <1>DestroyKeeps
  <2>0. Types /\ Sock \in Obj BY Zenon, BaseTypes, ClientKnown
  <2>1. UNCHANGED <<todo, client>> BY Zenon DEF Destroy, echoVars
  <2>2. InOrder(order)' BY Zenon, <2>1 DEF InOrder
  <2>3. CASE AsynchDtor(Sock)
    <3>1. /\ life[Sock] = "~TCPAsynch" /\ life' = [life EXCEPT ![Sock] = "~Socket"]
          /\ UNCHANGED <<call, posted, sink>>
      BY Zenon, <2>3 DEF AsynchDtor, netVars
    <3>2. life'[Sock] = "~Socket" /\ \A o \in Obj \ {Sock} : life'[o] = life[o]
      BY Zenon, <2>0, <3>1 DEF Types
    <3>3. PointerInv' BY Zenon, <2>1, <3>1, <3>2 DEF PointerInv, Doing
    <3>4. OnlyClient' BY Zenon, <3>1, <3>2 DEF OnlyClient, ClientCall
    <3> QED BY Zenon, <2>2, <3>3, <3>4
  <2>4. CASE SocketDtor(Sock)
    <3>1. /\ life[Sock] = "~Socket" /\ life' = [life EXCEPT ![Sock] = "dead"] /\ call' = Idle
          /\ UNCHANGED sink \/ sink' = [sink EXCEPT ![impl[Sock]] = NULL]
          /\ UNCHANGED posted \/ ErrorCheck(Sock, "stack error")
      BY Zenon, <2>4 DEF SocketDtor, NoStackChange, netVars
    <3>2. life'[Sock] = "dead" /\ \A o \in Obj \ {Sock} : life'[o] = life[o]
      BY Zenon, <2>0, <3>1 DEF Types
    <3>3. PointerInv' BY Zenon, <2>1, <3>1, <3>2 DEF PointerInv, Doing
    <3>4. \A c \in DOMAIN posted' : c.obj = Sock
      <4>1. CASE ErrorCheck(Sock, "stack error")
        <5>1. PICK d : d = Bind(Sock, "onError", "stack error") BY Zenon
        <5>2. DOMAIN posted' = DOMAIN posted \cup {d} BY Zenon, <4>1, <5>1, EnqueueDomain DEF ErrorCheck
        <5>3. d.obj = Sock BY Zenon, <5>1 DEF Bind
        <5> QED BY Zenon, <5>2, <5>3 DEF OnlyClient
      <4> QED BY Zenon, <3>1, <4>1 DEF OnlyClient
    <3>5. ClientCall' BY Zenon, <3>1 DEF ClientCall, Idle
    <3>6. \A i \in Impl : sink'[i] \in {Sock, NULL} BY Zenon, <2>0, <3>1 DEF OnlyClient, Types
    <3>7. OnlyClient' BY Zenon, <3>2, <3>4, <3>5, <3>6 DEF OnlyClient
    <3> QED BY Zenon, <2>2, <3>3, <3>7
  <2> QED BY Zenon, <2>3, <2>4 DEF Destroy, Below
<1>0. Types /\ Sock \in Obj /\ NULL \notin Obj /\ life[Sock] \in Life
  BY Zenon, BaseTypes, ClientKnown, ConstantsAssumption DEF Types
<1>1. CASE New
  <2>1. /\ todo # <<>> /\ Head(todo) = "new" /\ todo' = Tail(todo) /\ client' = Sock
        /\ Construct(Sock)
    BY Zenon, <1>1 DEF New, At, Doing, Below
  <2>2. /\ life' = [life EXCEPT ![Sock] = "live"] /\ UNCHANGED <<call, posted, sink>>
    BY Zenon, <2>1 DEF Construct, NewStream, NewListener, NewDatagram, netVars
  <2>3. InOrder(order)' /\ (todo' # <<>> => <<"new", Head(todo')>> \in order)
    BY Zenon, <2>1, TodoTail
  <2>4. todo' = <<>> \/ Head(todo') \notin {"new", "passed", "failed"}
    <3>1. ASSUME NEW y, <<"new", y>> \in order PROVE y \notin {"new", "passed", "failed"}
      BY Zenon, <3>1 DEF WellOrdered
    <3> QED BY Zenon, <2>3, <3>1
  <2>5. life'[Sock] = "live" /\ \A o \in Obj \ {Sock} : life'[o] = life[o]
    BY Zenon, <1>0, <2>2 DEF Types
  <2>6. PointerInv' BY Zenon, <2>1, <2>4, <2>5, StayLive
  <2>7. OnlyClient' BY Zenon, <2>2, <2>5 DEF OnlyClient, ClientCall
  <2> QED BY Zenon, <2>3, <2>6, <2>7
<1>2. CASE OpenRefused
  <2>1. /\ todo # <<>> /\ Head(todo) = "open" /\ todo' = <<>>
        /\ UNCHANGED <<client, life, sink, posted, call>>
    BY Zenon, <1>2 DEF OpenRefused, At, Doing, Assert, allVars, vars, socketVars, objVars, netVars
  <2>2. life[Sock] = "live" /\ client = Sock BY Zenon, <2>1, DoingLive
  <2>3. PointerInv' BY Zenon, <2>1, <2>2, StayLive
  <2>4. OnlyClient' /\ InOrder(order)' BY <2>1 DEF OnlyClient, ClientCall, InOrder
  <2> QED BY Zenon, <2>3, <2>4
<1>3. CASE Finish
  <2>1. /\ todo # <<>> /\ Head(todo) \in {"passed", "failed"} /\ todo' = <<>> /\ call = Idle
        /\ client' = NULL /\ verdict' # "none"
        /\ UNCHANGED <<life, sink, posted, call>>
    BY Zenon, <1>3 DEF Finish, Doing, allVars, vars, socketVars, objVars, netVars
  <2>2. life[Sock] = "dead" BY Zenon, <1>0, <2>1 DEF PointerInv, Doing, Life, Idle
  <2>3. PointerInv' BY Zenon, <2>1, <2>2 DEF PointerInv, Doing
  <2>4. OnlyClient' /\ InOrder(order)' BY <2>1 DEF OnlyClient, ClientCall, InOrder
  <2> QED BY Zenon, <2>3, <2>4
<1>4. ASSUME NEW status \in BOOLEAN, Terminate(status)
      PROVE  OnlyClient' /\ PointerInv' /\ InOrder(order)'
  <2>1. todo = <<>> /\ UNCHANGED <<client, life, sink, posted, call, verdict>>
    BY Zenon, <1>4 DEF Terminate, allVars, vars, socketVars, objVars, netVars
  <2>0. CASE client = NULL
    <3>1. UNCHANGED todo BY Zenon, <1>4, <2>0, <2>1 DEF Terminate
    <3> QED BY Zenon, <2>1, <3>1 DEF OnlyClient, ClientCall, PointerInv, Doing, InOrder
  <2> SUFFICES ASSUME client # NULL PROVE OnlyClient' /\ PointerInv' /\ InOrder(order)'
    BY Zenon, <2>0
  <2>2. life[Sock] = "live" /\ client = Sock BY Zenon, <1>0, <2>1 DEF PointerInv, Doing, Life
  <2>3. \E x \in {"passed", "failed"} : todo' = <<"close", "delete", x>>
    BY Zenon, <1>0, <1>4, <2>2 DEF Terminate
  <2>4. PICK x \in {"passed", "failed"} : todo' = <<"close", "delete", x>> BY Zenon, <2>3
  <2>5. Head(todo') = "close" BY <2>4
  <2>6. PointerInv' BY Zenon, <2>1, <2>2, <2>5, StayLive
  <2>7. OnlyClient' BY Zenon, <2>1 DEF OnlyClient, ClientCall
  <2>8. InOrder(order)'
    <3>0. x \in Step BY Zenon DEF Step
    <3>1. /\ Len(todo') = 3 /\ todo' \in Seq(Step)
          /\ todo'[1] = "close" /\ todo'[2] = "delete" /\ todo'[3] = x
      BY <2>4, <3>0 DEF Step
    <3>2. <<"close", "delete">> \in order /\ <<"delete", x>> \in order BY Zenon DEF WellOrdered
    <3>3. ASSUME NEW k \in 1..3
          PROVE  /\ k < 3 => <<todo'[k], todo'[k + 1]>> \in order
                 /\ todo'[k] = "delete" => k < 3
      <4>1. CASE k = 1 BY <3>1, <3>2, <4>1
      <4>2. CASE k = 2 BY <3>1, <3>2, <4>2
      <4>3. CASE k = 3 BY <3>1, <4>3
      <4> QED BY <4>1, <4>2, <4>3
    <3> QED BY Zenon, <3>1, <3>3 DEF InOrder
  <2> QED BY Zenon, <2>6, <2>7, <2>8
<1> QED BY Zenon, <1>1, <1>2, <1>3, <1>4, <1>LayerCallKeeps, <1>ProceedKeeps,
   <1>DestroyKeeps DEF ClientStep

(* A handler starts: it finds the client there and leaves it there.        *)
LEMMA RunKeeps ==
  ASSUME BaseInv, OnlyClient, PointerInv, NEW c \in DOMAIN posted, NEW slot, Run(c, slot),
         todo' = <<>> \/ Head(todo') \notin {"new", "passed", "failed"}
  PROVE  OnlyClient' /\ PointerInv'
<1>1. /\ todo = <<>> /\ verdict = "none" /\ client' = client
      /\ UNCHANGED <<life, sink, call>> /\ posted' = Dequeue(posted, c)
  BY Zenon DEF Run, Below, RunCallback, objVars, netVars
<1>2. life[Sock] = "live" /\ client = Sock BY Zenon, <1>1, RestingLive
<1>3. PointerInv' BY Zenon, <1>1, <1>2, StayLive
<1>4. DOMAIN posted' \subseteq DOMAIN posted BY Zenon, <1>1, DequeueDomain
<1> QED BY Zenon, <1>1, <1>3, <1>4 DEF OnlyClient, ClientCall

(* An event posts for the client's socket and changes nothing else of it.  *)
LEMMA EventKeeps ==
  ASSUME NEW order, InOrder(order), BaseInv, OnlyClient, PointerInv,
         NEW i \in Impl, StackEvent(i), UNCHANGED echoVars
  PROVE  OnlyClient' /\ PointerInv' /\ InOrder(order)'
<1>1. UNCHANGED <<life, call, sink>> /\ sink[i] = Sock BY Zenon, EventQuiet DEF OnlyClient
<1>2. UNCHANGED <<client, todo, verdict>> BY Zenon DEF echoVars
<1>3. PointerInv' /\ InOrder(order)' BY Zenon, <1>1, <1>2 DEF PointerInv, Doing, InOrder
<1>4. \A c \in DOMAIN posted' : c.obj = Sock
  <2>1. PICK k, arg : k \in EventKind /\ Raise(i, k, arg)
    BY Zenon DEF StackEvent, RaiseError, RaiseData, RaiseDNS, RaiseConnect, RaiseDisconnect,
           RaiseAccept, EventKind, ErrorEvents
  <2>2. EventHandler(Sock, k, arg) BY Zenon, <1>1, <2>1 DEF Raise
  <2>3. UNCHANGED posted \/ \E s, a : Handle(Sock, s, a)
    BY Zenon, <2>1, <2>2, EventRoutes, ClientKnown
  <2>4. ASSUME NEW s, NEW a, posted' = Enqueue(posted, Bind(Sock, s, a))
        PROVE  \A c \in DOMAIN posted' : c.obj = Sock
    <3>1. PICK d : d = Bind(Sock, s, a) BY Zenon
    <3>2. DOMAIN posted' = DOMAIN posted \cup {d} BY Zenon, <2>4, <3>1, EnqueueDomain
    <3>3. d.obj = Sock BY Zenon, <3>1 DEF Bind
    <3> QED BY Zenon, <3>2, <3>3 DEF OnlyClient
  <2> QED BY Zenon, <2>3, <2>4 DEF Handle, OnlyClient
<1> QED BY Zenon, <1>1, <1>3, <1>4 DEF OnlyClient, ClientCall

(* A data call leaves the client alive, and the layer as it is.            *)
LEMMA DataKeeps ==
  ASSUME OnlyClient, PointerInv, Main(Sock), UNCHANGED <<vars, client>>,
         todo' = <<>> \/ Head(todo') \notin {"new", "passed", "failed"}
  PROVE  OnlyClient' /\ PointerInv'
<1>1. UNCHANGED <<life, call, sink, posted>> BY Zenon DEF vars, socketVars, objVars, netVars
<1>2. life[Sock] = "live" /\ client = Sock BY Zenon DEF Main, PointerInv
<1>3. PointerInv' BY Zenon, <1>1, <1>2, StayLive
<1> QED BY Zenon, <1>1, <1>3 DEF OnlyClient, ClientCall

(* What the invariant says between handlers.                               *)
LEMMA PointerMeans == ASSUME BaseInv, PointerInv PROVE DeletedOnce
<1>1. life[Sock] \in Life /\ Sock # NULL
  BY Zenon, ClientKnown, ConstantsAssumption DEF BaseInv, SocketTypeOK
<1> QED BY Zenon, <1>1 DEF PointerInv, DeletedOnce, Doing, Life, Idle

(* Posting terminate() once more counts one verdict and no other.          *)
LEMMA PostType ==
  ASSUME NEW status \in BOOLEAN, terminates \in [BOOLEAN -> Nat], Post(status)
  PROVE  /\ terminates' \in [BOOLEAN -> Nat]
         /\ \A other \in BOOLEAN : other # status => terminates'[other] = terminates[other]
<1>1. terminates[status] + 1 \in Nat OBVIOUS
<1>2. terminates' = [terminates EXCEPT ![status] = terminates[status] + 1] BY Zenon DEF Post
<1> QED BY <1>1, <1>2, Zenon

(* The clients take only steps of the layer.                               *)
LEMMA ClientIsLayer == ClientStep => [LayerNext]_vars
<1>0. Sock \in Obj /\ Func \in Fn BY Zenon, ClientKnown
<1>1. CASE LayerCall
  <2>1. UNCHANGED <<asynchVars, offered>> BY Zenon, <1>1 DEF LayerCall, Below
  <2>2. CASE \E s \in {"onError", "onReadable", "onSent"} : SetOn(Sock, s, Func)
    <3>1. \E s \in Slot, f \in Fn \cup {NULL} : SetOn(Sock, s, f)
      BY Zenon, <1>0, <2>2 DEF Slot, SocketSlot
    <3> QED BY Zenon, <1>0, <2>1, <3>1 DEF LayerNext, Work, AppCall
  <2>3. CASE \/ SetOnDisconnect(Sock, Func) \/ AsynchOpen(Sock) \/ DatagramOpen(Sock)
             \/ Resolve(Sock, Func) \/ Connect(Sock, Func) \/ Close(Sock)
             \/ DeleteStream(Sock) \/ DeleteDatagram(Sock)
    BY Zenon, <1>0, <2>1, <2>3 DEF LayerNext, Work, AppCall
  <2>4. CASE UNCHANGED socketVars BY Zenon, <2>1, <2>4 DEF vars
  <2> QED BY Zenon, <1>1, <2>2, <2>3, <2>4 DEF LayerCall, CloseConnected
<1>2. CASE New BY Zenon, <1>0, <1>2 DEF New, Below, LayerNext, Work
<1>3. CASE OpenRefused \/ Finish \/ \E status \in BOOLEAN : Terminate(status)
  BY Zenon, <1>3 DEF OpenRefused, Finish, Terminate, allVars
<1>4. CASE Proceed BY Zenon, <1>4 DEF Proceed, Below, LayerNext, Work
<1>5. CASE Destroy
  BY Zenon, <1>0, <1>5 DEF Destroy, Below, LayerNext, Work, AppCall
<1> QED BY Zenon, <1>1, <1>2, <1>3, <1>4, <1>5 DEF ClientStep

(* So do the events and the callbacks.                                     *)
LEMMA EventIsLayer ==
  /\ Answers => \E i \in Impl : StackEvent(i) /\ (RaiseDNS(i) \/ RaiseConnect(i)) /\ ForgetFreed
  /\ Faulty => \E i \in Impl : StackEvent(i) /\ (RaiseError(i) \/ RaiseDisconnect(i)) /\ ForgetFreed
  /\ \A i \in Impl : StackEvent(i) => LayerNext
  /\ \A c \in DOMAIN posted : \A slot : Run(c, slot) => LayerNext
BY Zenon DEF Answers, Faulty, Below, StackEvent, LayerNext, Work, Run
=============================================================================
