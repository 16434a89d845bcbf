--------------------------- MODULE SocketsProofs ----------------------------
(***************************************************************************)
(* The theorems about the socket layer, for any number of objects, stacks, *)
(* implementations and events: the types, where the events go, and who     *)
(* owns an implementation.                                                 *)
(***************************************************************************)
EXTENDS Sockets, TLAPS

-----------------------------------------------------------------------------
(* The queue of posted callbacks.                                          *)

(* Posting adds one callback to the queue and no other.                    *)
LEMMA EnqueueDomain ==
  ASSUME NEW b, NEW c
  PROVE  DOMAIN Enqueue(b, c) = DOMAIN b \cup {c}
BY Zenon DEF Enqueue

(* Running takes at most the one callback from the queue.                  *)
LEMMA DequeueDomain ==
  ASSUME NEW b, NEW c \in DOMAIN b
  PROVE  DOMAIN Dequeue(b, c) \subseteq DOMAIN b
BY Zenon DEF Dequeue

-----------------------------------------------------------------------------
(* Types.                                                                  *)

PostedOK ==
  /\ DOMAIN posted \subseteq Callback
  /\ \A c \in DOMAIN posted : posted[c] \in Nat \ {0}
  /\ IncomingOK

Arg == {NULL} \cup Impl \cup Fn \cup ErrorCode

(* What a step of the base proof has to show besides TCPAsynch's part.     *)
StepOK ==
  SocketTypeOK' /\ ListenerTypeOK' /\ CallOK' /\ LifeOK' /\ IncomingOK'

-----------------------------------------------------------------------------
(* The initial state satisfies the base invariant.                         *)
LEMMA BaseInit == Init => BaseInv
<1> SUFFICES ASSUME Init PROVE BaseInv
  BY Zenon
<1> USE DEF Init, SocketInit, ListenerInit
<1>1. SocketTypeOK
  BY ConstantsAssumption
     DEF SocketTypeOK, Life, Handler, Idle, Call, ImplState, Callback
<1>2. ListenerTypeOK BY Zenon DEF ListenerTypeOK
<1>3. CallOK /\ LifeOK /\ IncomingOK BY Zenon DEF CallOK, Idle, LifeOK, IncomingOK
<1> QED BY Zenon, <1>1, <1>2, <1>3 DEF BaseInv

(* Every step keeps the base invariant.                                    *)
LEMMA BaseNext ==
  ASSUME BaseInv, [Next]_vars
  PROVE  BaseInv'
\* Posting a callback keeps the queue a bag of callbacks.
<1>EnqueueType.
  ASSUME NEW b, NEW c \in Callback, DOMAIN b \subseteq Callback,
         \A d \in DOMAIN b : b[d] \in Nat \ {0}
  PROVE  /\ DOMAIN Enqueue(b, c) \subseteq Callback
         /\ \A d \in DOMAIN Enqueue(b, c) : Enqueue(b, c)[d] \in Nat \ {0}
  BY <1>EnqueueType DEF Enqueue
\* Running a callback keeps the queue a bag of callbacks.
<1>DequeueType.
  ASSUME NEW b, NEW c \in DOMAIN b, DOMAIN b \subseteq Callback,
         \A d \in DOMAIN b : b[d] \in Nat \ {0}
  PROVE  /\ DOMAIN Dequeue(b, c) \subseteq Callback
         /\ \A d \in DOMAIN Dequeue(b, c) : Dequeue(b, c)[d] \in Nat \ {0}
  BY <1>DequeueType DEF Dequeue
\* Posting a bound handler of the object's own keeps the queue well typed.
<1>PostTypes.
  ASSUME NEW o \in Obj, NEW s \in Slot, NEW arg \in Arg,
         s = "onIncoming" => o \in Listeners /\ arg \in Impl,
         posted' = Enqueue(posted, Bind(o, s, arg))
  PROVE  PostedOK'
  <2> USE <1>PostTypes
  <2> DEFINE c == Bind(o, s, arg)
  <2>1. c \in Callback
    <3>1. on[o][s] \in Handler BY DEF BaseInv, SocketTypeOK
    <3> QED BY Zenon, <3>1 DEF Bind, Callback, Arg
  <2>2. c.slot = s /\ c.obj = o /\ c.arg = arg BY Zenon DEF Bind
  <2> HIDE DEF c
  <2>3. DOMAIN posted \subseteq Callback /\ \A d \in DOMAIN posted : posted[d] \in Nat \ {0}
    BY Zenon DEF BaseInv, SocketTypeOK
  <2>4. posted' = Enqueue(posted, c) BY Zenon DEF c
  <2>5. DOMAIN Enqueue(posted, c) \subseteq Callback
        /\ \A d \in DOMAIN Enqueue(posted, c) : Enqueue(posted, c)[d] \in Nat \ {0}
    BY Zenon, <2>1, <2>3, <1>EnqueueType
  <2>6. DOMAIN posted' = DOMAIN posted \cup {c} BY Zenon, <2>4, EnqueueDomain
  <2>7. IncomingOK' BY Zenon, <2>2, <2>6 DEF IncomingOK, BaseInv
  <2> QED BY Zenon, <2>4, <2>5, <2>7 DEF PostedOK
\* An event, on whatever object, posts a callback of its types or notes a
\* missed one.
<1>EventTypes.
  ASSUME NEW o \in Obj, NEW k \in EventKind, NEW arg \in Arg,
         k = "ACCEPT" => arg \in Impl, EventHandler(o, k, arg)
  PROVE  PostedOK' /\ missed' \in [Obj -> SUBSET Slot]
  <2> USE <1>EventTypes
  <2>1. PICK s \in Slot \cup {NoSlot}, a \in Arg :
          /\ s = "onIncoming" => o \in Listeners /\ a \in Impl
          /\ Handle(o, s, a)
    <3>1. CASE o \in Streams /\ life[o] = "live"
      <4>1. StreamRoute[k] \in Slot \cup {NoSlot} /\ StreamRoute[k] # "onIncoming"
        BY Zenon DEF StreamRoute, SocketRoute, EventKind, ErrorEvents, Slot, SocketSlot, NoSlot
      <4>2. o \notin Listeners BY Zenon, <3>1, ConstantsAssumption
      <4>3. Handle(o, StreamRoute[k], arg) BY Zenon, <3>1, <4>2 DEF EventHandler
      <4> QED BY Zenon, <4>1, <4>3
    <3>2. CASE o \in Listeners /\ life[o] = "live"
      <4>1. /\ ListenerRoute[k] \in Slot \cup {NoSlot}
            /\ ListenerRoute[k] = "onIncoming" => k = "ACCEPT"
        BY Zenon DEF ListenerRoute, EventKind, ErrorEvents, Misplaced, Slot, SocketSlot, NoSlot
      <4>2. /\ ListenerArg(k, arg) \in Arg
            /\ k = "ACCEPT" => ListenerArg(k, arg) = arg
        BY Zenon DEF ListenerArg, Misplaced, Arg, ErrorCode
      <4>3. o \notin Streams BY Zenon, <3>2, ConstantsAssumption
      <4>4. Handle(o, ListenerRoute[k], ListenerArg(k, arg))
        BY Zenon, <3>2, <4>3 DEF EventHandler
      <4> QED BY Zenon, <3>2, <4>1, <4>2, <4>4
    <3>3. CASE ~(o \in Streams /\ life[o] = "live") /\ ~(o \in Listeners /\ life[o] = "live")
      <4>1. SocketRoute[k] \in Slot \cup {NoSlot} /\ SocketRoute[k] # "onIncoming"
        BY Zenon DEF SocketRoute, EventKind, ErrorEvents, Slot, SocketSlot, NoSlot
      <4>2. Handle(o, SocketRoute[k], arg) BY Zenon, <3>3 DEF EventHandler
      <4> QED BY Zenon, <4>1, <4>2
    <3> QED BY Zenon, <3>1, <3>2, <3>3
  <2>2. missed \in [Obj -> SUBSET Slot] /\ PostedOK
    BY Zenon DEF BaseInv, SocketTypeOK, PostedOK
  <2>3. CASE UNCHANGED <<posted, missed>>
    BY Zenon, <2>2, <2>3 DEF PostedOK, IncomingOK
  <2>4. CASE s \in Slot /\ posted' = Enqueue(posted, Bind(o, s, a)) /\ UNCHANGED missed
    BY Zenon, <2>1, <2>2, <2>4, <1>PostTypes
  <2>5. CASE s \in Slot /\ missed' = [missed EXCEPT ![o] = @ \cup {s}] /\ UNCHANGED posted
    BY Zenon, <2>2, <2>5 DEF PostedOK, IncomingOK
  <2> QED BY Zenon, <2>1, <2>3, <2>4, <2>5 DEF Handle
\* The constructors keep the types.
<1>ConstructTypes.
  ASSUME NEW o \in Obj, Construct(o)
  PROVE  StepOK
  <2> USE <1>ConstructTypes DEF Obj, TCP, BaseInv, StepOK
  <2>1. PICK st \in Stack :
          /\ \/ o \in TCP
             \/ o \in Datagrams
          /\ SocketCtor(o, st, NULL)
          /\ life' = [life EXCEPT ![o] = "live"]
          /\ UNCHANGED <<call, posted, missed, netVars, raised, offered>>
    BY Zenon DEF Construct, NewStream, NewListener, NewDatagram
  <2>2. SocketTypeOK'
    BY Zenon, <2>1 DEF SocketTypeOK, SocketCtor, Life, netVars
  <2>3. ListenerTypeOK' /\ CallOK' /\ IncomingOK'
    BY Zenon, <2>1 DEF ListenerTypeOK, CallOK, IncomingOK
  <2>4. LifeOK'
    BY Zenon, <2>1 DEF LifeOK, SocketCtor, SocketTypeOK
  <2> QED BY Zenon, <2>2, <2>3, <2>4
\* Assigning a handler and handing the request to the stack keep the types.
<1>ContinueTypes.
  ASSUME Continue
  PROVE  StepOK
  <2> USE <1>ContinueTypes DEF BaseInv, StepOK
  <2>0. UNCHANGED offered BY Zenon DEF Continue
  <2>1. CASE EndAssign
    <3>1. call.obj \in Obj /\ call.slot \in Slot /\ call.fn \in Handler
      <4>1. call.op # "delete"
        BY Zenon, <2>1 DEF EndAssign, CallOK
      <4>2. call.fn \in Fn \cup {NULL} BY Zenon DEF SocketTypeOK, Call
      <4> QED BY Zenon, <2>1, <4>1, <4>2 DEF EndAssign, CallOK, Handler
    <3>2. on' \in [Obj -> [Slot -> Handler]]
      BY Zenon, <2>1, <3>1 DEF EndAssign, SocketTypeOK
    <3>3. call' \in Call
      BY SMTT(30), <2>1 DEF EndAssign, SocketTypeOK, Call, Idle
    <3> QED BY Zenon, <2>0, <2>1, <3>2, <3>3
          DEF EndAssign, SocketTypeOK, ListenerTypeOK, CallOK, LifeOK, IncomingOK, netVars,
              Call, Idle
  <2>2. CASE ResolveApi \/ ConnectApi \/ StartListeningApi
    <3>1. /\ call' = Idle
          /\ UNCHANGED <<objVars, posted, missed, raised>>
      BY Zenon, <2>2 DEF ResolveApi, ConnectApi, StartListeningApi, StackAnswers
    <3>2. /\ istate' \in [Impl -> ImplState]
          /\ sink' = sink
          /\ asked' \in [Impl -> SUBSET (Slot \X Fn)]
      <4>1. CASE NoStackChange
        BY Zenon, <4>1 DEF NoStackChange, netVars, SocketTypeOK
      <4>2. CASE /\ call.op \in {"resolve", "connect"}
                 /\ \E i : Request(i)
                 /\ istate' = istate \/ \E i : istate' = [istate EXCEPT ![i] = "connecting"]
                 /\ UNCHANGED sink
        <5>1. <<call.slot, call.fn>> \in Slot \X Fn BY Zenon, <4>2 DEF CallOK
        <5>2. istate' \in [Impl -> ImplState] BY Zenon, <4>2 DEF SocketTypeOK, ImplState
        <5>3. PICK i : asked' = [asked EXCEPT ![i] = @ \cup {<<call.slot, call.fn>>}]
          BY Zenon, <4>2 DEF Request
        <5>4. asked \in [Impl -> SUBSET (Slot \X Fn)] BY Zenon DEF SocketTypeOK
        <5>5. asked' \in [Impl -> SUBSET (Slot \X Fn)] BY Zenon, <5>1, <5>3, <5>4
        <5> QED BY Zenon, <4>2, <5>2, <5>5
      <4>3. CASE /\ \E i : istate' = [istate EXCEPT ![i] = "listening"]
                 /\ UNCHANGED <<sink, asked>>
        BY Zenon, <4>3 DEF SocketTypeOK, ImplState
      <4> QED BY Zenon, <2>2, <4>1, <4>2, <4>3
            DEF ResolveApi, ConnectApi, StartListeningApi, StackAnswers
    <3>3. call' \in Call /\ CallOK'
      BY Zenon, <3>1 DEF Idle, Call, CallOK
    <3> QED BY Zenon, <2>0, <3>1, <3>2, <3>3
          DEF SocketTypeOK, ListenerTypeOK, LifeOK, IncomingOK, objVars
  <2> QED BY Zenon, <2>1, <2>2 DEF Continue
\* The API calls that neither begin nor end the life of an object keep the
\* types: they change the implementation's state, or a handler, or begin an
\* assignment.
<1>CallTypes.
  ASSUME NEW o \in Obj, UNCHANGED offered,
         \/ Open(o) \/ BindAddress(o) \/ Close(o) \/ ConnectDatagram(o) \/ StopListening(o)
         \/ \E s \in Slot, f \in Fn \cup {NULL} : SetOn(o, s, f)
         \/ \E f \in Fn : Resolve(o, f) \/ Connect(o, f) \/ StartListening(o, f)
         \/ \E f \in Fn \cup {NULL} : SetOnDisconnect(o, f)
  PROVE  StepOK
  <2> USE <1>CallTypes DEF BaseInv, StepOK
  <2>1. CASE Open(o)
    <3>1. /\ impl' \in [Obj -> Impl \cup {NULL}]
          /\ istate' \in [Impl -> ImplState]
          /\ sink' \in [Impl -> Obj \cup {NULL}]
      BY <2>1 DEF Open, SocketTypeOK, ImplState
    <3>2. UNCHANGED <<life, stack, on, call, posted, missed, asked, raised>>
      BY SMTT(30), <2>1 DEF Open
    <3> QED BY Zenon, <3>1, <3>2 DEF SocketTypeOK, ListenerTypeOK, CallOK, LifeOK, IncomingOK
  <2>2. CASE BindAddress(o) \/ Close(o) \/ ConnectDatagram(o) \/ StopListening(o)
    <3>1. UNCHANGED <<objVars, call, posted, missed, asked, raised>>
      BY Zenon, <2>2 DEF BindAddress, Close, ConnectDatagram, StopListening, StackStops,
                  NoStackChange, netVars
    <3>2. /\ istate' \in [Impl -> ImplState]
          /\ sink' \in [Impl -> Obj \cup {NULL}]
      BY Zenon, <2>2 DEF BindAddress, Close, ConnectDatagram, StopListening, StackStops,
                  NoStackChange, netVars, SocketTypeOK, ImplState
    <3> QED BY Zenon, <3>1, <3>2 DEF objVars, SocketTypeOK, ListenerTypeOK, CallOK, LifeOK, IncomingOK
  <2>3. ASSUME NEW s \in Slot, NEW f \in Fn \cup {NULL}, SetOn(o, s, f)
        PROVE  StepOK
    <3>1. on' \in [Obj -> [Slot -> Handler]] BY SMTT(30), <2>3 DEF SetOn, SocketTypeOK, Handler
    <3> QED BY Zenon, <2>3, <3>1 DEF SetOn, netVars, SocketTypeOK, ListenerTypeOK, CallOK, LifeOK,
                              IncomingOK
  <2>4. ASSUME NEW n \in {"resolve", "connect", "start_listening", "setOnDisconnect"},
               NEW s \in Slot, NEW f \in Fn \cup {NULL}, BeginAssign(o, n, s, f),
               n # "setOnDisconnect" => f \in Fn
        PROVE  StepOK
    <3>1. on' \in [Obj -> [Slot -> Handler]] BY Zenon, <2>4 DEF BeginAssign, SocketTypeOK, Handler
    <3>2. call' \in Call /\ CallOK' BY SMTT(30), <2>4 DEF BeginAssign, Call, CallOK
    <3> QED BY Zenon, <2>4, <3>1, <3>2 DEF BeginAssign, netVars, SocketTypeOK, ListenerTypeOK, LifeOK,
                                    IncomingOK
  <2>5. ASSUME NEW f \in Fn, Resolve(o, f) \/ Connect(o, f) \/ StartListening(o, f)
        PROVE  StepOK
    BY Zenon, <2>4, <2>5 DEF Resolve, Connect, StartListening, Slot, SocketSlot
  <2>6. ASSUME NEW f \in Fn \cup {NULL}, SetOnDisconnect(o, f)
        PROVE  StepOK
    BY Zenon, <2>4, <2>6 DEF SetOnDisconnect, Slot
  <2> QED BY Zenon, <2>1, <2>2, <2>3, <2>5, <2>6
\* The destructors, stage by stage, keep the types.
<1>DtorTypes.
  ASSUME NEW o \in Obj, UNCHANGED offered,
         \/ DeleteStream(o) \/ DeleteListener(o) \/ DeleteDatagram(o)
         \/ AsynchDtor(o) \/ SocketDtor(o)
  PROVE  StepOK
  <2> USE <1>DtorTypes DEF BaseInv, StepOK
  <2>1. CASE DeleteStream(o) \/ DeleteListener(o) \/ DeleteDatagram(o)
    <3>1. /\ UNCHANGED <<stack, impl, on, posted, missed, sink, asked, raised>>
          /\ istate' \in [Impl -> ImplState]
      BY Zenon, <2>1 DEF DeleteStream, DeleteListener, DeleteDatagram, StackStops, NoStackChange,
                  netVars, SocketTypeOK, ImplState
    <3>2. call' \in Call /\ CallOK'
      BY Zenon, <2>1 DEF DeleteStream, DeleteListener, DeleteDatagram, Idle, Call, CallOK
    <3>3. life' \in [Obj -> Life] /\ LifeOK'
      BY Zenon, <2>1, <3>1 DEF DeleteStream, DeleteListener, DeleteDatagram, Main, LifeOK, Life,
                        SocketTypeOK, TCP
    <3> QED BY Zenon, <3>1, <3>2, <3>3 DEF SocketTypeOK, ListenerTypeOK, IncomingOK
  <2>2. CASE AsynchDtor(o)
    BY Zenon, <2>2 DEF AsynchDtor, netVars, SocketTypeOK, ListenerTypeOK, CallOK, LifeOK, IncomingOK,
                Life
  <2>3. CASE SocketDtor(o)
    <3>1. PostedOK'
      <4>1. CASE UNCHANGED posted BY Zenon, <4>1 DEF SocketTypeOK, PostedOK, IncomingOK
      <4>2. CASE ErrorCheck(o, "stack error")
        BY Zenon, <4>2, <1>PostTypes DEF ErrorCheck, Slot, SocketSlot, Arg, ErrorCode
      <4> QED BY Zenon, <2>3, <4>1, <4>2 DEF SocketDtor
    <3>2. /\ istate' \in [Impl -> ImplState]
          /\ sink' \in [Impl -> Obj \cup {NULL}]
          /\ asked' \in [Impl -> SUBSET (Slot \X Fn)]
      <4>1. CASE NoStackChange BY Zenon, <4>1 DEF NoStackChange, netVars, SocketTypeOK
      <4>2. CASE /\ istate' = [istate EXCEPT ![impl[o]] = "free"]
                 /\ sink' = [sink EXCEPT ![impl[o]] = NULL]
                 /\ asked' = [asked EXCEPT ![impl[o]] = {}]
        BY Zenon, <4>2 DEF SocketTypeOK, ImplState
      <4> QED BY Zenon, <2>3, <4>1, <4>2 DEF SocketDtor
    <3>3. /\ life' = [life EXCEPT ![o] = "dead"]
          /\ impl' = [impl EXCEPT ![o] = NULL]
          /\ call' = Idle
          /\ UNCHANGED <<stack, on, missed, raised>>
      BY Zenon, <2>3 DEF SocketDtor
    <3>4. call' \in Call /\ CallOK' BY Zenon, <3>3 DEF Idle, Call, CallOK
    <3>5. life' \in [Obj -> Life] /\ LifeOK'
      BY Zenon, <2>3, <3>3 DEF SocketDtor, LifeOK, Life, SocketTypeOK
    <3> QED BY Zenon, <3>1, <3>2, <3>3, <3>4, <3>5 DEF PostedOK, SocketTypeOK, ListenerTypeOK
  <2> QED BY SMTT(30), <2>1, <2>2, <2>3
\* Accepting, either way, and rejecting keep the types.
<1>AnswerTypes.
  ASSUME NEW l \in Listeners, NEW i \in Impl, Answer(l, i)
  PROVE  StepOK
  <2> USE <1>AnswerTypes DEF BaseInv, StepOK
  <2>0. offered' \subseteq offered BY Zenon DEF Answer, TakeOffer
  <2>1. CASE Reject(l, i)
    <3>1. /\ istate' \in [Impl -> ImplState]
          /\ UNCHANGED <<sink, asked>>
      BY Zenon, <2>1 DEF Reject, NoStackChange, netVars, SocketTypeOK, ImplState
    <3>2. /\ offered' \subseteq offered
          /\ UNCHANGED <<objVars, call, posted, missed, raised>>
      BY Zenon, <2>0, <2>1 DEF Reject
    <3> QED BY Zenon, <3>1, <3>2 DEF objVars, SocketTypeOK, ListenerTypeOK, CallOK, LifeOK, IncomingOK
  <2>2. ASSUME NEW s \in Streams, Accept(l, i, s) \/ AcceptDeprecated(l, i, s)
        PROVE  StepOK
    <3>1. s \in Obj /\ l \in Obj /\ s \in TCP BY Zenon DEF Obj, TCP
    <3>2. stack[l] \in Stack
      BY Zenon, <2>2, <3>1 DEF Accept, AcceptDeprecated, Main, LifeOK
    <3>3. /\ offered' \subseteq offered
          /\ stack' = [stack EXCEPT ![s] = stack[l]]
          /\ impl' = [impl EXCEPT ![s] = i]
          /\ UNCHANGED <<on, missed, asked, raised>>
      BY Zenon, <2>0, <2>2 DEF Accept, AcceptDeprecated, StreamAround, SocketCtor
    <3>4. /\ istate' \in [Impl -> ImplState]
          /\ sink' \in [Impl -> Obj \cup {NULL}]
      <4>1. CASE StackAccepts(s, i)
        BY Zenon, <3>1, <4>1 DEF StackAccepts, SocketTypeOK, ImplState
      <4>2. CASE UNCHANGED <<istate, sink>> BY Zenon, <4>2 DEF SocketTypeOK
      <4> QED BY Zenon, <2>2, <4>1, <4>2 DEF Accept, AcceptDeprecated
    <3>5. /\ life' = [life EXCEPT ![s] = "live"] \/ life' = [life EXCEPT ![s] = "~TCPAsynch"]
          /\ call' = call \/ call' = [Idle EXCEPT !.op = "delete", !.obj = s]
      BY Zenon, <2>2 DEF Accept, AcceptDeprecated
    <3>6. life' \in [Obj -> Life] /\ LifeOK'
      BY Zenon, <3>1, <3>2, <3>3, <3>5 DEF LifeOK, Life, SocketTypeOK
    <3>7. call' \in Call /\ CallOK'
      BY Zenon, <3>1, <3>5 DEF Idle, Call, CallOK, SocketTypeOK
    <3>8. PostedOK'
      <4>1. CASE UNCHANGED posted BY Zenon, <4>1 DEF SocketTypeOK, PostedOK, IncomingOK
      <4>2. CASE ErrorCheck(s, "stack error")
        BY Zenon, <3>1, <4>2, <1>PostTypes DEF ErrorCheck, Slot, SocketSlot, Arg, ErrorCode
      <4> QED BY Zenon, <2>2, <4>1, <4>2 DEF Accept, AcceptDeprecated
    <3>9. /\ stack' \in [Obj -> Stack \cup {NULL}]
          /\ impl' \in [Obj -> Impl \cup {NULL}]
      BY Zenon, <3>2, <3>3 DEF SocketTypeOK
    <3> QED BY Zenon, <3>3, <3>4, <3>6, <3>7, <3>8, <3>9 DEF PostedOK, SocketTypeOK, ListenerTypeOK
  <2> QED BY SMTT(30), <2>1, <2>2 DEF Answer
\* Running a callback keeps the types.
<1>RunTypes.
  ASSUME NEW c \in DOMAIN posted, RunCallback(c)
  PROVE  StepOK
  <2> USE <1>RunTypes DEF BaseInv, StepOK
  <2>1. posted' = Dequeue(posted, c) BY Zenon DEF RunCallback
  <2>2. /\ DOMAIN posted' \subseteq Callback
        /\ \A d \in DOMAIN posted' : posted'[d] \in Nat \ {0}
    BY Zenon, <2>1, <1>DequeueType DEF SocketTypeOK
  <2>3. DOMAIN posted' \subseteq DOMAIN posted BY Zenon, <2>1, DequeueDomain
  <2>4. IncomingOK' BY Zenon, <2>3 DEF IncomingOK
  <2>5. ListenerTypeOK' BY DEF RunCallback, ListenerTypeOK, IncomingOK
  <2>6. UNCHANGED <<objVars, call, missed, netVars, raised>> BY SMTT(30) DEF RunCallback
  <2> QED BY Zenon, <2>2, <2>4, <2>5, <2>6 DEF objVars, netVars, SocketTypeOK, CallOK, LifeOK
\* An event of the stack keeps the types.
<1>StackEventTypes.
  ASSUME NEW i \in Impl, StackEvent(i)
  PROVE  StepOK
  <2> USE <1>StackEventTypes DEF BaseInv, StepOK
  <2>1. PICK k \in EventKind, arg \in Arg :
          /\ k = "ACCEPT" => arg \in Impl
          /\ Raise(i, k, arg)
    <3>1. CASE RaiseError(i) BY Zenon, <3>1 DEF RaiseError, EventKind, ErrorEvents, Arg, ErrorCode
    <3>2. CASE RaiseData(i) BY Zenon, <3>2 DEF RaiseData, EventKind, Arg
    <3>3. CASE RaiseDNS(i) \/ RaiseConnect(i)
      <4>1. PICK r \in asked[i] : Raise(i, "DNS", r[2]) \/ Raise(i, "CONNECT", r[2])
        BY Zenon, <3>3 DEF RaiseDNS, RaiseConnect
      <4>2. r[2] \in Arg BY DEF SocketTypeOK, Arg
      <4> QED BY Zenon, <4>1, <4>2 DEF EventKind
    <3>4. CASE RaiseDisconnect(i) BY Zenon, <3>4 DEF RaiseDisconnect, EventKind, Arg
    <3>5. CASE RaiseAccept(i) BY Zenon, <3>5 DEF RaiseAccept, EventKind, Arg
    <3> QED BY Zenon, <3>1, <3>2, <3>3, <3>4, <3>5 DEF StackEvent
  <2>2. /\ sink[i] \in Obj
        /\ raised' \in 0..MaxEvents
        /\ EventHandler(sink[i], k, arg)
        /\ UNCHANGED <<objVars, call, sink, offered>>
    BY <2>1, ConstantsAssumption DEF Raise, SocketTypeOK
  <2>3. PostedOK' /\ missed' \in [Obj -> SUBSET Slot]
    BY Zenon, <2>1, <2>2, <1>EventTypes
  <2>4. /\ istate' \in [Impl -> ImplState]
        /\ asked' \in [Impl -> SUBSET (Slot \X Fn)]
    <3>1. istate \in [Impl -> ImplState] /\ asked \in [Impl -> SUBSET (Slot \X Fn)]
      BY Zenon DEF SocketTypeOK
    <3>2. \/ istate' = istate
          \/ \E j \in Impl, x \in {"connected", "down", "offered"} :
               istate' = [istate EXCEPT ![j] = x]
      BY Zenon DEF StackEvent, RaiseError, RaiseData, RaiseDNS, RaiseConnect, RaiseDisconnect,
             RaiseAccept
    <3>3. \/ asked' = asked
          \/ \E r : asked' = [asked EXCEPT ![i] = @ \ {r}]
      BY Zenon DEF StackEvent, RaiseError, RaiseData, RaiseDNS, RaiseConnect, RaiseDisconnect,
             RaiseAccept
    <3>4. istate' \in [Impl -> ImplState] BY Zenon, <3>1, <3>2 DEF ImplState
    <3> QED BY Zenon, <3>1, <3>3, <3>4
  <2> QED BY Zenon, <2>2, <2>3, <2>4
        DEF PostedOK, objVars, SocketTypeOK, ListenerTypeOK, CallOK, LifeOK
<1>1. StepOK
  <2>1. CASE UNCHANGED vars
    BY Zenon, <2>1 DEF vars, socketVars, objVars, netVars, BaseInv, StepOK, SocketTypeOK,
                ListenerTypeOK, CallOK, LifeOK, IncomingOK
  <2>2. ASSUME NEW o \in Obj, AppCall(o)
        PROVE  StepOK
    BY Zenon, <2>2, <1>CallTypes, <1>DtorTypes DEF AppCall, AsynchOpen, DatagramOpen
  <2> QED BY SMTT(30), <2>1, <2>2, <1>ConstructTypes, <1>DtorTypes, <1>ContinueTypes,
     <1>AnswerTypes, <1>RunTypes,
             <1>StackEventTypes DEF Next
<1> QED BY Zenon, <1>1 DEF BaseInv, StepOK

(* The base invariant holds in every state of every behaviour.             *)
THEOREM BaseInvariant == Spec => []BaseInv
<1>1. Init => BaseInv BY Zenon, BaseInit
<1>2. BaseInv /\ [Next]_vars => BaseInv' BY Zenon, BaseNext
<1> QED BY <1>1, <1>2, PTL DEF Spec

-----------------------------------------------------------------------------
(* Where an event goes.                                                    *)

\* What the three _eventHandlers have in common: where event k of o may go.
Routed(o, k, s) ==
  /\ s \notin SocketSlot => life[o] = "live"
  /\ s \in {"onConnect", "onDisconnect"} => o \in Streams
  /\ s = "onConnect" => k = "CONNECT"
  /\ s = "onIncoming" => o \in Listeners /\ k = "ACCEPT"
  /\ s = "onDNS" => k = "DNS"
  /\ s \in {"onReadable", "onSent"} /\ o \in Listeners => life[o] # "live"

(* An event is handled by one of the object's handlers, or by none.        *)
LEMMA EventRoutes ==
  ASSUME NEW o \in Obj, NEW k \in EventKind, NEW arg, EventHandler(o, k, arg)
  PROVE  \/ UNCHANGED <<posted, missed>>
         \/ \E s \in Slot : \E a :
              /\ Handle(o, s, a)
              /\ s # NoSlot
              /\ Routed(o, k, s)
              /\ s \in {"onDNS", "onConnect", "onIncoming"} => a = arg
<1>0. /\ o \in Streams => o \notin Listeners
      /\ NoSlot \notin Slot
  BY Zenon, ConstantsAssumption DEF Slot, SocketSlot, NoSlot
<1>1. CASE o \in Streams /\ life[o] = "live"
  <2>1. Handle(o, StreamRoute[k], arg) BY Zenon, <1>0, <1>1 DEF EventHandler
  <2>2. StreamRoute[k] = NoSlot \/ (StreamRoute[k] \in Slot /\ Routed(o, k, StreamRoute[k]))
    BY Zenon, <1>0, <1>1 DEF StreamRoute, SocketRoute, EventKind, ErrorEvents, Slot, SocketSlot,
                      NoSlot, Routed
  <2>3. CASE StreamRoute[k] = NoSlot BY Zenon, <2>1, <2>3 DEF Handle
  <2> QED BY Zenon, <1>0, <2>1, <2>2, <2>3
<1>2. CASE o \in Listeners /\ life[o] = "live"
  <2>1. Handle(o, ListenerRoute[k], ListenerArg(k, arg)) BY Zenon, <1>0, <1>2 DEF EventHandler
  <2>2. ListenerRoute[k] = NoSlot \/ (ListenerRoute[k] \in Slot /\ Routed(o, k, ListenerRoute[k]))
    BY Zenon, <1>0, <1>2 DEF ListenerRoute, Misplaced, EventKind, ErrorEvents, Slot, SocketSlot,
                      NoSlot, Routed
  <2>3. ListenerRoute[k] \in {"onDNS", "onConnect", "onIncoming"} => ListenerArg(k, arg) = arg
    BY Zenon DEF ListenerRoute, ListenerArg, Misplaced, EventKind, ErrorEvents, NoSlot
  <2>4. CASE ListenerRoute[k] = NoSlot BY Zenon, <2>1, <2>4 DEF Handle
  <2> QED BY Zenon, <1>0, <2>1, <2>2, <2>3, <2>4
<1>3. CASE ~(o \in Streams /\ life[o] = "live") /\ ~(o \in Listeners /\ life[o] = "live")
  <2>1. Handle(o, SocketRoute[k], arg) BY Zenon, <1>3 DEF EventHandler
  <2>2. SocketRoute[k] = NoSlot \/ (SocketRoute[k] \in Slot /\ Routed(o, k, SocketRoute[k]))
    BY Zenon, <1>3 DEF SocketRoute, EventKind, ErrorEvents, Slot, SocketSlot, NoSlot, Routed
  <2>3. CASE SocketRoute[k] = NoSlot BY Zenon, <2>1, <2>3 DEF Handle
  <2> QED BY Zenon, <1>0, <2>1, <2>2, <2>3
<1> QED BY Zenon, <1>1, <1>2, <1>3

-----------------------------------------------------------------------------
(* Who owns an implementation: what each step does to OwnershipInv.        *)

Incoming == {c \in DOMAIN posted : c.slot = "onIncoming"}
SameIncoming == Incoming' = Incoming /\ \A c \in Incoming : posted'[c] = posted[c]

Owned(i) == \E o \in Obj : impl[o] = i

(* A step that moves no implementation: it may end lives that ~Socket has  *)
(* yet to see, detach handlers, change the state of owned implementations  *)
(* and post anything but onIncoming.                                       *)
MovesNothing ==
  /\ UNCHANGED <<stack, impl, offered>>
  /\ \A o \in Obj : Exists(o) => Exists(o)'
  /\ \A o \in Obj : life[o] # "raw" => life'[o] # "raw"
  /\ \A i \in Impl : sink'[i] \in {sink[i], NULL}
  /\ \A i \in Impl : istate'[i] = "free" => istate[i] = "free"
  /\ \A i \in Impl : ~Owned(i) => istate'[i] = istate[i]
  /\ SameIncoming

(* Posting a callback other than onIncoming leaves the announced           *)
(* connections as they are.                                                *)
LEMMA PostSameIncoming ==
  ASSUME NEW o, NEW s, NEW arg, s # "onIncoming",
         posted' = Enqueue(posted, Bind(o, s, arg))
  PROVE  SameIncoming
<1> DEFINE c == Bind(o, s, arg)
<1>1. c.slot # "onIncoming" BY Zenon DEF Bind
<1>2. posted' = Enqueue(posted, c) BY Zenon
<1> HIDE DEF c
<1> QED BY Zenon, <1>1, <1>2 DEF Enqueue, SameIncoming, Incoming

(* What an event posts: nothing about connections, unless it is ACCEPT on  *)
(* a listener.                                                             *)
LEMMA EventPosts ==
  ASSUME BaseInv, NEW o \in Obj, NEW k \in EventKind, NEW arg, EventHandler(o, k, arg)
  PROVE  \/ SameIncoming
         \/ /\ k = "ACCEPT" /\ o \in Listeners
            /\ posted' = Enqueue(posted, Bind(o, "onIncoming", arg))
<1>0. ASSUME UNCHANGED posted PROVE SameIncoming
  BY Zenon, <1>0 DEF SameIncoming, Incoming
<1>1. ASSUME NEW s, NEW a, s # "onIncoming", Handle(o, s, a)
      PROVE  SameIncoming
  BY Zenon, <1>0, <1>1, PostSameIncoming DEF Handle
<1>2. CASE o \in Listeners /\ life[o] = "live"
  <2>1. o \notin Streams BY Zenon, <1>2, ConstantsAssumption
  <2>2. Handle(o, ListenerRoute[k], ListenerArg(k, arg)) BY Zenon, <1>2, <2>1 DEF EventHandler
  <2>3. CASE k = "ACCEPT"
    <3>1. ListenerRoute[k] = "onIncoming"
      BY Zenon, <2>3 DEF ListenerRoute, EventKind, ErrorEvents, Misplaced
    <3>2. ListenerArg(k, arg) = arg BY Zenon, <2>3 DEF ListenerArg, Misplaced
    <3>3. Handle(o, "onIncoming", arg) BY Zenon, <2>2, <3>1, <3>2
    <3> QED BY Zenon, <1>0, <1>2, <2>3, <3>3 DEF Handle
  <2>4. CASE k # "ACCEPT"
    <3>1. ListenerRoute[k] # "onIncoming"
      BY Zenon, <2>4 DEF ListenerRoute, EventKind, ErrorEvents, Misplaced, NoSlot
    <3> QED BY Zenon, <1>1, <2>2, <3>1
  <2> QED BY Zenon, <2>3, <2>4
<1>3. CASE o \in Streams /\ life[o] = "live"
  <2>1. o \notin Listeners BY Zenon, <1>3, ConstantsAssumption
  <2>2. Handle(o, StreamRoute[k], arg) BY Zenon, <1>3, <2>1 DEF EventHandler
  <2>3. StreamRoute[k] # "onIncoming"
    BY Zenon DEF StreamRoute, SocketRoute, EventKind, ErrorEvents, NoSlot
  <2> QED BY Zenon, <1>1, <2>2, <2>3
<1>4. CASE ~(o \in Streams /\ life[o] = "live") /\ ~(o \in Listeners /\ life[o] = "live")
  <2>1. Handle(o, SocketRoute[k], arg) BY Zenon, <1>4 DEF EventHandler
  <2>2. SocketRoute[k] # "onIncoming"
    BY Zenon DEF SocketRoute, EventKind, ErrorEvents, NoSlot
  <2> QED BY Zenon, <1>1, <2>1, <2>2
<1> QED BY Zenon, <1>2, <1>3, <1>4

-----------------------------------------------------------------------------
(* Steps that move no implementation.                                      *)

(* The calls on an object's own implementation, the assignments of         *)
(* handlers and the destructors before ~Socket move no implementation.     *)
LEMMA QuietCalls ==
  ASSUME BaseInv, OwnershipInv, NEW o \in Obj, UNCHANGED offered,
         \/ BindAddress(o) \/ Close(o) \/ ConnectDatagram(o) \/ StopListening(o)
         \/ \E s \in Slot, f \in Fn \cup {NULL} : SetOn(o, s, f)
         \/ \E f \in Fn : Resolve(o, f) \/ Connect(o, f) \/ StartListening(o, f)
         \/ \E f \in Fn \cup {NULL} : SetOnDisconnect(o, f)
         \/ DeleteStream(o) \/ DeleteListener(o) \/ DeleteDatagram(o)
         \/ AsynchDtor(o)
  PROVE  MovesNothing
<1>0. /\ life \in [Obj -> Life] /\ istate \in [Impl -> ImplState]
      /\ sink \in [Impl -> Obj \cup {NULL}] /\ impl \in [Obj -> Impl \cup {NULL}]
  BY Zenon DEF BaseInv, SocketTypeOK
<1>1. UNCHANGED <<stack, impl, posted>>
  BY Zenon DEF BindAddress, Close, ConnectDatagram, StopListening, SetOn, Resolve, Connect,
         StartListening, SetOnDisconnect, BeginAssign, DeleteStream, DeleteListener,
         DeleteDatagram, AsynchDtor, objVars
<1>2. \/ UNCHANGED life
      \/ life[o] = "live" /\ life' = [life EXCEPT ![o] = "~TCPAsynch"]
      \/ life[o] = "live" /\ life' = [life EXCEPT ![o] = "~Socket"]
      \/ life[o] = "~TCPAsynch" /\ life' = [life EXCEPT ![o] = "~Socket"]
  BY Zenon DEF BindAddress, Close, ConnectDatagram, StopListening, SetOn, Resolve, Connect,
         StartListening, SetOnDisconnect, BeginAssign, DeleteStream, DeleteListener,
         DeleteDatagram, AsynchDtor, Main, objVars
<1>3. \/ UNCHANGED istate
      \/ /\ impl[o] # NULL
         /\ \E x \in ImplState \ {"free"} : istate' = [istate EXCEPT ![impl[o]] = x]
  <2>1. CASE BindAddress(o) \/ Close(o) \/ ConnectDatagram(o)
    BY Zenon, <2>1, ConstantsAssumption
       DEF BindAddress, BindAddrErrors, VirtualOpenErrors, AsynchStubErrors,
           DatagramStubErrors, Close, ConnectDatagram, ImplState
  <2>2. CASE StopListening(o) \/ DeleteListener(o)
    BY SMTT(30), <2>2 DEF StopListening, DeleteListener, StackStops, NoStackChange, netVars, ImplState
  <2> QED BY Zenon, <2>1, <2>2
        DEF SetOn, Resolve, Connect, StartListening, SetOnDisconnect, BeginAssign,
            DeleteStream, DeleteDatagram, AsynchDtor, netVars
<1>4. UNCHANGED sink \/ sink' = [sink EXCEPT ![impl[o]] = NULL]
  BY Zenon DEF BindAddress, Close, ConnectDatagram, StopListening, SetOn, Resolve, Connect,
         StartListening, SetOnDisconnect, BeginAssign, DeleteStream, DeleteListener,
         DeleteDatagram, AsynchDtor, StackStops, NoStackChange, netVars
<1>5. SameIncoming BY Zenon, <1>1 DEF SameIncoming, Incoming
<1>6. /\ \A p \in Obj : Exists(p) => Exists(p)'
      /\ \A p \in Obj : life[p] # "raw" => life'[p] # "raw"
  BY Zenon, <1>0, <1>2 DEF Exists
<1>7. /\ \A i \in Impl : istate'[i] = "free" => istate[i] = "free"
      /\ \A i \in Impl : ~Owned(i) => istate'[i] = istate[i]
  BY Zenon, <1>0, <1>3 DEF Owned
<1>8. \A i \in Impl : sink'[i] \in {sink[i], NULL}
  BY Zenon, <1>0, <1>4
<1> QED BY Zenon, <1>1, <1>5, <1>6, <1>7, <1>8 DEF MovesNothing

(* The later steps of a call with a handler move no implementation.        *)
LEMMA QuietContinue ==
  ASSUME BaseInv, OwnershipInv, Continue
  PROVE  MovesNothing
<1>0. istate \in [Impl -> ImplState] BY Zenon DEF BaseInv, SocketTypeOK
<1>1. UNCHANGED <<life, stack, impl, posted, sink, offered>>
  BY Zenon DEF Continue, EndAssign, ResolveApi, ConnectApi, StartListeningApi, StackAnswers,
         NoStackChange, objVars, netVars
<1>2. \/ UNCHANGED istate
      \/ /\ impl[call.obj] # NULL /\ call.obj \in Obj
         /\ \E x \in {"connecting", "listening"} :
              istate' = [istate EXCEPT ![impl[call.obj]] = x]
  BY Zenon DEF Continue, EndAssign, ResolveApi, ConnectApi, StartListeningApi, StackAnswers,
         NoStackChange, netVars, BaseInv, CallOK
<1>3. SameIncoming BY Zenon, <1>1 DEF SameIncoming, Incoming
<1> QED BY Zenon, <1>0, <1>1, <1>2, <1>3 DEF MovesNothing, Exists, Owned

(* An event other than ACCEPT moves no implementation.                     *)
LEMMA QuietEvents ==
  ASSUME BaseInv, OwnershipInv, NEW i \in Impl,
         \/ RaiseError(i) \/ RaiseData(i) \/ RaiseDNS(i) \/ RaiseConnect(i)
         \/ RaiseDisconnect(i)
  PROVE  MovesNothing
<1>0. /\ istate \in [Impl -> ImplState] /\ sink \in [Impl -> Obj \cup {NULL}]
  BY Zenon DEF BaseInv, SocketTypeOK
<1>1. PICK k \in EventKind \ {"ACCEPT"} : \E arg : Raise(i, k, arg)
  BY Zenon DEF RaiseError, RaiseData, RaiseDNS, RaiseConnect, RaiseDisconnect, EventKind,
         ErrorEvents
<1>2. UNCHANGED <<life, stack, impl, sink, offered>> BY Zenon, <1>1 DEF Raise, objVars
<1>3. sink[i] \in Obj /\ Owned(i)
  BY Zenon, <1>0, <1>1 DEF Raise, OwnershipInv, HandlersAlive, Owned
<1>4. \/ UNCHANGED istate
      \/ \E x \in {"connected", "down"} : istate' = [istate EXCEPT ![i] = x]
  BY Zenon DEF RaiseError, RaiseData, RaiseDNS, RaiseConnect, RaiseDisconnect
<1>5. SameIncoming
  <2>1. PICK arg : Raise(i, k, arg) BY Zenon, <1>1
  <2>2. EventHandler(sink[i], k, arg) BY Zenon, <2>1 DEF Raise
  <2> QED BY Zenon, <1>3, <2>2, EventPosts
<1> QED BY Zenon, <1>0, <1>2, <1>3, <1>4, <1>5 DEF MovesNothing, Exists, Owned

-----------------------------------------------------------------------------
(* Steps that move an implementation.                                      *)

Types == /\ life \in [Obj -> Life] /\ stack \in [Obj -> Stack \cup {NULL}]
         /\ impl \in [Obj -> Impl \cup {NULL}] /\ istate \in [Impl -> ImplState]
         /\ sink \in [Impl -> Obj \cup {NULL}]
         /\ \A c \in Incoming : c.obj \in Obj /\ c.arg \in Impl
         /\ \A x \in offered : x[1] \in Obj /\ x[2] \in Impl

(* The types the lemmas below use.                                         *)
LEMMA BaseTypes == ASSUME BaseInv PROVE Types
BY Zenon DEF BaseInv, SocketTypeOK, ListenerTypeOK, IncomingOK, Types, Incoming, Obj

-----------------------------------------------------------------------------
(* Every step keeps ownership, as long as the application does not reopen. *)
LEMMA OwnershipNext ==
  ASSUME "reopen" \notin AppMay, BaseInv, OwnershipInv, [Next]_vars
  PROVE  OwnershipInv'
\* The clause of HandedOverOnce about i is kept where nothing it mentions
\* changes, or only an offer goes.
<1>OnceKept.
  ASSUME NEW i, OnceAtMost(i), Announced(i)' = Announced(i), Offers(i)' \subseteq Offers(i),
         \A c \in Announced(i) : posted'[c] = posted[c],
         Announced(i) \cup Offers(i)' # {} => (Unclaimed(i) => Unclaimed(i)')
  PROVE  OnceAtMost(i)'
  BY Zenon, <1>OnceKept DEF OnceAtMost
\* Ownership stays as it is in a step that moves no implementation.
<1>MovesNothingKeeps.
  ASSUME MovesNothing
  PROVE  OwnershipInv'
  <2> USE <1>MovesNothingKeeps DEF OwnershipInv, MovesNothing
  <2>1. Ownership'
    <3>1. impl \in [Obj -> Impl \cup {NULL}] BY Zenon DEF BaseInv, SocketTypeOK
    <3> QED BY Zenon, <3>1 DEF Ownership, HasApi
  <2>2. HandlersAlive'
    <3>1. sink \in [Impl -> Obj \cup {NULL}] BY Zenon DEF BaseInv, SocketTypeOK
    <3> QED BY Zenon, <3>1 DEF HandlersAlive
  <2>3. \A i : Announced(i)' = Announced(i) /\ Offers(i)' = Offers(i)
    BY Zenon DEF SameIncoming, Incoming, Announced, Offers
  <2>4. HandedOverOnce'
    <3> SUFFICES ASSUME NEW i \in Impl PROVE OnceAtMost(i)'
      BY Zenon DEF HandedOverOnce
    <3>1. \A c \in Announced(i) : posted'[c] = posted[c]
      BY Zenon DEF SameIncoming, Incoming, Announced
    <3>2. Unclaimed(i) => Unclaimed(i)' BY Zenon DEF Unclaimed, Owned
    <3>3. OnceAtMost(i) BY Zenon DEF HandedOverOnce
    <3> QED BY Zenon, <2>3, <3>1, <3>2, <3>3, <1>OnceKept
  <2>5. OfferOK'
    <3>1. \A c \in Incoming : c.obj \in Obj
      BY Zenon DEF Incoming, BaseInv, IncomingOK, Obj
    <3>2. \A x \in offered : x[1] \in Obj
      BY Zenon DEF BaseInv, ListenerTypeOK, Obj
    <3>3. \A c \in DOMAIN posted' : c.slot = "onIncoming" => c \in Incoming
      BY Zenon DEF SameIncoming, Incoming
    <3> QED BY Zenon, <3>1, <3>2, <3>3 DEF OfferOK, HasApi, Incoming
  <2> QED BY Zenon, <2>1, <2>2, <2>4, <2>5
\* HandedOverOnce and OfferOK survive if the connections on their way, and
\* what they say of the stack and the owners, stay as they are.
<1>OffersKept.
  ASSUME SameIncoming, offered' \subseteq offered,
         \A i \in Impl : Announced(i) \cup Offers(i)' # {} =>
           istate'[i] = istate[i] /\ \A o \in Obj : impl'[o] # i,
         \A o \in Obj : life[o] # "raw" => life'[o] # "raw" /\ stack'[o] = stack[o]
  PROVE  HandedOverOnce' /\ OfferOK'
  <2> USE <1>OffersKept DEF OwnershipInv
  <2>0. Types BY Zenon, BaseTypes
  <2>1. \A i : Announced(i)' = Announced(i) /\ Offers(i)' \subseteq Offers(i)
    BY Zenon DEF SameIncoming, Incoming, Announced, Offers
  <2>2. \A i : \A c \in Announced(i) : posted'[c] = posted[c]
    BY Zenon DEF SameIncoming, Incoming, Announced
  <2>3. HandedOverOnce'
    <3> SUFFICES ASSUME NEW i \in Impl PROVE OnceAtMost(i)'
      BY Zenon DEF HandedOverOnce
    <3>1. OnceAtMost(i) BY Zenon DEF HandedOverOnce
    <3>2. Announced(i) \cup Offers(i)' # {} => (Unclaimed(i) => Unclaimed(i)')
      BY Zenon DEF Unclaimed
    <3> QED BY Zenon, <2>1, <2>2, <3>1, <3>2, <1>OnceKept
  <2>4. OfferOK'
    <3>1. \A c \in DOMAIN posted' : c.slot = "onIncoming" => c \in Incoming
      BY Zenon DEF SameIncoming, Incoming
    <3> QED BY Zenon, <2>0, <3>1 DEF OfferOK, HasApi, Incoming, Types
  <2> QED BY Zenon, <2>3, <2>4
\* A new object owns nothing.
<1>ConstructOwnership.
  ASSUME NEW o \in Obj, Construct(o)
  PROVE  OwnershipInv'
  <2> USE <1>ConstructOwnership
  <2>0. Types BY Zenon, BaseTypes
  <2>1. PICK st \in Stack :
          /\ life[o] = "raw"
          /\ stack' = [stack EXCEPT ![o] = st]
          /\ impl' = [impl EXCEPT ![o] = NULL]
          /\ life' = [life EXCEPT ![o] = "live"]
          /\ UNCHANGED <<posted, istate, sink, offered>>
    BY Zenon DEF Construct, NewStream, NewListener, NewDatagram, SocketCtor, netVars
  <2>2. impl[o] = NULL BY Zenon, <2>0, <2>1 DEF OwnershipInv, Ownership, Exists
  <2>3. impl' = impl BY Zenon, <2>0, <2>1, <2>2 DEF Types
  <2>4. Ownership' BY Zenon, <2>0, <2>1, <2>2, <2>3 DEF Types, OwnershipInv, Ownership, Exists, HasApi
  <2>5. HandlersAlive'
    BY <2>0, <2>1, <2>3 DEF Types, OwnershipInv, HandlersAlive, Exists
  <2>6. HandedOverOnce' /\ OfferOK'
    <3>1. SameIncoming BY Zenon, <2>1 DEF SameIncoming, Incoming
    <3>2. \A i \in Impl : Announced(i) \cup Offers(i)' # {} =>
            istate'[i] = istate[i] /\ \A p \in Obj : impl'[p] # i
      BY Zenon, <2>1, <2>3 DEF OwnershipInv, HandedOverOnce, OnceAtMost, Unclaimed, Offers
    <3>3. \A p \in Obj : life[p] # "raw" => life'[p] # "raw" /\ stack'[p] = stack[p]
      BY Zenon, <2>0, <2>1 DEF Types
    <3> QED BY Zenon, <2>1, <3>1, <3>2, <3>3, <1>OffersKept
  <2> QED BY Zenon, <2>4, <2>5, <2>6 DEF OwnershipInv
\* open gives a free implementation to an object that had none.
<1>OpenOwnership.
  ASSUME NEW o \in Obj, Open(o),
         UNCHANGED offered
  PROVE  OwnershipInv'
  <2> USE <1>OpenOwnership
  <2>0. Types /\ NULL \notin Impl \cup Obj BY Zenon, BaseTypes, ConstantsAssumption
  <2>1. PICK i \in Impl :
          /\ istate[i] = "free"
          /\ impl' = [impl EXCEPT ![o] = i]
          /\ istate' = [istate EXCEPT ![i] = "open"]
          /\ sink' = [sink EXCEPT ![i] = o]
    BY Zenon DEF Open
  <2>2. /\ life[o] = "live" /\ impl[o] = NULL /\ HasApi(o)
        /\ UNCHANGED <<life, stack, posted>>
    BY Zenon DEF Open, Main
  <2>3. \A p \in Obj : impl[p] # i
    BY Zenon, <2>0, <2>1 DEF OwnershipInv, Ownership
  <2>4. /\ \A p \in Obj : impl'[p] = IF p = o THEN i ELSE impl[p]
        /\ \A j \in Impl : j # i => istate'[j] = istate[j] /\ sink'[j] = sink[j]
        /\ istate'[i] = "open" /\ sink'[i] = o
    BY Zenon, <2>0, <2>1 DEF Types
  <2>4a. Ownership'
    <3>1. ASSUME NEW p \in Obj, impl'[p] # NULL
          PROVE  Exists(p)' /\ HasApi(p)' /\ istate'[impl'[p]] # "free"
      <4>1. CASE p = o BY Zenon, <2>2, <2>4, <4>1 DEF Exists, HasApi
      <4>2. CASE p # o
        <5>0. impl'[p] = impl[p] /\ impl[p] # i BY Zenon, <2>3, <2>4, <4>2
        <5>1. impl[p] \in Impl BY Zenon, <2>0, <3>1, <5>0 DEF Types
        <5>2. Exists(p) /\ HasApi(p) /\ istate[impl[p]] # "free"
          BY Zenon, <3>1, <5>0 DEF OwnershipInv, Ownership
        <5> QED BY Zenon, <2>2, <2>4, <5>0, <5>1, <5>2 DEF Exists, HasApi
      <4> QED BY Zenon, <4>1, <4>2
    <3>2. ASSUME NEW p \in Obj, NEW q \in Obj, impl'[p] # NULL, impl'[p] = impl'[q]
          PROVE  p = q
      BY <2>0, <2>3, <2>4, <3>2 DEF OwnershipInv, Ownership
    <3> QED BY Zenon, <3>1, <3>2 DEF Ownership
  <2>5. HandlersAlive'
    <3> SUFFICES ASSUME NEW j \in Impl, sink'[j] # NULL
                 PROVE  Exists(sink[j])' /\ impl'[sink'[j]] = j
      BY Zenon DEF HandlersAlive
    <3>1. CASE j = i BY Zenon, <2>2, <2>4, <3>1 DEF Exists
    <3>2. CASE j # i
      <4>1. sink'[j] = sink[j] /\ sink[j] \in Obj /\ Exists(sink[j]) /\ impl[sink[j]] = j
        BY <2>0, <2>4, <3>2 DEF Types, OwnershipInv, HandlersAlive
      <4>2. sink[j] # o BY Zenon, <2>0, <2>2, <4>1
      <4> QED BY Zenon, <2>2, <2>4, <4>1, <4>2 DEF Exists
    <3> QED BY Zenon, <3>1, <3>2
  <2>6. HandedOverOnce' /\ OfferOK'
    <3>1. SameIncoming BY Zenon, <2>2 DEF SameIncoming, Incoming
    <3>2. \A j \in Impl : Announced(j) \cup Offers(j)' # {} =>
            istate'[j] = istate[j] /\ \A p \in Obj : impl'[p] # j
      <4>1. \A j : Offers(j)' = Offers(j) BY Zenon DEF Offers
      <4>2. \A j \in Impl : Announced(j) \cup Offers(j) # {} => Unclaimed(j)
        BY Zenon DEF OwnershipInv, HandedOverOnce, OnceAtMost
      <4>3. ~Unclaimed(i) BY Zenon, <2>1 DEF Unclaimed
      <4> QED BY Zenon, <2>4, <4>1, <4>2, <4>3 DEF Unclaimed
    <3>3. \A p \in Obj : life[p] # "raw" => life'[p] # "raw" /\ stack'[p] = stack[p]
      BY Zenon, <2>2
    <3> QED BY Zenon, <3>1, <3>2, <3>3, <1>OffersKept
  <2> QED BY Zenon, <2>4a, <2>5, <2>6 DEF OwnershipInv
\* ~Socket frees the object's implementation, and nobody else's.
<1>DtorOwnership.
  ASSUME NEW o \in Obj, SocketDtor(o), UNCHANGED offered
  PROVE  OwnershipInv'
  <2> USE <1>DtorOwnership
  <2>0. Types /\ NULL \notin Impl \cup Obj BY Zenon, BaseTypes, ConstantsAssumption
  <2>1. /\ life' = [life EXCEPT ![o] = "dead"]
        /\ impl' = [impl EXCEPT ![o] = NULL]
        /\ UNCHANGED stack
    BY Zenon DEF SocketDtor
  <2>2. SameIncoming
    <3>1. CASE UNCHANGED posted BY Zenon, <3>1 DEF SameIncoming, Incoming
    <3>2. CASE ErrorCheck(o, "stack error")
      BY Zenon, <3>2, PostSameIncoming DEF ErrorCheck
    <3> QED BY Zenon, <3>1, <3>2 DEF SocketDtor
  <2>3. \/ impl[o] = NULL /\ UNCHANGED <<istate, sink>>
        \/ /\ impl[o] # NULL
           /\ istate' = [istate EXCEPT ![impl[o]] = "free"]
           /\ sink' = [sink EXCEPT ![impl[o]] = NULL]
    <3>1. impl[o] # NULL => HasApi(o) BY Zenon DEF OwnershipInv, Ownership
    <3> QED BY Zenon, <3>1 DEF SocketDtor, NoStackChange, netVars
  <2>3a. /\ \A p \in Obj : p # o => impl'[p] = impl[p] /\ life'[p] = life[p]
         /\ impl'[o] = NULL
         /\ \A j \in Impl : j # impl[o] => istate'[j] = istate[j] /\ sink'[j] = sink[j]
         /\ impl[o] # NULL => impl[o] \in Impl /\ sink'[impl[o]] = NULL
    BY Zenon, <2>0, <2>1, <2>3 DEF Types
  <2>4. Ownership'
    <3>1. ASSUME NEW p \in Obj, impl'[p] # NULL
          PROVE  Exists(p)' /\ HasApi(p)' /\ istate'[impl'[p]] # "free"
      <4>1. p # o /\ impl'[p] = impl[p] /\ life'[p] = life[p] BY Zenon, <2>3a, <3>1
      <4>2. Exists(p) /\ HasApi(p) /\ istate[impl[p]] # "free" /\ impl[p] # impl[o]
        BY Zenon, <3>1, <4>1 DEF OwnershipInv, Ownership
      <4>3. impl[p] \in Impl BY Zenon, <2>0, <3>1, <4>1 DEF Types
      <4> QED BY Zenon, <2>1, <2>3a, <4>1, <4>2, <4>3 DEF Exists, HasApi
    <3>2. ASSUME NEW p \in Obj, NEW q \in Obj, impl'[p] # NULL, impl'[p] = impl'[q]
          PROVE  p = q
      BY <2>3a, <3>2 DEF OwnershipInv, Ownership
    <3> QED BY Zenon, <3>1, <3>2 DEF Ownership
  <2>5. HandlersAlive'
    <3> SUFFICES ASSUME NEW j \in Impl, sink'[j] # NULL
                 PROVE  Exists(sink[j])' /\ impl'[sink'[j]] = j
      BY Zenon DEF HandlersAlive
    <3>1. j # impl[o] BY Zenon, <2>0, <2>3a
    <3>2. sink'[j] = sink[j] /\ sink[j] \in Obj /\ Exists(sink[j]) /\ impl[sink[j]] = j
      BY <2>0, <2>3a, <3>1 DEF Types, OwnershipInv, HandlersAlive
    <3>3. sink[j] # o BY Zenon, <3>1, <3>2
    <3> QED BY Zenon, <2>3a, <3>2, <3>3 DEF Exists
  <2>6. \A j \in Impl : Announced(j) \cup Offers(j)' # {} =>
          istate'[j] = istate[j] /\ \A p \in Obj : impl'[p] # j
    <3>1. \A j : Offers(j)' = Offers(j) BY Zenon DEF Offers
    <3>2. \A j \in Impl : Announced(j) \cup Offers(j) # {} => Unclaimed(j)
      BY Zenon DEF OwnershipInv, HandedOverOnce, OnceAtMost
    <3>3. \A j \in Impl : Unclaimed(j) => j # impl[o] BY Zenon DEF Unclaimed
    <3> QED BY <2>0, <2>3a, <3>1, <3>2, <3>3 DEF Unclaimed
  <2>7. \A p \in Obj : life[p] # "raw" => life'[p] # "raw" /\ stack'[p] = stack[p]
    BY Zenon, <2>0, <2>1 DEF Types
  <2>8. HandedOverOnce' /\ OfferOK' BY Zenon, <2>2, <2>6, <2>7, <1>OffersKept
  <2> QED BY Zenon, <2>4, <2>5, <2>8 DEF OwnershipInv
\* accept, either way, moves an implementation from the offer to the new
\* stream, also when the stack refuses it.
<1>AcceptOwnership.
  ASSUME NEW l \in Listeners, NEW i \in Impl, NEW s \in Streams,
         TakeOffer(l, i), Accept(l, i, s) \/ AcceptDeprecated(l, i, s)
  PROVE  OwnershipInv'
  <2> USE <1>AcceptOwnership
  <2>0. Types /\ NULL \notin Impl \cup Obj /\ s \in Obj /\ l \in Obj
    BY Zenon, BaseTypes, ConstantsAssumption DEF Obj
  <2>1. /\ <<l, i>> \in offered
        /\ offered' = offered \ {<<l, i>>}
        /\ life[s] = "raw"
        /\ stack' = [stack EXCEPT ![s] = stack[l]]
        /\ impl' = [impl EXCEPT ![s] = i]
        /\ \/ life' = [life EXCEPT ![s] = "live"]
           \/ life' = [life EXCEPT ![s] = "~TCPAsynch"]
    BY Zenon DEF Accept, AcceptDeprecated, TakeOffer, StreamAround, SocketCtor
  <2>2. \/ UNCHANGED <<istate, sink>>
        \/ /\ istate' = [istate EXCEPT ![i] = "connected"]
           /\ sink' = [sink EXCEPT ![i] = s]
    BY Zenon DEF Accept, AcceptDeprecated, StackAccepts
  <2>3. SameIncoming
    <3>1. CASE UNCHANGED posted BY Zenon, <3>1 DEF SameIncoming, Incoming
    <3>2. CASE ErrorCheck(s, "stack error")
      BY Zenon, <3>2, PostSameIncoming DEF ErrorCheck
    <3> QED BY Zenon, <3>1, <3>2 DEF Accept, AcceptDeprecated
  <2>4. /\ istate[i] = "offered"
        /\ \A o \in Obj : impl[o] # i
        /\ Announced(i) = {}
        /\ \A x \in offered : x[2] = i => x = <<l, i>>
    <3>1. <<l, i>> \in Offers(i) BY Zenon, <2>1 DEF Offers
    <3> QED BY Zenon, <3>1 DEF OwnershipInv, HandedOverOnce, OnceAtMost, Unclaimed, Offers
  <2>5. HasApi(l) BY Zenon, <2>1 DEF OwnershipInv, OfferOK
  <2>6. /\ \A p \in Obj : impl'[p] = IF p = s THEN i ELSE impl[p]
        /\ \A p \in Obj : stack'[p] = IF p = s THEN stack[l] ELSE stack[p]
        /\ \A p \in Obj : p # s => life'[p] = life[p]
        /\ life'[s] \in {"live", "~TCPAsynch"}
    BY Zenon, <2>0, <2>1 DEF Types
  <2>7. /\ \A j \in Impl : j # i => istate'[j] = istate[j] /\ sink'[j] = sink[j]
        /\ istate'[i] # "free" /\ sink'[i] \in {sink[i], s}
    BY Zenon, <2>0, <2>2, <2>4 DEF Types
  <2>8. impl[s] = NULL BY Zenon, <2>0, <2>1 DEF OwnershipInv, Ownership, Exists
  <2>9. sink[i] = NULL
    <3>1. sink[i] \in Obj \cup {NULL} BY Zenon, <2>0 DEF Types
    <3> QED BY Zenon, <2>4, <3>1 DEF OwnershipInv, HandlersAlive
  <2>10. Ownership'
    <3>1. ASSUME NEW p \in Obj, impl'[p] # NULL
          PROVE  Exists(p)' /\ HasApi(p)' /\ istate'[impl'[p]] # "free"
      <4>1. CASE p = s BY Zenon, <2>0, <2>5, <2>6, <2>7, <4>1 DEF Exists, HasApi
      <4>2. CASE p # s
        <5>0. impl'[p] = impl[p] /\ impl[p] # i BY Zenon, <2>4, <2>6, <4>2
        <5>1. impl[p] \in Impl BY Zenon, <2>0, <3>1, <5>0 DEF Types
        <5>2. Exists(p) /\ HasApi(p) /\ istate[impl[p]] # "free"
          BY Zenon, <3>1, <5>0 DEF OwnershipInv, Ownership
        <5> QED BY Zenon, <2>6, <2>7, <4>2, <5>0, <5>1, <5>2 DEF Exists, HasApi
      <4> QED BY Zenon, <4>1, <4>2
    <3>2. ASSUME NEW p \in Obj, NEW q \in Obj, impl'[p] # NULL, impl'[p] = impl'[q]
          PROVE  p = q
      BY <2>0, <2>4, <2>6, <3>2 DEF OwnershipInv, Ownership
    <3> QED BY Zenon, <3>1, <3>2 DEF Ownership
  <2>11. HandlersAlive'
    <3> SUFFICES ASSUME NEW j \in Impl, sink'[j] # NULL
                 PROVE  Exists(sink[j])' /\ impl'[sink'[j]] = j
      BY Zenon DEF HandlersAlive
    <3>1. CASE j = i BY Zenon, <2>0, <2>6, <2>7, <2>9, <3>1 DEF Exists
    <3>2. CASE j # i
      <4>1. sink'[j] = sink[j] /\ sink[j] \in Obj /\ Exists(sink[j]) /\ impl[sink[j]] = j
        BY Zenon, <2>0, <2>7, <3>2 DEF Types, OwnershipInv, HandlersAlive
      <4>2. sink[j] # s BY Zenon, <2>0, <2>8, <4>1
      <4> QED BY Zenon, <2>6, <4>1, <4>2 DEF Exists
    <3> QED BY Zenon, <3>1, <3>2
  <2>12. \A j \in Impl : Announced(j) \cup Offers(j)' # {} =>
          istate'[j] = istate[j] /\ \A p \in Obj : impl'[p] # j
    <3> SUFFICES ASSUME NEW j \in Impl, Announced(j) \cup Offers(j)' # {}
                 PROVE  istate'[j] = istate[j] /\ \A p \in Obj : impl'[p] # j
      BY Zenon
    <3>1. j # i BY Zenon, <2>1, <2>4 DEF Offers
    <3>2. Announced(j) \cup Offers(j) # {} BY Zenon, <2>1 DEF Offers
    <3>3. \A p \in Obj : impl[p] # j BY Zenon, <3>2 DEF OwnershipInv, HandedOverOnce, OnceAtMost, Unclaimed
    <3> QED BY Zenon, <2>6, <2>7, <3>1, <3>3
  <2>13. \A p \in Obj : life[p] # "raw" => life'[p] # "raw" /\ stack'[p] = stack[p]
    BY Zenon, <2>1, <2>6
  <2>14. HandedOverOnce' /\ OfferOK' BY Zenon, <2>1, <2>3, <2>12, <2>13, <1>OffersKept
  <2> QED BY Zenon, <2>10, <2>11, <2>14 DEF OwnershipInv
\* reject withdraws the offer and leaves the implementation without owner.
<1>RejectOwnership.
  ASSUME NEW l \in Listeners, NEW i \in Impl, TakeOffer(l, i), Reject(l, i)
  PROVE  OwnershipInv'
  <2> USE <1>RejectOwnership
  <2>0. Types /\ NULL \notin Impl \cup Obj BY Zenon, BaseTypes, ConstantsAssumption
  <2>1. /\ <<l, i>> \in offered
        /\ offered' = offered \ {<<l, i>>}
        /\ UNCHANGED <<life, stack, impl, posted, sink>>
        /\ UNCHANGED istate \/ istate' = [istate EXCEPT ![i] = "closed"]
    BY Zenon DEF Reject, TakeOffer, NoStackChange, objVars, netVars
  <2>2. /\ Announced(i) = {}
        /\ \A x \in offered : x[2] = i => x = <<l, i>>
    <3>1. <<l, i>> \in Offers(i) BY Zenon, <2>1 DEF Offers
    <3> QED BY Zenon, <3>1 DEF OwnershipInv, HandedOverOnce, OnceAtMost, Unclaimed, Offers
  <2>3. Ownership'
    <3>1. \A j \in Impl : istate[j] # "free" => istate'[j] # "free" BY Zenon, <2>0, <2>1 DEF Types
    <3>2. \A p \in Obj : impl[p] # NULL => impl[p] \in Impl BY Zenon, <2>0 DEF Types
    <3> QED BY Zenon, <2>1, <3>1, <3>2 DEF OwnershipInv, Ownership, Exists, HasApi
  <2>4. HandlersAlive' BY Zenon, <2>1 DEF OwnershipInv, HandlersAlive, Exists
  <2>5. SameIncoming BY Zenon, <2>1 DEF SameIncoming, Incoming
  <2>6. \A j \in Impl : Announced(j) \cup Offers(j)' # {} =>
          istate'[j] = istate[j] /\ \A p \in Obj : impl'[p] # j
    <3> SUFFICES ASSUME NEW j \in Impl, Announced(j) \cup Offers(j)' # {}
                 PROVE  istate'[j] = istate[j] /\ \A p \in Obj : impl'[p] # j
      BY Zenon
    <3>1. j # i BY Zenon, <2>1, <2>2 DEF Offers
    <3>2. Announced(j) \cup Offers(j) # {} BY Zenon, <2>1 DEF Offers
    <3>3. \A p \in Obj : impl[p] # j BY Zenon, <3>2 DEF OwnershipInv, HandedOverOnce, OnceAtMost, Unclaimed
    <3> QED BY Zenon, <2>0, <2>1, <3>1, <3>3 DEF Types
  <2>7. HandedOverOnce' /\ OfferOK' BY Zenon, <2>1, <2>5, <2>6, <1>OffersKept
  <2> QED BY Zenon, <2>3, <2>4, <2>7 DEF OwnershipInv
\* Running onIncoming turns the one announcement into the one offer.
<1>RunOwnership.
  ASSUME NEW c \in DOMAIN posted, RunCallback(c)
  PROVE  OwnershipInv'
  <2> USE <1>RunOwnership
  <2>0. Types BY Zenon, BaseTypes
  <2>1. /\ posted' = Dequeue(posted, c)
        /\ UNCHANGED <<life, stack, impl, istate, sink>>
    BY Zenon DEF RunCallback, objVars, netVars
  <2>2. Ownership' /\ HandlersAlive'
    BY Zenon, <2>1 DEF OwnershipInv, Ownership, HandlersAlive, Exists, HasApi
  <2>3. CASE c.slot # "onIncoming"
    <3>1. SameIncoming BY Zenon, <2>1, <2>3 DEF Dequeue, SameIncoming, Incoming
    <3>2. UNCHANGED offered BY Zenon, <2>3 DEF RunCallback
    <3>3. \A j \in Impl : Announced(j) \cup Offers(j)' # {} =>
            istate'[j] = istate[j] /\ \A p \in Obj : impl'[p] # j
      BY Zenon, <2>1, <3>2 DEF OwnershipInv, HandedOverOnce, OnceAtMost, Unclaimed, Offers
    <3>4. HandedOverOnce' /\ OfferOK' BY Zenon, <2>1, <3>1, <3>2, <3>3, <1>OffersKept
    <3> QED BY Zenon, <2>2, <3>4 DEF OwnershipInv
  <2>4. CASE c.slot = "onIncoming"
    <3>1. /\ c.arg \in Impl /\ c \in Announced(c.arg)
          /\ offered' = offered \cup {<<c.obj, c.arg>>}
      BY Zenon, <2>0, <2>4 DEF Types, Incoming, Announced, RunCallback
    <3>2. posted[c] = 1 BY <3>1 DEF OwnershipInv, HandedOverOnce, OnceAtMost, Unclaimed
    <3>3. posted' = [d \in DOMAIN posted \ {c} |-> posted[d]]
      BY Zenon, <2>1, <3>2 DEF Dequeue
    <3>4. /\ \A j : Announced(j)' = Announced(j) \ {c}
          /\ \A j : j # c.arg => Offers(j)' = Offers(j)
          /\ Offers(c.arg)' = Offers(c.arg) \cup {<<c.obj, c.arg>>}
      BY <3>1, <3>3 DEF Announced, Offers
    <3>5. Offers(c.arg) = {} /\ Announced(c.arg) = {c}
      BY <3>1 DEF OwnershipInv, HandedOverOnce, OnceAtMost, Unclaimed
    <3>6. \A j : \A d \in Announced(j)' : posted'[d] = posted[d] /\ d \in Announced(j)
      BY Zenon, <3>3, <3>4 DEF Announced
    <3>7. HandedOverOnce'
      <4> SUFFICES ASSUME NEW j \in Impl PROVE OnceAtMost(j)'
        BY Zenon DEF HandedOverOnce
      <4>1. CASE j = c.arg
        <5>1. Unclaimed(j)' BY Zenon, <2>1, <3>1, <4>1
                            DEF OwnershipInv, HandedOverOnce, OnceAtMost, Unclaimed
        <5>2. Announced(j)' = {} /\ Offers(j)' = {<<c.obj, c.arg>>} BY Zenon, <3>4, <3>5, <4>1
        <5> QED BY Zenon, <5>1, <5>2 DEF OnceAtMost
      <4>2. CASE j # c.arg
        <5>1. Announced(j)' = Announced(j) BY Zenon, <3>4, <4>2 DEF Announced
        <5>2. Offers(j)' = Offers(j) BY Zenon, <3>4, <4>2
        <5>3. Unclaimed(j) => Unclaimed(j)' BY Zenon, <2>1 DEF Unclaimed
        <5>4. OnceAtMost(j) BY Zenon DEF OwnershipInv, HandedOverOnce
        <5> QED BY Zenon, <3>6, <5>1, <5>2, <5>3, <5>4, <1>OnceKept
      <4> QED BY Zenon, <4>1, <4>2
    <3>8. OfferOK'
      <4>1. HasApi(c.obj) /\ life[c.obj] # "raw" BY Zenon, <2>4 DEF OwnershipInv, OfferOK
      <4>2. DOMAIN posted' \subseteq DOMAIN posted BY Zenon, <3>3
      <4> QED BY <2>1, <3>1, <4>1, <4>2 DEF OwnershipInv, OfferOK, HasApi
    <3> QED BY Zenon, <2>2, <3>7, <3>8 DEF OwnershipInv
  <2> QED BY Zenon, <2>3, <2>4
\* A new connection takes a free implementation and announces it at most
\* once, to a listener that has an API table.
<1>AcceptEventOwnership.
  ASSUME NEW i \in Impl, RaiseAccept(i)
  PROVE  OwnershipInv'
  <2> USE <1>AcceptEventOwnership
  <2>0. Types BY Zenon, BaseTypes
  <2>1. PICK j \in Impl : /\ istate[j] = "free"
                          /\ Raise(i, "ACCEPT", j)
                          /\ istate' = [istate EXCEPT ![j] = "offered"]
    BY Zenon DEF RaiseAccept
  <2>2. /\ sink[i] \in Obj
        /\ EventHandler(sink[i], "ACCEPT", j)
        /\ UNCHANGED <<life, stack, impl, sink, offered>>
    BY Zenon, <2>0, <2>1 DEF Raise, Types, objVars
  <2>3. HasApi(sink[i]) /\ life[sink[i]] # "raw"
    <3>1. sink[i] # NULL /\ i # NULL BY Zenon, <2>2, ConstantsAssumption
    <3>2. Exists(sink[i]) /\ impl[sink[i]] = i BY Zenon, <3>1 DEF OwnershipInv, HandlersAlive
    <3> QED BY Zenon, <2>2, <3>1, <3>2 DEF OwnershipInv, Ownership, Exists
  <2>4. /\ \A o \in Obj : impl[o] # j
        /\ Announced(j) = {} /\ Offers(j) = {}
    <3>1. j # NULL BY Zenon, ConstantsAssumption
    <3>2. \A o \in Obj : impl[o] # j BY Zenon, <2>1, <3>1 DEF OwnershipInv, Ownership
    <3>3. OnceAtMost(j) BY Zenon DEF OwnershipInv, HandedOverOnce
    <3>4. ~Unclaimed(j) BY Zenon, <2>1 DEF Unclaimed
    <3> QED BY Zenon, <3>2, <3>3, <3>4 DEF OnceAtMost
  <2>5. Ownership'
    <3>1. \A k \in Impl : istate[k] # "free" => istate'[k] # "free" BY Zenon, <2>0, <2>1 DEF Types
    <3>2. \A p \in Obj : impl[p] # NULL => impl[p] \in Impl BY Zenon, <2>0 DEF Types
    <3> QED BY Zenon, <2>2, <3>1, <3>2 DEF OwnershipInv, Ownership, Exists, HasApi
  <2>6. HandlersAlive' BY Zenon, <2>2 DEF OwnershipInv, HandlersAlive, Exists
  <2>7. CASE SameIncoming
    <3>1. \A k \in Impl : Announced(k) \cup Offers(k)' # {} =>
            istate'[k] = istate[k] /\ \A p \in Obj : impl'[p] # k
      <4>1. \A k : Offers(k)' = Offers(k) BY Zenon, <2>2 DEF Offers
      <4> SUFFICES ASSUME NEW k \in Impl, Announced(k) \cup Offers(k) # {}
                   PROVE  istate'[k] = istate[k] /\ \A p \in Obj : impl'[p] # k
        BY Zenon, <4>1
      <4>2. k # j BY Zenon, <2>4
      <4>3. istate'[k] = istate[k] BY Zenon, <2>0, <2>1, <4>2 DEF Types
      <4>4. Unclaimed(k) BY Zenon DEF OwnershipInv, HandedOverOnce, OnceAtMost
      <4> QED BY Zenon, <2>2, <4>3, <4>4 DEF Unclaimed
    <3>2. HandedOverOnce' /\ OfferOK' BY Zenon, <2>2, <2>7, <3>1, <1>OffersKept
    <3> QED BY SMTT(30), <2>5, <2>6, <3>2 DEF OwnershipInv
  <2>8. CASE posted' = Enqueue(posted, Bind(sink[i], "onIncoming", j))
    <3> DEFINE c == Bind(sink[i], "onIncoming", j)
    <3>1. c.slot = "onIncoming" /\ c.arg = j /\ c.obj = sink[i] BY Zenon DEF Bind
    <3>2. posted' = Enqueue(posted, c) BY Zenon, <2>8
    <3> HIDE DEF c
    <3>3. c \notin DOMAIN posted BY Zenon, <2>4, <3>1 DEF Announced
    <3>4. /\ DOMAIN posted' = DOMAIN posted \cup {c}
          /\ posted'[c] = 1
          /\ \A d \in DOMAIN posted : posted'[d] = posted[d]
      BY Zenon, <3>2, <3>3 DEF Enqueue
    <3>5. /\ \A k : Offers(k)' = Offers(k)
          /\ \A k : k # j => Announced(k)' = Announced(k)
          /\ Announced(j)' = {c}
      BY Zenon, <2>2, <2>4, <3>1, <3>4 DEF Offers, Announced
    <3>6. HandedOverOnce'
      <4> SUFFICES ASSUME NEW k \in Impl PROVE OnceAtMost(k)'
        BY Zenon DEF HandedOverOnce
      <4>1. CASE k = j
        <5>1. Unclaimed(k)' BY Zenon, <2>0, <2>1, <2>2, <2>4, <4>1 DEF Types, Unclaimed
        <5>2. Announced(k)' = {c} /\ Offers(k)' = {} BY SMTT(30), <2>4, <3>5, <4>1
        <5> QED BY SMTT(30), <3>4, <5>1, <5>2 DEF OnceAtMost
      <4>2. CASE k # j
        <5>1. istate'[k] = istate[k] BY Zenon, <2>0, <2>1, <4>2 DEF Types
        <5>2. \A d \in Announced(k) : posted'[d] = posted[d] BY Zenon, <3>4 DEF Announced
        <5>3. Unclaimed(k) => Unclaimed(k)' BY Zenon, <2>2, <5>1 DEF Unclaimed
        <5>4. OnceAtMost(k) BY Zenon DEF OwnershipInv, HandedOverOnce
        <5>5. Announced(k)' = Announced(k) /\ Offers(k)' = Offers(k) BY SMTT(30), <3>5, <4>2
        <5> QED BY Zenon, <5>2, <5>3, <5>4, <5>5, <1>OnceKept
      <4> QED BY Zenon, <4>1, <4>2
    <3>7. OfferOK'
      BY Zenon, <2>2, <2>3, <3>1, <3>4 DEF OwnershipInv, OfferOK, HasApi
    <3> QED BY Zenon, <2>5, <2>6, <3>6, <3>7 DEF OwnershipInv
  <2> QED BY Zenon, <2>2, <2>7, <2>8, EventPosts DEF EventKind
<1>1. CASE UNCHANGED vars
  <2>1. MovesNothing
    BY Zenon, <1>1, BaseTypes DEF vars, socketVars, objVars, netVars, MovesNothing, Exists,
                           SameIncoming, Incoming
  <2> QED BY SMTT(30), <2>1, <1>MovesNothingKeeps
<1>2. ASSUME NEW o \in Obj, AppCall(o)
      PROVE  OwnershipInv'
  BY Zenon, <1>2, <1>OpenOwnership, <1>DtorOwnership, QuietCalls, <1>MovesNothingKeeps
     DEF AppCall, AsynchOpen, DatagramOpen
<1>3. ASSUME NEW l \in Listeners, NEW i \in Impl, Answer(l, i)
      PROVE  OwnershipInv'
  BY Zenon, <1>3, <1>AcceptOwnership, <1>RejectOwnership DEF Answer
<1>4. ASSUME NEW i \in Impl, StackEvent(i)
      PROVE  OwnershipInv'
  BY Zenon, <1>4, <1>AcceptEventOwnership, QuietEvents, <1>MovesNothingKeeps DEF StackEvent
<1>5. ASSUME NEW o \in Obj, AsynchDtor(o) /\ UNCHANGED offered
      PROVE  OwnershipInv'
  BY Zenon, <1>5, QuietCalls, <1>MovesNothingKeeps
<1>6. CASE Continue BY Zenon, <1>6, QuietContinue, <1>MovesNothingKeeps
<1> QED BY Zenon, <1>1, <1>2, <1>3, <1>4, <1>5, <1>6, <1>ConstructOwnership, <1>RunOwnership DEF Next

(* The ownership invariant holds if the application does not reopen.       *)
THEOREM OwnershipInvariant ==
  ASSUME "reopen" \notin AppMay
  PROVE  Spec => []OwnershipInv
<1>1. Init => OwnershipInv
  <2> SUFFICES ASSUME Init PROVE OwnershipInv
    BY Zenon
  <2>1. /\ \A o \in Obj : impl[o] = NULL
        /\ \A i \in Impl : sink[i] = NULL
        /\ DOMAIN posted = {} /\ offered = {}
    BY Zenon DEF Init, SocketInit, ListenerInit
  <2>2. Ownership /\ HandlersAlive BY Zenon, <2>1 DEF Ownership, HandlersAlive
  <2>3. OfferOK BY Zenon, <2>1 DEF OfferOK
  <2>4. \A i : Announced(i) = {} /\ Offers(i) = {} BY Zenon, <2>1 DEF Announced, Offers
  <2>5. HandedOverOnce BY Zenon, <2>4 DEF HandedOverOnce, OnceAtMost
  <2> QED BY Zenon, <2>2, <2>3, <2>5 DEF OwnershipInv
<1>2. BaseInv /\ OwnershipInv /\ [Next]_vars => OwnershipInv'
  BY Zenon, OwnershipNext
<1> QED BY <1>1, <1>2, BaseInvariant, PTL DEF Spec

(* If the application does not reopen a socket, an implementation has at   *)
(* most one owner, which exists and has an API table.                      *)
THEOREM OwnershipSafe ==
  ASSUME "reopen" \notin AppMay
  PROVE  Spec => []Ownership
<1>1. OwnershipInv => Ownership BY Zenon DEF OwnershipInv
<1> QED BY <1>1, OwnershipInvariant, PTL

(* If the application does not reopen a socket, the stack calls only       *)
(* handlers of existing objects, each about its own implementation.        *)
THEOREM HandlersSafe ==
  ASSUME "reopen" \notin AppMay
  PROVE  Spec => []HandlersAlive
<1>1. OwnershipInv => HandlersAlive BY Zenon DEF OwnershipInv
<1> QED BY <1>1, OwnershipInvariant, PTL
=============================================================================
