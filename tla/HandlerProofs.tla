---------------------------- MODULE HandlerProofs ----------------------------
(***************************************************************************)
(* The theorems about callbacks and handlers, for any number of objects    *)
(* and events: who a callback is posted for, by which class's handler, and *)
(* what handler it carries.  For an application that neither reopens a     *)
(* socket nor repeats a request before its answer, the answer of the stack *)
(* to resolve, connect and start_listening finds the handler the request   *)
(* was made with, whole.                                                   *)
(***************************************************************************)
EXTENDS SocketsProofs

-----------------------------------------------------------------------------
(* Who posts.                                                              *)

\* Callback c is posted by the step, once more than it was.
NewPost(c) == ~(c \in DOMAIN posted /\ posted'[c] <= posted[c])

\* It is an event of an implementation whose handler is o's that posts to s ...
EventPoster(o, s) ==
  /\ \E i \in Impl : sink[i] = o /\ StackEvent(i)
  /\ \E k \in EventKind : Routed(o, k, s)
  /\ UNCHANGED life

\* ... or error_check, in ~Socket or in the constructor that accepts.
ErrorPoster(o, s) ==
  /\ s = "onError"
  /\ life[o] \in {"raw", "~Socket"}
  /\ life'[o] # "raw"

(* Posting binds one callback and leaves the others as often as they were. *)
LEMMA EnqueueNew ==
  ASSUME BaseInv, NEW d, posted' = Enqueue(posted, d), NEW c \in DOMAIN posted', NewPost(c)
  PROVE  c = d
<1>1. \A x \in DOMAIN posted : posted[x] \in Nat BY Zenon DEF BaseInv, SocketTypeOK
<1> QED BY <1>1 DEF Enqueue, NewPost

(* Nothing is posted where the queue stays.                                *)
LEMMA QuietPost ==
  ASSUME BaseInv, UNCHANGED posted, NEW c \in DOMAIN posted'
  PROVE  ~NewPost(c)
<1>1. \A x \in DOMAIN posted : posted[x] \in Nat BY Zenon DEF BaseInv, SocketTypeOK
<1> QED BY <1>1 DEF NewPost

(* Whatever the step, a callback is posted by an event or by error_check,  *)
(* with the handler the object has at that moment.                         *)
LEMMA PostStep ==
  ASSUME BaseInv, [Next]_vars, NEW c \in DOMAIN posted', NewPost(c)
  PROVE  /\ c.obj \in Obj /\ c.slot \in Slot
         /\ c.fn = on[c.obj][c.slot]
         /\ EventPoster(c.obj, c.slot) \/ ErrorPoster(c.obj, c.slot)
<1> DEFINE Goal == /\ c.obj \in Obj /\ c.slot \in Slot
                   /\ c.fn = on[c.obj][c.slot]
                   /\ EventPoster(c.obj, c.slot) \/ ErrorPoster(c.obj, c.slot)
<1>0. Types /\ Obj = TCP \cup Datagrams /\ Streams \subseteq Obj
  BY Zenon, BaseTypes DEF Obj, TCP
<1>1. posted' # posted BY Zenon, QuietPost
<1>2. ASSUME NEW o \in Obj, ErrorCheck(o, "stack error"), ErrorPoster(o, "onError")
      PROVE  Goal
  <2>1. c = Bind(o, "onError", "stack error") BY Zenon, <1>2, EnqueueNew DEF ErrorCheck
  <2> QED BY Zenon, <1>2, <2>1 DEF Bind, Slot, SocketSlot
<1>3. ASSUME NEW o \in Obj, AppCall(o) PROVE Goal
  <2>1. SocketDtor(o)
    BY Zenon, <1>1, <1>3 DEF AppCall, AsynchOpen, DatagramOpen, Open, BindAddress, Close,
       ConnectDatagram, StopListening, SetOn, Resolve, Connect, StartListening,
       SetOnDisconnect, BeginAssign, DeleteStream, DeleteListener, DeleteDatagram
  <2>2. ErrorCheck(o, "stack error") BY Zenon, <1>1, <2>1 DEF SocketDtor
  <2>3. ErrorPoster(o, "onError") BY Zenon, <1>0, <2>1 DEF SocketDtor, ErrorPoster, Types
  <2> QED BY Zenon, <1>2, <2>2, <2>3
<1>4. ASSUME NEW l \in Listeners, NEW i \in Impl, Answer(l, i) PROVE Goal
  <2>1. PICK s \in Streams : AcceptDeprecated(l, i, s)
    BY Zenon, <1>1, <1>4 DEF Answer, Accept, Reject
  <2>2. ErrorCheck(s, "stack error") BY Zenon, <1>1, <2>1 DEF AcceptDeprecated
  <2>3. ErrorPoster(s, "onError")
    BY Zenon, <1>0, <2>1 DEF AcceptDeprecated, StreamAround, SocketCtor, ErrorPoster, Types
  <2> QED BY Zenon, <1>0, <1>2, <2>2, <2>3
<1>5. ASSUME NEW d \in DOMAIN posted, RunCallback(d) PROVE FALSE
  <2>1. posted' = Dequeue(posted, d) BY Zenon, <1>5 DEF RunCallback
  <2>2. \A x \in DOMAIN posted : posted[x] \in Nat BY Zenon DEF BaseInv, SocketTypeOK
  <2> QED BY <2>1, <2>2 DEF Dequeue, NewPost
<1>6. ASSUME NEW i \in Impl, StackEvent(i) PROVE Goal
  <2>1. PICK k, arg : k \in EventKind /\ Raise(i, k, arg)
    BY Zenon, <1>6 DEF StackEvent, RaiseError, RaiseData, RaiseDNS, RaiseConnect, RaiseDisconnect,
                RaiseAccept, EventKind, ErrorEvents
  <2>2. PICK o \in Obj : o = sink[i] BY Zenon, <1>0, <2>1 DEF Raise, Types
  <2>3. EventHandler(o, k, arg) /\ UNCHANGED life BY Zenon, <2>1, <2>2 DEF Raise, objVars
  <2>4. PICK s, a : s \in Slot /\ Handle(o, s, a) /\ s # NoSlot /\ Routed(o, k, s)
    BY Zenon, <1>1, <2>1, <2>3, EventRoutes
  <2>5. posted' = Enqueue(posted, Bind(o, s, a)) BY Zenon, <1>1, <2>4 DEF Handle
  <2>6. c = Bind(o, s, a) BY Zenon, <2>5, EnqueueNew
  <2>7. EventPoster(o, s) BY Zenon, <1>6, <2>1, <2>2, <2>3, <2>4 DEF EventPoster
  <2> QED BY Zenon, <2>4, <2>6, <2>7 DEF Bind
<1>7. CASE UNCHANGED vars BY Zenon, <1>1, <1>7 DEF vars, socketVars
<1>8. ASSUME NEW o \in Obj, Construct(o) \/ AsynchDtor(o) PROVE FALSE
  BY Zenon, <1>1, <1>8 DEF Construct, NewStream, NewListener, NewDatagram, AsynchDtor
<1>9. CASE Continue
  BY Zenon, <1>1, <1>9 DEF Continue, EndAssign, ResolveApi, ConnectApi, StartListeningApi, StackAnswers
<1> QED BY Zenon, <1>3, <1>4, <1>5, <1>6, <1>7, <1>8, <1>9 DEF Next

(* If the application does not reopen a socket, nothing is posted for an   *)
(* object whose ~Socket is through.                                        *)
THEOREM DeadAreQuiet ==
  ASSUME "reopen" \notin AppMay
  PROVE  Spec => QuietAfterDeath
<1>1. ASSUME BaseInv, OwnershipInv, [Next]_vars, NEW c \in DOMAIN posted', life[c.obj] = "dead"
      PROVE  c \in DOMAIN posted /\ posted'[c] <= posted[c]
  <2>1. NULL \notin Obj BY Zenon, ConstantsAssumption
  <2>2. c.obj \in Obj => ~EventPoster(c.obj, c.slot)
    BY Zenon, <1>1, <2>1 DEF EventPoster, OwnershipInv, HandlersAlive, Exists
  <2> QED BY Zenon, <1>1, <2>2, PostStep DEF NewPost, ErrorPoster
<1>2. BaseInv /\ OwnershipInv /\ [Next]_vars =>
        [\A c \in DOMAIN posted' :
           life[c.obj] = "dead" => c \in DOMAIN posted /\ posted'[c] <= posted[c]]_vars
  BY Zenon, <1>1
<1> QED BY <1>2, BaseInvariant, OwnershipInvariant, PTL DEF Spec, QuietAfterDeath

-----------------------------------------------------------------------------
(* Callbacks fit the class of their object.                                *)

(* Construction and destruction go one way.                                *)
LEMMA LifeStep ==
  ASSUME BaseInv, [Next]_vars, NEW o \in Obj
  PROVE  /\ life[o] # "raw" => life'[o] # "raw"
         /\ life[o] \notin {"raw", "live"} => life'[o] # "live"
<1>0. life \in [Obj -> Life] /\ Streams \subseteq Obj BY Zenon, BaseTypes DEF Types, Obj
<1>1. ASSUME NEW p \in Obj, NEW x \in {"~TCPAsynch", "~Socket", "dead"},
             life' = [life EXCEPT ![p] = x]
      PROVE  /\ life[o] # "raw" => life'[o] # "raw"
             /\ life[o] \notin {"raw", "live"} => life'[o] # "live"
  BY Zenon, <1>0, <1>1
<1>2. ASSUME NEW p \in Obj, life[p] = "raw", life' = [life EXCEPT ![p] = "live"]
      PROVE  /\ life[o] # "raw" => life'[o] # "raw"
             /\ life[o] \notin {"raw", "live"} => life'[o] # "live"
  BY Zenon, <1>0, <1>2
<1>3. ASSUME NEW p \in Obj, AppCall(p)
      PROVE  UNCHANGED life \/ \E x \in {"~TCPAsynch", "~Socket", "dead"} :
                                 life' = [life EXCEPT ![p] = x]
  BY Zenon, <1>3 DEF AppCall, AsynchOpen, DatagramOpen, Open, BindAddress, Close,
       ConnectDatagram, StopListening, SetOn, Resolve, Connect, StartListening,
       SetOnDisconnect, BeginAssign, DeleteStream, DeleteListener, DeleteDatagram,
       SocketDtor, objVars
<1>4. ASSUME NEW p \in Obj, Construct(p)
      PROVE  life[p] = "raw" /\ life' = [life EXCEPT ![p] = "live"]
  BY Zenon, <1>4 DEF Construct, NewStream, NewListener, NewDatagram, SocketCtor
<1>5. ASSUME NEW p \in Obj, AsynchDtor(p)
      PROVE  life' = [life EXCEPT ![p] = "~Socket"]
  BY Zenon, <1>5 DEF AsynchDtor
<1>6. ASSUME NEW l \in Listeners, NEW i \in Impl, Answer(l, i)
      PROVE  UNCHANGED life \/ \E s \in Streams :
               /\ life[s] = "raw"
               /\ \/ life' = [life EXCEPT ![s] = "live"]
                  \/ life' = [life EXCEPT ![s] = "~TCPAsynch"]
  BY Zenon, <1>6 DEF Answer, Accept, AcceptDeprecated, StreamAround, SocketCtor, Reject, objVars
<1>7. Continue \/ (\E c \in DOMAIN posted : RunCallback(c)) \/ (\E i \in Impl : StackEvent(i))
        => UNCHANGED life
  BY Zenon DEF Continue, EndAssign, ResolveApi, ConnectApi, StartListeningApi, StackAnswers,
         RunCallback, StackEvent, RaiseError, RaiseData, RaiseDNS, RaiseConnect,
         RaiseDisconnect, RaiseAccept, Raise, objVars
<1>8. CASE UNCHANGED life BY Zenon, <1>8
<1>9. CASE ~UNCHANGED life
  <2>1. CASE \E p \in Obj : AppCall(p) \/ AsynchDtor(p) BY Zenon, <1>1, <1>3, <1>5, <1>9, <2>1
  <2>2. CASE \E p \in Obj : Construct(p) BY Zenon, <1>2, <1>4, <2>2
  <2>3. CASE \E l \in Listeners, i \in Impl : Answer(l, i) BY Zenon, <1>0, <1>1, <1>2, <1>6, <1>9, <2>3
  <2> QED BY Zenon, <1>7, <1>9, <2>1, <2>2, <2>3 DEF Next, vars, socketVars, objVars
<1> QED BY Zenon, <1>8, <1>9

(* If the application does not reopen a socket, every callback is of a     *)
(* kind its object's class handles, through construction and destruction.  *)
THEOREM CallbacksFit ==
  ASSUME "reopen" \notin AppMay
  PROVE  Spec => []RoutedByClass
<1>1. Init => RoutedByClass /\ PostedBuilt
  BY Zenon DEF Init, SocketInit, RoutedByClass, PostedBuilt
<1>2. ASSUME BaseInv, OwnershipInv, RoutedByClass, PostedBuilt, [Next]_vars
      PROVE  RoutedByClass' /\ PostedBuilt'
  <2> SUFFICES ASSUME NEW c \in DOMAIN posted'
               PROVE  /\ c.slot \in {"onConnect", "onDisconnect"} => c.obj \in Streams
                      /\ c.slot = "onIncoming" => c.obj \in Listeners
                      /\ c.slot \in {"onReadable", "onSent"} /\ c.obj \in Listeners =>
                           life'[c.obj] # "live"
                      /\ life'[c.obj] # "raw"
    BY Zenon DEF RoutedByClass, PostedBuilt
  <2>1. CASE NewPost(c)
    <3>1. NULL \notin Obj BY Zenon, ConstantsAssumption
    <3>2. EventPoster(c.obj, c.slot) => life[c.obj] # "raw"
      BY <1>2, <2>1, <3>1, PostStep DEF EventPoster, OwnershipInv, HandlersAlive, Exists
    <3> QED BY Zenon, <1>2, <2>1, <3>2, PostStep DEF EventPoster, ErrorPoster, Routed
  <2>2. CASE ~NewPost(c)
    <3>1. c \in DOMAIN posted /\ c.obj \in Obj
      BY Zenon, <1>2, <2>2 DEF NewPost, BaseInv, SocketTypeOK, Callback
    <3> QED BY Zenon, <1>2, <3>1, LifeStep DEF RoutedByClass, PostedBuilt
  <2> QED BY Zenon, <2>1, <2>2
<1>3. BaseInv /\ OwnershipInv /\ (RoutedByClass /\ PostedBuilt) /\ [Next]_vars
        => (RoutedByClass /\ PostedBuilt)'
  BY Zenon, <1>2
<1> QED BY <1>1, <1>3, BaseInvariant, OwnershipInvariant, PTL DEF Spec

-----------------------------------------------------------------------------
(* What an answer finds.                                                   *)

\* The types of what HandlerInv relates.
RequestTypes ==
  /\ impl \in [Obj -> Impl \cup {NULL}]
  /\ on \in [Obj -> [Slot -> Handler]]
  /\ istate \in [Impl -> ImplState]
  /\ asked \in [Impl -> SUBSET (Slot \X Fn)]
  /\ NULL \notin Impl

(* The base invariant gives these types.                                   *)
LEMMA RequestTyped == ASSUME BaseInv PROVE RequestTypes
BY Zenon, ConstantsAssumption DEF BaseInv, SocketTypeOK, RequestTypes

(* An implementation has one owner.                                        *)
LEMMA OneOwner ==
  ASSUME OwnershipInv, NEW o \in Obj, NEW p \in Obj, impl[o] # NULL, impl[p] = impl[o]
  PROVE  p = o
BY Zenon DEF OwnershipInv, Ownership

-----------------------------------------------------------------------------
(* One lemma per kind of step.                                             *)

\* The main context is in no request after the step.
NoRequest == call'.op \in {"idle", "delete"}

(* A step that touches neither requests nor handlers.                      *)
LEMMA QuietHandlers ==
  ASSUME HandlerInv, UNCHANGED <<impl, on, istate, asked>>, UNCHANGED call \/ NoRequest
  PROVE  HandlerInv'
<1>1. AnswersReady' /\ Unasked' /\ NeverTorn'
  BY Zenon DEF HandlerInv, AnswersReady, AnswerReady, Unasked, Unclaimed, NeverTorn
<1>2. CallReady' BY Zenon DEF HandlerInv, CallReady, NoRequest
<1> QED BY Zenon, <1>1, <1>2 DEF HandlerInv

(* The stack moves an owned implementation to a state in which it neither  *)
(* connects nor listens: bind, close, connect of a datagram socket,        *)
(* stop_listening, a disconnect.                                           *)
LEMMA StateHandlers ==
  ASSUME BaseInv, OwnershipInv, HandlerInv, NEW o \in Obj, impl[o] # NULL,
         NEW x \in {"bound", "closed", "connected", "down"},
         x = "closed" \/ istate[impl[o]] \notin {"connecting", "closed"},
         istate' = [istate EXCEPT ![impl[o]] = x],
         UNCHANGED <<impl, on, asked>>, UNCHANGED call \/ NoRequest
  PROVE  HandlerInv'
<1>0. RequestTypes BY Zenon, RequestTyped
<1>1. PICK i \in Impl : i = impl[o] BY Zenon, <1>0 DEF RequestTypes
<1>2. istate'[i] = x /\ \A j \in Impl : j # i => istate'[j] = istate[j]
  BY Zenon, <1>0, <1>1 DEF RequestTypes
<1>3. AnswersReady'
  <2> SUFFICES ASSUME NEW p \in Obj, impl[p] # NULL PROVE AnswerReady(p)'
    BY Zenon DEF AnswersReady
  <2>1. AnswerReady(p) /\ impl[p] \in Impl BY Zenon, <1>0 DEF HandlerInv, AnswersReady, RequestTypes
  <2>2. CASE impl[p] = i BY Zenon, <1>1, <1>2, <2>1, <2>2, OneOwner DEF AnswerReady
  <2>3. CASE impl[p] # i BY Zenon, <1>2, <2>1, <2>3 DEF AnswerReady
  <2> QED BY Zenon, <2>2, <2>3
<1>4. Unasked' BY Zenon, <1>2 DEF HandlerInv, Unasked, Unclaimed
<1>5. CallReady'
  <2>1. impl[call.obj] = i => istate'[i] \notin {"connecting", "listening"} BY Zenon, <1>2
  <2>2. CASE NoRequest BY Zenon, <2>2 DEF CallReady, NoRequest
  <2>3. CASE UNCHANGED call
    <3>1. call.op \in {"resolve", "connect", "start_listening"} => call.obj \in Obj
      BY Zenon DEF BaseInv, CallOK
    <3> QED BY Zenon, <1>0, <1>2, <2>3, <3>1 DEF HandlerInv, CallReady, RequestTypes
  <2> QED BY Zenon, <2>2, <2>3
<1>6. NeverTorn' BY Zenon DEF HandlerInv, NeverTorn
<1> QED BY Zenon, <1>3, <1>4, <1>5, <1>6 DEF HandlerInv

(* open: the implementation is fresh, nothing has been asked of it.        *)
LEMMA OpenHandlers ==
  ASSUME "reopen" \notin AppMay, BaseInv, OwnershipInv, HandlerInv, NEW o \in Obj, Open(o)
  PROVE  HandlerInv'
<1>0. RequestTypes BY Zenon, RequestTyped
<1>1. PICK i \in Impl :
        /\ istate[i] = "free"
        /\ impl' = [impl EXCEPT ![o] = i]
        /\ istate' = [istate EXCEPT ![i] = "open"]
  BY Zenon DEF Open
<1>2. impl[o] = NULL /\ call = Idle /\ UNCHANGED <<on, call, asked>> BY Zenon DEF Open, Main
<1>3. asked[i] = {} BY Zenon, <1>1 DEF HandlerInv, Unasked
<1>4. AnswersReady'
  <2> SUFFICES ASSUME NEW p \in Obj, impl'[p] # NULL PROVE AnswerReady(p)'
    BY Zenon DEF AnswersReady
  <2>1. CASE p = o
    BY Zenon, <1>0, <1>1, <1>2, <1>3, <2>1 DEF AnswerReady, RequestTypes
  <2>2. CASE p # o
    <3>1. impl'[p] = impl[p] /\ impl[p] \in Impl BY Zenon, <1>0, <1>1, <2>2 DEF RequestTypes
    <3>2. impl[p] # i BY Zenon, <1>1, <3>1 DEF OwnershipInv, Ownership
    <3>3. istate'[impl[p]] = istate[impl[p]] BY Zenon, <1>0, <1>1, <3>1, <3>2 DEF RequestTypes
    <3>4. AnswerReady(p) BY Zenon, <3>1 DEF HandlerInv, AnswersReady
    <3> QED BY Zenon, <1>2, <3>1, <3>3, <3>4 DEF AnswerReady
  <2> QED BY Zenon, <2>1, <2>2
<1>5. Unasked'
  <2> SUFFICES ASSUME NEW j \in Impl, j # i, istate'[j] = "free" \/ Unclaimed(j)'
               PROVE  asked'[j] = {}
    BY Zenon, <1>2, <1>3 DEF Unasked
  <2>1. istate'[j] = istate[j] BY Zenon, <1>0, <1>1 DEF RequestTypes
  <2>2. Unclaimed(j)' => Unclaimed(j)
    BY Zenon, <1>0, <1>1, <1>2, <2>1 DEF Unclaimed, RequestTypes
  <2> QED BY Zenon, <1>2, <2>1, <2>2 DEF HandlerInv, Unasked
<1>6. CallReady' BY Zenon, <1>2 DEF CallReady, Idle
<1>7. NeverTorn' BY Zenon, <1>2 DEF HandlerInv, NeverTorn
<1> QED BY Zenon, <1>4, <1>5, <1>6, <1>7 DEF HandlerInv

(* ~Socket: with the implementation go its requests.                       *)
LEMMA DtorHandlers ==
  ASSUME BaseInv, OwnershipInv, HandlerInv, NEW o \in Obj, SocketDtor(o)
  PROVE  HandlerInv'
<1>0. RequestTypes BY Zenon, RequestTyped
<1>1. impl' = [impl EXCEPT ![o] = NULL] /\ call' = Idle /\ UNCHANGED on BY Zenon DEF SocketDtor
<1>2. CallReady' /\ NeverTorn' BY Zenon, <1>1 DEF HandlerInv, CallReady, NeverTorn, Idle
<1>3. CASE impl[o] = NULL
  <2>1. impl' = impl BY Zenon, <1>0, <1>1, <1>3 DEF RequestTypes
  <2>2. UNCHANGED <<istate, asked>> BY Zenon, <1>3 DEF SocketDtor, NoStackChange, netVars
  <2> QED BY Zenon, <1>1, <2>1, <2>2, QuietHandlers DEF NoRequest, Idle
<1>4. CASE impl[o] # NULL
  <2>1. PICK i \in Impl : i = impl[o] BY Zenon, <1>0, <1>4 DEF RequestTypes
  <2>2. /\ istate' = [istate EXCEPT ![i] = "free"]
        /\ asked' = [asked EXCEPT ![i] = {}]
    BY Zenon, <1>4, <2>1 DEF SocketDtor, OwnershipInv, Ownership
  <2>3. asked'[i] = {} /\ \A j \in Impl : j # i => asked'[j] = asked[j] /\ istate'[j] = istate[j]
    BY Zenon, <1>0, <2>2 DEF RequestTypes
  <2>4. AnswersReady'
    <3> SUFFICES ASSUME NEW p \in Obj, impl'[p] # NULL PROVE AnswerReady(p)'
      BY Zenon DEF AnswersReady
    <3>1. p # o /\ impl'[p] = impl[p] /\ impl[p] \in Impl BY Zenon, <1>0, <1>1 DEF RequestTypes
    <3>2. impl[p] # i BY Zenon, <1>4, <2>1, <3>1, OneOwner
    <3>3. AnswerReady(p) BY Zenon, <3>1 DEF HandlerInv, AnswersReady
    <3> QED BY Zenon, <1>1, <2>3, <3>1, <3>2, <3>3 DEF AnswerReady
  <2>5. Unasked'
    <3> SUFFICES ASSUME NEW j \in Impl, j # i, istate'[j] = "free" \/ Unclaimed(j)'
                 PROVE  asked[j] = {}
      BY Zenon, <2>3 DEF Unasked
    <3>1. Unclaimed(j)' => Unclaimed(j)
      BY Zenon, <1>0, <1>1, <2>1, <2>3 DEF Unclaimed, RequestTypes
    <3> QED BY Zenon, <2>3, <3>1 DEF HandlerInv, Unasked
  <2> QED BY Zenon, <1>2, <2>4, <2>5 DEF HandlerInv
<1> QED BY Zenon, <1>3, <1>4

(* A handler that no answer is looking for changes, in whatever way.       *)
LEMMA AssignHandlers ==
  ASSUME BaseInv, OwnershipInv, HandlerInv, NEW o \in Obj, NEW s \in Slot, NEW f,
         on' = [on EXCEPT ![o][s] = f], UNCHANGED <<impl, istate, asked>>,
         s \in {"onError", "onReadable", "onSent"} => f # TORN,
         impl[o] # NULL =>
           /\ s = "onDNS" => \A r \in asked[impl[o]] : r[1] # "onDNS"
           /\ s = "onConnect" => istate[impl[o]] # "connecting"
           /\ s = "onIncoming" => istate[impl[o]] # "listening"
  PROVE  AnswersReady' /\ Unasked' /\ NeverTorn'
<1>0. RequestTypes BY Zenon, RequestTyped
<1>1. /\ \A p \in Obj : p # o => on'[p] = on[p]
      /\ \A t \in Slot : t # s => on'[o][t] = on[o][t]
      /\ on'[o][s] = f
  BY Zenon, <1>0 DEF RequestTypes
<1>2. AnswersReady'
  <2> SUFFICES ASSUME NEW p \in Obj, impl[p] # NULL PROVE AnswerReady(p)'
    BY Zenon DEF AnswersReady
  <2>1. AnswerReady(p) BY Zenon DEF HandlerInv, AnswersReady
  <2>2. CASE p # o BY Zenon, <1>1, <2>1, <2>2 DEF AnswerReady
  <2>3. CASE p = o BY <1>1, <2>1, <2>3 DEF AnswerReady, Slot, SocketSlot
  <2> QED BY Zenon, <2>2, <2>3
<1>3. Unasked' BY Zenon DEF HandlerInv, Unasked, Unclaimed
<1>4. NeverTorn' BY <1>1 DEF HandlerInv, NeverTorn, Slot, SocketSlot
<1> QED BY Zenon, <1>2, <1>3, <1>4

(* The calls that assign a handler, up to the copy.                        *)
LEMMA BeginHandlers ==
  ASSUME "overlap" \notin AppMay, BaseInv, OwnershipInv, HandlerInv, NEW o \in Obj,
         \/ \E f \in Fn : Resolve(o, f) \/ Connect(o, f) \/ StartListening(o, f)
         \/ \E f \in Fn \cup {NULL} : SetOnDisconnect(o, f)
  PROVE  HandlerInv'
<1>1. PICK opname \in {"resolve", "connect", "start_listening", "setOnDisconnect"}, s \in Slot,
           f \in Fn \cup {NULL} :
        /\ BeginAssign(o, opname, s, f)
        /\ opname = "resolve" => /\ s = "onDNS" /\ impl[o] # NULL
                                 /\ \A r \in asked[impl[o]] : r[1] # "onDNS"
        /\ opname = "connect" =>
             s = "onConnect" /\ (impl[o] # NULL => istate[impl[o]] # "connecting")
        /\ opname = "start_listening" =>
             /\ s = "onIncoming" /\ f \in Fn
             /\ impl[o] # NULL => istate[impl[o]] # "listening"
        /\ opname = "setOnDisconnect" => s = "onDisconnect"
  <2>0. {"onDNS", "onConnect", "onIncoming", "onDisconnect"} \subseteq Slot
    BY Zenon DEF Slot, SocketSlot
  <2>1. CASE \E f \in Fn : Resolve(o, f) BY Zenon, <2>0, <2>1 DEF Resolve
  <2>2. CASE \E f \in Fn : Connect(o, f) BY Zenon, <2>0, <2>2 DEF Connect
  <2>3. CASE \E f \in Fn : StartListening(o, f) BY Zenon, <2>0, <2>3 DEF StartListening
  <2>4. CASE \E f \in Fn \cup {NULL} : SetOnDisconnect(o, f) BY Zenon, <2>0, <2>4 DEF SetOnDisconnect
  <2> QED BY Zenon, <2>1, <2>2, <2>3, <2>4
<1>2. /\ on' = [on EXCEPT ![o][s] = TORN]
      /\ call' = [op |-> opname, obj |-> o, slot |-> s, fn |-> f, pc |-> "copy"]
      /\ UNCHANGED <<impl, istate, asked>>
  BY Zenon, <1>1 DEF BeginAssign, netVars
<1>3. AnswersReady' /\ Unasked' /\ NeverTorn'
  <2>1. s \notin {"onError", "onReadable", "onSent"} BY Zenon, <1>1
  <2>2. s = "onDNS" => \A r \in asked[impl[o]] : r[1] # "onDNS" BY Zenon, <1>1
  <2>3. impl[o] # NULL /\ s = "onConnect" => istate[impl[o]] # "connecting" BY Zenon, <1>1
  <2>4. impl[o] # NULL /\ s = "onIncoming" => istate[impl[o]] # "listening" BY Zenon, <1>1
  <2> QED BY Zenon, <1>2, <2>1, <2>2, <2>3, <2>4, AssignHandlers
<1>4. CallReady' BY Zenon, <1>1, <1>2 DEF CallReady
<1> QED BY Zenon, <1>3, <1>4 DEF HandlerInv

(* setOnError, setOnReadable, setOnSent: one step, nothing torn.           *)
LEMMA SetOnHandlers ==
  ASSUME BaseInv, OwnershipInv, HandlerInv, NEW o \in Obj, NEW s \in Slot,
         NEW f \in Fn \cup {NULL}, SetOn(o, s, f)
  PROVE  HandlerInv'
<1>1. /\ on' = [on EXCEPT ![o][s] = f]
      /\ s \in {"onError", "onReadable", "onSent"}
      /\ call = Idle
      /\ UNCHANGED <<impl, istate, asked, call>>
  BY Zenon DEF SetOn, Main, netVars
<1>2. f # TORN BY Zenon, ConstantsAssumption
<1>3. AnswersReady' /\ Unasked' /\ NeverTorn' BY Zenon, <1>1, <1>2, AssignHandlers
<1>4. CallReady' BY Zenon, <1>1 DEF CallReady, Idle
<1> QED BY Zenon, <1>3, <1>4 DEF HandlerInv

(* The copy ends: the handler is whole, and the stack has yet to be asked. *)
LEMMA EndHandlers ==
  ASSUME BaseInv, OwnershipInv, HandlerInv, EndAssign
  PROVE  HandlerInv'
<1>0. /\ call \in Call
      /\ call.op \in {"resolve", "connect", "start_listening", "setOnDisconnect"}
      /\ call.obj \in Obj /\ call.slot \in Slot
  BY Zenon DEF BaseInv, SocketTypeOK, CallOK, EndAssign, Call
<1>1. PICK o \in Obj, s \in Slot : o = call.obj /\ s = call.slot BY Zenon, <1>0
<1>2. /\ on' = [on EXCEPT ![o][s] = call.fn]
      /\ UNCHANGED <<impl, istate, asked>>
  BY Zenon, <1>1 DEF EndAssign, netVars
<1>3. s \notin {"onError", "onReadable", "onSent"}
  BY Zenon, <1>0, <1>1 DEF HandlerInv, CallReady
<1>4. impl[o] # NULL =>
        /\ s = "onDNS" => \A r \in asked[impl[o]] : r[1] # "onDNS"
        /\ s = "onConnect" => istate[impl[o]] # "connecting"
        /\ s = "onIncoming" => istate[impl[o]] # "listening"
  BY Zenon, <1>0, <1>1 DEF HandlerInv, CallReady
<1>5. AnswersReady' /\ Unasked' /\ NeverTorn' BY Zenon, <1>2, <1>3, <1>4, AssignHandlers
<1>6. CallReady'
  <2>1. CASE call.op = "setOnDisconnect" BY Zenon, <2>1 DEF EndAssign, CallReady, Idle
  <2>2. CASE call.op # "setOnDisconnect"
    <3>1. /\ call'.op = call.op /\ call'.obj = o /\ call'.slot = s /\ call'.fn = call.fn
      BY Zenon, <1>0, <1>1, <2>2 DEF EndAssign, Call
    <3>2. on'[o][s] = call.fn
      BY Zenon, <1>2, RequestTyped DEF RequestTypes
    <3> QED BY Zenon, <1>0, <1>1, <1>2, <3>1, <3>2 DEF HandlerInv, CallReady
  <2> QED BY Zenon, <2>1, <2>2
<1> QED BY Zenon, <1>5, <1>6 DEF HandlerInv

(* The stack is asked: the request carries the handler that is in place.   *)
LEMMA ApiHandlers ==
  ASSUME BaseInv, OwnershipInv, HandlerInv, ResolveApi \/ ConnectApi \/ StartListeningApi
  PROVE  HandlerInv'
<1>0. RequestTypes BY Zenon, RequestTyped
<1>1. /\ call' = Idle /\ UNCHANGED <<impl, on>>
      /\ call.op \in {"resolve", "connect", "start_listening"}
      /\ call.pc = "api"
  BY Zenon DEF ResolveApi, ConnectApi, StartListeningApi, StackAnswers, objVars
<1>2. PICK o \in Obj : o = call.obj BY Zenon, <1>1 DEF BaseInv, CallOK
<1>3. CASE UNCHANGED <<istate, asked>>
  BY Zenon, <1>1, <1>3, QuietHandlers DEF NoRequest, Idle
<1>4. CASE ~UNCHANGED <<istate, asked>>
  <2>1. impl[o] # NULL
    BY Zenon, <1>1, <1>2, <1>4 DEF ResolveApi, ConnectApi, StartListeningApi, StackAnswers,
       NoStackChange, netVars, HandlerInv, CallReady
  <2>2. PICK i \in Impl : i = impl[o] BY Zenon, <1>0, <2>1 DEF RequestTypes
  <2>3. /\ on[o][call.slot] = call.fn
        /\ call.op = "resolve" => call.slot = "onDNS" /\ \A r \in asked[i] : r[1] # "onDNS"
        /\ call.op = "connect" => call.slot = "onConnect"
        /\ call.op = "start_listening" => call.slot = "onIncoming" /\ call.fn \in Fn
    BY Zenon, <1>1, <1>2, <2>2 DEF HandlerInv, CallReady
  <2>4. \/ /\ call.op = "resolve"
           /\ asked' = [asked EXCEPT ![i] = @ \cup {<<call.slot, call.fn>>}]
           /\ UNCHANGED istate
        \/ /\ call.op = "connect" /\ istate[i] \in {"open", "bound"}
           /\ asked' = [asked EXCEPT ![i] = @ \cup {<<call.slot, call.fn>>}]
           /\ istate' = [istate EXCEPT ![i] = "connecting"]
        \/ /\ call.op = "start_listening" /\ istate[i] \in {"open", "bound"}
           /\ istate' = [istate EXCEPT ![i] = "listening"]
           /\ UNCHANGED asked
    BY Zenon, <1>2, <1>4, <2>2 DEF ResolveApi, ConnectApi, StartListeningApi, StackAnswers,
       NoStackChange, netVars, Request
  <2>5. \A j \in Impl : j # i => asked'[j] = asked[j] /\ istate'[j] = istate[j]
    BY Zenon, <1>0, <2>4 DEF RequestTypes
  <2>6. AnswersReady'
    <3> SUFFICES ASSUME NEW p \in Obj, impl[p] # NULL PROVE AnswerReady(p)'
      BY Zenon, <1>1 DEF AnswersReady
    <3>1. AnswerReady(p) /\ impl[p] \in Impl
      BY Zenon, <1>0 DEF HandlerInv, AnswersReady, RequestTypes
    <3>2. CASE p # o
      <4>1. impl[p] # i BY Zenon, <2>1, <2>2, <3>2, OneOwner
      <4> QED BY Zenon, <1>1, <2>5, <3>1, <4>1 DEF AnswerReady
    <3>3. CASE p = o /\ call.op = "resolve"
      <4>1. /\ asked'[i] = asked[i] \cup {<<"onDNS", call.fn>>} /\ istate' = istate
        BY Zenon, <1>0, <2>3, <2>4, <3>3 DEF RequestTypes
      <4> QED BY <1>1, <2>2, <2>3, <3>1, <3>3, <4>1 DEF AnswerReady
    <3>4. CASE p = o /\ call.op = "connect"
      <4>1. /\ asked'[i] = asked[i] \cup {<<"onConnect", call.fn>>}
            /\ istate'[i] = "connecting" /\ istate[i] \in {"open", "bound"}
        BY Zenon, <1>0, <2>3, <2>4, <3>4 DEF RequestTypes
      <4> QED BY <1>1, <2>2, <2>3, <3>1, <3>4, <4>1 DEF AnswerReady
    <3>5. CASE p = o /\ call.op = "start_listening"
      <4>1. /\ asked' = asked /\ istate'[i] = "listening" /\ istate[i] \in {"open", "bound"}
        BY Zenon, <1>0, <2>3, <2>4, <3>5 DEF RequestTypes
      <4> QED BY Zenon, <1>1, <2>2, <2>3, <3>1, <3>5, <4>1 DEF AnswerReady
    <3> QED BY Zenon, <1>1, <3>2, <3>3, <3>4, <3>5
  <2>7. Unasked'
    <3>1. istate'[i] # "free" /\ ~Unclaimed(i)'
      BY Zenon, <1>0, <1>1, <2>1, <2>2, <2>4 DEF RequestTypes, Unclaimed, OwnershipInv, Ownership
    <3> QED BY Zenon, <1>1, <2>5, <3>1 DEF HandlerInv, Unasked, Unclaimed
  <2>8. CallReady' /\ NeverTorn' BY Zenon, <1>1 DEF HandlerInv, CallReady, NeverTorn, Idle
  <2> QED BY Zenon, <2>6, <2>7, <2>8 DEF HandlerInv
<1> QED BY Zenon, <1>3, <1>4

(* accept: the new stream has no handlers, and nothing was asked of the    *)
(* implementation it is built around.                                      *)
LEMMA AcceptHandlers ==
  ASSUME BaseInv, OwnershipInv, HandlerInv, NEW l \in Listeners, NEW i \in Impl,
         NEW s \in Streams, TakeOffer(l, i), Accept(l, i, s) \/ AcceptDeprecated(l, i, s)
  PROVE  HandlerInv'
<1>0. RequestTypes /\ s \in Obj BY Zenon, RequestTyped DEF Obj
<1>1. /\ <<l, i>> \in offered
      /\ impl' = [impl EXCEPT ![s] = i]
      /\ life[s] = "raw"
      /\ call = Idle
      /\ UNCHANGED call \/ NoRequest
      /\ UNCHANGED <<on, asked>>
      /\ UNCHANGED istate \/ istate' = [istate EXCEPT ![i] = "connected"]
  BY Zenon DEF Accept, AcceptDeprecated, TakeOffer, Main, StreamAround, SocketCtor, StackAccepts,
         NoRequest, Idle
<1>2. Unclaimed(i) /\ asked[i] = {}
  <2>1. <<l, i>> \in Offers(i) BY Zenon, <1>1 DEF Offers
  <2>2. Unclaimed(i) BY Zenon, <2>1 DEF OwnershipInv, HandedOverOnce, OnceAtMost
  <2> QED BY Zenon, <2>2 DEF HandlerInv, Unasked
<1>3. /\ istate'[i] \in {"offered", "connected"}
      /\ \A j \in Impl : j # i => istate'[j] = istate[j]
  BY Zenon, <1>0, <1>1, <1>2 DEF RequestTypes, Unclaimed
<1>4. AnswersReady'
  <2> SUFFICES ASSUME NEW p \in Obj, impl'[p] # NULL PROVE AnswerReady(p)'
    BY Zenon DEF AnswersReady
  <2>1. CASE p = s
    BY Zenon, <1>0, <1>1, <1>2, <1>3, <2>1 DEF AnswerReady, RequestTypes
  <2>2. CASE p # s
    <3>1. impl'[p] = impl[p] /\ impl[p] \in Impl /\ impl[p] # i
      BY Zenon, <1>0, <1>1, <1>2, <2>2 DEF RequestTypes, Unclaimed
    <3>2. AnswerReady(p) BY Zenon, <3>1 DEF HandlerInv, AnswersReady
    <3> QED BY Zenon, <1>1, <1>3, <3>1, <3>2 DEF AnswerReady
  <2> QED BY Zenon, <2>1, <2>2
<1>5. Unasked'
  <2> SUFFICES ASSUME NEW j \in Impl, j # i, istate'[j] = "free" \/ Unclaimed(j)'
               PROVE  asked[j] = {}
    BY Zenon, <1>1, <1>2 DEF Unasked
  <2>1. impl[s] = NULL BY Zenon, <1>0, <1>1 DEF OwnershipInv, Ownership, Exists
  <2>2. Unclaimed(j)' => Unclaimed(j)
    BY Zenon, <1>0, <1>1, <1>3, <2>1 DEF Unclaimed, RequestTypes
  <2> QED BY Zenon, <1>3, <2>2 DEF HandlerInv, Unasked
<1>6. CallReady'
  <2>1. call'.op \in {"idle", "delete"} BY <1>1 DEF NoRequest, Idle
  <2> QED BY Zenon, <2>1 DEF CallReady
<1>7. NeverTorn' BY Zenon, <1>1 DEF HandlerInv, NeverTorn
<1> QED BY Zenon, <1>4, <1>5, <1>6, <1>7 DEF HandlerInv

(* The stack's view changes of an implementation that nobody owns and of   *)
(* which nothing was asked: reject, and a new connection.                  *)
LEMMA UnownedHandlers ==
  ASSUME BaseInv, OwnershipInv, HandlerInv, NEW i \in Impl, NEW x,
         istate[i] = "free" \/ Unclaimed(i), istate' = [istate EXCEPT ![i] = x],
         UNCHANGED <<impl, on, asked, call>>
  PROVE  HandlerInv'
<1>0. RequestTypes BY Zenon, RequestTyped
<1>1. asked[i] = {} /\ \A o \in Obj : impl[o] # i
  BY Zenon, <1>0 DEF HandlerInv, Unasked, Unclaimed, OwnershipInv, Ownership, RequestTypes
<1>2. \A j \in Impl : j # i => istate'[j] = istate[j] BY Zenon, <1>0 DEF RequestTypes
<1>3. AnswersReady'
  <2> SUFFICES ASSUME NEW p \in Obj, impl[p] # NULL PROVE AnswerReady(p)'
    BY Zenon DEF AnswersReady
  <2>1. AnswerReady(p) /\ impl[p] \in Impl /\ impl[p] # i
    BY Zenon, <1>0, <1>1 DEF HandlerInv, AnswersReady, RequestTypes
  <2> QED BY Zenon, <1>2, <2>1 DEF AnswerReady
<1>4. Unasked'
  <2> SUFFICES ASSUME NEW j \in Impl, j # i, istate'[j] = "free" \/ Unclaimed(j)'
               PROVE  asked[j] = {}
    BY Zenon, <1>1 DEF Unasked
  <2>1. Unclaimed(j)' => Unclaimed(j) BY Zenon, <1>2 DEF Unclaimed
  <2> QED BY Zenon, <1>2, <2>1 DEF HandlerInv, Unasked
<1>5. CallReady'
  <2>1. call.op \in {"resolve", "connect", "start_listening"} => call.obj \in Obj
    BY Zenon DEF BaseInv, CallOK
  <2>2. call.obj \in Obj /\ impl[call.obj] # NULL =>
          istate'[impl[call.obj]] = istate[impl[call.obj]]
    BY Zenon, <1>0, <1>1, <1>2 DEF RequestTypes
  <2> QED BY Zenon, <2>1, <2>2 DEF HandlerInv, CallReady
<1>6. NeverTorn' BY Zenon DEF HandlerInv, NeverTorn
<1> QED BY Zenon, <1>3, <1>4, <1>5, <1>6 DEF HandlerInv

(* A request is answered: it is no longer outstanding, and a connection    *)
(* that is made has no other request to connect.                           *)
LEMMA AnswerHandlers ==
  ASSUME BaseInv, OwnershipInv, HandlerInv, NEW i \in Impl, RaiseDNS(i) \/ RaiseConnect(i)
  PROVE  HandlerInv'
<1>0. RequestTypes BY Zenon, RequestTyped
<1>1. PICK r \in asked[i] :
        /\ sink[i] # NULL
        /\ asked' = [asked EXCEPT ![i] = @ \ {r}]
        /\ \/ UNCHANGED istate
           \/ /\ r[1] = "onConnect" /\ istate[i] = "connecting"
              /\ istate' = [istate EXCEPT ![i] = "connected"]
        /\ UNCHANGED <<impl, on, call>>
  BY Zenon DEF RaiseDNS, RaiseConnect, Raise, objVars
<1>2. PICK o \in Obj : impl[o] = i
  BY Zenon, <1>1, BaseTypes DEF OwnershipInv, HandlersAlive, Types
<1>3. /\ asked'[i] = asked[i] \ {r}
      /\ \A j \in Impl : j # i => asked'[j] = asked[j] /\ istate'[j] = istate[j]
      /\ istate'[i] = istate[i] \/ (istate'[i] = "connected" /\ istate[i] = "connecting")
  BY Zenon, <1>0, <1>1 DEF RequestTypes
<1>4. AnswersReady'
  <2> SUFFICES ASSUME NEW p \in Obj, impl[p] # NULL PROVE AnswerReady(p)'
    BY Zenon, <1>1 DEF AnswersReady
  <2>1. AnswerReady(p) /\ impl[p] \in Impl
    BY Zenon, <1>0 DEF HandlerInv, AnswersReady, RequestTypes
  <2>2. CASE impl[p] # i BY Zenon, <1>1, <1>3, <2>1, <2>2 DEF AnswerReady
  <2>3. CASE impl[p] = i /\ UNCHANGED istate BY Zenon, <1>1, <1>3, <2>1, <2>3 DEF AnswerReady
  <2>4. CASE impl[p] = i /\ ~UNCHANGED istate
    <3>1. r[1] = "onConnect" /\ istate[i] = "connecting" /\ istate'[i] = "connected"
      BY Zenon, <1>0, <1>1, <2>4 DEF RequestTypes
    <3>2. \A q \in asked[i] : q \in Slot \X Fn BY Zenon, <1>0 DEF RequestTypes
    <3>3. \A q \in asked[i] : q[1] = "onConnect" => q[2] = r[2]
      BY Zenon, <2>1, <2>4, <3>1 DEF AnswerReady
    <3>4. \A q \in asked'[i] : q[1] # "onConnect" BY <1>3, <3>1, <3>2, <3>3
    <3> QED BY Zenon, <1>1, <1>3, <2>1, <2>4, <3>1, <3>4 DEF AnswerReady
  <2> QED BY Zenon, <2>2, <2>3, <2>4
<1>5. Unasked'
  <2>1. ~Unclaimed(i)' /\ istate'[i] # "free"
    BY Zenon, <1>0, <1>1, <1>2, <1>3 DEF Unclaimed, OwnershipInv, Ownership, RequestTypes
  <2> QED BY Zenon, <1>1, <1>3, <2>1 DEF HandlerInv, Unasked, Unclaimed
<1>6. CallReady'
  <2>1. call.op \in {"resolve", "connect", "start_listening"} => call.obj \in Obj
    BY Zenon DEF BaseInv, CallOK
  <2>2. call.obj \in Obj /\ impl[call.obj] # NULL =>
          /\ asked'[impl[call.obj]] \subseteq asked[impl[call.obj]]
          /\ \/ istate'[impl[call.obj]] = istate[impl[call.obj]]
             \/ istate'[impl[call.obj]] = "connected"
    BY Zenon, <1>0, <1>3 DEF RequestTypes
  <2> QED BY Zenon, <1>1, <2>1, <2>2 DEF HandlerInv, CallReady
<1>7. NeverTorn' BY Zenon, <1>1 DEF HandlerInv, NeverTorn
<1> QED BY Zenon, <1>4, <1>5, <1>6, <1>7 DEF HandlerInv

(* The application's calls.                                                *)
LEMMA CallHandlers ==
  ASSUME "reopen" \notin AppMay, "overlap" \notin AppMay, BaseInv, OwnershipInv, HandlerInv,
         NEW o \in Obj, AppCall(o)
  PROVE  HandlerInv'
<1>1. CASE Open(o) BY Zenon, <1>1, OpenHandlers
<1>2. CASE BindAddress(o)
  <2>1. /\ impl[o] # NULL /\ istate[impl[o]] = "open"
        /\ istate' = [istate EXCEPT ![impl[o]] = "bound"]
        /\ UNCHANGED <<impl, on, asked, call>>
    BY Zenon, <1>2 DEF BindAddress, BindAddrErrors, VirtualOpenErrors, AsynchStubErrors,
                DatagramStubErrors, objVars
  <2> QED BY Zenon, <2>1, StateHandlers
<1>3. CASE Close(o)
  <2>1. /\ impl[o] # NULL
        /\ istate' = [istate EXCEPT ![impl[o]] = "closed"]
        /\ UNCHANGED <<impl, on, asked, call>>
    BY Zenon, <1>3 DEF Close, objVars
  <2> QED BY Zenon, <2>1, StateHandlers
<1>4. CASE ConnectDatagram(o)
  <2>1. /\ impl[o] # NULL /\ istate[impl[o]] \in {"open", "bound"}
        /\ istate' = [istate EXCEPT ![impl[o]] = "connected"]
        /\ UNCHANGED <<impl, on, asked, call>>
    BY Zenon, <1>4 DEF ConnectDatagram, objVars
  <2> QED BY Zenon, <2>1, StateHandlers
<1>5. CASE StopListening(o) \/ DeleteListener(o)
  <2>1. /\ UNCHANGED <<impl, on, asked>>
        /\ UNCHANGED call \/ NoRequest
        /\ \/ UNCHANGED istate
           \/ /\ impl[o] # NULL /\ istate[impl[o]] = "listening"
              /\ istate' = [istate EXCEPT ![impl[o]] = "bound"]
    BY Zenon, <1>5 DEF StopListening, DeleteListener, StackStops, NoStackChange, netVars, objVars,
                NoRequest, Idle
  <2> QED BY Zenon, <2>1, StateHandlers, QuietHandlers
<1>6. CASE \E s \in Slot, f \in Fn \cup {NULL} : SetOn(o, s, f) BY Zenon, <1>6, SetOnHandlers
<1>7. CASE \/ \E f \in Fn : Resolve(o, f) \/ Connect(o, f) \/ StartListening(o, f)
           \/ \E f \in Fn \cup {NULL} : SetOnDisconnect(o, f)
  BY Zenon, <1>7, BeginHandlers
<1>8. CASE DeleteStream(o) \/ DeleteDatagram(o)
  BY Zenon, <1>8, QuietHandlers DEF DeleteStream, DeleteDatagram, NoRequest, Idle, netVars
<1>9. CASE SocketDtor(o) BY Zenon, <1>9, DtorHandlers
<1> QED BY Zenon, <1>1, <1>2, <1>3, <1>4, <1>5, <1>6, <1>7, <1>8, <1>9
        DEF AppCall, AsynchOpen, DatagramOpen

(* The stack's events.                                                     *)
LEMMA EventHandlers ==
  ASSUME BaseInv, OwnershipInv, HandlerInv, NEW i \in Impl, StackEvent(i)
  PROVE  HandlerInv'
<1>1. CASE RaiseError(i) \/ RaiseData(i)
  BY Zenon, <1>1, QuietHandlers DEF RaiseError, RaiseData, Raise, objVars
<1>2. CASE RaiseDNS(i) \/ RaiseConnect(i) BY Zenon, <1>2, AnswerHandlers
<1>3. CASE RaiseDisconnect(i)
  <2>1. /\ sink[i] # NULL /\ istate[i] = "connected"
        /\ istate' = [istate EXCEPT ![i] = "down"]
        /\ UNCHANGED <<impl, on, asked, call>>
    BY Zenon, <1>3 DEF RaiseDisconnect, Raise, objVars
  <2>2. PICK o \in Obj : impl[o] = i
    BY Zenon, <2>1, BaseTypes DEF OwnershipInv, HandlersAlive, Types
  <2>3. impl[o] # NULL BY Zenon, <2>2, ConstantsAssumption
  <2> QED BY Zenon, <2>1, <2>2, <2>3, StateHandlers
<1>4. CASE RaiseAccept(i)
  BY Zenon, <1>4, UnownedHandlers DEF RaiseAccept, Raise, objVars
<1> QED BY Zenon, <1>1, <1>2, <1>3, <1>4 DEF StackEvent

(* Every step keeps the handlers ready.                                    *)
LEMMA HandlerNext ==
  ASSUME "reopen" \notin AppMay, "overlap" \notin AppMay, BaseInv, OwnershipInv, HandlerInv,
         [Next]_vars
  PROVE  HandlerInv'
<1>1. CASE UNCHANGED vars
  BY Zenon, <1>1, QuietHandlers DEF vars, socketVars, objVars, netVars
<1>2. ASSUME NEW o \in Obj, Construct(o) PROVE HandlerInv'
  <2>1. /\ life[o] = "raw"
        /\ impl' = [impl EXCEPT ![o] = NULL]
        /\ UNCHANGED <<on, istate, asked, call>>
    BY Zenon, <1>2 DEF Construct, NewStream, NewListener, NewDatagram, SocketCtor, netVars
  <2>2. impl' = impl
    BY Zenon, <2>1, BaseTypes DEF Types, OwnershipInv, Ownership, Exists
  <2> QED BY Zenon, <2>1, <2>2, QuietHandlers
<1>3. ASSUME NEW o \in Obj, AsynchDtor(o) PROVE HandlerInv'
  BY Zenon, <1>3, QuietHandlers DEF AsynchDtor, netVars
<1>4. CASE Continue BY Zenon, <1>4, EndHandlers, ApiHandlers DEF Continue
<1>5. ASSUME NEW l \in Listeners, NEW i \in Impl, Answer(l, i) PROVE HandlerInv'
  <2>1. CASE Reject(l, i)
    <3>1. /\ <<l, i>> \in offered /\ UNCHANGED <<impl, on, asked, call>>
          /\ UNCHANGED istate \/ istate' = [istate EXCEPT ![i] = "closed"]
      BY Zenon, <1>5, <2>1 DEF Answer, Reject, TakeOffer, NoStackChange, objVars, netVars
    <3>2. <<l, i>> \in Offers(i) BY Zenon, <3>1 DEF Offers
    <3>3. Unclaimed(i) BY Zenon, <3>2 DEF OwnershipInv, HandedOverOnce, OnceAtMost
    <3> QED BY Zenon, <3>1, <3>3, UnownedHandlers, QuietHandlers
  <2> QED BY Zenon, <1>5, <2>1, AcceptHandlers DEF Answer
<1>6. ASSUME NEW c \in DOMAIN posted, RunCallback(c) PROVE HandlerInv'
  BY Zenon, <1>6, QuietHandlers DEF RunCallback, objVars, netVars
<1> QED BY Zenon, <1>1, <1>2, <1>3, <1>4, <1>5, <1>6, CallHandlers, EventHandlers DEF Next

-----------------------------------------------------------------------------
(* What is posted, and what is missed.                                     *)

(* The answer to a request finds its handler: it is posted whole, with the *)
(* handler it was asked with.                                              *)
LEMMA AnswerFound ==
  ASSUME BaseInv, OwnershipInv, HandlerInv, NEW i \in Impl, NEW k \in EventKind, NEW arg,
         Raise(i, k, arg),
         k = "DNS" => \E r \in asked[i] : r[1] = "onDNS" /\ r[2] = arg,
         k = "CONNECT" =>
           istate[i] = "connecting" /\ \E r \in asked[i] : r[1] = "onConnect" /\ r[2] = arg,
         k = "ACCEPT" => istate[i] = "listening"
  PROVE  \/ UNCHANGED <<posted, missed>>
         \/ \E o \in Obj, s \in Slot : \E a :
              /\ \/ posted' = Enqueue(posted, Bind(o, s, a)) /\ UNCHANGED missed
                 \/ /\ s \notin {"onDNS", "onConnect", "onIncoming"}
                    /\ missed' = [missed EXCEPT ![o] = @ \cup {s}]
                    /\ UNCHANGED posted
              /\ on[o][s] = TORN => s = "onDisconnect"
              /\ s \in {"onDNS", "onConnect"} => on[o][s] = a
<1>0. RequestTypes /\ Types BY Zenon, RequestTyped, BaseTypes
<1>1. PICK o \in Obj : o = sink[i] BY Zenon, <1>0 DEF Raise, Types
<1>2. impl[o] = i /\ impl[o] # NULL
  BY Zenon, <1>0, <1>1 DEF Raise, OwnershipInv, HandlersAlive, RequestTypes
<1>3. AnswerReady(o) BY Zenon, <1>2 DEF HandlerInv, AnswersReady
<1>4. EventHandler(o, k, arg) BY Zenon, <1>1 DEF Raise
<1>5. CASE UNCHANGED <<posted, missed>> BY Zenon, <1>5
<1>6. ASSUME NEW s \in Slot, NEW a, Handle(o, s, a), s # NoSlot, Routed(o, k, s),
             s \in {"onDNS", "onConnect", "onIncoming"} => a = arg
      PROVE  /\ \/ posted' = Enqueue(posted, Bind(o, s, a)) /\ UNCHANGED missed
                \/ /\ s \notin {"onDNS", "onConnect", "onIncoming"}
                   /\ missed' = [missed EXCEPT ![o] = @ \cup {s}]
                   /\ UNCHANGED posted
             /\ on[o][s] = TORN => s = "onDisconnect"
             /\ s \in {"onDNS", "onConnect"} => on[o][s] = a
  <2>1. \A r \in asked[i] : r[2] \in Fn BY <1>0 DEF RequestTypes
  <2>2. s \in {"onDNS", "onConnect"} => on[o][s] \in Fn /\ on[o][s] = a
    BY Zenon, <1>2, <1>3, <1>6, <2>1 DEF AnswerReady, Routed
  <2>3. s = "onIncoming" => on[o][s] \in Fn
    BY Zenon, <1>2, <1>3, <1>6 DEF AnswerReady, Routed
  <2>4. s \in {"onDNS", "onConnect", "onIncoming"} => on[o][s] \notin {NULL, TORN}
    BY Zenon, <2>2, <2>3, ConstantsAssumption
  <2>5. on[o][s] = TORN => s = "onDisconnect"
    BY Zenon, <2>4 DEF HandlerInv, NeverTorn, Slot, SocketSlot
  <2> QED BY Zenon, <1>6, <2>2, <2>4, <2>5 DEF Handle
<1>7. CASE ~UNCHANGED <<posted, missed>>
  <2>1. PICK s, a :
          /\ s \in Slot /\ Handle(o, s, a) /\ s # NoSlot /\ Routed(o, k, s)
          /\ s \in {"onDNS", "onConnect", "onIncoming"} => a = arg
    BY Zenon, <1>4, <1>7, EventRoutes
  <2> QED BY Zenon, <1>6, <2>1
<1> QED BY Zenon, <1>5, <1>7

\* RequestsAnswered and TornOnlyDisconnect of one callback.
Answered(c) ==
  /\ c.slot \in {"onDNS", "onConnect"} => c.fn = c.arg
  /\ c.fn = TORN => c.slot = "onDisconnect"

(* A step posts only callbacks that answer what was asked, and misses no   *)
(* answer.                                                                 *)
LEMMA AnsweredNext ==
  ASSUME BaseInv, OwnershipInv, HandlerInv, RequestsAnswered, TornOnlyDisconnect, [Next]_vars
  PROVE  RequestsAnswered' /\ TornOnlyDisconnect'
<1>0. missed \in [Obj -> SUBSET Slot] BY Zenon DEF BaseInv, SocketTypeOK
<1>1. \A c \in DOMAIN posted : Answered(c)
  BY Zenon DEF RequestsAnswered, TornOnlyDisconnect, Answered
<1>2. ASSUME NEW i \in Impl, StackEvent(i)
      PROVE  /\ \A c \in DOMAIN posted' : Answered(c)
             /\ \A o \in Obj : missed'[o] \cap {"onDNS", "onConnect", "onIncoming"} = {}
  <2>2. CASE UNCHANGED <<posted, missed>> BY Zenon, <1>1, <2>2 DEF RequestsAnswered
  <2>3. ASSUME NEW o \in Obj, NEW s \in Slot, NEW a, on[o][s] = TORN => s = "onDisconnect",
               s \in {"onDNS", "onConnect"} => on[o][s] = a,
               posted' = Enqueue(posted, Bind(o, s, a)), UNCHANGED missed
        PROVE  /\ \A c \in DOMAIN posted' : Answered(c)
               /\ \A p \in Obj : missed'[p] \cap {"onDNS", "onConnect", "onIncoming"} = {}
    <3>1. DOMAIN posted' = DOMAIN posted \cup {Bind(o, s, a)} BY Zenon, <2>3, EnqueueDomain
    <3>2. Answered(Bind(o, s, a)) BY Zenon, <2>3 DEF Answered, Bind
    <3> QED BY Zenon, <1>1, <2>3, <3>1, <3>2 DEF RequestsAnswered
  <2>4. ASSUME NEW o \in Obj, NEW s \in Slot, s \notin {"onDNS", "onConnect", "onIncoming"},
               missed' = [missed EXCEPT ![o] = @ \cup {s}], UNCHANGED posted
        PROVE  /\ \A c \in DOMAIN posted' : Answered(c)
               /\ \A p \in Obj : missed'[p] \cap {"onDNS", "onConnect", "onIncoming"} = {}
    BY Zenon, <1>0, <1>1, <2>4 DEF RequestsAnswered
  <2>5. ASSUME NEW k \in EventKind, NEW arg, Raise(i, k, arg),
               k = "DNS" => \E r \in asked[i] : r[1] = "onDNS" /\ r[2] = arg,
               k = "CONNECT" =>
                 istate[i] = "connecting" /\ \E r \in asked[i] : r[1] = "onConnect" /\ r[2] = arg,
               k = "ACCEPT" => istate[i] = "listening"
        PROVE  /\ \A c \in DOMAIN posted' : Answered(c)
               /\ \A p \in Obj : missed'[p] \cap {"onDNS", "onConnect", "onIncoming"} = {}
    BY Zenon, <2>2, <2>3, <2>4, <2>5, AnswerFound
  <2>6. CASE RaiseError(i)
    <3>1. PICK k \in ErrorEvents : Raise(i, k, "stack error") BY Zenon, <2>6 DEF RaiseError
    <3> QED BY Zenon, <2>5, <3>1 DEF EventKind, ErrorEvents
  <2>7. CASE RaiseData(i)
    <3>1. PICK k \in {"RX_DONE", "TX_DONE"} : Raise(i, k, NULL) BY Zenon, <2>7 DEF RaiseData
    <3> QED BY Zenon, <2>5, <3>1 DEF EventKind
  <2>8. CASE RaiseDNS(i)
    <3>1. PICK r \in asked[i] : r[1] = "onDNS" /\ Raise(i, "DNS", r[2]) BY Zenon, <2>8 DEF RaiseDNS
    <3> QED BY Zenon, <2>5, <3>1 DEF EventKind
  <2>9. CASE RaiseConnect(i)
    <3>1. PICK r \in asked[i] :
            r[1] = "onConnect" /\ istate[i] = "connecting" /\ Raise(i, "CONNECT", r[2])
      BY Zenon, <2>9 DEF RaiseConnect
    <3>2. "CONNECT" \in EventKind BY Zenon DEF EventKind
    <3>3. \E q \in asked[i] : q[1] = "onConnect" /\ q[2] = r[2] BY Zenon, <3>1
    <3>4. "CONNECT" # "DNS" /\ "CONNECT" # "ACCEPT" BY Zenon
    <3> QED BY <2>5, <3>1, <3>2, <3>3, <3>4, Zenon
  <2>10. CASE RaiseDisconnect(i)
    <3>1. Raise(i, "DISCONNECT", NULL) BY Zenon, <2>10 DEF RaiseDisconnect
    <3> QED BY Zenon, <2>5, <3>1 DEF EventKind
  <2>11. CASE RaiseAccept(i)
    <3>1. PICK j : istate[i] = "listening" /\ Raise(i, "ACCEPT", j) BY Zenon, <2>11 DEF RaiseAccept
    <3> QED BY Zenon, <2>5, <3>1 DEF EventKind
  <2> QED BY Zenon, <1>2, <2>6, <2>7, <2>8, <2>9, <2>10, <2>11 DEF StackEvent
<1>3. CASE ~\E i \in Impl : StackEvent(i)
  <2>1. UNCHANGED missed
    <3>1. ASSUME NEW o \in Obj, Construct(o) \/ AsynchDtor(o) PROVE UNCHANGED missed
      BY Zenon, <3>1 DEF Construct, NewStream, NewListener, NewDatagram, AsynchDtor
    <3>2. ASSUME NEW o \in Obj, AppCall(o) PROVE UNCHANGED missed
      <4>1. CASE AsynchOpen(o) \/ DatagramOpen(o) \/ BindAddress(o) \/ Close(o)
                 \/ ConnectDatagram(o) \/ StopListening(o)
        BY Zenon, <4>1 DEF AsynchOpen, DatagramOpen, Open, BindAddress, Close, ConnectDatagram,
                    StopListening
      <4>2. CASE \/ \E s \in Slot, f \in Fn \cup {NULL} : SetOn(o, s, f)
                 \/ \E f \in Fn : Resolve(o, f) \/ Connect(o, f) \/ StartListening(o, f)
                 \/ \E f \in Fn \cup {NULL} : SetOnDisconnect(o, f)
        BY Zenon, <4>2 DEF SetOn, Resolve, Connect, StartListening, SetOnDisconnect, BeginAssign
      <4>3. CASE DeleteStream(o) \/ DeleteListener(o) \/ DeleteDatagram(o) \/ SocketDtor(o)
        BY Zenon, <4>3 DEF DeleteStream, DeleteListener, DeleteDatagram, SocketDtor
      <4> QED BY Zenon, <3>2, <4>1, <4>2, <4>3 DEF AppCall
    <3>3. CASE Continue
      BY Zenon, <3>3 DEF Continue, EndAssign, ResolveApi, ConnectApi, StartListeningApi, StackAnswers
    <3>4. ASSUME NEW l \in Listeners, NEW i \in Impl, Answer(l, i) PROVE UNCHANGED missed
      BY Zenon, <3>4 DEF Answer, Accept, AcceptDeprecated, StreamAround, Reject
    <3>5. ASSUME NEW c \in DOMAIN posted, RunCallback(c) PROVE UNCHANGED missed
      BY Zenon, <3>5 DEF RunCallback
    <3>6. CASE UNCHANGED vars BY Zenon, <3>6 DEF vars, socketVars
    <3> QED BY Zenon, <1>3, <3>1, <3>2, <3>3, <3>4, <3>5, <3>6 DEF Next
  <2>2. \A c \in DOMAIN posted' : Answered(c)
    <3> SUFFICES ASSUME NEW c \in DOMAIN posted', NewPost(c) PROVE Answered(c)
      BY Zenon, <1>1 DEF NewPost
    <3>1. ErrorPoster(c.obj, c.slot) /\ c.obj \in Obj /\ c.fn = on[c.obj][c.slot]
      BY Zenon, <1>3, PostStep DEF EventPoster
    <3> QED BY Zenon, <3>1 DEF ErrorPoster, Answered, HandlerInv, NeverTorn
  <2>3. \A o \in Obj : missed'[o] \cap {"onDNS", "onConnect", "onIncoming"} = {}
    BY Zenon, <2>1 DEF RequestsAnswered
  <2> QED BY Zenon, <2>2, <2>3 DEF RequestsAnswered, TornOnlyDisconnect, Answered
<1> QED BY Zenon, <1>2, <1>3 DEF RequestsAnswered, TornOnlyDisconnect, Answered

(* The inductive invariant, for an application that neither reopens nor    *)
(* overlaps its requests.                                                  *)
LEMMA HandlerInvariant ==
  ASSUME "reopen" \notin AppMay, "overlap" \notin AppMay
  PROVE  Spec => [](BaseInv /\ OwnershipInv /\ HandlerInv)
<1>1. Init => HandlerInv
  <2> SUFFICES ASSUME Init PROVE HandlerInv
    BY Zenon
  <2> USE DEF Init, SocketInit
  <2>1. AnswersReady /\ Unasked BY Zenon DEF AnswersReady, Unasked
  <2>2. CallReady BY Zenon DEF CallReady, Idle
  <2>3. NeverTorn BY Zenon, ConstantsAssumption DEF NeverTorn, Slot, SocketSlot
  <2> QED BY Zenon, <2>1, <2>2, <2>3 DEF HandlerInv
<1>2. BaseInv /\ OwnershipInv /\ HandlerInv /\ [Next]_vars => HandlerInv'
  BY Zenon, HandlerNext
<1> QED BY <1>1, <1>2, BaseInvariant, OwnershipInvariant, PTL DEF Spec

(* RequestsAnswered and TornOnlyDisconnect hold together.                  *)
LEMMA AnsweredAlways ==
  ASSUME "reopen" \notin AppMay, "overlap" \notin AppMay
  PROVE  Spec => [](RequestsAnswered /\ TornOnlyDisconnect)
<1>1. Init => RequestsAnswered /\ TornOnlyDisconnect
  BY Zenon DEF Init, SocketInit, RequestsAnswered, TornOnlyDisconnect
<1>2. (BaseInv /\ OwnershipInv /\ HandlerInv) /\ (RequestsAnswered /\ TornOnlyDisconnect)
        /\ [Next]_vars => (RequestsAnswered /\ TornOnlyDisconnect)'
  BY Zenon, AnsweredNext
<1> QED BY <1>1, <1>2, HandlerInvariant, PTL DEF Spec

(* resolve, connect, start_listening: an answer of the stack always finds  *)
(* the handler the request was made with, and a connection finds           *)
(* onIncoming set, if the application neither reopens nor overlaps.        *)
THEOREM RequestsFindHandlers ==
  ASSUME "reopen" \notin AppMay, "overlap" \notin AppMay
  PROVE  Spec => []RequestsAnswered
BY AnsweredAlways, PTL

(* Of all the handlers only onDisconnect, assigned with interrupts         *)
(* enabled, can be posted half copied, if the application neither reopens  *)
(* nor overlaps.                                                           *)
THEOREM OnlyDisconnectTorn ==
  ASSUME "reopen" \notin AppMay, "overlap" \notin AppMay
  PROVE  Spec => []TornOnlyDisconnect
BY AnsweredAlways, PTL
=============================================================================
