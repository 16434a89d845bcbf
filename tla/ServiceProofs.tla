--------------------------- MODULE ServiceProofs ----------------------------
(***************************************************************************)
(* The promises of the layer as a whole, for any number of objects, stacks *)
(* and implementations: the counter and the periodic task of TCPAsynch are *)
(* a TickService, and implementations get from the stack to an object and  *)
(* back as Handover says.                                                  *)
(***************************************************************************)
EXTENDS SocketsProofs, FiniteSetTheorems

-----------------------------------------------------------------------------
(* The static part of TCPAsynch.                                           *)

(* What a step does to the TCP sockets that count, the counter, the handle *)
(* and the task: nothing, or one constructor, or one ~TCPAsynch.           *)
TickQuiet == Counted' = Counted /\ UNCHANGED asynchVars

TickJoin(o, st) ==
  /\ o \in TCP \ Counted
  /\ Counted' = Counted \cup {o}
  /\ st \in Stack
  /\ AsynchCtor(st)

TickLeave(o) ==
  /\ o \in Counted
  /\ Counted' = Counted \ {o}
  /\ tcpSockets' = tcpSockets - 1
  /\ IF tcpSockets' = 0 /\ tick # NULL
     THEN tick' = NULL /\ timers' = timers - 1
     ELSE UNCHANGED <<tick, timers>>

(* Every step of the layer is quiet, a join or a leave: whatever the       *)
(* application, the stack and the scheduler do, only constructors and      *)
(* ~TCPAsynch touch the static members.                                    *)
LEMMA TickStep ==
  ASSUME BaseInv, [Next]_vars
  PROVE  \/ TickQuiet
         \/ \E o \in TCP, st \in Stack : TickJoin(o, st)
         \/ \E o \in TCP : TickLeave(o)
<1> USE DEF Obj, TCP
<1>1. life \in [Obj -> Life] BY Zenon DEF BaseInv, SocketTypeOK
<1>2. CASE UNCHANGED vars
  BY Zenon, <1>2 DEF vars, socketVars, objVars, asynchVars, TickQuiet, Counted
<1>3. ASSUME NEW o \in Obj, Construct(o)
      PROVE  TickQuiet \/ \E st \in Stack : o \in TCP /\ TickJoin(o, st)
  <2>1. PICK st \in Stack : NewStream(o, st) \/ NewListener(o, st)
                              \/ (NewDatagram(o, st) /\ UNCHANGED asynchVars)
    BY Zenon, <1>3 DEF Construct
  <2>2. CASE NewDatagram(o, st) /\ UNCHANGED asynchVars
    BY Zenon, <1>1, <2>2, ConstantsAssumption DEF NewDatagram, TickQuiet, Counted
  <2>3. CASE NewStream(o, st) \/ NewListener(o, st)
    BY Zenon, <1>1, <2>3 DEF NewStream, NewListener, SocketCtor, TickJoin, Counted
  <2> QED BY Zenon, <2>1, <2>2, <2>3
<1>4. ASSUME NEW o \in Obj, AppCall(o)
      PROVE  TickQuiet
  <2>1. UNCHANGED asynchVars BY Zenon, <1>4 DEF AppCall
  <2>2. Counted' = Counted
    <3>1. CASE UNCHANGED life BY Zenon, <3>1 DEF Counted
    <3>2. CASE DeleteStream(o) \/ DeleteListener(o)
      BY Zenon, <1>1, <3>2 DEF DeleteStream, DeleteListener, Main, Counted
    <3>3. CASE DeleteDatagram(o)
      BY Zenon, <1>1, <3>3, ConstantsAssumption DEF DeleteDatagram, Counted
    <3>4. CASE SocketDtor(o)
      BY Zenon, <1>1, <3>4 DEF SocketDtor, Counted
    <3>5. UNCHANGED life \/ DeleteStream(o) \/ DeleteListener(o)
            \/ DeleteDatagram(o) \/ SocketDtor(o)
      BY Zenon, <1>4 DEF AppCall, AsynchOpen, DatagramOpen, Open, BindAddress, Close, ConnectDatagram,
         StopListening,
                  SetOn, Resolve, Connect, StartListening, SetOnDisconnect,
                  BeginAssign, objVars
    <3> QED BY Zenon, <3>1, <3>2, <3>3, <3>4, <3>5
  <2> QED BY Zenon, <2>1, <2>2 DEF TickQuiet
<1>5. ASSUME NEW o \in Obj, AsynchDtor(o)
      PROVE  o \in TCP /\ TickLeave(o)
  BY Zenon, <1>1, <1>5 DEF AsynchDtor, BaseInv, LifeOK, TickLeave, Counted
<1>6. CASE Continue
  BY Zenon, <1>6 DEF Continue, EndAssign, ResolveApi, ConnectApi, StartListeningApi,
              StackAnswers, objVars, TickQuiet, Counted
<1>7. ASSUME NEW l \in Listeners, NEW i \in Impl, Answer(l, i)
      PROVE  \/ TickQuiet
             \/ \E o \in TCP, st \in Stack : TickJoin(o, st)
  <2>1. CASE Reject(l, i) /\ UNCHANGED asynchVars
    BY Zenon, <2>1 DEF Reject, objVars, TickQuiet, Counted
  <2>2. ASSUME NEW s \in Streams, Accept(l, i, s) \/ AcceptDeprecated(l, i, s)
        PROVE  stack[l] \in Stack /\ TickJoin(s, stack[l])
    <3>1. stack[l] \in Stack
      BY Zenon, <2>2 DEF Accept, AcceptDeprecated, Main, BaseInv, LifeOK
    <3>2. /\ life[s] = "raw"
          /\ AsynchCtor(stack[l])
          /\ \/ life' = [life EXCEPT ![s] = "live"]
             \/ life' = [life EXCEPT ![s] = "~TCPAsynch"]
      BY Zenon, <2>2 DEF Accept, AcceptDeprecated, StreamAround, SocketCtor
    <3>3. s \in TCP \ Counted /\ Counted' = Counted \cup {s}
      BY Zenon, <1>1, <3>2 DEF Counted
    <3> QED BY Zenon, <3>1, <3>2, <3>3 DEF TickJoin
  <2> QED BY Zenon, <1>7, <2>1, <2>2 DEF Answer
<1>8. ASSUME NEW c \in DOMAIN posted, RunCallback(c)
      PROVE  TickQuiet
  BY Zenon, <1>8 DEF RunCallback, objVars, TickQuiet, Counted
<1>9. ASSUME NEW i \in Impl, StackEvent(i)
      PROVE  TickQuiet
  BY Zenon, <1>9 DEF StackEvent, RaiseError, RaiseData, RaiseDNS, RaiseConnect, RaiseDisconnect,
              RaiseAccept, Raise, objVars, TickQuiet, Counted
<1> QED BY Zenon, <1>2, <1>3, <1>4, <1>5, <1>6, <1>7, <1>8, <1>9 DEF Next

(* A step keeps the counter exact and the handle and the task in step.     *)
LEMMA TickNext ==
  ASSUME BaseInv, TickInv, [Next]_vars
  PROVE  TickInv'
<1> USE DEF TickInv, AsynchTypeOK, TickExact
<1>1. IsFiniteSet(Counted)
  <2>1. Counted \subseteq Obj BY Zenon DEF Counted, TCP, Obj
  <2> QED BY Zenon, <2>1, ConstantsAssumption, FS_Subset
<1>2. NULL \notin Stack BY Zenon, ConstantsAssumption
<1>3. CASE TickQuiet
  BY Zenon, <1>3 DEF TickQuiet, asynchVars
<1>4. ASSUME NEW o \in TCP, NEW st \in Stack, TickJoin(o, st)
      PROVE  TickInv'
  <2>1. Cardinality(Counted') = Cardinality(Counted) + 1
    BY Zenon, <1>1, <1>4, FS_AddElement DEF TickJoin
  <2>2. Cardinality(Counted) = 0 => Counted = {}
    BY Zenon, <1>1, FS_EmptySet
  <2>3. Counted' # {} BY Zenon, <1>4 DEF TickJoin
  <2> QED BY <1>2, <1>4, <2>1, <2>2, <2>3 DEF TickJoin, AsynchCtor
<1>5. ASSUME NEW o \in TCP, TickLeave(o)
      PROVE  TickInv'
  <2>1. /\ IsFiniteSet(Counted')
        /\ Cardinality(Counted') = Cardinality(Counted) - 1
    BY Zenon, <1>1, <1>5, FS_RemoveElement DEF TickLeave
  <2>2. Cardinality(Counted') \in Nat BY Zenon, <2>1, FS_CardinalityType
  <2>3. Cardinality(Counted') = 0 <=> Counted' = {} BY Zenon, <2>1, FS_EmptySet
  <2> QED BY <1>2, <1>5, <2>1, <2>2, <2>3 DEF TickLeave
<1> QED BY Zenon, <1>3, <1>4, <1>5, TickStep

(* The counter starts at 0 with no TCP socket, and no task runs.           *)
LEMMA TickInit == Init => TickInv
<1> SUFFICES ASSUME Init PROVE TickInv
  BY Zenon
<1> USE DEF Init, SocketInit, AsynchInit
<1>1. Counted = {} BY Zenon DEF Counted, TCP, Obj
<1> QED BY Zenon, <1>1, FS_EmptySet DEF TickInv, AsynchTypeOK, TickExact

(* The counter, the handle and the task stay in step in every behaviour.   *)
THEOREM TickInvariant == Spec => []TickInv
<1>1. BaseInv /\ TickInv /\ [Next]_vars => TickInv' BY Zenon, TickNext
<1> QED BY <1>1, TickInit, BaseInvariant, PTL DEF Spec

(* Every variable keeps its type: no handler, implementation or callback   *)
(* is ever of the wrong kind, and the unsigned counter never goes below 0. *)
THEOREM TypeCorrect == Spec => []TypeOK
<1>1. BaseInv /\ TickInv => TypeOK BY Zenon DEF BaseInv, TickInv, TypeOK
<1> QED BY <1>1, BaseInvariant, TickInvariant, PTL

(* The counter of TCPAsynch is the number of TCP sockets, and the handle   *)
(* stands for the one periodic task, for any number of sockets and stacks. *)
THEOREM TickExactAlways == Spec => []TickExact
<1>1. TickInv => TickExact BY Zenon DEF TickInv
<1> QED BY <1>1, TickInvariant, PTL

(* Where every stack has an API table, the counter and the handle of       *)
(* TCPAsynch implement TickService: the periodic task starts with the      *)
(* first TCP socket and ends with the last one.                            *)
THEOREM TickRefinement ==
  ASSUME Known = Stack
  PROVE  Spec => ImplementsTickService
<1>1. Init => Tick!Init /\ TickRunning
  <2> SUFFICES ASSUME Init PROVE Tick!Init /\ TickRunning
    BY Zenon
  <2>1. Counted = {} /\ tick = NULL
    BY Zenon DEF Init, SocketInit, AsynchInit, Counted, TCP, Obj
  <2> QED BY Zenon, <2>1 DEF Tick!Init, TickRunning
<1>2. BaseInv /\ TickInv /\ TickInv' /\ TickRunning /\ [Next]_vars
        => TickRunning' /\ [Tick!Next]_<<Counted, tick # NULL>>
  <2> SUFFICES ASSUME BaseInv, TickInv, TickInv', TickRunning, [Next]_vars
               PROVE  TickRunning' /\ [Tick!Next]_<<Counted, tick # NULL>>
    BY Zenon
  <2>1. NULL \notin Stack BY Zenon, ConstantsAssumption
  <2>2. TickExact /\ TickExact' BY Zenon DEF TickInv
  <2>3. CASE TickQuiet
    BY Zenon, <2>3 DEF TickQuiet, asynchVars, TickRunning
  <2>4. IsFiniteSet(Counted)
    <3>1. Counted \subseteq Obj BY Zenon DEF Counted, TCP, Obj
    <3> QED BY Zenon, <3>1, ConstantsAssumption, FS_Subset
  <2>5. tcpSockets = 0 <=> Counted = {} BY Zenon, <2>2, <2>4, FS_EmptySet DEF TickExact
  <2>6. ASSUME NEW o \in TCP, NEW st \in Stack, TickJoin(o, st)
        PROVE  TickRunning' /\ Tick!Next
    <3>1. tick' # NULL
      BY Zenon, <2>1, <2>5, <2>6 DEF TickJoin, AsynchCtor, TickRunning
    <3>2. Tick!Join(o) BY Zenon, <2>6, <3>1 DEF TickJoin, Tick!Join
    <3> QED BY Zenon, <3>1, <3>2 DEF TickRunning, Tick!Next
  <2>7. ASSUME NEW o \in TCP, TickLeave(o)
        PROVE  TickRunning' /\ Tick!Next
    <3>1. IsFiniteSet(Counted') BY Zenon, <2>4, <2>7, FS_RemoveElement DEF TickLeave
    <3>2. tcpSockets' = 0 <=> Counted' = {}
      BY Zenon, <2>2, <3>1, FS_EmptySet DEF TickExact
    <3>3. tick' # NULL <=> Counted' # {}
      BY Zenon, <2>7, <3>2 DEF TickLeave, TickRunning
    <3>4. Tick!Leave(o) BY Zenon, <2>7, <3>3 DEF TickLeave, Tick!Leave
    <3> QED BY Zenon, <3>3, <3>4 DEF TickRunning, Tick!Next
  <2> QED BY Zenon, <2>3, <2>6, <2>7, TickStep
<1> QED BY <1>1, <1>2, BaseInvariant, TickInvariant, PTL
      DEF Spec, Tick!Spec, ImplementsTickService

-----------------------------------------------------------------------------
(* The layer implements Handover: each step moves at most one              *)
(* implementation, and only along one of Handover's ways.                  *)

Places == [i \in Impl |-> Place(i)]

(* Place tells the five cases apart.                                       *)
LEMMA PlaceValue ==
  ASSUME NEW i
  PROVE  /\ Announced(i) # {} => Place(i) = "announced"
         /\ Announced(i) = {} /\ Offers(i) # {} => Place(i) = "offered"
         /\ Announced(i) = {} /\ Offers(i) = {} /\ Owned(i) => Place(i) = "owned"
         /\ Announced(i) = {} /\ Offers(i) = {} /\ ~Owned(i) =>
              Place(i) = IF istate[i] = "free" THEN "free" ELSE "abandoned"
BY Zenon DEF Place, Owned

(* An implementation stays where it is if nothing Place looks at changes.  *)
LEMMA PlaceSame ==
  ASSUME NEW i, Announced(i)' = Announced(i), Offers(i)' = Offers(i), Owned(i)' <=> Owned(i),
         ~Owned(i) => (istate'[i] = "free" <=> istate[i] = "free")
  PROVE  Place(i)' = Place(i)
BY Zenon DEF Place, Owned

(* Where one implementation goes and the others stay, Places says so.      *)
LEMMA OneMoves ==
  ASSUME NEW i \in Impl, NEW b, Place(i)' = b,
         \A j \in Impl : j # i => Place(j)' = Place(j)
  PROVE  Places' = [Places EXCEPT ![i] = b]
BY Zenon DEF Places

(* What the ownership invariant says of places.                            *)
LEMMA PlaceInv ==
  ASSUME BaseInv, OwnershipInv, NEW i \in Impl
  PROVE  /\ Owned(i) \/ istate[i] = "free" => Announced(i) = {} /\ Offers(i) = {}
         /\ istate[i] = "free" => ~Owned(i)
<1>1. NULL \notin Impl BY Zenon, ConstantsAssumption
<1>2. istate[i] = "free" => ~Owned(i)
  BY Zenon, <1>1 DEF OwnershipInv, Ownership, Owned
<1>3. Announced(i) \cup Offers(i) # {} => Unclaimed(i)
  BY Zenon DEF OwnershipInv, HandedOverOnce, OnceAtMost
<1> QED BY Zenon, <1>2, <1>3 DEF Unclaimed, Owned

(* The announcements are the same if the posted onIncoming callbacks are.  *)
LEMMA SameAnnounced == ASSUME SameIncoming, NEW i PROVE Announced(i)' = Announced(i)
BY Zenon DEF SameIncoming, Incoming, Announced

-----------------------------------------------------------------------------
(* One lemma per kind of step.                                             *)

(* A step that moves no implementation is a stutter of Handover.           *)
LEMMA QuietPlaces ==
  ASSUME MovesNothing
  PROVE  Places' = Places
<1> SUFFICES ASSUME NEW i \in Impl PROVE Place(i)' = Place(i)
  BY Zenon DEF Places
<1>1. Announced(i)' = Announced(i) BY Zenon, SameAnnounced DEF MovesNothing
<1>2. Offers(i)' = Offers(i) BY Zenon DEF MovesNothing, Offers
<1>3. Owned(i)' <=> Owned(i) BY Zenon DEF MovesNothing, Owned
<1>4. ~Owned(i) => istate'[i] = istate[i] BY Zenon DEF MovesNothing
<1> QED BY Zenon, <1>1, <1>2, <1>3, <1>4, PlaceSame

(* A constructor, which owns nothing, is a stutter.                        *)
LEMMA ConstructPlaces ==
  ASSUME BaseInv, OwnershipInv, NEW o \in Obj, Construct(o)
  PROVE  Places' = Places
<1>0. Types BY Zenon, BaseTypes
<1>1. /\ life[o] = "raw"
      /\ impl' = [impl EXCEPT ![o] = NULL]
      /\ UNCHANGED <<posted, istate, offered>>
  BY Zenon DEF Construct, NewStream, NewListener, NewDatagram, SocketCtor, netVars
<1>2. impl' = impl
  BY Zenon, <1>0, <1>1 DEF Types, OwnershipInv, Ownership, Exists
<1> QED BY Zenon, <1>1, <1>2 DEF Places, Place, Announced, Offers

(* open is Open.                                                           *)
LEMMA OpenPlaces ==
  ASSUME "reopen" \notin AppMay, BaseInv, OwnershipInv, NEW o \in Obj, Open(o),
         UNCHANGED offered
  PROVE  \E i \in Impl : Hand!Open(i)
<1>0. Types /\ NULL \notin Impl BY Zenon, BaseTypes, ConstantsAssumption
<1>1. PICK i \in Impl :
        /\ istate[i] = "free"
        /\ impl' = [impl EXCEPT ![o] = i]
        /\ istate' = [istate EXCEPT ![i] = "open"]
  BY Zenon DEF Open
<1>2. impl[o] = NULL /\ UNCHANGED posted BY Zenon DEF Open
<1>3. \A j : Announced(j)' = Announced(j) /\ Offers(j)' = Offers(j)
  BY Zenon, <1>2 DEF Announced, Offers
<1>4. Announced(i) = {} /\ Offers(i) = {} /\ ~Owned(i) BY Zenon, <1>1, PlaceInv
<1>5. Place(i) = "free" BY Zenon, <1>1, <1>4, PlaceValue
<1>6. Owned(i)' BY Zenon, <1>0, <1>1 DEF Types, Owned
<1>7. Place(i)' = "owned" BY Zenon, <1>3, <1>4, <1>6 DEF Place, Owned
<1>8. ASSUME NEW j \in Impl, j # i PROVE Place(j)' = Place(j)
  <2>1. Owned(j)' <=> Owned(j) BY Zenon, <1>0, <1>1, <1>2, <1>8 DEF Types, Owned
  <2>2. istate'[j] = istate[j] BY Zenon, <1>0, <1>1, <1>8 DEF Types
  <2> QED BY Zenon, <1>3, <2>1, <2>2, PlaceSame
<1>9. Places' = [Places EXCEPT ![i] = "owned"] BY Zenon, <1>7, <1>8, OneMoves
<1> QED BY Zenon, <1>5, <1>9 DEF Places, Hand!Open, Hand!Move

(* ~Socket is Free, or a stutter for an object that owns nothing.          *)
LEMMA DtorPlaces ==
  ASSUME BaseInv, OwnershipInv, NEW o \in Obj, SocketDtor(o), UNCHANGED offered
  PROVE  Places' = Places \/ \E i \in Impl : Hand!Free(i)
<1>0. Types /\ NULL \notin Impl BY Zenon, BaseTypes, ConstantsAssumption
<1>1. impl' = [impl EXCEPT ![o] = NULL] BY Zenon DEF SocketDtor
<1>2. SameIncoming
  <2>1. CASE UNCHANGED posted BY Zenon, <2>1 DEF SameIncoming, Incoming
  <2>2. CASE ErrorCheck(o, "stack error")
    BY Zenon, <2>2, PostSameIncoming DEF ErrorCheck
  <2> QED BY Zenon, <2>1, <2>2 DEF SocketDtor
<1>3. \A j : Announced(j)' = Announced(j) /\ Offers(j)' = Offers(j)
  BY Zenon, <1>2, SameAnnounced DEF Offers
<1>4. CASE impl[o] = NULL
  <2>1. impl' = impl BY Zenon, <1>0, <1>1, <1>4 DEF Types
  <2>2. UNCHANGED istate BY Zenon, <1>4 DEF SocketDtor, NoStackChange, netVars
  <2>3. \A j \in Impl : Place(j)' = Place(j)
    BY Zenon, <1>3, <2>1, <2>2, PlaceSame DEF Owned
  <2> QED BY Zenon, <2>3 DEF Places
<1>5. CASE impl[o] # NULL
  <2>0. PICK i \in Impl : impl[o] = i BY Zenon, <1>0, <1>5 DEF Types
  <2>1. Owned(i) BY Zenon, <2>0 DEF Owned
  <2>2. HasApi(o) BY Zenon, <1>5 DEF OwnershipInv, Ownership
  <2>3. istate' = [istate EXCEPT ![i] = "free"]
    BY Zenon, <1>5, <2>0, <2>2 DEF SocketDtor
  <2>4. \A p \in Obj : p # o => impl[p] # i
    BY Zenon, <1>5, <2>0 DEF OwnershipInv, Ownership
  <2>5. Announced(i) = {} /\ Offers(i) = {} BY Zenon, <2>1, PlaceInv
  <2>6. Place(i) = "owned" BY Zenon, <2>1, <2>5, PlaceValue
  <2>7. ~Owned(i)' BY Zenon, <1>0, <1>1, <2>1, <2>4 DEF Types, Owned
  <2>8. istate'[i] = "free" BY Zenon, <1>0, <2>3 DEF Types
  <2>9. Place(i)' = "free" BY Zenon, <1>3, <2>5, <2>7, <2>8 DEF Place, Owned
  <2>10. ASSUME NEW j \in Impl, j # i PROVE Place(j)' = Place(j)
    <3>1. Owned(j)' <=> Owned(j) BY Zenon, <1>0, <1>1, <2>0, <2>10 DEF Types, Owned
    <3>2. istate'[j] = istate[j] BY Zenon, <1>0, <2>3, <2>10 DEF Types
    <3> QED BY Zenon, <1>3, <3>1, <3>2, PlaceSame
  <2>11. Places' = [Places EXCEPT ![i] = "free"]
    BY Zenon, <2>9, <2>10, OneMoves
  <2> QED BY Zenon, <2>6, <2>11 DEF Places, Hand!Free, Hand!Move
<1> QED BY Zenon, <1>4, <1>5

(* accept, either way and whatever the stack says, is Accept.              *)
LEMMA AcceptPlaces ==
  ASSUME BaseInv, OwnershipInv, NEW l \in Listeners, NEW i \in Impl, NEW s \in Streams,
         TakeOffer(l, i), Accept(l, i, s) \/ AcceptDeprecated(l, i, s)
  PROVE  Hand!Accept(i)
<1>0. Types /\ NULL \notin Impl /\ s \in Obj BY Zenon, BaseTypes, ConstantsAssumption DEF Obj
<1>1. /\ <<l, i>> \in offered
      /\ offered' = offered \ {<<l, i>>}
      /\ life[s] = "raw"
      /\ impl' = [impl EXCEPT ![s] = i]
      /\ UNCHANGED istate \/ istate' = [istate EXCEPT ![i] = "connected"]
  BY Zenon DEF Accept, AcceptDeprecated, TakeOffer, StreamAround, SocketCtor, StackAccepts
<1>2. SameIncoming
  <2>1. CASE UNCHANGED posted BY Zenon, <2>1 DEF SameIncoming, Incoming
  <2>2. CASE ErrorCheck(s, "stack error")
    BY Zenon, <2>2, PostSameIncoming DEF ErrorCheck
  <2> QED BY Zenon, <2>1, <2>2 DEF Accept, AcceptDeprecated
<1>3. \A j : Announced(j)' = Announced(j) BY Zenon, <1>2, SameAnnounced
<1>4. Announced(i) = {} /\ Offers(i) = {<<l, i>>}
  <2>1. <<l, i>> \in Offers(i) BY Zenon, <1>1 DEF Offers
  <2> QED BY <2>1 DEF OwnershipInv, HandedOverOnce, OnceAtMost
<1>5. Offers(i)' = {} /\ \A j : j # i => Offers(j)' = Offers(j)
  BY Zenon, <1>1, <1>4 DEF Offers
<1>6. Place(i) = "offered" BY Zenon, <1>4, PlaceValue
<1>7. Owned(i)' BY Zenon, <1>0, <1>1 DEF Types, Owned
<1>8. Place(i)' = "owned" BY Zenon, <1>3, <1>4, <1>5, <1>7 DEF Place, Owned
<1>9. ASSUME NEW j \in Impl, j # i PROVE Place(j)' = Place(j)
  <2>1. impl[s] = NULL BY Zenon, <1>0, <1>1 DEF Types, OwnershipInv, Ownership, Exists
  <2>2. Owned(j)' <=> Owned(j) BY Zenon, <1>0, <1>1, <1>9, <2>1 DEF Types, Owned
  <2>3. istate'[j] = istate[j] BY Zenon, <1>0, <1>1, <1>9 DEF Types
  <2> QED BY Zenon, <1>3, <1>5, <1>9, <2>2, <2>3, PlaceSame
<1>10. Places' = [Places EXCEPT ![i] = "owned"] BY Zenon, <1>8, <1>9, OneMoves
<1> QED BY Zenon, <1>6, <1>10 DEF Places, Hand!Accept, Hand!Move

(* reject is Reject.                                                       *)
LEMMA RejectPlaces ==
  ASSUME BaseInv, OwnershipInv, NEW l \in Listeners, NEW i \in Impl,
         TakeOffer(l, i), Reject(l, i)
  PROVE  Hand!Reject(i)
<1>0. Types BY Zenon, BaseTypes
<1>1. /\ <<l, i>> \in offered
      /\ offered' = offered \ {<<l, i>>}
      /\ UNCHANGED <<impl, posted>>
      /\ UNCHANGED istate \/ istate' = [istate EXCEPT ![i] = "closed"]
  BY Zenon DEF Reject, TakeOffer, NoStackChange, objVars, netVars
<1>2. Announced(i) = {} /\ Offers(i) = {<<l, i>>} /\ Unclaimed(i)
  <2>1. <<l, i>> \in Offers(i) BY Zenon, <1>1 DEF Offers
  <2> QED BY <2>1 DEF OwnershipInv, HandedOverOnce, OnceAtMost
<1>3. \A j : Announced(j)' = Announced(j) BY Zenon, <1>1 DEF Announced
<1>4. Offers(i)' = {} /\ \A j : j # i => Offers(j)' = Offers(j)
  BY Zenon, <1>1, <1>2 DEF Offers
<1>5. \A j : Owned(j)' <=> Owned(j) BY Zenon, <1>1 DEF Owned
<1>6. istate'[i] # "free" /\ ~Owned(i) BY Zenon, <1>0, <1>1, <1>2 DEF Types, Unclaimed, Owned
<1>7. Place(i) = "offered" BY Zenon, <1>2, PlaceValue
<1>8. Place(i)' = "abandoned" BY Zenon, <1>2, <1>3, <1>4, <1>5, <1>6 DEF Place, Owned
<1>9. ASSUME NEW j \in Impl, j # i PROVE Place(j)' = Place(j)
  <2>1. istate'[j] = istate[j] BY Zenon, <1>0, <1>1, <1>9 DEF Types
  <2> QED BY Zenon, <1>3, <1>4, <1>5, <1>9, <2>1, PlaceSame
<1>10. Places' = [Places EXCEPT ![i] = "abandoned"] BY Zenon, <1>8, <1>9, OneMoves
<1> QED BY Zenon, <1>7, <1>10 DEF Places, Hand!Reject, Hand!Move

(* Running a callback is Offer if it is onIncoming, else a stutter.        *)
LEMMA RunPlaces ==
  ASSUME BaseInv, OwnershipInv, NEW c \in DOMAIN posted, RunCallback(c)
  PROVE  Places' = Places \/ \E i \in Impl : Hand!Offer(i)
<1>0. Types BY Zenon, BaseTypes
<1>1. /\ posted' = Dequeue(posted, c)
      /\ UNCHANGED <<impl, istate>>
  BY Zenon DEF RunCallback, objVars, netVars
<1>2. CASE c.slot # "onIncoming"
  <2>1. SameIncoming BY Zenon, <1>1, <1>2 DEF Dequeue, SameIncoming, Incoming
  <2>2. UNCHANGED offered BY Zenon, <1>2 DEF RunCallback
  <2>3. ASSUME NEW j \in Impl PROVE Place(j)' = Place(j)
    <3>1. Announced(j)' = Announced(j) BY Zenon, <2>1, SameAnnounced
    <3>2. Offers(j)' = Offers(j) BY Zenon, <2>2 DEF Offers
    <3> QED BY Zenon, <1>1, <3>1, <3>2, PlaceSame DEF Owned
  <2> QED BY Zenon, <2>3 DEF Places
<1>3. CASE c.slot = "onIncoming"
  <2>1. PICK i \in Impl : i = c.arg BY Zenon, <1>0, <1>3 DEF Types, Incoming
  <2>2. c \in Announced(i) /\ offered' = offered \cup {<<c.obj, i>>}
    BY Zenon, <1>3, <2>1 DEF Announced, RunCallback
  <2>3. posted[c] = 1 /\ Announced(i) = {c} BY <2>2 DEF OwnershipInv, HandedOverOnce, OnceAtMost
  <2>4. posted' = [d \in DOMAIN posted \ {c} |-> posted[d]]
    BY Zenon, <1>1, <2>3 DEF Dequeue
  <2>5. /\ \A j : Announced(j)' = Announced(j) \ {c}
        /\ \A j : j # i => Offers(j)' = Offers(j)
        /\ <<c.obj, i>> \in Offers(i)'
    <3>1. \A j : Announced(j)' = Announced(j) \ {c} BY Zenon, <2>4 DEF Announced
    <3>2. \A j : j # i => Offers(j)' = Offers(j) BY <2>2 DEF Offers
    <3>3. <<c.obj, i>> \in Offers(i)' BY Zenon, <2>2 DEF Offers
    <3> QED BY Zenon, <3>1, <3>2, <3>3
  <2>6. Place(i) = "announced" BY Zenon, <2>2, PlaceValue
  <2>7. Place(i)' = "offered" BY Zenon, <2>3, <2>5 DEF Place
  <2>8. ASSUME NEW j \in Impl, j # i PROVE Place(j)' = Place(j)
    <3>1. c \notin Announced(j) BY Zenon, <2>1, <2>8 DEF Announced
    <3>2. Announced(j)' = Announced(j) BY Zenon, <2>5, <3>1
    <3> QED BY Zenon, <1>1, <2>5, <2>8, <3>2, PlaceSame DEF Owned
  <2>9. Places' = [Places EXCEPT ![i] = "offered"] BY Zenon, <2>7, <2>8, OneMoves
  <2> QED BY Zenon, <2>6, <2>9 DEF Places, Hand!Offer, Hand!Move
<1> QED BY Zenon, <1>2, <1>3

(* An ACCEPT event is Arrive if a listener hears of it, else Ignore.       *)
LEMMA AcceptEventPlaces ==
  ASSUME BaseInv, OwnershipInv, NEW i \in Impl, RaiseAccept(i)
  PROVE  \E j \in Impl : Hand!Arrive(j) \/ Hand!Ignore(j)
<1>0. Types BY Zenon, BaseTypes
<1>1. PICK j \in Impl : /\ istate[j] = "free"
                        /\ Raise(i, "ACCEPT", j)
                        /\ istate' = [istate EXCEPT ![j] = "offered"]
  BY Zenon DEF RaiseAccept
<1>2. /\ sink[i] \in Obj
      /\ EventHandler(sink[i], "ACCEPT", j)
      /\ UNCHANGED <<impl, offered>>
  BY Zenon, <1>0, <1>1 DEF Raise, Types, objVars
<1>3. ~Owned(j) /\ Announced(j) = {} /\ Offers(j) = {} BY Zenon, <1>1, PlaceInv
<1>4. Place(j) = "free" BY Zenon, <1>1, <1>3, PlaceValue
<1>5. /\ \A k : Offers(k)' = Offers(k)
      /\ \A k : Owned(k)' <=> Owned(k)
      /\ istate'[j] # "free"
      /\ \A k \in Impl : k # j => istate'[k] = istate[k]
  BY Zenon, <1>0, <1>1, <1>2 DEF Types, Offers, Owned
<1>6. CASE SameIncoming
  <2>1. \A k : Announced(k)' = Announced(k) BY Zenon, <1>6, SameAnnounced
  <2>2. Place(j)' = "abandoned" BY Zenon, <1>3, <1>5, <2>1 DEF Place, Owned
  <2>3. \A k \in Impl : k # j => Place(k)' = Place(k) BY Zenon, <1>5, <2>1, PlaceSame
  <2>4. Places' = [Places EXCEPT ![j] = "abandoned"] BY Zenon, <2>2, <2>3, OneMoves
  <2> QED BY Zenon, <1>4, <2>4 DEF Places, Hand!Ignore, Hand!Move
<1>7. CASE posted' = Enqueue(posted, Bind(sink[i], "onIncoming", j))
  <2> DEFINE c == Bind(sink[i], "onIncoming", j)
  <2>1. c.slot = "onIncoming" /\ c.arg = j BY Zenon DEF Bind
  <2>2. DOMAIN posted' = DOMAIN posted \cup {c} BY Zenon, <1>7, EnqueueDomain
  <2>3. Announced(j)' # {} /\ \A k : k # j => Announced(k)' = Announced(k)
    <3> HIDE DEF c
    <3> QED BY Zenon, <2>1, <2>2 DEF Announced
  <2>4. Place(j)' = "announced" BY Zenon, <2>3 DEF Place
  <2>5. \A k \in Impl : k # j => Place(k)' = Place(k) BY Zenon, <1>5, <2>3, PlaceSame
  <2>6. Places' = [Places EXCEPT ![j] = "announced"] BY Zenon, <2>4, <2>5, OneMoves
  <2> QED BY Zenon, <1>4, <2>6 DEF Places, Hand!Arrive, Hand!Move
<1> QED BY Zenon, <1>2, <1>6, <1>7, EventPosts DEF EventKind

-----------------------------------------------------------------------------
(* Every step is a step of Handover, or moves nothing.                     *)
LEMMA HandoverStep ==
  ASSUME "reopen" \notin AppMay, BaseInv, OwnershipInv, [Next]_vars
  PROVE  [Hand!Next]_Places
<1>1. CASE UNCHANGED vars
  BY Zenon, <1>1 DEF vars, socketVars, objVars, netVars, Places, Place, Announced, Offers
<1>2. ASSUME NEW o \in Obj, AppCall(o) PROVE [Hand!Next]_Places
  <2>1. UNCHANGED offered BY Zenon, <1>2 DEF AppCall
  <2>2. CASE Open(o) BY Zenon, <2>1, <2>2, OpenPlaces DEF Hand!Next
  <2>3. CASE SocketDtor(o) BY Zenon, <2>1, <2>3, DtorPlaces DEF Hand!Next
  <2>4. CASE ~Open(o) /\ ~SocketDtor(o)
    BY Zenon, <1>2, <2>1, <2>4, QuietCalls, QuietPlaces DEF AppCall, AsynchOpen, DatagramOpen
  <2> QED BY Zenon, <2>2, <2>3, <2>4
<1>3. ASSUME NEW l \in Listeners, NEW i \in Impl, Answer(l, i) PROVE Hand!Next
  BY Zenon, <1>3, AcceptPlaces, RejectPlaces DEF Answer, Hand!Next
<1>4. ASSUME NEW i \in Impl, StackEvent(i) PROVE [Hand!Next]_Places
  <2>1. CASE RaiseAccept(i) BY Zenon, <2>1, AcceptEventPlaces DEF Hand!Next
  <2>2. CASE ~RaiseAccept(i) BY Zenon, <1>4, <2>2, QuietEvents, QuietPlaces DEF StackEvent
  <2> QED BY Zenon, <2>1, <2>2
<1>5. ASSUME NEW o \in Obj, AsynchDtor(o) /\ UNCHANGED offered PROVE Places' = Places
  BY Zenon, <1>5, QuietCalls, QuietPlaces
<1>6. CASE Continue BY Zenon, <1>6, QuietContinue, QuietPlaces
<1>7. ASSUME NEW c \in DOMAIN posted, RunCallback(c) PROVE [Hand!Next]_Places
  BY Zenon, <1>7, RunPlaces DEF Hand!Next
<1>8. ASSUME NEW o \in Obj, Construct(o) PROVE Places' = Places
  BY Zenon, <1>8, ConstructPlaces
<1> QED BY Zenon, <1>1, <1>2, <1>3, <1>4, <1>5, <1>6, <1>7, <1>8 DEF Next

(* If the application does not reopen a socket, open, accept, reject and   *)
(* the destructors implement Handover: what an object got is freed with it *)
(* and by nothing else, and a connection is announced, offered and         *)
(* answered once.                                                          *)
THEOREM HandoverRefinement ==
  ASSUME "reopen" \notin AppMay
  PROVE  Spec => ImplementsHandover
<1>1. Init => Hand!Init
  <2> SUFFICES ASSUME Init, NEW i \in Impl PROVE Place(i) = "free"
    BY Zenon DEF Hand!Init
  <2>1. Announced(i) = {} /\ Offers(i) = {}
    BY Zenon DEF Init, SocketInit, ListenerInit, Announced, Offers
  <2>2. ~Owned(i) /\ istate[i] = "free"
    BY Zenon, ConstantsAssumption DEF Init, SocketInit, Owned
  <2> QED BY Zenon, <2>1, <2>2, PlaceValue
<1>2. BaseInv /\ OwnershipInv /\ [Next]_vars => [Hand!Next]_Places
  BY Zenon, HandoverStep
<1>3. Spec => [](BaseInv /\ OwnershipInv)
  BY OwnershipInvariant, BaseInvariant, PTL
<1> QED BY <1>1, <1>2, <1>3, PTL DEF Spec, Hand!Spec, ImplementsHandover, Places
=============================================================================
