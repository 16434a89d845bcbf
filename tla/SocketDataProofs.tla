-------------------------- MODULE SocketDataProofs ---------------------------
(***************************************************************************)
(* The theorems about the data path, for any number of sockets, any data   *)
(* and any number of events: it keeps to the layer, it reads and announces *)
(* what it should, and it implements SocketInterface.                      *)
(***************************************************************************)
EXTENDS ClientProofs

(* A data call leaves the layer as it is.                                  *)
LEMMA DataCallQuiet == ASSUME NEW o, DataCall(o) PROVE UNCHANGED vars
BY Zenon DEF DataCall, Recv, RecvFrom, Send, SendTo, Transmit, GetLocal, GetRemote, Query,
       IsConnected, SetNagle

(* The data path takes only steps of the layer.                            *)
LEMMA DataIsLayer == [DataNext]_allVars => [LayerNext]_vars
<1>1. CASE LayerStep BY Zenon, <1>1 DEF LayerStep, LayerNext, Work
<1>2. ASSUME NEW o, DataCall(o) PROVE UNCHANGED vars BY Zenon, <1>2, DataCallQuiet
<1>3. ASSUME NEW c \in DOMAIN posted, OnReadable(c) PROVE LayerNext
  BY Zenon, <1>3 DEF OnReadable, LayerNext
<1>4. ASSUME NEW i \in Impl, NEW units, Receive(i, units) \/ Confirm(i) PROVE LayerNext
  BY Zenon, <1>4, ReceiveIsEvent DEF LayerNext, Work
<1>5. CASE UNCHANGED allVars BY Zenon, <1>5 DEF allVars
<1> QED BY Zenon, <1>1, <1>2, <1>3, <1>4, <1>5 DEF DataNext

(* Socket.cpp from recv on: with data and data calls added, the layer does *)
(* nothing it would not do without, so all that is proved of it holds.     *)
THEOREM DataKeepsLayer == DataSpec => Spec
<1>1. [DataNext]_allVars => [Next]_vars BY Zenon, DataIsLayer, LayerNextIsNext
<1> QED BY <1>1, PTL DEF DataSpec, Spec

-----------------------------------------------------------------------------
(* What a step does to a socket as its user sees it.                       *)

\* o is as it was: alive or not, with the same implementation, closed or not.
Same(o) ==
  /\ impl'[o] = impl[o]
  /\ life'[o] = "live" <=> life[o] = "live"
  /\ impl[o] # NULL => (istate'[impl[o]] = "closed" <=> istate[impl[o]] = "closed")

Born(o) == life[o] = "raw" /\ life'[o] = "live" /\ impl'[o] = NULL
Gone(o) == life'[o] # "live" /\ impl'[o] \in {impl[o], NULL}
Opened(o) ==
  /\ life[o] = "live" /\ life'[o] = "live"
  /\ impl[o] = NULL \/ "reopen" \in AppMay
  /\ impl'[o] \in Impl
  /\ istate[impl'[o]] = "free" /\ istate'[impl'[o]] = "open"
Shut(o) ==
  /\ life[o] = "live" /\ life'[o] = "live"
  /\ impl[o] # NULL /\ impl'[o] = impl[o]
  /\ istate'[impl[o]] = "closed"

OnlyMoves(o) ==
  /\ Born(o) \/ Gone(o) \/ Opened(o) \/ Shut(o)
  /\ \A p \in Obj : p # o => Same(p)

(* A step moves one socket at most.                                        *)
LEMMA MovesOne ==
  ASSUME BaseInv, HeldByOne, [LayerNext]_vars
  PROVE  (\A p \in Obj : Same(p)) \/ \E o \in Obj : OnlyMoves(o)
\* The calls that matter to the user of a socket are its constructor, open,
\* close and delete.
<1>CallMoves.
  ASSUME NEW o \in Obj, AppCall(o)
  PROVE  (\A p \in Obj : Same(p)) \/ OnlyMoves(o)
  <2> USE <1>CallMoves
  <2>0. Types /\ NULL \notin Impl BY Zenon, BaseTypes, ConstantsAssumption
  <2>1. CASE AsynchOpen(o) \/ DatagramOpen(o)
    <3>1. PICK i \in Impl : /\ istate[i] = "free"
                            /\ impl' = [impl EXCEPT ![o] = i]
                            /\ istate' = [istate EXCEPT ![i] = "open"]
      BY Zenon, <2>1 DEF AsynchOpen, DatagramOpen, Open
    <3>2. /\ life[o] = "live" /\ UNCHANGED life
          /\ impl[o] = NULL \/ "reopen" \in AppMay
      BY Zenon, <2>1 DEF AsynchOpen, DatagramOpen, Open, Main
    <3>3. Opened(o) BY Zenon, <2>0, <3>1, <3>2 DEF Opened, Types
    <3>4. \A p \in Obj : p # o => Same(p)
      <4> SUFFICES ASSUME NEW p \in Obj, p # o PROVE Same(p)
        BY Zenon
      <4>1. impl'[p] = impl[p] /\ impl[p] # i BY Zenon, <2>0, <3>1 DEF HeldByOne, Types
      <4> QED BY Zenon, <2>0, <3>1, <3>2, <4>1 DEF Same, Types
    <3> QED BY Zenon, <3>3, <3>4 DEF OnlyMoves
  <2>2. CASE SocketDtor(o)
    <3>1. /\ impl' = [impl EXCEPT ![o] = NULL]
          /\ life' = [life EXCEPT ![o] = "dead"]
          /\ \A i \in Impl : i # impl[o] => istate'[i] = istate[i]
      BY Zenon, <2>0, <2>2 DEF SocketDtor, NoStackChange, netVars, Types
    <3>2. Gone(o) BY Zenon, <2>0, <3>1 DEF Gone, Types
    <3>3. \A p \in Obj : p # o => Same(p)
      <4> SUFFICES ASSUME NEW p \in Obj, p # o PROVE Same(p)
        BY Zenon
      <4>1. impl[p] # NULL => impl[p] \in Impl /\ impl[p] # impl[o]
        BY Zenon, <2>0 DEF HeldByOne, Types
      <4> QED BY Zenon, <2>0, <3>1, <4>1 DEF Same, Types
    <3> QED BY Zenon, <3>2, <3>3 DEF OnlyMoves
  <2>3. CASE Close(o)
    <3>1. /\ impl[o] # NULL /\ life[o] = "live" /\ UNCHANGED <<life, impl>>
          /\ istate' = [istate EXCEPT ![impl[o]] = "closed"]
      BY Zenon, <2>3 DEF Close, Main, objVars
    <3>2. Shut(o) BY Zenon, <2>0, <3>1 DEF Shut, Types
    <3>3. \A p \in Obj : p # o => Same(p)
      BY Zenon, <2>0, <3>1 DEF Same, HeldByOne, Types
    <3> QED BY Zenon, <3>2, <3>3 DEF OnlyMoves
  <2>4. CASE BindAddress(o) \/ ConnectDatagram(o) \/ StopListening(o)
    <3>1. UNCHANGED <<life, impl>>
      BY Zenon, <2>4 DEF BindAddress, ConnectDatagram, StopListening, objVars
    <3>2. \/ UNCHANGED istate
          \/ /\ istate[impl[o]] # "closed"
             /\ \E x \in {"bound", "connected"} : istate' = [istate EXCEPT ![impl[o]] = x]
      BY Zenon, <2>4 DEF BindAddress, ConnectDatagram, StopListening, StackStops, NoStackChange, netVars
    <3> QED BY Zenon, <2>0, <3>1, <3>2 DEF Same, Types
  <2>5. CASE \/ \E s \in Slot, f \in Fn \cup {NULL} : SetOn(o, s, f)
             \/ \E f \in Fn : Resolve(o, f) \/ Connect(o, f) \/ StartListening(o, f)
             \/ \E f \in Fn \cup {NULL} : SetOnDisconnect(o, f)
    <3>1. UNCHANGED <<life, impl, istate>>
      BY Zenon, <2>5 DEF SetOn, Resolve, Connect, StartListening, SetOnDisconnect, BeginAssign, netVars
    <3> QED BY Zenon, <3>1 DEF Same
  <2>6. CASE DeleteStream(o) \/ DeleteListener(o) \/ DeleteDatagram(o)
    <3>1. UNCHANGED impl /\ \E x \in {"~TCPAsynch", "~Socket"} : life' = [life EXCEPT ![o] = x]
      BY Zenon, <2>6 DEF DeleteStream, DeleteListener, DeleteDatagram
    <3>2. \/ UNCHANGED istate
          \/ istate[impl[o]] = "listening" /\ istate' = [istate EXCEPT ![impl[o]] = "bound"]
      BY Zenon, <2>6 DEF DeleteStream, DeleteListener, DeleteDatagram, StackStops, NoStackChange, netVars
    <3> QED BY Zenon, <2>0, <3>1, <3>2 DEF OnlyMoves, Gone, Same, Types
  <2> QED BY Zenon, <2>1, <2>2, <2>3, <2>4, <2>5, <2>6 DEF AppCall
<1>0. Types /\ NULL \notin Impl BY Zenon, BaseTypes, ConstantsAssumption
<1>1. ASSUME NEW o \in Obj, Construct(o) PROVE OnlyMoves(o)
  <2>1. /\ impl' = [impl EXCEPT ![o] = NULL] /\ UNCHANGED istate
        /\ life[o] = "raw" /\ life' = [life EXCEPT ![o] = "live"]
    BY Zenon, <1>1 DEF Construct, NewStream, NewListener, NewDatagram, SocketCtor, netVars
  <2> QED BY Zenon, <1>0, <2>1 DEF OnlyMoves, Born, Same, Types
<1>2. ASSUME NEW o \in Obj, AsynchDtor(o) PROVE \A p \in Obj : Same(p)
  <2>1. /\ UNCHANGED <<impl, istate>>
        /\ life[o] = "~TCPAsynch" /\ life' = [life EXCEPT ![o] = "~Socket"]
    BY Zenon, <1>2 DEF AsynchDtor, netVars
  <2> QED BY Zenon, <1>0, <2>1 DEF Same, Types
<1>3. CASE Continue BY Zenon, <1>0, <1>3, ContinueQuiet DEF Same, Types
<1>4. ASSUME NEW c \in DOMAIN posted, RunCallback(c) PROVE \A p \in Obj : Same(p)
  BY Zenon, <1>4 DEF RunCallback, objVars, netVars, Same
<1>5. ASSUME NEW i \in Impl, StackEvent(i) PROVE \A p \in Obj : Same(p)
  BY Zenon, <1>0, <1>5, EventQuiet DEF Same, Types
<1>6. CASE UNCHANGED vars BY Zenon, <1>6 DEF vars, socketVars, objVars, netVars, Same
<1> QED BY Zenon, <1>1, <1>2, <1>3, <1>4, <1>5, <1>6, <1>CallMoves DEF LayerNext, Work

(* A listener's implementation is neither connecting nor connected.        *)
LEMMA StreamsConnectNext ==
  ASSUME BaseInv, HeldByOne, StreamsConnect, [LayerNext]_vars
  PROVE  StreamsConnect'
<1>0. /\ Types /\ NULL \notin Impl
      /\ Streams \cap Listeners = {} /\ Datagrams \cap Listeners = {}
      /\ Streams \subseteq Obj /\ Listeners \subseteq Obj /\ Datagrams \subseteq Obj
  BY Zenon, BaseTypes, ConstantsAssumption DEF Obj, TCP
<1> DEFINE Calm == \A o \in Listeners : impl'[o] # NULL =>
                     istate'[impl'[o]] \notin {"connecting", "connected"}
<1>1. ASSUME UNCHANGED impl, UNCHANGED istate PROVE Calm
  BY Zenon, <1>1 DEF StreamsConnect
<1>2. ASSUME UNCHANGED impl, NEW i \in Impl, NEW x \in ImplState \ {"connecting", "connected"},
             istate' = [istate EXCEPT ![i] = x]
      PROVE  Calm
  BY Zenon, <1>0, <1>2 DEF StreamsConnect, Types
<1>3. ASSUME UNCHANGED impl, NEW o \in Obj \ Listeners, NEW x, impl[o] # NULL,
             istate' = [istate EXCEPT ![impl[o]] = x]
      PROVE  Calm
  BY Zenon, <1>0, <1>3 DEF StreamsConnect, HeldByOne, Types
<1>4. ASSUME NEW o \in Obj, AppCall(o) PROVE StreamsConnect'
  <2>1. call'.op = "connect" => call'.obj \in Streams
    <3>1. CASE \E f \in Fn : Connect(o, f) BY <3>1 DEF Connect, BeginAssign
    <3>2. CASE \/ \E f \in Fn : Resolve(o, f) \/ StartListening(o, f)
               \/ \E f \in Fn \cup {NULL} : SetOnDisconnect(o, f)
      BY <3>2 DEF Resolve, StartListening, SetOnDisconnect, BeginAssign
    <3>3. CASE DeleteStream(o) \/ DeleteListener(o) \/ DeleteDatagram(o) \/ SocketDtor(o)
      <4>1. call' = [Idle EXCEPT !.op = "delete", !.obj = o] \/ call' = Idle
        BY Zenon, <3>3 DEF DeleteStream, DeleteListener, DeleteDatagram, SocketDtor
      <4>2. CASE call' = Idle BY Zenon, <4>2 DEF Idle
      <4>3. CASE call' = [Idle EXCEPT !.op = "delete", !.obj = o]
        <5>1. call'.op = "delete" BY Zenon, <4>3 DEF Idle
        <5> QED BY Zenon, <5>1
      <4> QED BY Zenon, <4>1, <4>2, <4>3
    <3>4. CASE \/ AsynchOpen(o) \/ DatagramOpen(o) \/ BindAddress(o) \/ Close(o)
               \/ ConnectDatagram(o) \/ StopListening(o)
               \/ \E s \in Slot, f \in Fn \cup {NULL} : SetOn(o, s, f)
      BY Zenon, <3>4 DEF AsynchOpen, DatagramOpen, Open, BindAddress, Close, ConnectDatagram,
                  StopListening, SetOn, StreamsConnect
    <3> QED BY Zenon, <1>4, <3>1, <3>2, <3>3, <3>4 DEF AppCall
  <2>2. CASE AsynchOpen(o) \/ DatagramOpen(o)
    <3>1. PICK i \in Impl : /\ impl' = [impl EXCEPT ![o] = i]
                            /\ istate' = [istate EXCEPT ![i] = "open"]
      BY Zenon, <2>2 DEF AsynchOpen, DatagramOpen, Open
    <3>2. Calm BY Zenon, <1>0, <3>1 DEF StreamsConnect, Types
    <3> QED BY Zenon, <2>1, <3>2 DEF StreamsConnect
  <2>3. CASE SocketDtor(o)
    <3>1. /\ impl' = [impl EXCEPT ![o] = NULL]
          /\ UNCHANGED istate \/ istate' = [istate EXCEPT ![impl[o]] = "free"]
      BY Zenon, <2>3 DEF SocketDtor, NoStackChange, netVars
    <3>2. Calm BY Zenon, <1>0, <3>1 DEF StreamsConnect, Types
    <3> QED BY Zenon, <2>1, <3>2 DEF StreamsConnect
  <2>4. CASE BindAddress(o) \/ Close(o)
    <3>1. /\ UNCHANGED impl /\ impl[o] \in Impl
          /\ \E x \in {"bound", "closed"} : istate' = [istate EXCEPT ![impl[o]] = x]
      BY Zenon, <1>0, <2>4 DEF BindAddress, BindAddrErrors, VirtualOpenErrors, AsynchStubErrors,
                DatagramStubErrors, Close, objVars, Types
    <3> QED BY Zenon, <1>2, <2>1, <3>1 DEF StreamsConnect, ImplState
  <2>5. CASE ConnectDatagram(o)
    <3>1. /\ UNCHANGED impl /\ impl[o] # NULL /\ o \in Datagrams
          /\ istate' = [istate EXCEPT ![impl[o]] = "connected"]
      BY Zenon, <2>5 DEF ConnectDatagram, objVars
    <3> QED BY Zenon, <1>0, <1>3, <2>1, <3>1 DEF StreamsConnect
  <2>6. CASE StopListening(o) \/ DeleteListener(o)
    <3>1. UNCHANGED impl /\ StackStops(o)
      BY Zenon, <2>6 DEF StopListening, DeleteListener, objVars
    <3>2. \/ UNCHANGED istate
          \/ impl[o] \in Impl /\ istate' = [istate EXCEPT ![impl[o]] = "bound"]
      BY Zenon, <1>0, <3>1 DEF StackStops, NoStackChange, netVars, Types
    <3> QED BY Zenon, <1>1, <1>2, <2>1, <3>1, <3>2 DEF StreamsConnect, ImplState
  <2>7. CASE \/ \E s \in Slot, f \in Fn \cup {NULL} : SetOn(o, s, f)
             \/ \E f \in Fn : Resolve(o, f) \/ Connect(o, f) \/ StartListening(o, f)
             \/ \E f \in Fn \cup {NULL} : SetOnDisconnect(o, f)
             \/ DeleteStream(o) \/ DeleteDatagram(o)
    <3>1. UNCHANGED <<impl, istate>>
      BY Zenon, <2>7 DEF SetOn, Resolve, Connect, StartListening, SetOnDisconnect, BeginAssign,
                  DeleteStream, DeleteDatagram, netVars
    <3> QED BY Zenon, <1>1, <2>1, <3>1 DEF StreamsConnect
  <2> QED BY Zenon, <1>4, <2>2, <2>3, <2>4, <2>5, <2>6, <2>7 DEF AppCall
<1>5. ASSUME NEW o \in Obj, Construct(o) PROVE StreamsConnect'
  <2>1. /\ impl' = [impl EXCEPT ![o] = NULL] /\ UNCHANGED <<istate, call>>
    BY Zenon, <1>5 DEF Construct, NewStream, NewListener, NewDatagram, SocketCtor, netVars
  <2> QED BY Zenon, <1>0, <2>1 DEF StreamsConnect, Types
<1>6. ASSUME NEW o \in Obj, AsynchDtor(o) PROVE StreamsConnect'
  BY Zenon, <1>6 DEF AsynchDtor, netVars, StreamsConnect
<1>7. CASE Continue
  <2>1. call' = Idle \/ call' = [call EXCEPT !.pc = "api"]
    BY Zenon, <1>7 DEF Continue, EndAssign, ResolveApi, ConnectApi, StartListeningApi, StackAnswers
  <2>2. call'.op = "connect" => call'.obj \in Streams
    BY <2>1 DEF StreamsConnect, BaseInv, SocketTypeOK, Call, Idle
  <2>3. UNCHANGED impl BY Zenon, <1>7, ContinueQuiet
  <2>4. CASE UNCHANGED istate BY Zenon, <1>1, <2>2, <2>3, <2>4 DEF StreamsConnect
  <2>5. CASE /\ call.op = "connect" /\ impl[call.obj] # NULL
             /\ istate' = [istate EXCEPT ![impl[call.obj]] = "connecting"]
    <3>1. call.obj \in Obj \ Listeners BY Zenon, <1>0, <2>5 DEF StreamsConnect
    <3> QED BY Zenon, <1>3, <2>2, <2>3, <2>5, <3>1 DEF StreamsConnect
  <2>6. CASE /\ call.op = "start_listening" /\ impl[call.obj] # NULL
             /\ istate' = [istate EXCEPT ![impl[call.obj]] = "listening"]
    <3>1. call.obj \in Obj BY Zenon, <2>6 DEF BaseInv, CallOK
    <3>2. impl[call.obj] \in Impl BY Zenon, <1>0, <2>6, <3>1 DEF Types
    <3> QED BY Zenon, <1>2, <2>2, <2>3, <2>6, <3>2 DEF StreamsConnect, ImplState
  <2> QED BY Zenon, <1>7, <2>4, <2>5, <2>6, ContinueQuiet
<1>8. ASSUME NEW c \in DOMAIN posted, RunCallback(c) PROVE StreamsConnect'
  BY Zenon, <1>8 DEF RunCallback, objVars, netVars, StreamsConnect
<1>9. ASSUME NEW i \in Impl, StackEvent(i) PROVE StreamsConnect'
  <2>1. UNCHANGED <<impl, call>> BY Zenon, <1>9, EventQuiet
  <2>2. CASE UNCHANGED istate BY Zenon, <1>1, <2>1, <2>2 DEF StreamsConnect
  <2>3. CASE istate[i] = "connecting" /\ istate' = [istate EXCEPT ![i] = "connected"]
    BY Zenon, <1>0, <2>1, <2>3 DEF StreamsConnect, Types
  <2>4. CASE \E j \in Impl, x \in {"down", "offered"} : istate' = [istate EXCEPT ![j] = x]
    BY Zenon, <1>2, <2>1, <2>4 DEF StreamsConnect, ImplState
  <2> QED BY Zenon, <1>9, <2>2, <2>3, <2>4, EventQuiet
<1>10. CASE UNCHANGED vars BY Zenon, <1>10 DEF vars, socketVars, objVars, netVars, StreamsConnect
<1> QED BY Zenon, <1>4, <1>5, <1>6, <1>7, <1>8, <1>9, <1>10 DEF LayerNext, Work

-----------------------------------------------------------------------------
(* What a data call returns, stores and leaves for the next one.           *)

(* No call goes through a null API table, although it tests only impl.     *)
LEMMA VerdictKnown ==
  ASSUME HeldByOne, NEW o \in Obj, NEW given, NEW errs, NEW err \in Verdict(o, given, errs)
  PROVE  \/ err = "NULL_PTR" /\ (impl[o] = NULL \/ ~given)
         \/ impl[o] # NULL /\ err \in errs
BY Zenon DEF Verdict, HeldByOne

\* What a call returned: the layer's refusal before open, the stack's answer
\* after it; only a null address is refused then.
GaveBack(o, plain, addressed, errs) ==
  /\ life[o] = "live" /\ out'.obj = o /\ out'.op \in {plain, addressed}
  /\ impl[o] = NULL => out'.err = "NULL_PTR"
  /\ impl[o] # NULL => \/ out'.err \in errs
                       \/ out'.err = "NULL_PTR" /\ out'.op = addressed

(* A call refuses for want of an implementation or of an address it takes. *)
LEMMA GaveBackKnown ==
  ASSUME NEW o, NEW plain, NEW addressed, NEW errs, NEW given, life[o] = "live",
         out'.obj = o, out'.op \in {plain, addressed}, given \/ out'.op = addressed,
         \/ out'.err = "NULL_PTR" /\ (impl[o] = NULL \/ ~given)
         \/ impl[o] # NULL /\ out'.err \in errs
  PROVE  GaveBack(o, plain, addressed, errs)
BY Zenon DEF GaveBack

(* A reply that carries no data is of the type of replies.                 *)
LEMMA ReplyTyped ==
  ASSUME NEW o \in Obj, NEW opname \in DataOp, NEW err \in DataError, out' = Reply(o, opname, err)
  PROVE  /\ out'.op = opname /\ out'.obj = o /\ out'.err = err
         /\ out' \in [op : DataOp \cup {"none"}, obj : Obj \cup {NULL}, err : DataError,
                      read : Seq(Data), addr : Data \cup {NULL}]
<1>1. <<>> \in Seq(Data) OBVIOUS
<1> QED BY Zenon, <1>1 DEF Reply, ReadReply

(* A read: what it returns, and what it leaves.                            *)
LEMMA ReadKeeps ==
  ASSUME Types, HeldByOne, DataTypeOK, NEW o \in Obj, NEW n \in Sizes(o),
         Recv(o, n) \/ \E given \in BOOLEAN : o \in Datagrams /\ RecvFrom(o, given, n)
  PROVE  /\ DataTypeOK'
         /\ \A i \in Impl : rx[i] = <<>> => rx'[i] = <<>>
         /\ GaveBack(o, "recv", "recv_from", {"NONE", "WOULD_BLOCK", "stack error"})
\* What a read takes comes off the front of what the stack holds; nothing is
\* put there.
<1>ReadTakes.
  ASSUME TakeOut(o, n)
  PROVE  /\ n \in Nat
         /\ rx' \in [Impl -> Seq(Data)]
         /\ \A i \in Impl : rx[i] = <<>> => rx'[i] = <<>>
         /\ Front(o, n) \in Seq(Data)
         /\ n > 0 => Front(o, n)[n] \in Data
  <2> USE <1>ReadTakes
  <2>1. n \in Nat /\ (n > 0 => impl[o] # NULL /\ ~Closed(o)) BY DEF Sizes
  <2>2. CASE n = 0
    <3>1. rx' = rx /\ Front(o, n) = <<>> BY Zenon, <2>2 DEF TakeOut, Front
    <3>2. rx \in [Impl -> Seq(Data)] /\ <<>> \in Seq(Data) /\ ~(n > 0) BY <2>1, <2>2 DEF DataTypeOK
    <3>3. rx' \in [Impl -> Seq(Data)] /\ Front(o, n) \in Seq(Data) BY Zenon, <3>1, <3>2
    <3>4. \A i \in Impl : rx[i] = <<>> => rx'[i] = <<>> BY Zenon, <3>1
    <3> QED BY Zenon, <2>1, <3>1, <3>2, <3>3, <3>4
  <2>3. CASE n > 0
    <3>1. PICK i \in Impl : i = impl[o] BY Zenon, <2>1, <2>3 DEF Types
    <3>2. rx[i] \in Seq(Data) /\ n \in 1..Len(rx[i]) /\ (o \in Datagrams => n <= 1)
      BY <2>1, <2>3, <3>1 DEF Sizes, DataTypeOK
    <3>5. /\ SubSeq(rx[i], 1, n) \in Seq(Data)
          /\ SubSeq(rx[i], 1, n)[n] \in Data
      BY <2>1, <3>2
    <3>6. SubSeq(rx[i], n + 1, Len(rx[i])) \in Seq(Data)
      BY <2>1, <3>2
    <3>7. rx' = [rx EXCEPT ![i] = SubSeq(rx[i], n + 1, Len(rx[i]))]
      BY <2>3, <3>1 DEF TakeOut
    <3>8. rx[i] # <<>> BY <3>2
    <3>9. rx \in [Impl -> Seq(Data)] BY Zenon DEF DataTypeOK
    <3>10. Front(o, n) = SubSeq(rx[i], 1, n) BY <2>1, <2>3, <3>1 DEF Front
    <3>11. rx' \in [Impl -> Seq(Data)] BY Zenon, <3>6, <3>7, <3>9
    <3>12. \A j \in Impl : rx[j] = <<>> => rx'[j] = <<>> BY Zenon, <3>7, <3>8, <3>9
    <3> QED BY <2>1, <2>3, <3>2, <3>5, <3>10, <3>11, <3>12
  <2>4. n = 0 \/ n > 0 BY <2>1
  <2> QED BY Zenon, <2>2, <2>3, <2>4
<1>1. TakeOut(o, n) /\ UNCHANGED unsent /\ life[o] = "live" BY Zenon DEF Recv, RecvFrom, Main
<1>2. /\ n \in Nat /\ rx' \in [Impl -> Seq(Data)] /\ Front(o, n) \in Seq(Data)
      /\ \A i \in Impl : rx[i] = <<>> => rx'[i] = <<>>
      /\ n > 0 => Front(o, n)[n] \in Data
  BY Zenon, <1>1, <1>ReadTakes
<1>3. ASSUME NEW given \in BOOLEAN, NEW err \in Verdict(o, given, ReadErrors(o, n))
      PROVE  /\ \/ err = "NULL_PTR" /\ (impl[o] = NULL \/ ~given)
                \/ impl[o] # NULL /\ err \in {"NONE", "WOULD_BLOCK", "stack error"}
             /\ err \in DataError
  <2>1. ReadErrors(o, n) \subseteq {"NONE", "WOULD_BLOCK", "stack error"}
    BY Zenon, DataAssumption DEF ReadErrors
  <2> QED BY Zenon, <1>3, <2>1, VerdictKnown DEF DataError
<1>4. CASE Recv(o, n)
  <2>1. PICK err \in Verdict(o, TRUE, ReadErrors(o, n)) :
          out' = ReadReply(o, "recv", err, Front(o, n), NULL)
    BY Zenon, <1>4 DEF Recv
  <2>2. /\ out'.op = "recv" /\ out'.obj = o /\ out'.err = err
        /\ out' \in [op : DataOp \cup {"none"}, obj : Obj \cup {NULL}, err : DataError,
                     read : Seq(Data), addr : Data \cup {NULL}]
    BY Zenon, <1>2, <1>3, <2>1 DEF ReadReply, DataOp
  <2>3. \/ err = "NULL_PTR" /\ (impl[o] = NULL \/ ~TRUE)
        \/ impl[o] # NULL /\ err \in {"NONE", "WOULD_BLOCK", "stack error"}
    BY Zenon, <1>3, <2>1
  <2>4. GaveBack(o, "recv", "recv_from", {"NONE", "WOULD_BLOCK", "stack error"})
    BY Zenon, <1>1, <2>2, <2>3, GaveBackKnown
  <2> QED BY Zenon, <1>1, <1>2, <2>2, <2>4 DEF DataTypeOK
<1>5. ASSUME NEW given \in BOOLEAN, RecvFrom(o, given, n)
      PROVE  /\ DataTypeOK'
             /\ GaveBack(o, "recv", "recv_from", {"NONE", "WOULD_BLOCK", "stack error"})
  <2>1. PICK err \in Verdict(o, given, ReadErrors(o, n)), junk \in Data :
          out' = ReadReply(o, "recv_from", err, Front(o, n),
                           IF err = "NULL_PTR" THEN NULL
                           ELSE IF n > 0 THEN Front(o, n)[n] ELSE junk)
    BY Zenon, <1>5 DEF RecvFrom
  <2>2. (IF err = "NULL_PTR" THEN NULL ELSE IF n > 0 THEN Front(o, n)[n] ELSE junk)
          \in Data \cup {NULL}
    BY Zenon, <1>2
  <2>3. /\ out'.op = "recv_from" /\ out'.obj = o /\ out'.err = err
        /\ out' \in [op : DataOp \cup {"none"}, obj : Obj \cup {NULL}, err : DataError,
                     read : Seq(Data), addr : Data \cup {NULL}]
    BY Zenon, <1>2, <1>3, <2>1, <2>2 DEF ReadReply, DataOp
  <2> QED BY Zenon, <1>1, <1>2, <1>3, <2>3 DEF DataTypeOK, GaveBack
<1> QED BY Zenon, <1>1, <1>2, <1>4, <1>5

(* send and send_to.                                                       *)
LEMMA SendKeeps ==
  ASSUME Types, HeldByOne, DataTypeOK, NEW o \in Obj,
         NEW opname \in {"send", "send_to"}, NEW given, NEW n \in Nat,
         given \/ opname = "send_to", Transmit(o, opname, given, n)
  PROVE  /\ DataTypeOK' /\ UNCHANGED rx
         /\ GaveBack(o, "send", "send_to", {"NONE", "stack error"})
<1>1. PICK err \in Verdict(o, given, SendErrors(o)) :
        /\ out' = Reply(o, opname, err)
        /\ unsent' = IF err = "NONE" THEN [unsent EXCEPT ![impl[o]] = @ + n] ELSE unsent
  BY Zenon DEF Transmit
<1>2. \/ err = "NULL_PTR" /\ (impl[o] = NULL \/ ~given)
      \/ impl[o] # NULL /\ err \in SendErrors(o)
  BY Zenon, <1>1, VerdictKnown
<1>3. /\ out'.op = opname /\ out'.obj = o /\ out'.err = err
      /\ out' \in [op : DataOp \cup {"none"}, obj : Obj \cup {NULL}, err : DataError,
                   read : Seq(Data), addr : Data \cup {NULL}]
  <2>1. opname \in DataOp /\ err \in DataError BY Zenon, <1>2 DEF DataOp, DataError, SendErrors
  <2> QED BY Zenon, <1>1, <2>1, ReplyTyped
<1>4. unsent' \in [Impl -> Nat]
  <2>1. unsent \in [Impl -> Nat] BY Zenon DEF DataTypeOK
  <2>2. CASE err = "NONE"
    <3>1. impl[o] \in Impl BY Zenon, <1>2, <2>2 DEF Types
    <3>2. unsent[impl[o]] + n \in Nat BY <2>1, <3>1
    <3> QED BY Zenon, <1>1, <2>1, <2>2, <3>2
  <2>3. CASE err # "NONE" BY Zenon, <1>1, <2>1, <2>3
  <2> QED BY Zenon, <2>2, <2>3
<1>5. GaveBack(o, "send", "send_to", {"NONE", "stack error"})
  <2>1. SendErrors(o) \subseteq {"NONE", "stack error"} BY Zenon DEF SendErrors
  <2>2. life[o] = "live" BY Zenon DEF Transmit, Main
  <2> QED BY Zenon, <1>2, <1>3, <2>1, <2>2, GaveBackKnown
<1> QED BY Zenon, <1>3, <1>4, <1>5 DEF Transmit, DataTypeOK

(* The calls that only look.                                               *)
LEMMA QueryKeeps ==
  ASSUME Types, HeldByOne, DataTypeOK, NEW o \in Obj,
         NEW plain \in DataOp, NEW addressed \in DataOp, NEW given,
         NEW errs \in SUBSET DataError,
         Query(o, addressed, given, errs) \/ Query(o, plain, TRUE, errs)
  PROVE  DataTypeOK' /\ UNCHANGED rx /\ GaveBack(o, plain, addressed, errs)
<1>1. PICK opname \in {plain, addressed}, g \in {given, TRUE} :
        (g \/ opname = addressed) /\ Query(o, opname, g, errs)
  <2>1. CASE Query(o, addressed, given, errs) BY Zenon, <2>1
  <2>2. CASE Query(o, plain, TRUE, errs) BY Zenon, <2>2
  <2> QED BY Zenon, <2>1, <2>2
<1>2. PICK err \in Verdict(o, g, errs) : out' = Reply(o, opname, err) BY Zenon, <1>1 DEF Query
<1>3. \/ err = "NULL_PTR" /\ (impl[o] = NULL \/ ~g)
      \/ impl[o] # NULL /\ err \in errs
  BY Zenon, <1>2, VerdictKnown
<1>4. /\ out'.op = opname /\ out'.obj = o /\ out'.err = err
      /\ out' \in [op : DataOp \cup {"none"}, obj : Obj \cup {NULL}, err : DataError,
                   read : Seq(Data), addr : Data \cup {NULL}]
  <2>1. opname \in DataOp /\ err \in DataError BY Zenon, <1>1, <1>3 DEF DataError
  <2> QED BY Zenon, <1>2, <2>1, ReplyTyped
<1>5. GaveBack(o, plain, addressed, errs)
  <2>1. life[o] = "live" BY Zenon, <1>1 DEF Query, Main
  <2> QED BY Zenon, <1>1, <1>3, <1>4, <2>1, GaveBackKnown
<1> QED BY Zenon, <1>1, <1>4, <1>5 DEF Query, DataTypeOK

(* getLocalAddr, getLocalPort.                                             *)
LEMMA LocalKeeps ==
  ASSUME Types, HeldByOne, DataTypeOK, NEW o \in Obj, NEW given \in BOOLEAN, GetLocal(o, given)
  PROVE  /\ DataTypeOK' /\ UNCHANGED rx
         /\ GaveBack(o, "getLocalPort", "getLocalAddr", {"NONE", "NOT_BOUND", "stack error"})
<1> DEFINE errs == {"stack error", IF istate[impl[o]] = "open" THEN "NOT_BOUND" ELSE "NONE"}
<1>1. Query(o, "getLocalAddr", given, errs) \/ Query(o, "getLocalPort", TRUE, errs)
  BY Zenon DEF GetLocal
<1>2. /\ errs \subseteq DataError /\ {"getLocalAddr", "getLocalPort"} \subseteq DataOp
      /\ errs \subseteq {"NONE", "NOT_BOUND", "stack error"}
  BY Zenon DEF DataError, DataOp
<1> HIDE DEF errs
<1>3. DataTypeOK' /\ UNCHANGED rx /\ GaveBack(o, "getLocalPort", "getLocalAddr", errs)
  BY Zenon, <1>1, <1>2, QueryKeeps
<1> QED BY Zenon, <1>2, <1>3 DEF GaveBack

(* getRemoteAddr, getRemotePort.                                           *)
LEMMA RemoteKeeps ==
  ASSUME Types, HeldByOne, DataTypeOK, NEW o \in Obj, NEW given \in BOOLEAN, GetRemote(o, given)
  PROVE  /\ DataTypeOK' /\ UNCHANGED rx
         /\ GaveBack(o, "getRemotePort", "getRemoteAddr", {"NONE", "NO_CONNECTION", "stack error"})
<1> DEFINE errs == {"stack error", IF Connected(o) THEN "NONE" ELSE "NO_CONNECTION"}
<1>1. Query(o, "getRemoteAddr", given, errs) \/ Query(o, "getRemotePort", TRUE, errs)
  BY Zenon DEF GetRemote
<1>2. /\ errs \subseteq DataError /\ {"getRemoteAddr", "getRemotePort"} \subseteq DataOp
      /\ errs \subseteq {"NONE", "NO_CONNECTION", "stack error"}
  BY Zenon DEF DataError, DataOp
<1> HIDE DEF errs
<1>3. DataTypeOK' /\ UNCHANGED rx /\ GaveBack(o, "getRemotePort", "getRemoteAddr", errs)
  BY Zenon, <1>1, <1>2, QueryKeeps
<1> QED BY Zenon, <1>2, <1>3 DEF GaveBack

(* isConnected goes to the stack only through an API table.                *)
LEMMA ConnectedKeeps ==
  ASSUME HeldByOne, DataTypeOK, NEW o \in Obj, IsConnected(o)
  PROVE  /\ DataTypeOK' /\ UNCHANGED rx
         /\ life[o] = "live" /\ out'.obj = o /\ out'.op = "isConnected"
         /\ out'.err \in {"true", "false"} /\ (impl[o] = NULL => out'.err = "false")
<1>1. PICK err \in Verdict(o, TRUE, {IF Connected(o) THEN "true" ELSE "false"}) :
        out' = Reply(o, "isConnected", IF err = "NULL_PTR" THEN "false" ELSE err)
  BY Zenon DEF IsConnected
<1>2. err = "NULL_PTR" \/ (impl[o] # NULL /\ err \in {"true", "false"})
  BY Zenon, <1>1, VerdictKnown
<1>3. PICK res \in {"true", "false"} :
        out' = Reply(o, "isConnected", res) /\ (impl[o] = NULL => res = "false")
  BY Zenon, <1>1, <1>2
<1>4. /\ out'.op = "isConnected" /\ out'.obj = o /\ out'.err = res
      /\ out' \in [op : DataOp \cup {"none"}, obj : Obj \cup {NULL}, err : DataError,
                   read : Seq(Data), addr : Data \cup {NULL}]
  <2>1. "isConnected" \in DataOp /\ res \in DataError BY Zenon, <1>3 DEF DataOp, DataError
  <2> QED BY Zenon, <1>3, <2>1, ReplyTyped
<1> QED BY Zenon, <1>3, <1>4 DEF IsConnected, Main, DataTypeOK

(* setNagle does without the test, and finds a table on an open socket.    *)
LEMMA NagleKeeps ==
  ASSUME HeldByOne, DataTypeOK, NEW o \in Obj, SetNagle(o)
  PROVE  /\ DataTypeOK' /\ UNCHANGED rx
         /\ life[o] = "live" /\ out'.obj = o /\ out'.op = "setNagle"
         /\ out'.err \in {"NONE", "fault"} /\ (impl[o] # NULL => out'.err = "NONE")
<1>1. PICK err \in {"NONE", "fault"} :
        out' = Reply(o, "setNagle", err) /\ (impl[o] # NULL => err = "NONE")
  BY Zenon DEF SetNagle, HeldByOne
<1>2. /\ out'.op = "setNagle" /\ out'.obj = o /\ out'.err = err
      /\ out' \in [op : DataOp \cup {"none"}, obj : Obj \cup {NULL}, err : DataError,
                   read : Seq(Data), addr : Data \cup {NULL}]
  <2>1. "setNagle" \in DataOp /\ err \in DataError BY Zenon, <1>1 DEF DataOp, DataError
  <2> QED BY Zenon, <1>1, <2>1, ReplyTyped
<1> QED BY Zenon, <1>1, <1>2 DEF SetNagle, Main, DataTypeOK

(* A data call keeps the types, reads only what was there, and goes        *)
(* through no null table unless it is setNagle.                            *)
LEMMA DataCallKeeps ==
  ASSUME Types, HeldByOne, DataTypeOK, NEW o \in Obj, DataCall(o)
  PROVE  /\ DataTypeOK' /\ NoNullTable'
         /\ \A i \in Impl : rx[i] = <<>> => rx'[i] = <<>>
<1>1. ASSUME NEW n \in Sizes(o),
             Recv(o, n) \/ \E given \in BOOLEAN : o \in Datagrams /\ RecvFrom(o, given, n)
      PROVE  /\ DataTypeOK' /\ NoNullTable'
             /\ \A i \in Impl : rx[i] = <<>> => rx'[i] = <<>>
  BY Zenon, <1>1, ReadKeeps DEF NoNullTable, GaveBack
<1>2. CASE Send(o, 1) \/ \E given \in BOOLEAN : SendTo(o, given, 1)
  BY Zenon, <1>2, SendKeeps DEF Send, SendTo, GaveBack, NoNullTable
<1>3. ASSUME NEW given \in BOOLEAN, GetLocal(o, given) \/ GetRemote(o, given)
      PROVE  DataTypeOK' /\ NoNullTable' /\ UNCHANGED rx
  BY Zenon, <1>3, LocalKeeps, RemoteKeeps DEF GaveBack, NoNullTable
<1>4. CASE IsConnected(o) BY Zenon, <1>4, ConnectedKeeps DEF NoNullTable
<1>5. CASE SetNagle(o) BY Zenon, <1>5, NagleKeeps DEF NoNullTable
<1> QED BY Zenon, <1>1, <1>2, <1>3, <1>4, <1>5 DEF DataCall

(* The stack adds what it receives at the end.                             *)
LEMMA ReceiveKeeps ==
  ASSUME DataTypeOK, NEW i \in Impl, NEW d \in Data, Receive(i, <<d>>)
  PROVE  /\ DataTypeOK' /\ UNCHANGED out
         /\ \A j \in Impl : j # i => rx'[j] = rx[j]
<1>1. rx[i] \in Seq(Data) /\ <<d>> \in Seq(Data) BY DEF DataTypeOK
<1>2. rx[i] \o <<d>> \in Seq(Data) BY <1>1
<1>3. rx' = [rx EXCEPT ![i] = rx[i] \o <<d>>] /\ UNCHANGED <<unsent, out>> BY Zenon DEF Receive
<1> QED BY Zenon, <1>2, <1>3 DEF DataTypeOK

(* The layer's own steps, callbacks and confirmations.                     *)
LEMMA QuietKeeps ==
  ASSUME BaseInv, DataTypeOK,
         \/ LayerStep
         \/ \E c \in DOMAIN posted : OnReadable(c)
         \/ \E i \in Impl : Confirm(i)
  PROVE  /\ DataTypeOK' /\ UNCHANGED out
         /\ \A i \in Impl : rx'[i] \in {rx[i], <<>>}
<1>0. <<>> \in Seq(Data) OBVIOUS
<1>1. CASE LayerStep BY Zenon, <1>0, <1>1 DEF LayerStep, ForgetFreed, DataTypeOK
<1>2. ASSUME NEW c \in DOMAIN posted, OnReadable(c)
      PROVE  /\ DataTypeOK' /\ UNCHANGED out
             /\ \A i \in Impl : rx'[i] \in {rx[i], <<>>}
  <2>1. UNCHANGED <<unsent, out>> BY Zenon, <1>2 DEF OnReadable
  <2>2. rx' = rx \/ \E i : rx' = [rx EXCEPT ![i] = <<>>] BY Zenon, <1>2 DEF OnReadable
  <2> QED BY Zenon, <1>0, <2>1, <2>2 DEF DataTypeOK
<1>3. ASSUME NEW i \in Impl, Confirm(i)
      PROVE  DataTypeOK' /\ UNCHANGED <<out, rx>>
  <2>1. /\ UNCHANGED <<out, rx>> /\ unsent[i] > 0
        /\ unsent' = [unsent EXCEPT ![i] = @ - 1]
    BY Zenon, <1>3 DEF Confirm
  <2>2. unsent \in [Impl -> Nat] /\ unsent[i] - 1 \in Nat BY <2>1 DEF DataTypeOK
  <2>3. unsent' \in [Impl -> Nat] BY Zenon, <2>1, <2>2
  <2> QED BY Zenon, <2>1, <2>3 DEF DataTypeOK
<1> QED BY Zenon, <1>1, <1>2, <1>3

(* Types, and what the calls return.                                       *)
LEMMA RepliesNext ==
  ASSUME BaseInv, HeldByOne, DataTypeOK, NoNullTable, [DataNext]_allVars
  PROVE  DataTypeOK' /\ NoNullTable'
<1>0. Types BY Zenon, BaseTypes
<1>1. CASE UNCHANGED allVars
  BY Zenon, <1>1 DEF allVars, dataVars, DataTypeOK, NoNullTable
<1>2. CASE UNCHANGED out /\ DataTypeOK' BY Zenon, <1>2 DEF NoNullTable
<1> QED BY Zenon, <1>0, <1>1, <1>2, DataCallKeeps, ReceiveKeeps, QuietKeeps DEF DataNext

-----------------------------------------------------------------------------
(* What the stack holds, and who has been told.                            *)

(* What the stack receives is for a socket that is not a listener.         *)
LEMMA ReceiverKnown ==
  ASSUME BaseInv, HeldByOne, StreamsConnect, NEW i \in Impl, NEW units, Receive(i, units)
  PROVE  /\ istate[i] # "free"
         /\ \A o \in Obj : impl[o] = i => sink[i] = o /\ o \notin Listeners
<1>0. Types /\ NULL \notin Impl /\ Datagrams \cap Listeners = {}
  BY Zenon, BaseTypes, ConstantsAssumption DEF TCP
<1>1. /\ sink[i] # NULL
      /\ istate[i] = "connected" \/ (sink[i] \in Datagrams /\ istate[i] \in {"open", "bound"})
  BY Zenon DEF Receive, Receiving
<1> QED BY <1>0, <1>1 DEF HeldByOne, StreamsConnect

(* The stack holds nothing for what is free, nor for a listener.           *)
LEMMA NoStrayNext ==
  ASSUME BaseInv, HeldByOne, StreamsConnect, DataTypeOK, NoStrayData, [DataNext]_allVars
  PROVE  NoStrayData'
<1>0. Types /\ NULL \notin Impl /\ Listeners \subseteq Obj
  BY Zenon, BaseTypes, ConstantsAssumption DEF Obj, TCP
<1>1. ASSUME UNCHANGED <<impl, istate>>, \A i \in Impl : rx[i] = <<>> => rx'[i] = <<>>
      PROVE  NoStrayData'
  BY Zenon, <1>0, <1>1 DEF NoStrayData, Types
<1>2. CASE LayerStep
  <2>1. \A i \in Impl : rx'[i] \in {rx[i], <<>>} BY Zenon, <1>2, QuietKeeps
  <2>2. \A i \in Impl : istate'[i] = "free" => rx'[i] = <<>>
    BY Zenon, <1>2 DEF LayerStep, ForgetFreed
  <2>3. ASSUME NEW o \in Listeners, impl'[o] # NULL PROVE rx'[impl'[o]] = <<>>
    <3>1. [LayerNext]_vars BY Zenon, DataIsLayer
    <3>2. \/ impl'[o] = impl[o]
          \/ impl'[o] \in Impl /\ istate[impl'[o]] = "free"
      BY Zenon, <1>0, <2>3, <3>1, MovesOne DEF Same, OnlyMoves, Born, Gone, Opened, Shut
    <3>3. impl'[o] \in Impl BY Zenon, <1>0, <2>3, <3>2 DEF Types
    <3> QED BY Zenon, <2>1, <2>3, <3>2, <3>3 DEF NoStrayData
  <2> QED BY Zenon, <2>2, <2>3 DEF NoStrayData
<1>3. ASSUME NEW o \in Obj, DataCall(o) PROVE NoStrayData'
  <2>1. UNCHANGED <<impl, istate>>
    BY Zenon, <1>3, DataCallQuiet DEF vars, socketVars, objVars, netVars
  <2> QED BY Zenon, <1>0, <1>1, <1>3, <2>1, DataCallKeeps
<1>4. ASSUME NEW c \in DOMAIN posted, OnReadable(c) PROVE NoStrayData'
  <2>1. UNCHANGED <<impl, istate>> BY Zenon, <1>4 DEF OnReadable, RunCallback, objVars, netVars
  <2>2. \A i \in Impl : rx'[i] \in {rx[i], <<>>} BY Zenon, <1>4, QuietKeeps
  <2> QED BY Zenon, <1>1, <2>1, <2>2
<1>5. ASSUME NEW i \in Impl, NEW d \in Data, Receive(i, <<d>>) PROVE NoStrayData'
  <2>1. UNCHANGED <<impl, istate>> BY Zenon, <1>5 DEF Receive, Raise, objVars
  <2>2. \A j \in Impl : j # i => rx'[j] = rx[j] BY Zenon, <1>5, ReceiveKeeps
  <2>3. istate[i] # "free" /\ \A o \in Obj : impl[o] = i => o \notin Listeners
    BY Zenon, <1>5, ReceiverKnown
  <2> QED BY Zenon, <1>0, <2>1, <2>2, <2>3 DEF NoStrayData, Types
<1>6. ASSUME NEW i \in Impl, Confirm(i) PROVE NoStrayData'
  BY Zenon, <1>1, <1>6 DEF Confirm, Raise, objVars
<1>7. CASE UNCHANGED allVars
  BY Zenon, <1>1, <1>7 DEF allVars, dataVars, vars, socketVars, objVars, netVars
<1> QED BY Zenon, <1>2, <1>3, <1>4, <1>5, <1>6, <1>7 DEF DataNext

\* Somebody is to read what the stack holds for o.
Told(o) == \E c \in DOMAIN posted : c.obj = o /\ c.slot = "onReadable"
Unread(o) ==
  /\ life[o] = "live" /\ impl[o] # NULL /\ ~Closed(o)
  /\ rx[impl[o]] # <<>>
  /\ "onReadable" \notin missed[o]

(* Data that the stack holds is announced, step by step.                   *)
LEMMA UnreadNext ==
  ASSUME BaseInv, DataInv, [DataNext]_allVars
  PROVE  UnreadAnnounced'
\* Calls and events only add to the queue and to the record of missed
\* events.
<1>QueueGrows.
  ASSUME Work
  PROVE  /\ \A o \in Obj : missed[o] \subseteq missed'[o]
         /\ DOMAIN posted \subseteq DOMAIN posted'
  <2> USE <1>QueueGrows
  <2>0. missed \in [Obj -> SUBSET Slot] /\ sink \in [Impl -> Obj \cup {NULL}]
    BY Zenon DEF BaseInv, SocketTypeOK
  <2>1. ASSUME NEW d, posted' = Enqueue(posted, d) PROVE DOMAIN posted \subseteq DOMAIN posted'
    BY Zenon, <2>1, EnqueueDomain
  <2>2. ASSUME NEW o \in Obj, AppCall(o)
        PROVE  UNCHANGED missed /\ DOMAIN posted \subseteq DOMAIN posted'
    <3>1. CASE SocketDtor(o)
      BY Zenon, <2>1, <3>1 DEF SocketDtor, ErrorCheck
    <3>2. CASE ~SocketDtor(o)
      BY Zenon, <2>2, <3>2 DEF AppCall, AsynchOpen, DatagramOpen, Open, BindAddress, Close,
         ConnectDatagram, StopListening, SetOn, Resolve, Connect, StartListening,
         SetOnDisconnect, BeginAssign, DeleteStream, DeleteListener, DeleteDatagram
    <3> QED BY Zenon, <3>1, <3>2
  <2>3. ASSUME NEW o \in Obj, Construct(o) \/ AsynchDtor(o) PROVE UNCHANGED <<posted, missed>>
    BY Zenon, <2>3 DEF Construct, NewStream, NewListener, NewDatagram, AsynchDtor
  <2>4. ASSUME NEW i \in Impl, StackEvent(i)
        PROVE  /\ \A o \in Obj : missed[o] \subseteq missed'[o]
               /\ DOMAIN posted \subseteq DOMAIN posted'
    <3>1. PICK k, arg : k \in EventKind /\ Raise(i, k, arg)
      BY Zenon, <2>4 DEF StackEvent, RaiseError, RaiseData, RaiseDNS, RaiseConnect, RaiseDisconnect,
                  RaiseAccept, EventKind, ErrorEvents
    <3>2. PICK o \in Obj : o = sink[i] BY Zenon, <2>0, <3>1 DEF Raise
    <3>3. EventHandler(o, k, arg) BY Zenon, <3>1, <3>2 DEF Raise
    <3>4. UNCHANGED <<posted, missed>> \/ \E s, a : Handle(o, s, a)
      BY Zenon, <3>1, <3>3, EventRoutes
    <3>5. ASSUME NEW s, NEW a, Handle(o, s, a)
          PROVE  /\ \A p \in Obj : missed[p] \subseteq missed'[p]
                 /\ DOMAIN posted \subseteq DOMAIN posted'
      BY Zenon, <2>0, <2>1, <3>5 DEF Handle
    <3> QED BY Zenon, <3>4, <3>5
  <2> QED BY Zenon, <2>2, <2>3, <2>4, ContinueQuiet DEF Work
\* The announcement stays as long as no callback but others' is run.
<1>StaysTold.
  ASSUME NEW o, Told(o),
         \/ DOMAIN posted \subseteq DOMAIN posted'
         \/ \E c \in DOMAIN posted :
              posted' = Dequeue(posted, c) /\ ~(c.obj = o /\ c.slot = "onReadable")
  PROVE  Told(o)'
  BY Zenon, <1>StaysTold DEF Told, Dequeue
\* The event that comes with data is announced, or found onReadable unset.
<1>ReceiveTells.
  ASSUME NEW i \in Impl, NEW o \in Obj \ Listeners, sink[i] = o, life[o] = "live",
         Raise(i, "RX_DONE", NULL)
  PROVE  Told(o)' \/ "onReadable" \in missed'[o]
  <2> USE <1>ReceiveTells
  <2>1. missed \in [Obj -> SUBSET Slot] BY Zenon DEF BaseInv, SocketTypeOK
  <2>2. SocketRoute["RX_DONE"] = "onReadable" /\ StreamRoute["RX_DONE"] = "onReadable"
    BY Zenon DEF SocketRoute, StreamRoute, EventKind, ErrorEvents
  <2>3. Handle(o, "onReadable", NULL)
    <3>1. EventHandler(o, "RX_DONE", NULL) BY Zenon DEF Raise
    <3>2. CASE o \in Streams BY Zenon, <2>2, <3>1, <3>2 DEF EventHandler
    <3>3. CASE o \notin Streams BY Zenon, <2>2, <3>1, <3>3 DEF EventHandler
    <3> QED BY Zenon, <3>2, <3>3
  <2>4. CASE posted' = Enqueue(posted, Bind(o, "onReadable", NULL))
    <3>1. PICK c : c = Bind(o, "onReadable", NULL) BY Zenon
    <3>2. c \in DOMAIN Enqueue(posted, c) BY Zenon, EnqueueDomain
    <3>3. c \in DOMAIN posted' BY Zenon, <2>4, <3>1, <3>2
    <3>4. c.obj = o /\ c.slot = "onReadable" BY Zenon, <3>1 DEF Bind
    <3> QED BY Zenon, <3>3, <3>4 DEF Told
  <2>5. CASE missed' = [missed EXCEPT ![o] = @ \cup {"onReadable"}] BY Zenon, <2>1, <2>5
  <2> QED BY Zenon, <2>3, <2>4, <2>5 DEF Handle, NoSlot
<1>0. Types /\ NULL \notin Impl BY Zenon, BaseTypes, ConstantsAssumption
<1>1. DataTypeOK /\ HeldByOne /\ StreamsConnect /\ NoStrayData BY Zenon DEF DataInv
<1>2. \A o \in Obj : Unread(o) => Told(o) BY Zenon DEF DataInv, UnreadAnnounced, Unread, Told
<1>3. SUFFICES ASSUME NEW o \in Obj, Unread(o)' PROVE Told(o)'
  BY Zenon DEF UnreadAnnounced, Unread, Told
<1>4. /\ life'[o] = "live" /\ impl'[o] # NULL /\ istate'[impl'[o]] # "closed"
      /\ rx'[impl'[o]] # <<>> /\ "onReadable" \notin missed'[o]
  BY Zenon, <1>3 DEF Unread, Closed
\* A step that puts nothing into rx leaves the announcement to be kept.
<1>5. ASSUME \A i \in Impl : rx'[i] \in {rx[i], <<>>} \/ (rx[i] = <<>> => rx'[i] = <<>>),
             missed[o] \subseteq missed'[o]
      PROVE  Told(o)
  <2>1. [LayerNext]_vars BY Zenon, DataIsLayer
  <2>2. \/ Same(o)
        \/ impl'[o] \in Impl /\ istate[impl'[o]] = "free"
    BY Zenon, <1>0, <1>1, <1>4, <2>1, MovesOne DEF OnlyMoves, Born, Gone, Opened, Shut
  <2>3. Same(o) BY Zenon, <1>1, <1>4, <1>5, <2>2 DEF NoStrayData
  <2>4. impl[o] \in Impl BY Zenon, <1>0, <1>4, <2>3 DEF Same, Types
  <2>5. Unread(o) BY Zenon, <1>4, <1>5, <2>3, <2>4 DEF Same, Unread, Closed
  <2> QED BY Zenon, <1>2, <2>5
<1>6. CASE LayerStep
  <2>1. \A i \in Impl : rx'[i] \in {rx[i], <<>>} BY Zenon, <1>1, <1>6, QuietKeeps
  <2>2. CASE Work BY Zenon, <1>5, <2>1, <2>2, <1>QueueGrows, <1>StaysTold
  <2>3. ASSUME NEW c \in DOMAIN posted, c.slot # "onReadable", RunCallback(c) PROVE Told(o)'
    <3>1. UNCHANGED missed /\ posted' = Dequeue(posted, c) BY Zenon, <2>3 DEF RunCallback
    <3> QED BY Zenon, <1>5, <2>1, <2>3, <3>1, <1>StaysTold
  <2> QED BY Zenon, <1>6, <2>2, <2>3 DEF LayerStep, Work
<1>7. ASSUME NEW p \in Obj, DataCall(p) PROVE Told(o)'
  <2>1. \A i \in Impl : rx[i] = <<>> => rx'[i] = <<>> BY Zenon, <1>0, <1>1, <1>7, DataCallKeeps
  <2>2. UNCHANGED <<posted, missed>> BY Zenon, <1>7, DataCallQuiet DEF vars, socketVars
  <2> QED BY Zenon, <1>5, <2>1, <2>2, <1>StaysTold
<1>8. ASSUME NEW c \in DOMAIN posted, OnReadable(c) PROVE Told(o)'
  <2>1. /\ UNCHANGED <<life, impl, istate, missed>> /\ posted' = Dequeue(posted, c)
        /\ c.slot = "onReadable"
    BY Zenon, <1>8 DEF OnReadable, RunCallback, objVars, netVars
  <2>2. c.obj # o
    <3> SUFFICES ASSUME c.obj = o PROVE FALSE
      BY Zenon
    <3>1. life[c.obj] = "live" /\ impl[c.obj] # NULL /\ ~Closed(c.obj)
      BY Zenon, <1>4, <2>1 DEF Closed
    <3>2. rx' = [rx EXCEPT ![impl[o]] = <<>>] BY Zenon, <1>8, <3>1 DEF OnReadable
    <3>3. impl[o] \in Impl BY Zenon, <1>0, <3>1 DEF Types
    <3> QED BY Zenon, <1>1, <1>4, <2>1, <3>2, <3>3 DEF DataTypeOK
  <2>3. \A i \in Impl : rx'[i] \in {rx[i], <<>>} BY Zenon, <1>1, <1>8, QuietKeeps
  <2> QED BY Zenon, <1>5, <2>1, <2>2, <2>3, <1>StaysTold
<1>9. ASSUME NEW i \in Impl, NEW d \in Data, Receive(i, <<d>>) PROVE Told(o)'
  <2>1. /\ UNCHANGED <<life, impl, istate>> /\ Raise(i, "RX_DONE", NULL)
    BY Zenon, <1>9 DEF Receive, Raise, objVars
  <2>2. CASE impl[o] = i
    <3>1. sink[i] = o /\ o \in Obj \ Listeners BY Zenon, <1>1, <1>9, <2>2, ReceiverKnown
    <3> QED BY Zenon, <1>4, <2>1, <3>1, <1>ReceiveTells
  <2>3. CASE impl[o] # i
    <3>1. impl[o] \in Impl /\ rx'[impl[o]] = rx[impl[o]]
      BY Zenon, <1>0, <1>1, <1>4, <1>9, <2>1, <2>3, ReceiveKeeps DEF Types
    <3>2. Work BY Zenon, <1>9, ReceiveIsEvent DEF Work
    <3>3. missed[o] \subseteq missed'[o] /\ DOMAIN posted \subseteq DOMAIN posted'
      BY Zenon, <3>2, <1>QueueGrows
    <3>4. Unread(o) BY Zenon, <1>4, <2>1, <3>1, <3>3 DEF Unread, Closed
    <3> QED BY Zenon, <1>2, <3>3, <3>4, <1>StaysTold
  <2> QED BY Zenon, <2>2, <2>3
<1>10. ASSUME NEW i \in Impl, Confirm(i) PROVE Told(o)'
  <2>1. Work BY Zenon, <1>10, ReceiveIsEvent DEF Work
  <2>2. \A j \in Impl : rx'[j] \in {rx[j], <<>>} BY Zenon, <1>1, <1>10, QuietKeeps
  <2> QED BY Zenon, <1>5, <2>1, <2>2, <1>QueueGrows, <1>StaysTold
<1>11. CASE UNCHANGED allVars
  <2>1. UNCHANGED <<rx, posted, missed>> BY Zenon, <1>11 DEF allVars, dataVars, vars, socketVars
  <2> QED BY Zenon, <1>5, <2>1, <1>StaysTold
<1> QED BY Zenon, <1>6, <1>7, <1>8, <1>9, <1>10, <1>11 DEF DataNext

(* Initially nothing is held.                                              *)
LEMMA DataInitInv == Init /\ DataInit => DataInv
<1> SUFFICES ASSUME Init, DataInit PROVE DataInv
  BY Zenon
<1>1. /\ life = [o \in Obj |-> "raw"] /\ impl = [o \in Obj |-> NULL] /\ call = Idle
  BY Zenon DEF Init, SocketInit
<1>2. HeldByOne /\ StreamsConnect /\ UnreadAnnounced
  BY Zenon, <1>1 DEF HeldByOne, StreamsConnect, UnreadAnnounced, Idle, Obj, TCP
<1>3. DataTypeOK
  <2>1. <<>> \in Seq(Data) OBVIOUS
  <2> QED BY Zenon, <2>1 DEF DataInit, DataTypeOK, NoReply, DataError
<1>4. NoStrayData BY Zenon, <1>1 DEF NoStrayData, DataInit, Obj, TCP
<1>5. NoNullTable BY Zenon DEF DataInit, NoReply, NoNullTable
<1> QED BY Zenon, <1>2, <1>3, <1>4, <1>5 DEF DataInv

(* The inductive invariant of the data path.                               *)
LEMMA DataInvariant == DataSpec => [](BaseInv /\ DataInv)
<1>1. BaseInv /\ DataInv /\ [DataNext]_allVars => DataInv'
  <2> SUFFICES ASSUME BaseInv, DataInv, [DataNext]_allVars PROVE DataInv'
    BY Zenon
  <2>1. [LayerNext]_vars BY Zenon, DataIsLayer
  <2>2. HeldByOne' /\ StreamsConnect' BY Zenon, <2>1, HeldNext, StreamsConnectNext DEF DataInv
  <2>3. NoStrayData' BY Zenon, NoStrayNext DEF DataInv
  <2>4. DataTypeOK' /\ NoNullTable' BY Zenon, RepliesNext DEF DataInv
  <2>5. UnreadAnnounced' BY Zenon, UnreadNext
  <2> QED BY Zenon, <2>2, <2>3, <2>4, <2>5 DEF DataInv
<1>2. DataSpec => []BaseInv BY DataKeepsLayer, BaseInvariant, PTL
<1> QED BY <1>1, <1>2, DataInitInv, PTL DEF DataSpec

(* _eventHandler, setOnReadable: data that the stack holds for a socket    *)
(* never goes unannounced, whatever the application does with its sockets  *)
(* and however many events the stack raises.                               *)
THEOREM UnreadAnnouncedAlways == DataSpec => []UnreadAnnounced
<1>1. DataInv => UnreadAnnounced BY Zenon DEF DataInv
<1> QED BY <1>1, DataInvariant, PTL

(* Socket.cpp from recv on: no call but setNagle goes through a null API   *)
(* table, although each of them tests only impl.                           *)
THEOREM NoNullTableAlways == DataSpec => []NoNullTable
<1>1. DataInv => NoNullTable BY Zenon DEF DataInv
<1> QED BY <1>1, DataInvariant, PTL

-----------------------------------------------------------------------------
(* The refinement.                                                         *)

(* The phase of a socket that exists.                                      *)
LEMMA PhaseKnown ==
  ASSUME NEW o
  PROVE  /\ life[o] # "live" => PhaseOf(o) = "none"
         /\ life[o] = "live" /\ impl[o] = NULL => PhaseOf(o) = "new"
         /\ life[o] = "live" /\ impl[o] # NULL /\ Closed(o) => PhaseOf(o) = "closed"
         /\ life[o] = "live" /\ impl[o] # NULL /\ ~Closed(o) => PhaseOf(o) = "opened"
         /\ PhaseOf(o) \in User!Phase
BY Zenon DEF PhaseOf, User!Phase

(* ... and after the step.                                                 *)
LEMMA PhaseKnownNext ==
  ASSUME NEW o
  PROVE  /\ life'[o] # "live" => PhaseOf(o)' = "none"
         /\ life'[o] = "live" /\ impl'[o] = NULL => PhaseOf(o)' = "new"
         /\ life'[o] = "live" /\ impl'[o] # NULL /\ istate'[impl'[o]] = "closed" =>
              PhaseOf(o)' = "closed"
         /\ life'[o] = "live" /\ impl'[o] # NULL /\ istate'[impl'[o]] # "closed" =>
              PhaseOf(o)' = "opened"
BY Zenon DEF PhaseOf, Closed

(* A socket that is as it was is in the phase it was in.                   *)
LEMMA SamePhase == ASSUME NEW o \in Obj, Same(o) PROVE PhaseOf(o)' = PhaseOf(o)
BY Zenon, PhaseKnown, PhaseKnownNext DEF Same, Closed

(* Constructors, open, close and delete.                                   *)
LEMMA PhaseStep ==
  ASSUME BaseInv, HeldByOne, "reopen" \notin AppMay, [LayerNext]_vars, UNCHANGED out
  PROVE  User!Next \/ UNCHANGED <<[o \in Obj |-> PhaseOf(o)],
                                  [op |-> out.op, obj |-> out.obj, err |-> out.err]>>
<1>0. Types /\ NULL \notin Impl BY Zenon, BaseTypes, ConstantsAssumption
<1>1. CASE \A p \in Obj : Same(p)
  BY Zenon, <1>1, SamePhase
<1>2. ASSUME NEW o \in Obj, OnlyMoves(o) PROVE User!Next
  <2>1. ASSUME NEW from, NEW to, PhaseOf(o) \in from, PhaseOf(o)' = to
        PROVE  User!Step(o, from, to)
    <3>1. \A p \in Obj : p # o => PhaseOf(p)' = PhaseOf(p)
      BY Zenon, <1>2, SamePhase DEF OnlyMoves
    <3> QED BY Zenon, <2>1, <3>1 DEF User!Step
  <2>2. CASE Born(o)
    <3>1. PhaseOf(o) \in {"none"} /\ PhaseOf(o)' = "new"
      BY Zenon, <2>2, PhaseKnown, PhaseKnownNext DEF Born
    <3>2. User!Step(o, {"none"}, "new") BY <2>1, <3>1
    <3> QED BY Zenon, <3>2 DEF User!Next, User!Create
  <2>3. CASE Gone(o)
    <3>1. PhaseOf(o) \in User!Phase /\ PhaseOf(o)' = "none"
      BY Zenon, <2>3, PhaseKnown, PhaseKnownNext DEF Gone
    <3>2. User!Destroy(o) BY Zenon, <2>1, <3>1 DEF User!Destroy
    <3> QED BY Zenon, <3>2 DEF User!Next
  <2>4. CASE Opened(o)
    <3>1. PhaseOf(o) \in {"new"} /\ PhaseOf(o)' = "opened"
      BY Zenon, <1>0, <2>4, PhaseKnown, PhaseKnownNext DEF Opened
    <3>2. User!Step(o, {"new"}, "opened") BY <2>1, <3>1
    <3> QED BY Zenon, <3>2 DEF User!Next, User!Open
  <2>5. CASE Shut(o)
    <3>1. PhaseOf(o) \in {"opened", "closed"} /\ PhaseOf(o)' = "closed"
      BY Zenon, <2>5, PhaseKnown, PhaseKnownNext DEF Shut
    <3>2. User!Close(o) BY Zenon, <2>1, <3>1 DEF User!Close
    <3> QED BY Zenon, <3>2 DEF User!Next
  <2> QED BY Zenon, <1>2, <2>2, <2>3, <2>4, <2>5 DEF OnlyMoves
<1> QED BY Zenon, <1>1, <1>2, MovesOne

(* A data call leaves the phases alone.                                    *)
LEMMA CallKeepsPhases ==
  ASSUME UNCHANGED vars
  PROVE  \A p \in Obj : PhaseOf(p)' = PhaseOf(p)
BY Zenon DEF PhaseOf, Closed, vars, socketVars, objVars, netVars

(* What a call gave back is what the interface lets it answer.             *)
LEMMA AnswersAllowed ==
  ASSUME UNCHANGED vars, NEW o \in Obj, NEW plain, NEW addressed, NEW errs,
         GaveBack(o, plain, addressed, errs \cup {"stack error"})
  PROVE  User!Answers(o, plain, addressed, errs)
<1> DEFINE ph == [p \in Obj |-> PhaseOf(p)][o]
<1>1. \A p \in Obj : PhaseOf(p)' = PhaseOf(p) BY Zenon, CallKeepsPhases
<1>2. /\ life[o] = "live" /\ ph = PhaseOf(o) /\ ph # "none"
      /\ ph = "new" <=> impl[o] = NULL
  BY Zenon, PhaseKnown DEF GaveBack
<1>3. PICK allowed : allowed = User!Opened(o, errs) BY Zenon
<1>4. ph = "new" => allowed = {"NULL_PTR"} BY Zenon, <1>3 DEF User!Opened
<1>5. ph # "new" => allowed = errs \cup {"stack error"} BY Zenon, <1>3 DEF User!Opened
<1>6. CASE out'.op = plain /\ out'.err \in allowed
  <2>1. User!Returns(o, {plain}, allowed) BY Zenon, <1>1, <1>2, <1>6 DEF User!Returns, GaveBack
  <2> QED BY Zenon, <1>3, <2>1 DEF User!Answers
<1>7. CASE out'.op = addressed /\ out'.err \in allowed \cup {"NULL_PTR"}
  <2>1. User!Returns(o, {addressed}, allowed \cup {"NULL_PTR"})
    BY Zenon, <1>1, <1>2, <1>7 DEF User!Returns, GaveBack
  <2> QED BY Zenon, <1>3, <2>1 DEF User!Answers
<1>8. \/ out'.op = plain /\ out'.err \in allowed
      \/ out'.op = addressed /\ out'.err \in allowed \cup {"NULL_PTR"}
  BY Zenon, <1>2, <1>4, <1>5 DEF GaveBack
<1> QED BY Zenon, <1>6, <1>7, <1>8

(* What a data call returns is what the interface allows in the phase.     *)
LEMMA DataCallAllowed ==
  ASSUME BaseInv, DataInv, NEW o \in Obj, DataCall(o)
  PROVE  User!Next
<1>0. Types /\ HeldByOne /\ DataTypeOK /\ UNCHANGED vars
  BY Zenon, BaseTypes, DataCallQuiet DEF DataInv
<1>1. ASSUME NEW plain, NEW addressed, NEW errs, NEW all,
             GaveBack(o, plain, addressed, all), all = errs \cup {"stack error"}
      PROVE  User!Answers(o, plain, addressed, errs)
  BY Zenon, <1>0, <1>1, AnswersAllowed
<1>K. /\ \A p \in Obj : PhaseOf(p)' = PhaseOf(p)
      /\ life[o] = "live" => PhaseOf(o) # "none" /\ (PhaseOf(o) = "new" <=> impl[o] = NULL)
  BY Zenon, <1>0, CallKeepsPhases, PhaseKnown
<1>3. ASSUME NEW n \in Sizes(o),
             Recv(o, n) \/ \E given \in BOOLEAN : o \in Datagrams /\ RecvFrom(o, given, n)
      PROVE  User!Receive(o)
  <2>1. GaveBack(o, "recv", "recv_from", {"NONE", "WOULD_BLOCK", "stack error"})
    BY Zenon, <1>0, <1>3, ReadKeeps
  <2>2. {"NONE", "WOULD_BLOCK", "stack error"} = {"NONE", "WOULD_BLOCK"} \cup {"stack error"}
    BY Zenon
  <2> QED BY Zenon, <1>1, <2>1, <2>2 DEF User!Receive
<1>4. CASE Send(o, 1) \/ \E given \in BOOLEAN : SendTo(o, given, 1)
  <2>1. GaveBack(o, "send", "send_to", {"NONE", "stack error"})
    BY Zenon, <1>0, <1>4, SendKeeps DEF Send, SendTo
  <2>2. {"NONE", "stack error"} = {"NONE"} \cup {"stack error"} BY Zenon
  <2>3. User!Transmit(o) BY Zenon, <1>1, <2>1, <2>2 DEF User!Transmit
  <2> QED BY Zenon, <2>3 DEF User!Next
<1>5. ASSUME NEW given \in BOOLEAN, GetLocal(o, given) PROVE User!LocalName(o)
  <2>1. GaveBack(o, "getLocalPort", "getLocalAddr", {"NONE", "NOT_BOUND", "stack error"})
    BY Zenon, <1>0, <1>5, LocalKeeps
  <2>2. {"NONE", "NOT_BOUND", "stack error"} = {"NONE", "NOT_BOUND"} \cup {"stack error"}
    BY Zenon
  <2> QED BY Zenon, <1>1, <2>1, <2>2 DEF User!LocalName
<1>6. ASSUME NEW given \in BOOLEAN, GetRemote(o, given) PROVE User!RemoteName(o)
  <2>1. GaveBack(o, "getRemotePort", "getRemoteAddr", {"NONE", "NO_CONNECTION", "stack error"})
    BY Zenon, <1>0, <1>6, RemoteKeeps
  <2>2. {"NONE", "NO_CONNECTION", "stack error"} = {"NONE", "NO_CONNECTION"} \cup {"stack error"}
    BY Zenon
  <2> QED BY Zenon, <1>1, <2>1, <2>2 DEF User!RemoteName
<1>7. CASE IsConnected(o)
  <2>1. /\ life[o] = "live" /\ out'.obj = o /\ out'.op = "isConnected"
        /\ out'.err \in {"true", "false"} /\ (impl[o] = NULL => out'.err = "false")
    BY Zenon, <1>0, <1>7, ConnectedKeeps
  <2>2. User!IsConnected(o) BY Zenon, <1>K, <2>1 DEF User!IsConnected, User!Returns
  <2> QED BY Zenon, <2>2 DEF User!Next
<1>8. CASE SetNagle(o)
  <2>1. /\ life[o] = "live" /\ out'.obj = o /\ out'.op = "setNagle"
        /\ out'.err \in {"NONE", "fault"} /\ (impl[o] # NULL => out'.err = "NONE")
    BY Zenon, <1>0, <1>8, NagleKeeps
  <2>2. User!SetOption(o) BY Zenon, <1>K, <2>1 DEF User!SetOption, User!Returns
  <2> QED BY Zenon, <2>2 DEF User!Next
<1> QED BY Zenon, <1>3, <1>4, <1>5, <1>6, <1>7, <1>8 DEF DataCall, User!Next

(* Socket: for an application that opens a socket at most once, the calls  *)
(* implement SocketInterface.                                              *)
THEOREM InterfaceRefinement ==
  ASSUME "reopen" \notin AppMay
  PROVE  DataSpec => ImplementsInterface
<1> DEFINE phases == [o \in Obj |-> PhaseOf(o)]
           answers == [op |-> out.op, obj |-> out.obj, err |-> out.err]
<1>1. Init /\ DataInit => User!Init
  <2> SUFFICES ASSUME Init, DataInit PROVE User!Init
    BY Zenon
  <2>1. \A o \in Obj : PhaseOf(o) = "none" BY Zenon, PhaseKnown DEF Init, SocketInit
  <2> QED BY Zenon, <2>1 DEF User!Init, DataInit, NoReply
<1>2. BaseInv /\ DataInv /\ [DataNext]_allVars => [User!Next]_<<phases, answers>>
  <2> SUFFICES ASSUME BaseInv, DataInv, [DataNext]_allVars
               PROVE  User!Next \/ UNCHANGED <<phases, answers>>
    BY Zenon
  <2>1. HeldByOne /\ DataTypeOK /\ [LayerNext]_vars BY Zenon, DataIsLayer DEF DataInv
  <2>2. CASE UNCHANGED out BY Zenon, <2>1, <2>2, PhaseStep
  <2>3. CASE \E o \in Obj : DataCall(o) BY Zenon, <2>3, DataCallAllowed
  <2>4. UNCHANGED out \/ \E o \in Obj : DataCall(o)
    BY Zenon, <2>1, QuietKeeps, ReceiveKeeps DEF DataNext, allVars, dataVars
  <2> QED BY Zenon, <2>2, <2>3, <2>4
<1> QED BY <1>1, <1>2, DataInvariant, PTL DEF DataSpec, ImplementsInterface, User!Spec
=============================================================================
