---------------------------- MODULE TCPEchoProofs ----------------------------
(***************************************************************************)
(* The theorems about the TCP echo client (TCPEchoClient), for messages of *)
(* any length, any number of events and every fault: _unacked is exact,    *)
(* success is reported when everything is acknowledged, and the client is  *)
(* deleted once.                                                           *)
(***************************************************************************)
EXTENDS TCPEchoClient, ClientProofs

(* _unacked is unsigned: what it counts is taken modulo Wrap ...           *)
LEMMA WrapType == ASSUME NEW n \in Nat PROVE n % Wrap \in 0..(Wrap - 1)
BY LengthAssumption

(* ... which is exact down to 0 and up to Wrap.                            *)
LEMMA WrapSmall == ASSUME NEW n \in 0..(Wrap - 1) PROVE n % Wrap = n /\ (n + Wrap) % Wrap = n
BY LengthAssumption

\* The callbacks of these slots are queued as they were.
SameQueue(slots) ==
  \A c \in DOMAIN posted \cup DOMAIN posted' :
    c.slot \in slots =>
      c \in DOMAIN posted /\ c \in DOMAIN posted' /\ posted'[c] = posted[c]

(* Posting or running one callback leaves those of other slots alone.      *)
LEMMA QueueOther ==
  ASSUME NEW c, NEW slots, c.slot \notin slots,
         \/ posted' = Enqueue(posted, c)
         \/ c \in DOMAIN posted /\ posted' = Dequeue(posted, c)
  PROVE  SameQueue(slots)
BY Zenon DEF SameQueue, Enqueue, Dequeue

(* The answer to connect is awaited as before.                             *)
LEMMA ConnectSame ==
  ASSUME ConnectOnce, SameQueue({"onConnect"}), impl'[Sock] = impl[Sock],
         impl[Sock] # NULL => istate'[impl[Sock]] = istate[impl[Sock]]
  PROVE  ConnectOnce'
<1>1. \A c \in DOMAIN posted' : c.slot = "onConnect" =>
        c \in DOMAIN posted /\ posted'[c] = posted[c]
  BY Zenon DEF SameQueue
<1> QED BY Zenon, <1>1 DEF ConnectOnce

(* The handlers stay ready if nothing is assigned and nothing requested.   *)
LEMMA ReadyFrame ==
  ASSUME HandlersReady, impl'[Sock] = impl[Sock], on'[Sock] = on[Sock],
         call' = call \/ call'.op # "connect",
         impl[Sock] # NULL =>
           \/ istate'[impl[Sock]] = istate[impl[Sock]]
           \/ istate[impl[Sock]] = "connected" /\ istate'[impl[Sock]] \in {"down", "closed"},
         Doing({"setOnDisconnect", "connect"})' => Doing({"setOnDisconnect", "connect"})
  PROVE  HandlersReady'
BY Zenon DEF HandlersReady

(* A step that neither sends nor acknowledges, neither connects nor starts *)
(* the conversation, keeps the account.                                    *)
LEMMA TalkFrame ==
  ASSUME TcpTypeOK, Talk, HandlersReady',
         SameQueue({"onConnect", "onSent"}),
         impl'[Sock] = impl[Sock], life'[Sock] = life[Sock],
         impl[Sock] # NULL =>
           /\ \/ istate'[impl[Sock]] = istate[impl[Sock]]
              \/ istate[impl[Sock]] = "connected" /\ istate'[impl[Sock]] \in {"down", "closed"}
           /\ unsent'[impl[Sock]] = unsent[impl[Sock]],
         \A i \in Impl : unsent'[i] \in {unsent[i], 0},
         terminates[TRUE] = 0 => terminates'[TRUE] = 0, done => done', unacked' = unacked,
         Doing({"sendHello"})' <=> Doing({"sendHello"}),
         Doing({"sendSuccess"})' <=> Doing({"sendSuccess"}),
         Started \/ /\ ~Doing({"recv"})' /\ up' = up /\ down' = down
                    /\ \A c \in DOMAIN posted' : c.slot = "onReadable" => c \in DOMAIN posted,
         verdict' = "none" => verdict = "none"
  PROVE  Talk'
<1>1. Started' <=> Started
  BY Zenon DEF Started, SameQueue
<1>2. ConnectOnce'
  BY DEF Talk, ConnectOnce, SameQueue
<1>3. SentAlone' /\ SentPosted' = SentPosted
  <2>1. SentCallback.slot = "onSent" /\ SentCallback' = SentCallback BY Zenon DEF SentCallback
  <2>2. SentCallback \in DOMAIN posted <=> SentCallback \in DOMAIN posted'
    BY Zenon, <2>1 DEF SameQueue
  <2>3. SentCallback \in DOMAIN posted => posted'[SentCallback] = posted[SentCallback]
    BY Zenon, <2>1, <2>2 DEF SameQueue
  <2>4. SentAlone' BY Zenon, <2>1 DEF Talk, SentAlone, SameQueue
  <2> QED BY Zenon, <2>1, <2>2, <2>3, <2>4 DEF SentPosted
<1>5. SilentAtFirst'
  <2> SUFFICES ASSUME ~Started'
               PROVE  /\ \A i \in Impl : unsent'[i] = 0
                      /\ up' = <<>> /\ down' = 0
                      /\ \A c \in DOMAIN posted' : c.slot \notin {"onSent", "onReadable"}
                      /\ ~Doing({"sendHello", "sendSuccess", "recv"})'
                      /\ terminates'[TRUE] = 0
    BY Zenon DEF SilentAtFirst
  <2>0. ~Started BY Zenon, <1>1
  <2>1. /\ \A i \in Impl : unsent'[i] = 0
        /\ up' = <<>> /\ down' = 0 /\ terminates'[TRUE] = 0
    BY Zenon, <2>0 DEF Talk, SilentAtFirst
  <2>2. \A c \in DOMAIN posted' : c.slot \notin {"onSent", "onReadable"}
    BY Zenon, <2>0 DEF Talk, SilentAtFirst, SameQueue
  <2>3. ~Doing({"sendHello", "sendSuccess", "recv"})' BY Zenon, <2>0 DEF Talk, SilentAtFirst, Doing
  <2> QED BY Zenon, <2>1, <2>2, <2>3
<1>6. UnackedCounts'
  <2> SUFFICES ASSUME Conversing' PROVE UnackedCounts'
    BY Zenon DEF UnackedCounts
  <2>1. Conversing BY Zenon DEF Conversing, SameQueue
  <2>2. unsent'[impl'[Sock]] = unsent[impl[Sock]] BY Zenon, <2>1 DEF Conversing
  <2>3. AboutToSend' = AboutToSend BY Zenon DEF AboutToSend
  <2>4. Success \in Nat /\ Hello \in Nat /\ unacked \in Nat BY LengthAssumption DEF TcpTypeOK
  <2>5. /\ unacked = unsent[impl[Sock]] + SentPosted + AboutToSend
        /\ unacked <= Hello + (IF done \/ Doing({"sendSuccess"}) THEN Success ELSE 0)
        /\ terminates[TRUE] # 0 => done /\ unacked = 0
    BY Zenon, <2>1 DEF Talk, UnackedCounts
  <2>6. unacked' = unsent'[impl'[Sock]] + SentPosted' + AboutToSend'
    BY Zenon, <1>3, <2>2, <2>3, <2>5
  <2>7. unacked' <= Hello + (IF done' \/ Doing({"sendSuccess"})' THEN Success ELSE 0)
    BY <2>4, <2>5
  <2>8. terminates'[TRUE] # 0 => done' /\ unacked' = 0
    BY Zenon, <2>5
  <2> QED BY Zenon, <2>6, <2>7, <2>8 DEF UnackedCounts
<1> QED BY Zenon, <1>2, <1>3, <1>5, <1>6 DEF Talk

Ground == BaseInv /\ OwnershipInv

(* What the stack forgets with an implementation that is freed is none of  *)
(* the client's while it has one.                                          *)
LEMMA ForgetEffect ==
  ASSUME Ground', TcpTypeOK, ForgetFreed
  PROVE  /\ unsent' \in [Impl -> Nat]
         /\ \A i \in Impl : unsent'[i] \in {unsent[i], 0}
         /\ impl'[Sock] # NULL =>
              impl'[Sock] \in Impl /\ unsent'[impl'[Sock]] = unsent[impl'[Sock]]
<1>1. impl'[Sock] # NULL => impl'[Sock] \in Impl /\ istate'[impl'[Sock]] # "free"
  BY Zenon, ClientKnown DEF Ground, BaseInv, SocketTypeOK, OwnershipInv, Ownership
<1>2. unsent' = [i \in Impl |-> IF istate'[i] = "free" THEN 0 ELSE unsent[i]]
  BY Zenon DEF ForgetFreed
<1> QED BY Zenon, <1>1, <1>2 DEF TcpTypeOK

(* The order of the calls in the handlers is an order.                     *)
LEMMA TcpOrdered == WellOrdered(TcpOrder)
BY Zenon DEF WellOrdered, TcpOrder

(* The client's own steps keep the account.                                *)
LEMMA ClientTalk ==
  ASSUME Ground, Ground', TcpInv, ClientStep, UNCHANGED <<ownVars, wireVars>>,
         "reopen" \notin AppMay, "overlap" \notin AppMay
  PROVE  TcpTypeOK' /\ (life'[Sock] \in {"raw", "live"} => Talk')
\* After the call a handler is at, setOnDisconnect and connect come only
\* once onSent is set, and no handler sends or reads later than first.
<1>TcpTail.
  ASSUME InOrder(TcpOrder), NEW step, Doing({step}), todo' = Tail(todo)
  PROVE  /\ ~Doing({"sendHello"})' /\ ~Doing({"sendSuccess"})' /\ ~Doing({"recv"})'
         /\ Doing({"setOnDisconnect", "connect"})' => step \in {"setOnSent", "setOnDisconnect"}
         /\ InOrder(TcpOrder)'
  <2> USE <1>TcpTail
  <2>1. todo # <<>> /\ Head(todo) = step BY Zenon DEF Doing
  <2>2. InOrder(TcpOrder)' /\ (todo' # <<>> => <<step, Head(todo')>> \in TcpOrder)
    BY Zenon, <2>1, TodoTail
  <2>3. ASSUME NEW y, <<step, y>> \in TcpOrder
        PROVE  /\ y \notin {"sendHello", "sendSuccess", "recv"}
               /\ y \in {"setOnDisconnect", "connect"} => step \in {"setOnSent", "setOnDisconnect"}
    BY Zenon, <2>3 DEF TcpOrder
  <2> QED BY Zenon, <2>2, <2>3 DEF Doing
\* A call that a handler makes on its way leaves the account as it is, as
\* long as it leaves the handlers ready.
<1>CallTalk.
  ASSUME life[Sock] \in {"raw", "live"}, life' = life,
         UNCHANGED <<impl, posted, terminates, verdict, ownVars, wireVars>>, ForgetFreed,
         impl[Sock] # NULL =>
           \/ istate'[impl[Sock]] = istate[impl[Sock]]
           \/ istate[impl[Sock]] = "connected" /\ istate'[impl[Sock]] \in {"down", "closed"},
         NEW step, step \notin {"sendHello", "sendSuccess", "recv"},
         Doing({step}), todo' = Tail(todo), HandlersReady'
  PROVE  TcpTypeOK' /\ Talk'
  <2> USE <1>CallTalk
  <2>1. TcpTypeOK /\ Talk /\ InOrder(TcpOrder) BY Zenon DEF TcpInv
  <2>2. /\ unsent' \in [Impl -> Nat]
        /\ \A i \in Impl : unsent'[i] \in {unsent[i], 0}
        /\ impl[Sock] # NULL => unsent'[impl[Sock]] = unsent[impl[Sock]]
    BY Zenon, <2>1, ForgetEffect
  <2>3. UNCHANGED <<done, unacked, up, down>> BY Zenon DEF ownVars, wireVars
  <2>4. TcpTypeOK' BY Zenon, <2>1, <2>2, <2>3 DEF TcpTypeOK
  <2>5. SameQueue({"onConnect", "onSent"}) BY Zenon DEF SameQueue
  <2>6. ~Doing({"sendHello"}) /\ ~Doing({"sendSuccess"}) BY Zenon DEF Doing
  <2>7. ~Doing({"sendHello"})' /\ ~Doing({"sendSuccess"})' /\ ~Doing({"recv"})'
    BY Zenon, <2>1, <1>TcpTail
  <2>8. Talk' BY Zenon, <2>1, <2>2, <2>3, <2>5, <2>6, <2>7, TalkFrame
  <2> QED BY Zenon, <2>4, <2>8
\* A step after which the socket is being destroyed, or gone.
<1>GoneTalk.
  ASSUME ForgetFreed, UNCHANGED <<done, unacked>>,
         terminates' \in [BOOLEAN -> Nat]
  PROVE  TcpTypeOK'
  BY Zenon, <1>GoneTalk, ForgetEffect DEF TcpTypeOK, TcpInv
\* The calls of a handler.
<1>LayerCallTalk.
  ASSUME LayerCall
  PROVE  TcpTypeOK' /\ (life'[Sock] \in {"raw", "live"} => Talk')
  <2> USE <1>LayerCallTalk
  <2> DEFINE Goal == TcpTypeOK' /\ (life'[Sock] \in {"raw", "live"} => Talk')
  <2>0. /\ Types /\ Sock \in Obj /\ Func \in Fn /\ on \in [Obj -> [Slot -> Handler]]
        /\ NULL \notin Impl
    BY Zenon, BaseTypes, ClientKnown, ConstantsAssumption DEF Ground, BaseInv, SocketTypeOK
  <2>1. /\ todo' = Tail(todo) /\ ForgetFreed /\ UNCHANGED <<terminates, verdict>>
        /\ TcpTypeOK /\ InOrder(TcpOrder)
        /\ UNCHANGED <<done, unacked, up, down>>
    BY Zenon DEF LayerCall, Below, TcpInv, ownVars, wireVars
  <2>2. life[Sock] = "live" => Talk BY Zenon DEF TcpInv
  <2>3. ASSUME NEW step \in {"setOnError", "setOnReadable", "setOnSent"}, NEW s \in Slot,
               At(step), SetOn(Sock, s, Func), step = "setOnSent" => s = "onSent",
               s # "onConnect"
        PROVE  Goal
    <3>1. /\ life[Sock] = "live" /\ call = Idle /\ UNCHANGED <<life, impl, posted, call, istate>>
          /\ on' = [on EXCEPT ![Sock][s] = Func]
      BY Zenon, <2>3 DEF SetOn, Main, netVars
    <3>2. Doing({step}) BY Zenon, <2>3 DEF At
    <3>3. Doing({"setOnDisconnect", "connect"})' => step = "setOnSent"
      BY Zenon, <2>1, <3>2, <1>TcpTail
    <3>4. /\ on'[Sock]["onConnect"] = on[Sock]["onConnect"]
          /\ on'[Sock]["onSent"] \in {on[Sock]["onSent"], Func}
          /\ step = "setOnSent" => on'[Sock]["onSent"] = Func
      BY Zenon, <2>0, <2>3, <3>1 DEF Slot, SocketSlot
    <3>5. HandlersReady'
      BY Zenon, <2>2, <3>1, <3>3, <3>4 DEF Talk, HandlersReady, Idle
    <3> QED BY Zenon, <2>1, <3>1, <3>2, <3>5, <1>CallTalk
  <2>4. CASE At("resolve") /\ Resolve(Sock, Func)
    <3>1. /\ life[Sock] = "live" /\ UNCHANGED <<life, impl, posted, istate>>
          /\ call'.op = "resolve" /\ on' = [on EXCEPT ![Sock]["onDNS"] = TORN]
      BY Zenon, <2>4 DEF Resolve, BeginAssign, Main, netVars
    <3>2. Doing({"resolve"}) BY Zenon, <2>4 DEF At
    <3>3. ~Doing({"setOnDisconnect", "connect"})'
      <4>1. Doing({"setOnDisconnect", "connect"})' => "resolve" \in {"setOnSent", "setOnDisconnect"}
        BY Zenon, <2>1, <3>2, <1>TcpTail
      <4> QED BY Zenon, <4>1
    <3>4. /\ on'[Sock]["onConnect"] = on[Sock]["onConnect"]
          /\ on'[Sock]["onSent"] = on[Sock]["onSent"]
      BY Zenon, <2>0, <3>1 DEF Slot, SocketSlot
    <3>5. HandlersReady' BY Zenon, <2>2, <3>1, <3>3, <3>4 DEF Talk, HandlersReady
    <3> QED BY Zenon, <2>1, <3>1, <3>2, <3>5, <1>CallTalk
  <2>5. CASE At("setOnDisconnect") /\ SetOnDisconnect(Sock, Func)
    <3>1. /\ life[Sock] = "live" /\ UNCHANGED <<life, impl, posted, istate>>
          /\ call'.op = "setOnDisconnect" /\ on' = [on EXCEPT ![Sock]["onDisconnect"] = TORN]
      BY Zenon, <2>5 DEF SetOnDisconnect, BeginAssign, Main, netVars
    <3>2. Doing({"setOnDisconnect"}) /\ Doing({"setOnDisconnect", "connect"})
      BY Zenon, <2>5 DEF At, Doing
    <3>4. /\ on'[Sock]["onConnect"] = on[Sock]["onConnect"]
          /\ on'[Sock]["onSent"] = on[Sock]["onSent"]
      BY Zenon, <2>0, <3>1 DEF Slot, SocketSlot
    <3>5. HandlersReady' BY Zenon, <2>2, <3>1, <3>2, <3>4 DEF Talk, HandlersReady
    <3> QED BY Zenon, <2>1, <3>1, <3>2, <3>5, <1>CallTalk
  <2>6. CASE At("connect") /\ Connect(Sock, Func)
    <3>1. /\ life[Sock] = "live" /\ UNCHANGED <<life, impl, posted, istate>>
          /\ call'.op = "connect" /\ call'.pc = "copy"
          /\ on' = [on EXCEPT ![Sock]["onConnect"] = TORN]
          /\ impl[Sock] # NULL => istate[impl[Sock]] # "connecting"
      BY Zenon, <2>6 DEF Connect, BeginAssign, Main, netVars
    <3>2. Doing({"connect"}) /\ Doing({"setOnDisconnect", "connect"})
      BY Zenon, <2>6 DEF At, Doing
    <3>4. on'[Sock]["onSent"] = on[Sock]["onSent"]
      BY Zenon, <2>0, <3>1 DEF Slot, SocketSlot
    <3>5. HandlersReady' BY Zenon, <2>2, <3>1, <3>2, <3>4 DEF Talk, HandlersReady
    <3> QED BY Zenon, <2>1, <3>1, <3>2, <3>5, <1>CallTalk
  <2>7. CASE At("open") /\ (AsynchOpen(Sock) \/ DatagramOpen(Sock))
    <3>1. /\ life[Sock] = "live" /\ impl[Sock] = NULL /\ UNCHANGED <<life, posted, call, on>>
          /\ call = Idle
      BY Zenon, <2>7 DEF AsynchOpen, DatagramOpen, Open, Main
    <3>2. PICK i \in Impl : /\ impl' = [impl EXCEPT ![Sock] = i]
                            /\ istate' = [istate EXCEPT ![i] = "open"]
      BY Zenon, <2>7 DEF AsynchOpen, DatagramOpen, Open
    <3>3. impl'[Sock] = i /\ istate'[i] = "open" BY Zenon, <2>0, <3>2 DEF Types
    <3>4. Doing({"open"}) BY Zenon, <2>7 DEF At
    <3>5. /\ ~Doing({"setOnDisconnect", "connect"})' /\ ~Doing({"sendHello"})'
          /\ ~Doing({"sendSuccess"})' /\ ~Doing({"recv"})'
      <4>1. /\ Doing({"setOnDisconnect", "connect"})' => "open" \in {"setOnSent", "setOnDisconnect"}
            /\ ~Doing({"sendHello"})' /\ ~Doing({"sendSuccess"})' /\ ~Doing({"recv"})'
        BY Zenon, <2>1, <3>4, <1>TcpTail
      <4> QED BY Zenon, <4>1
    <3>6. ~Started /\ ~Started' /\ ~Conversing' BY Zenon, <3>1, <3>3 DEF Started, Conversing
    <3>7. unsent' \in [Impl -> Nat] /\ \A j \in Impl : unsent'[j] \in {unsent[j], 0}
      BY Zenon, <2>1, ForgetEffect
    <3>8. TcpTypeOK' BY Zenon, <2>1, <3>7 DEF TcpTypeOK
    <3>9. HandlersReady' BY Zenon, <3>1, <3>3, <3>5 DEF HandlersReady, Idle
    <3>10. ConnectOnce' BY Zenon, <2>2, <3>1, <3>3 DEF Talk, ConnectOnce
    <3>11. SentAlone' BY Zenon, <2>2, <3>1 DEF Talk, SentAlone, SentCallback
    <3>12. SilentAtFirst'
      BY Zenon, <2>1, <2>2, <3>1, <3>5, <3>6, <3>7 DEF Talk, SilentAtFirst, Doing
    <3>13. UnackedCounts' BY Zenon, <3>6 DEF UnackedCounts
    <3> QED BY Zenon, <3>8, <3>9, <3>10, <3>11, <3>12, <3>13 DEF Talk
  <2>8. CASE Doing({"close"}) /\ CloseConnected
    <3>1. Doing({"close"}) BY Zenon, <2>8
    <3>2. life[Sock] = "live" BY Zenon, <3>1, DoingLive DEF Doing, TcpInv, Ground
    <3>3. /\ UNCHANGED <<life, impl, posted, call, on>>
          /\ \/ UNCHANGED istate
             \/ /\ istate' = [istate EXCEPT ![impl[Sock]] = "closed"]
                /\ impl[Sock] # NULL /\ istate[impl[Sock]] = "connected"
      BY Zenon, <2>8 DEF CloseConnected, Close, Connected, socketVars, objVars, netVars
    <3>4. impl[Sock] # NULL =>
             \/ istate'[impl[Sock]] = istate[impl[Sock]]
             \/ istate[impl[Sock]] = "connected" /\ istate'[impl[Sock]] \in {"down", "closed"}
      BY Zenon, <2>0, <3>3 DEF Types
    <3>5. ~Doing({"setOnDisconnect", "connect"})'
      <4>1. Doing({"setOnDisconnect", "connect"})' => "close" \in {"setOnSent", "setOnDisconnect"}
        BY Zenon, <2>1, <3>1, <1>TcpTail
      <4> QED BY Zenon, <4>1
    <3>6. HandlersReady' BY Zenon, <2>2, <3>2, <3>3, <3>4, <3>5, ReadyFrame DEF Talk
    <3> QED BY Zenon, <2>1, <3>1, <3>2, <3>3, <3>4, <3>6, <1>CallTalk
  <2>9. CASE Doing({"delete"}) /\ (DeleteStream(Sock) \/ DeleteDatagram(Sock))
    <3>1. \E x \in {"~TCPAsynch", "~Socket"} : life' = [life EXCEPT ![Sock] = x]
      BY Zenon, <2>9 DEF DeleteStream, DeleteDatagram
    <3>2. life'[Sock] \notin {"raw", "live"} BY Zenon, <2>0, <3>1 DEF Types
    <3>3. TcpTypeOK' BY Zenon, <2>1, <1>GoneTalk DEF TcpTypeOK
    <3> QED BY Zenon, <3>2, <3>3
  <2>10. CASE \/ At("setOnError") /\ SetOn(Sock, "onError", Func)
              \/ At("setOnReadable") /\ SetOn(Sock, "onReadable", Func)
              \/ At("setOnSent") /\ SetOn(Sock, "onSent", Func)
    BY Zenon, <2>3, <2>10 DEF Slot, SocketSlot
  <2> QED BY Zenon, <2>4, <2>5, <2>6, <2>7, <2>8, <2>9, <2>10 DEF LayerCall
\* new: nothing has been sent or posted yet.
<1>NewTalk.
  ASSUME New
  PROVE  TcpTypeOK' /\ Talk'
  <2> USE <1>NewTalk
  <2>0. Types /\ Sock \in Obj BY Zenon, BaseTypes, ClientKnown DEF Ground
  <2>1. /\ Doing({"new"}) /\ todo' = Tail(todo) /\ ForgetFreed /\ UNCHANGED terminates
        /\ TcpTypeOK /\ InOrder(TcpOrder) /\ UNCHANGED <<done, unacked, up, down>>
        /\ Construct(Sock)
    BY Zenon DEF New, At, Below, TcpInv, ownVars, wireVars
  <2>2. /\ life[Sock] = "raw" /\ call = Idle /\ UNCHANGED <<call, posted, istate, on>>
        /\ impl' = [impl EXCEPT ![Sock] = NULL]
    BY Zenon, <2>1 DEF Construct, NewStream, NewListener, NewDatagram, SocketCtor, netVars
  <2>3. impl[Sock] = NULL /\ impl'[Sock] = NULL
    BY Zenon, <2>0, <2>2 DEF Types, Ground, OwnershipInv, Ownership, Exists
  <2>4. Talk BY Zenon, <2>2 DEF TcpInv
  <2>5. /\ ~Doing({"setOnDisconnect", "connect"})' /\ ~Doing({"sendHello"})'
        /\ ~Doing({"sendSuccess"})' /\ ~Doing({"recv"})'
    <3>1. /\ Doing({"setOnDisconnect", "connect"})' => "new" \in {"setOnSent", "setOnDisconnect"}
          /\ ~Doing({"sendHello"})' /\ ~Doing({"sendSuccess"})' /\ ~Doing({"recv"})'
      BY Zenon, <2>1, <1>TcpTail
    <3> QED BY Zenon, <3>1
  <2>6. ~Started /\ ~Started' /\ ~Conversing' BY Zenon, <2>3 DEF Started, Conversing
  <2>7. unsent' \in [Impl -> Nat] /\ \A j \in Impl : unsent'[j] \in {unsent[j], 0}
    BY Zenon, <2>1, ForgetEffect
  <2>8. TcpTypeOK' BY Zenon, <2>1, <2>7 DEF TcpTypeOK
  <2>9. HandlersReady' BY Zenon, <2>2, <2>3, <2>5 DEF HandlersReady, Idle
  <2>10. ConnectOnce' BY Zenon, <2>2, <2>3, <2>4 DEF Talk, ConnectOnce
  <2>11. SentAlone' BY Zenon, <2>2, <2>4 DEF Talk, SentAlone, SentCallback
  <2>12. SilentAtFirst'
    BY Zenon, <2>1, <2>2, <2>4, <2>5, <2>6, <2>7 DEF Talk, SilentAtFirst, Doing
  <2>13. UnackedCounts' BY Zenon, <2>6 DEF UnackedCounts
  <2> QED BY Zenon, <2>8, <2>9, <2>10, <2>11, <2>12, <2>13 DEF Talk
\* A step that changes nothing of the layer but, perhaps, the rest of a
\* request, and after which the handler goes on or is given up.
<1>RestTalk.
  ASSUME life[Sock] \in {"raw", "live"}, life' = life,
         UNCHANGED <<impl, istate, posted, ownVars, wireVars>>, TcpTypeOK',
         ForgetFreed \/ UNCHANGED unsent,
         terminates[TRUE] = 0 => terminates'[TRUE] = 0,
         \/ todo' = todo
         \/ verdict' # "none"
         \/ ~Doing({"sendHello"}) /\ ~Doing({"sendSuccess"}),
         todo' = todo \/ ~Doing({"sendHello", "sendSuccess", "recv"})',
         verdict' = "none" => verdict = "none", HandlersReady'
  PROVE  Talk'
  <2> USE <1>RestTalk
  <2>1. TcpTypeOK /\ Talk BY Zenon DEF TcpInv
  <2>2. /\ \A i \in Impl : unsent'[i] \in {unsent[i], 0}
        /\ impl[Sock] # NULL => unsent'[impl[Sock]] = unsent[impl[Sock]]
    BY Zenon, <2>1, ForgetEffect
  <2>3. UNCHANGED <<done, unacked, up, down>> BY Zenon DEF ownVars, wireVars
  <2>5. SameQueue({"onConnect", "onSent"}) BY Zenon DEF SameQueue
  <2>6. \/ todo' = todo
        \/ ~Doing({"sendHello"})' /\ ~Doing({"sendSuccess"})' /\ ~Doing({"recv"})'
    BY Zenon DEF Doing
  <2>7. CASE \/ todo' = todo
             \/ ~Doing({"sendHello"}) /\ ~Doing({"sendSuccess"})
    <3>1. /\ Doing({"sendHello"})' <=> Doing({"sendHello"})
          /\ Doing({"sendSuccess"})' <=> Doing({"sendSuccess"})
          /\ Doing({"recv"})' => Doing({"recv"})
      BY Zenon, <2>6, <2>7 DEF Doing
    <3>2. Started \/ ~Doing({"recv"})' BY Zenon, <2>1, <3>1 DEF Talk, SilentAtFirst, Doing
    <3> QED BY Zenon, <2>1, <2>2, <2>3, <2>5, <3>1, <3>2, TalkFrame
  <2>8. CASE verdict' # "none" /\ todo' # todo
    <3>1. ~Conversing' /\ UnackedCounts' BY Zenon, <2>8 DEF Conversing, UnackedCounts
    <3>2. ConnectOnce' /\ SentAlone' BY Zenon, <2>1 DEF Talk, ConnectOnce, SentAlone, SentCallback
    <3>3. Started' <=> Started BY Zenon DEF Started
    <3>4. ~Doing({"sendHello", "sendSuccess", "recv"})' BY Zenon, <2>8
    <3>5. SilentAtFirst'
      BY Zenon, <2>1, <2>2, <2>3, <3>3, <3>4 DEF Talk, SilentAtFirst
    <3> QED BY Zenon, <3>1, <3>2, <3>5 DEF Talk
  <2> QED BY Zenon, <2>7, <2>8
\* The rest of a request: when the stack has taken connect on, its handler
\* is in place.
<1>ProceedTalk.
  ASSUME Proceed
  PROVE  TcpTypeOK' /\ (life'[Sock] \in {"raw", "live"} => Talk')
  <2> USE <1>ProceedTalk
  <2>0. /\ Types /\ Sock \in Obj /\ Func \in Fn /\ on \in [Obj -> [Slot -> Handler]]
        /\ NULL \notin Impl /\ call \in Call /\ CallOK
    BY Zenon, BaseTypes, ClientKnown, ConstantsAssumption DEF Ground, BaseInv, SocketTypeOK
  <2>1. /\ ForgetFreed /\ Continue /\ UNCHANGED terminates
        /\ UNCHANGED <<done, unacked, up, down>> /\ TcpTypeOK
        /\ (todo' = todo /\ UNCHANGED verdict) \/ (todo' = <<>> /\ verdict' = "failed")
    BY Zenon DEF Proceed, Below, TcpInv, ownVars, wireVars, Assert
  <2>2. unsent' \in [Impl -> Nat] /\ \A j \in Impl : unsent'[j] \in {unsent[j], 0}
    BY Zenon, <2>1, ForgetEffect
  <2>3. TcpTypeOK' BY Zenon, <2>1, <2>2 DEF TcpTypeOK
  <2>4. UNCHANGED <<life, impl, posted>> BY Zenon, <2>1, ContinueQuiet
  <2>5. /\ todo' = todo \/ verdict' # "none"
        /\ todo' = todo \/ ~Doing({"sendHello", "sendSuccess", "recv"})'
        /\ verdict' = "none" => verdict = "none"
        /\ Doing({"setOnDisconnect", "connect"})' => Doing({"setOnDisconnect", "connect"})
    BY Zenon, <2>1 DEF Doing
  <2> SUFFICES ASSUME life[Sock] \in {"raw", "live"} PROVE Talk'
    BY Zenon, <2>3, <2>4
  <2>6. Talk BY Zenon DEF TcpInv
  <2>7. ASSUME UNCHANGED istate, HandlersReady' PROVE Talk'
    BY Zenon, <2>1, <2>3, <2>4, <2>5, <2>7, <1>RestTalk
  <2>8. CASE EndAssign
    <3>1. /\ call.op # "idle" /\ call.pc = "copy" /\ UNCHANGED istate
          /\ on' = [on EXCEPT ![call.obj][call.slot] = call.fn]
          /\ call' = Idle \/ call' = [call EXCEPT !.pc = "api"]
      BY Zenon, <2>8 DEF EndAssign, netVars
    <3>2. call.op \in {"resolve", "connect", "setOnDisconnect"} /\ ClientCall
      BY Zenon, <2>0, <3>1 DEF CallOK, Call, TcpInv, OnlyClient, ClientCall
    <3>3. call.obj = Sock /\ call.slot \in {"onDNS", "onConnect", "onDisconnect"}
      BY Zenon, <3>1, <3>2 DEF ClientCall
    <3>4. /\ call.slot # "onConnect" => on'[Sock]["onConnect"] = on[Sock]["onConnect"]
          /\ call.slot = "onConnect" => on'[Sock]["onConnect"] = call.fn
          /\ on'[Sock]["onSent"] = on[Sock]["onSent"]
      BY Zenon, <2>0, <3>1, <3>3 DEF Slot, SocketSlot
    <3>5. call.op = "connect" => on'[Sock]["onConnect"] = Func BY Zenon, <3>2, <3>4 DEF ClientCall
    <3>6. call.op # "connect" => on'[Sock]["onConnect"] = on[Sock]["onConnect"]
      BY Zenon, <3>2, <3>4 DEF ClientCall
    <3>7. call'.op \in {"idle", call.op} BY <2>0, <3>1 DEF Call, Idle
    <3>8. HandlersReady'
      BY Zenon, <2>4, <2>5, <2>6, <3>1, <3>4, <3>5, <3>6, <3>7 DEF Talk, HandlersReady
    <3> QED BY Zenon, <2>7, <3>1, <3>8
  <2>9. CASE (ResolveApi \/ ConnectApi) /\ UNCHANGED istate
    <3>1. call' = Idle /\ UNCHANGED on
      BY Zenon, <2>9 DEF ResolveApi, ConnectApi, StackAnswers, objVars
    <3>2. HandlersReady' BY Zenon, <2>4, <2>5, <2>6, <2>9, <3>1, ReadyFrame DEF Talk, Idle
    <3> QED BY Zenon, <2>7, <2>9, <3>2
  <2>10. CASE ConnectApi /\ ~UNCHANGED istate
    <3>1. /\ call.op = "connect" /\ call.pc = "api" /\ call' = Idle /\ UNCHANGED on
          /\ impl[call.obj] # NULL /\ istate[impl[call.obj]] \in {"open", "bound"}
          /\ istate' = [istate EXCEPT ![impl[call.obj]] = "connecting"]
      BY Zenon, <2>10 DEF ConnectApi, StackAnswers, NoStackChange, netVars, objVars
    <3>2. call.obj = Sock BY Zenon, <3>1 DEF TcpInv, OnlyClient, ClientCall
    <3>3. /\ istate'[impl[Sock]] = "connecting" /\ istate[impl[Sock]] \in {"open", "bound"}
          /\ impl[Sock] # NULL
      BY Zenon, <2>0, <3>1, <3>2 DEF Types
    <3>4. istate[impl[Sock]] = "open" BY Zenon, <2>6, <3>3 DEF Talk, ConnectOnce
    <3>5. ~Started /\ ~Started' /\ ~Conversing' /\ UnackedCounts'
      BY Zenon, <2>4, <3>3 DEF Started, Conversing, UnackedCounts
    <3>6. HandlersReady' BY Zenon, <2>4, <2>6, <3>1, <3>3 DEF Talk, HandlersReady, Idle
    <3>7. ConnectOnce' BY Zenon, <2>4, <2>6, <3>3, <3>4 DEF Talk, ConnectOnce
    <3>8. SentAlone' BY Zenon, <2>4, <2>6 DEF Talk, SentAlone, SentCallback
    <3>9. SilentAtFirst'
      BY Zenon, <2>1, <2>2, <2>4, <2>6, <3>5 DEF Talk, SilentAtFirst, Doing
    <3> QED BY Zenon, <3>5, <3>6, <3>7, <3>8, <3>9 DEF Talk
  <2>11. ResolveApi => UNCHANGED istate
    BY Zenon DEF ResolveApi, StackAnswers, NoStackChange, netVars
  <2>12. ~StartListeningApi BY Zenon DEF StartListeningApi, StackAnswers, TcpInv, OnlyClient, ClientCall
  <2> QED BY Zenon, <2>1, <2>8, <2>9, <2>10, <2>11, <2>12 DEF Continue
<1> DEFINE Goal == TcpTypeOK' /\ (life'[Sock] \in {"raw", "live"} => Talk')
<1>0. Types /\ Sock \in Obj /\ life[Sock] \in Life /\ TcpTypeOK /\ PointerInv
  BY Zenon, BaseTypes, ClientKnown DEF Ground, TcpInv, Types
<1>1. UNCHANGED <<done, unacked, up, down>> BY Zenon DEF ownVars, wireVars
<1>2. ASSUME UNCHANGED <<allVars, terminates>>, todo' = <<>>, verdict' # "none" PROVE Goal
  <2>1. UNCHANGED <<life, impl, istate, posted, on, call, unsent>>
    BY Zenon, <1>2 DEF allVars, vars, socketVars, objVars, netVars, dataVars
  <2>2. TcpTypeOK' BY Zenon, <1>0, <1>1, <1>2, <2>1 DEF TcpTypeOK
  <2>3. /\ ~Doing({"sendHello", "sendSuccess", "recv"})'
        /\ ~Doing({"setOnDisconnect", "connect"})'
    BY Zenon, <1>2 DEF Doing
  <2>4. ASSUME life[Sock] \in {"raw", "live"} PROVE Talk'
    <3>1. HandlersReady' BY Zenon, <2>1, <2>3, <2>4, ReadyFrame DEF TcpInv, Talk
    <3> QED BY Zenon, <1>2, <2>1, <2>2, <2>3, <2>4, <3>1, <1>RestTalk
  <2> QED BY Zenon, <2>1, <2>2, <2>4
<1>3. CASE OpenRefused BY Zenon, <1>2, <1>3 DEF OpenRefused, Assert
<1>4. CASE Finish BY Zenon, <1>2, <1>4 DEF Finish, Doing
<1>5. CASE Destroy
  <2>1. ForgetFreed /\ UNCHANGED terminates BY Zenon, <1>5 DEF Destroy, Below, echoVars
  <2>2. TcpTypeOK' BY Zenon, <1>0, <1>1, <2>1, <1>GoneTalk DEF TcpTypeOK
  <2>3. \E x \in {"~Socket", "dead"} : life' = [life EXCEPT ![Sock] = x]
    BY Zenon, <1>5 DEF Destroy, Below, AsynchDtor, SocketDtor
  <2> QED BY Zenon, <1>0, <2>2, <2>3 DEF Types
<1>6. ASSUME NEW status \in BOOLEAN, Terminate(status) PROVE Goal
  <2>1. /\ UNCHANGED <<life, impl, istate, posted, on, call, unsent>> /\ UNCHANGED verdict
        /\ todo = <<>> /\ terminates[status] > 0
        /\ terminates' = [terminates EXCEPT ![status] = @ - 1]
    BY Zenon, <1>6 DEF Terminate, allVars, vars, socketVars, objVars, netVars, dataVars
  <2>2. todo' = <<>> \/ Head(todo') = "close" BY <1>6 DEF Terminate
  <2>3. terminates' \in [BOOLEAN -> Nat] /\ (terminates[TRUE] = 0 => terminates'[TRUE] = 0)
    <3>1. terminates \in [BOOLEAN -> Nat] BY Zenon, <1>0 DEF TcpTypeOK
    <3>2. terminates[status] - 1 \in Nat BY <2>1, <3>1
    <3>3. terminates' \in [BOOLEAN -> Nat] BY Zenon, <2>1, <3>1, <3>2
    <3>4. CASE status = TRUE
      <4>0. terminates[status] # 0 BY <2>1
      <4>1. terminates[TRUE] # 0 BY <3>4, <4>0, Zenon
      <4> QED BY Zenon, <3>3, <4>1
    <3>5. CASE status = FALSE BY Zenon, <2>1, <3>1, <3>3, <3>5
    <3> QED BY Zenon, <3>3, <3>4, <3>5
  <2>4. TcpTypeOK' BY Zenon, <1>0, <1>1, <2>1, <2>3 DEF TcpTypeOK
  <2>5. /\ ~Doing({"sendHello", "sendSuccess", "recv"})'
        /\ ~Doing({"sendHello"}) /\ ~Doing({"sendSuccess"})
        /\ ~Doing({"setOnDisconnect", "connect"})'
    BY Zenon, <2>1, <2>2 DEF Doing
  <2>6. life[Sock] # "raw" BY Zenon, <2>1, <1>0 DEF PointerInv, Doing
  <2>0. CASE life[Sock] # "live" BY Zenon, <2>1, <2>4, <2>6, <2>0
  <2> SUFFICES ASSUME life[Sock] = "live" PROVE Goal
    BY Zenon, <2>0
  <2>7. HandlersReady' BY Zenon, <2>1, <2>5, <2>6, ReadyFrame DEF TcpInv, Talk
  <2>8. Talk' BY Zenon, <2>1, <2>3, <2>4, <2>5, <2>6, <2>7, <1>RestTalk
  <2> QED BY Zenon, <2>4, <2>8
<1> QED BY Zenon, <1>3, <1>4, <1>5, <1>6, <1>NewTalk, <1>LayerCallTalk, <1>ProceedTalk DEF ClientStep

-----------------------------------------------------------------------------
(* The handlers.                                                           *)

(* What the handlers set out to do is in order.                            *)
LEMMA TcpScripts ==
  ASSUME \/ todo' = <<>> \/ todo' = <<"recv">> \/ todo' = <<"sendHello">>
         \/ todo' = <<"sendSuccess">>
         \/ todo' = <<"setOnReadable", "setOnSent", "setOnDisconnect", "connect">>
  PROVE  /\ InOrder(TcpOrder)'
         /\ todo' = <<>> \/ Head(todo') \in {"recv", "sendHello", "sendSuccess", "setOnReadable"}
<1>1. CASE todo' = <<>> BY <1>1 DEF InOrder
<1>2. ASSUME NEW x \in {"recv", "sendHello", "sendSuccess"}, todo' = <<x>>
      PROVE  InOrder(TcpOrder)' /\ Head(todo') = x
  <2>1. x \in Step /\ x # "delete" BY Zenon DEF Step
  <2>2. Len(todo') = 1 /\ todo'[1] = x /\ todo' \in Seq(Step) /\ Head(todo') = x
    BY <1>2, <2>1
  <2> QED BY <2>1, <2>2 DEF InOrder
<1>3. CASE todo' = <<"setOnReadable", "setOnSent", "setOnDisconnect", "connect">>
  <2>1. /\ Len(todo') = 4 /\ todo' \in Seq(Step) /\ Head(todo') = "setOnReadable"
        /\ todo'[1] = "setOnReadable" /\ todo'[2] = "setOnSent"
        /\ todo'[3] = "setOnDisconnect" /\ todo'[4] = "connect"
    BY <1>3 DEF Step
  <2>2. ASSUME NEW k \in 1..4
        PROVE  /\ k < 4 => <<todo'[k], todo'[k + 1]>> \in TcpOrder
               /\ todo'[k] # "delete"
    <3>1. CASE k = 1 BY <2>1, <3>1 DEF TcpOrder
    <3>2. CASE k = 2 BY <2>1, <3>2 DEF TcpOrder
    <3>3. CASE k = 3 BY <2>1, <3>3 DEF TcpOrder
    <3>4. CASE k = 4 BY <2>1, <3>4
    <3> QED BY <3>1, <3>2, <3>3, <3>4
  <2> QED BY Zenon, <2>1, <2>2 DEF InOrder
<1> QED BY Zenon, <1>1, <1>2, <1>3

-----------------------------------------------------------------------------
(* The invariant and what it gives.                                        *)

(* The client's invariant holds at first.                                  *)
LEMMA TcpInitial == ASSUME TcpInit PROVE TcpInv
<1>1. /\ life = [o \in Obj |-> "raw"] /\ impl = [o \in Obj |-> NULL] /\ call = Idle
      /\ posted = <<>> /\ sink = [i \in Impl |-> NULL] /\ unsent = [i \in Impl |-> 0]
      /\ client = NULL /\ todo = <<"new", "setOnError", "open", "resolve">>
      /\ terminates = [status \in BOOLEAN |-> 0]
      /\ done = FALSE /\ unacked \in 0..(Wrap - 1) /\ up = <<>> /\ down = 0
  BY DEF TcpInit, EchoInit, Init, SocketInit, DataInit
<1>2. Sock \in Obj /\ life[Sock] = "raw" /\ impl[Sock] = NULL BY Zenon, <1>1, ClientKnown
<1>3. terminates[TRUE] = 0 /\ terminates \in [BOOLEAN -> Nat] BY Zenon, <1>1
<1>4. TcpTypeOK BY Zenon, <1>1, <1>3 DEF TcpTypeOK
<1>5. Head(todo) = "new" /\ todo # <<>> BY <1>1
<1>6. OnlyClient
  <2>1. ClientCall BY Zenon, <1>1 DEF ClientCall, Idle
  <2>2. DOMAIN posted = {} BY <1>1
  <2> QED BY Zenon, <1>1, <2>1, <2>2 DEF OnlyClient
<1>7. PointerInv BY Zenon, <1>1, <1>2, <1>5 DEF PointerInv, Doing
<1>8. InOrder(TcpOrder)
  <2>1. /\ Len(todo) = 4 /\ todo \in Seq(Step)
        /\ todo[1] = "new" /\ todo[2] = "setOnError" /\ todo[3] = "open" /\ todo[4] = "resolve"
    BY <1>1 DEF Step
  <2>2. ASSUME NEW k \in 1..4
        PROVE  /\ k < 4 => <<todo[k], todo[k + 1]>> \in TcpOrder
               /\ todo[k] # "delete"
    <3>1. CASE k = 1 BY <2>1, <3>1 DEF TcpOrder
    <3>2. CASE k = 2 BY <2>1, <3>2 DEF TcpOrder
    <3>3. CASE k = 3 BY <2>1, <3>3 DEF TcpOrder
    <3>4. CASE k = 4 BY <2>1, <3>4
    <3> QED BY <3>1, <3>2, <3>3, <3>4
  <2> QED BY Zenon, <2>1, <2>2 DEF InOrder
<1>9. DOMAIN posted = {} BY <1>1
<1>10. /\ ~Doing({"setOnDisconnect", "connect"}) /\ call.op = "idle"
       /\ ~Doing({"sendHello", "sendSuccess", "recv"})
  BY Zenon, <1>1, <1>5 DEF Doing, Idle
<1>11. HandlersReady BY Zenon, <1>2, <1>10 DEF HandlersReady
<1>12. ConnectOnce /\ SentAlone BY Zenon, <1>2, <1>9 DEF ConnectOnce, SentAlone
<1>13. SilentAtFirst BY Zenon, <1>1, <1>3, <1>9, <1>10 DEF SilentAtFirst
<1>14. UnackedCounts BY Zenon, <1>2 DEF UnackedCounts, Conversing
<1> QED BY Zenon, <1>4, <1>6, <1>7, <1>8, <1>11, <1>12, <1>13, <1>14 DEF TcpInv, Talk

(* The handlers keep the invariant.                                        *)
LEMMA HandlerSteps ==
  ASSUME Ground, Ground', TcpInv, NEW c \in DOMAIN posted,
         OnDNS(c) \/ OnConnect(c) \/ OnRx(c) \/ OnSent(c) \/ OnDisconnect(c) \/ OnError(c)
  PROVE  TcpInv'
\* What running a callback does, before the handler does anything.
<1>RunEffect.
  ASSUME NEW slot, Run(c, slot)
  PROVE  /\ TcpTypeOK /\ Talk /\ life[Sock] = "live" /\ life'[Sock] = "live"
         /\ todo = <<>> /\ c.slot = slot /\ posted' = Dequeue(posted, c)
         /\ UNCHANGED <<impl, istate, on, call, verdict>>
         /\ unsent' \in [Impl -> Nat]
         /\ \A i \in Impl : unsent'[i] \in {unsent[i], 0}
         /\ impl[Sock] # NULL => impl[Sock] \in Impl /\ unsent'[impl[Sock]] = unsent[impl[Sock]]
  <2> USE <1>RunEffect
  <2>1. /\ todo = <<>> /\ verdict = "none" /\ c.slot = slot /\ posted' = Dequeue(posted, c)
        /\ UNCHANGED <<life, impl, istate, on, call, verdict>> /\ ForgetFreed
    BY Zenon DEF Run, Below, RunCallback, objVars, netVars
  <2>2. life[Sock] = "live" BY Zenon, <2>1, RestingLive DEF Ground, TcpInv
  <2>3. TcpTypeOK /\ Talk BY Zenon, <2>2 DEF TcpInv
  <2> QED BY Zenon, <2>1, <2>2, <2>3, ForgetEffect
\* The handlers that neither start the conversation nor count.
<1>RunTalk.
  ASSUME NEW slot, Run(c, slot),
         slot \notin {"onConnect", "onSent"}, UNCHANGED <<unacked, wireVars>>,
         done' \in BOOLEAN, done => done',
         terminates' \in [BOOLEAN -> Nat], terminates'[TRUE] = terminates[TRUE],
         todo' = <<>> \/ Head(todo') \in {"recv", "setOnReadable"},
         Doing({"recv"})' => slot = "onReadable"
  PROVE  TcpTypeOK' /\ Talk'
  <2> USE <1>RunTalk
  <2>1. /\ TcpTypeOK /\ Talk /\ life[Sock] = "live" /\ life'[Sock] = "live"
        /\ todo = <<>> /\ c.slot = slot /\ posted' = Dequeue(posted, c)
        /\ UNCHANGED <<impl, istate, on, call, verdict>>
        /\ unsent' \in [Impl -> Nat]
        /\ \A i \in Impl : unsent'[i] \in {unsent[i], 0}
        /\ impl[Sock] # NULL => unsent'[impl[Sock]] = unsent[impl[Sock]]
    BY Zenon, <1>RunEffect
  <2>2. TcpTypeOK' BY Zenon, <2>1 DEF TcpTypeOK
  <2>3. SameQueue({"onConnect", "onSent"}) BY Zenon, <2>1, QueueOther
  <2>4. /\ ~Doing({"sendHello"}) /\ ~Doing({"sendSuccess"})
        /\ ~Doing({"sendHello"})' /\ ~Doing({"sendSuccess"})'
        /\ ~Doing({"setOnDisconnect", "connect"})'
    BY Zenon, <2>1 DEF Doing
  <2>5. HandlersReady' BY Zenon, <2>1, <2>4, ReadyFrame DEF Talk
  <2>6. slot = "onReadable" => Started BY Zenon, <2>1 DEF Talk, SilentAtFirst
  <2>7. DOMAIN posted' \subseteq DOMAIN posted BY Zenon, <2>1, DequeueDomain
  <2>8. up' = up /\ down' = down BY Zenon DEF wireVars
  <2>9. Started \/ /\ ~Doing({"recv"})' /\ up' = up /\ down' = down
                   /\ \A d \in DOMAIN posted' : d.slot = "onReadable" => d \in DOMAIN posted
    BY Zenon, <2>6, <2>7, <2>8
  <2>10. Talk' BY Zenon, <2>1, <2>3, <2>4, <2>5, <2>9, TalkFrame
  <2> QED BY Zenon, <2>2, <2>10
\* onConnect: the conversation starts with what it is about to send.
<1>OnConnectTalk.
  ASSUME OnConnect(c)
  PROVE  TcpTypeOK' /\ Talk'
  <2> USE <1>OnConnectTalk
  <2>0. /\ Run(c, "onConnect") /\ unacked' = Hello /\ todo' = <<"sendHello">>
        /\ UNCHANGED <<terminates, done>>
    BY Zenon DEF OnConnect
  <2>1. /\ TcpTypeOK /\ Talk /\ life[Sock] = "live" /\ life'[Sock] = "live"
        /\ todo = <<>> /\ c.slot = "onConnect" /\ posted' = Dequeue(posted, c)
        /\ UNCHANGED <<impl, istate, on, call, verdict>>
        /\ unsent' \in [Impl -> Nat]
        /\ \A i \in Impl : unsent'[i] \in {unsent[i], 0}
        /\ impl[Sock] # NULL => impl[Sock] \in Impl /\ unsent'[impl[Sock]] = unsent[impl[Sock]]
    BY Zenon, <2>0, <1>RunEffect
  <2>2. TcpTypeOK' BY <2>0, <2>1, LengthAssumption DEF TcpTypeOK
  <2>3. /\ Doing({"sendHello"})' /\ ~Doing({"sendSuccess"})'
        /\ ~Doing({"setOnDisconnect", "connect"})'
    <3>1. Head(todo') = "sendHello" /\ todo' # <<>> BY <2>0
    <3> QED BY Zenon, <3>1 DEF Doing
  <2>4. HandlersReady' BY Zenon, <2>1, <2>3, ReadyFrame DEF Talk
  <2>5. ~Started BY Zenon, <2>1 DEF Started
  <2>6. /\ \A i \in Impl : unsent[i] = 0
        /\ \A d \in DOMAIN posted : d.slot # "onSent"
        /\ terminates[TRUE] = 0
    BY Zenon, <2>1, <2>5 DEF Talk, SilentAtFirst
  <2>7. posted[c] = 1 /\ \A d \in DOMAIN posted : d.slot = "onConnect" => d = c
    BY Zenon, <2>1 DEF Talk, ConnectOnce
  <2>8. DOMAIN posted' = DOMAIN posted \ {c} BY Zenon, <2>1, <2>7 DEF Dequeue
  <2>9. /\ \A d \in DOMAIN posted' : d.slot # "onConnect"
        /\ \A d \in DOMAIN posted' : d.slot # "onSent"
    BY Zenon, <2>6, <2>7, <2>8
  <2>10. impl[Sock] # NULL /\ istate[impl[Sock]] \in {"connected", "down", "closed"}
    BY Zenon, <2>1 DEF Talk, ConnectOnce
  <2>11. Started' /\ SilentAtFirst' BY Zenon, <2>1, <2>9, <2>10 DEF Started, SilentAtFirst
  <2>12. ConnectOnce' BY Zenon, <2>1, <2>9, <2>10 DEF ConnectOnce
  <2>13. SentAlone' /\ SentPosted' = 0
    <3>1. SentCallback' = SentCallback /\ SentCallback.slot = "onSent" BY Zenon DEF SentCallback
    <3> QED BY Zenon, <2>9, <3>1 DEF SentAlone, SentPosted
  <2>14. UnackedCounts'
    <3>1. AboutToSend' = Hello BY Zenon, <2>3 DEF AboutToSend
    <3>2. unsent'[impl'[Sock]] = 0 BY Zenon, <2>1, <2>6, <2>10
    <3>3. unacked' = unsent'[impl'[Sock]] + SentPosted' + AboutToSend'
      BY <2>0, <2>13, <3>1, <3>2, LengthAssumption
    <3>4. unacked' <= Hello + (IF done' \/ Doing({"sendSuccess"})' THEN Success ELSE 0)
      BY <2>0, LengthAssumption
    <3>5. terminates'[TRUE] = 0 BY Zenon, <2>0, <2>6
    <3> QED BY Zenon, <3>3, <3>4, <3>5 DEF UnackedCounts
  <2> QED BY Zenon, <2>2, <2>4, <2>11, <2>12, <2>13, <2>14 DEF Talk
\* onSent: one less is unacknowledged, and at 0 the test is over.
<1>OnSentTalk.
  ASSUME OnSent(c)
  PROVE  TcpTypeOK' /\ Talk'
  <2> USE <1>OnSentTalk
  <2>0. /\ Run(c, "onSent") /\ unacked' = (unacked + Wrap - 1) % Wrap
        /\ UNCHANGED <<todo, done, up, down>>
        /\ IF done /\ unacked' = 0 THEN Post(TRUE) ELSE UNCHANGED terminates
    BY Zenon DEF OnSent, AllSent, wireVars
  <2>1. /\ TcpTypeOK /\ Talk /\ life[Sock] = "live" /\ life'[Sock] = "live"
        /\ todo = <<>> /\ c.slot = "onSent" /\ posted' = Dequeue(posted, c)
        /\ UNCHANGED <<impl, istate, on, call, verdict>>
        /\ unsent' \in [Impl -> Nat]
        /\ impl[Sock] # NULL => impl[Sock] \in Impl /\ unsent'[impl[Sock]] = unsent[impl[Sock]]
    BY Zenon, <2>0, <1>RunEffect
  <2>2. /\ unacked \in 0..(Wrap - 1) /\ terminates \in [BOOLEAN -> Nat]
        /\ unsent \in [Impl -> Nat] /\ done \in BOOLEAN /\ Wrap \in Nat
    BY Zenon, <2>1, LengthAssumption DEF TcpTypeOK
  <2>3. unacked' \in 0..(Wrap - 1) /\ (unacked > 0 => unacked' = unacked - 1)
    <3>1. unacked + Wrap - 1 \in Nat BY <2>2, LengthAssumption
    <3>2. unacked' \in 0..(Wrap - 1) BY Zenon, <2>0, <3>1, WrapType
    <3>3. ASSUME unacked > 0 PROVE unacked' = unacked - 1
      <4>1. unacked - 1 \in 0..(Wrap - 1) /\ unacked + Wrap - 1 = (unacked - 1) + Wrap
        BY <2>2, <3>3
      <4> QED BY Zenon, <2>0, <4>1, WrapSmall
    <3> QED BY Zenon, <3>2, <3>3
  <2>4. terminates' \in [BOOLEAN -> Nat]
    <3>1. CASE done /\ unacked' = 0
      <4>1. Post(TRUE) BY Zenon, <2>0, <3>1
      <4> QED BY <2>2, <4>1, PostType, Zenon
    <3>2. CASE ~(done /\ unacked' = 0) BY <2>0, <2>2, <3>2, Zenon
    <3> QED BY Zenon, <3>1, <3>2
  <2>5. TcpTypeOK' BY Zenon, <2>0, <2>1, <2>2, <2>3, <2>4 DEF TcpTypeOK
  <2>6. Started BY Zenon, <2>1 DEF Talk, SilentAtFirst
  <2>7. SameQueue({"onConnect"}) BY Zenon, <2>1, QueueOther
  <2>8. ~Doing({"setOnDisconnect", "connect"})' BY Zenon, <2>0, <2>1 DEF Doing
  <2>9. HandlersReady' BY Zenon, <2>1, <2>8, ReadyFrame DEF Talk
  <2>10. Started' /\ SilentAtFirst' BY Zenon, <2>1, <2>6, <2>7 DEF Started, SilentAtFirst, SameQueue
  <2>11. ConnectOnce' BY Zenon, <2>1, <2>7, ConnectSame DEF Talk
  <2>12. SentAlone /\ c = SentCallback /\ SentCallback' = SentCallback
    BY Zenon, <2>1 DEF Talk, SentAlone, SentCallback
  <2>13. posted[c] \in Nat \ {0} BY Zenon DEF Ground, BaseInv, SocketTypeOK
  <2>14. SentPosted = posted[c] /\ SentPosted' = posted[c] - 1
    BY <2>1, <2>12, <2>13 DEF SentPosted, Dequeue
  <2>15. SentAlone'
    <3>1. DOMAIN posted' \subseteq DOMAIN posted BY Zenon, <2>1, DequeueDomain
    <3> QED BY Zenon, <2>12, <3>1 DEF SentAlone
  <2>16. UnackedCounts'
    <3> SUFFICES ASSUME Conversing' PROVE UnackedCounts'
      BY Zenon DEF UnackedCounts
    <3>1. Conversing BY Zenon, <2>1, <2>7 DEF Conversing, SameQueue
    <3>2. AboutToSend = 0 /\ AboutToSend' = 0 BY Zenon, <2>0, <2>1 DEF AboutToSend, Doing
    <3>3. /\ unacked = unsent[impl[Sock]] + SentPosted + AboutToSend
          /\ unacked <= Hello + (IF done \/ Doing({"sendSuccess"}) THEN Success ELSE 0)
          /\ terminates[TRUE] # 0 => done /\ unacked = 0
      BY Zenon, <2>1, <3>1 DEF Talk, UnackedCounts
    <3>4. unsent[impl[Sock]] \in Nat /\ unsent'[impl'[Sock]] = unsent[impl[Sock]]
      BY Zenon, <2>1, <2>2, <3>1 DEF Conversing
    <3>5. PICK a, p \in Nat : a = unsent[impl[Sock]] /\ p = posted[c] /\ p # 0 BY Zenon, <2>13, <3>4
    <3>51. unacked = a + p + 0 BY Zenon, <2>14, <3>2, <3>3, <3>5
    <3>52. unacked > 0 /\ unacked' = a + (p - 1) + 0 BY <2>3, <3>5, <3>51
    <3>6. unacked' = unsent'[impl'[Sock]] + SentPosted' + AboutToSend'
      BY Zenon, <2>14, <3>2, <3>4, <3>5, <3>52
    <3>7. ~Doing({"sendSuccess"}) /\ ~Doing({"sendSuccess"})' BY Zenon, <2>0, <2>1 DEF Doing
    <3>8. unacked' <= Hello + (IF done' \/ Doing({"sendSuccess"})' THEN Success ELSE 0)
      BY <2>0, <2>2, <2>3, <3>3, <3>52, <3>7, LengthAssumption
    <3>9. terminates'[TRUE] # 0 => done' /\ unacked' = 0
      <4>0. unacked # 0 BY <2>2, <3>52
      <4>1. terminates[TRUE] = 0 BY <3>3, <4>0, Zenon
      <4> QED BY Zenon, <2>0, <4>1
    <3> QED BY Zenon, <3>6, <3>8, <3>9 DEF UnackedCounts
  <2> QED BY Zenon, <2>5, <2>9, <2>10, <2>11, <2>15, <2>16 DEF Talk
<1>1. PICK slot : Run(c, slot)
  BY Zenon DEF OnDNS, OnConnect, OnRx, OnSent, OnDisconnect, OnError
<1>2. todo = <<>> /\ TcpTypeOK BY Zenon, <1>1 DEF Run, TcpInv
<1>3. \/ todo' = <<>> \/ todo' = <<"recv">> \/ todo' = <<"sendHello">>
      \/ todo' = <<"setOnReadable", "setOnSent", "setOnDisconnect", "connect">>
  BY Zenon, <1>2 DEF OnDNS, OnConnect, OnRx, OnSent, OnDisconnect, OnError
<1>4. /\ InOrder(TcpOrder)'
      /\ todo' = <<>> \/ Head(todo') \in {"recv", "sendHello", "sendSuccess", "setOnReadable"}
  BY Zenon, <1>3, TcpScripts
<1>5. OnlyClient' /\ PointerInv' BY Zenon, <1>1, <1>4, RunKeeps DEF Ground, TcpInv
<1>6. CASE OnConnect(c) \/ OnSent(c)
  BY Zenon, <1>4, <1>5, <1>6, <1>OnConnectTalk, <1>OnSentTalk DEF TcpInv
<1>7. CASE OnDNS(c)
  <2>1. /\ Run(c, "onDNS") /\ UNCHANGED <<terminates, done, unacked, wireVars>>
        /\ Head(todo') = "setOnReadable"
    BY <1>7 DEF OnDNS, ownVars
  <2>2. ~Doing({"recv"})' /\ done' \in BOOLEAN /\ terminates' \in [BOOLEAN -> Nat]
    BY Zenon, <1>2, <2>1 DEF Doing, TcpTypeOK
  <2>3. TcpTypeOK' /\ Talk' BY Zenon, <2>1, <2>2, <1>RunTalk
  <2> QED BY Zenon, <1>4, <1>5, <2>3 DEF TcpInv
<1>8. CASE OnRx(c)
  <2>1. /\ Run(c, "onReadable") /\ UNCHANGED <<terminates, done, unacked, wireVars>>
        /\ Head(todo') = "recv"
    BY <1>8 DEF OnRx, ownVars
  <2>2. done' \in BOOLEAN /\ terminates' \in [BOOLEAN -> Nat]
    BY Zenon, <1>2, <2>1 DEF TcpTypeOK
  <2>3. TcpTypeOK' /\ Talk' BY Zenon, <2>1, <2>2, <1>RunTalk
  <2> QED BY Zenon, <1>4, <1>5, <2>3 DEF TcpInv
<1>9. CASE OnDisconnect(c)
  <2>1. /\ Run(c, "onDisconnect") /\ UNCHANGED <<terminates, done, unacked, wireVars>>
        /\ todo' = <<>>
    BY Zenon, <1>2, <1>9 DEF OnDisconnect
  <2>2. ~Doing({"recv"})' /\ done' \in BOOLEAN /\ terminates' \in [BOOLEAN -> Nat]
    BY Zenon, <1>2, <2>1 DEF Doing, TcpTypeOK
  <2>3. TcpTypeOK' /\ Talk' BY Zenon, <2>1, <2>2, <1>RunTalk
  <2> QED BY Zenon, <1>4, <1>5, <2>3 DEF TcpInv
<1>10. CASE OnError(c)
  <2>1. /\ Run(c, "onError") /\ UNCHANGED <<unacked, wireVars>> /\ done' = TRUE /\ Post(FALSE)
        /\ todo' = <<>>
    BY Zenon, <1>2, <1>10 DEF OnError
  <2>2. ~Doing({"recv"})' /\ done' \in BOOLEAN BY Zenon, <2>1 DEF Doing
  <2>3. terminates' \in [BOOLEAN -> Nat] /\ terminates'[TRUE] = terminates[TRUE]
    BY <1>2, <2>1, PostType, Zenon DEF TcpTypeOK
  <2>4. TcpTypeOK' /\ Talk' BY Zenon, <2>1, <2>2, <2>3, <1>RunTalk
  <2> QED BY Zenon, <1>4, <1>5, <2>4 DEF TcpInv
<1> QED BY Zenon, <1>6, <1>7, <1>8, <1>9, <1>10

(* The events keep the invariant.                                          *)
LEMMA EventSteps ==
  ASSUME Ground, Ground', TcpInv, UNCHANGED <<echoVars, ownVars>>,
         NEW i \in Impl, StackEvent(i),
         \/ /\ RaiseDNS(i) \/ RaiseConnect(i) \/ RaiseError(i) \/ RaiseDisconnect(i)
            /\ ForgetFreed /\ UNCHANGED wireVars
         \/ Confirm(i) /\ UNCHANGED wireVars
         \/ /\ down # 0
            /\ \E units : Receive(i, units)
  PROVE  TcpInv'
\* An event that reaches the client finds the socket that is there.
<1>EventSource.
  ASSUME life[Sock] \in {"raw", "live"},
         NEW k \in EventKind, NEW arg, Raise(i, k, arg), UNCHANGED echoVars
  PROVE  /\ impl[Sock] = i /\ life[Sock] = "live" /\ TcpTypeOK /\ Talk
         /\ UNCHANGED <<life, impl, on, call, sink, todo, verdict, terminates>>
  <2> USE <1>EventSource
  <2>1. sink[i] = Sock /\ UNCHANGED <<life, impl, on, call, sink>>
    BY Zenon DEF Raise, objVars, TcpInv, OnlyClient
  <2>2. impl[Sock] = i /\ life[Sock] = "live"
    <3>1. HandlersAlive BY Zenon DEF Ground, OwnershipInv, Ownership
    <3>2. Sock # NULL BY Zenon, ClientKnown, ConstantsAssumption
    <3>3. impl[Sock] = i /\ Exists(Sock) BY Zenon, <2>1, <3>1, <3>2 DEF HandlersAlive
    <3> QED BY <3>3 DEF Exists
  <2>3. UNCHANGED <<todo, verdict, terminates>> BY Zenon DEF echoVars
  <2>4. TcpTypeOK /\ Talk BY Zenon DEF TcpInv
  <2> QED BY Zenon, <2>1, <2>2, <2>3, <2>4
\* It posts the handler of its slot, or finds none.
<1>ClientEvent.
  ASSUME life[Sock] \in {"raw", "live"},
         NEW k \in EventKind, NEW arg, Raise(i, k, arg), UNCHANGED echoVars
  PROVE  /\ (UNCHANGED posted \/ posted' = Enqueue(posted, Bind(Sock, StreamRoute[k], arg)))
         /\ ((StreamRoute[k] # NoSlot /\ on[Sock][StreamRoute[k]] = Func) =>
              posted' = Enqueue(posted, Bind(Sock, StreamRoute[k], arg)))
  <2> USE <1>ClientEvent
  <2>1. sink[i] = Sock /\ EventHandler(Sock, k, arg) BY Zenon DEF Raise, TcpInv, OnlyClient
  <2>2. life[Sock] = "live" BY Zenon, <1>EventSource
  <2>3. Handle(Sock, StreamRoute[k], arg)
    <3>1. Sock \in Streams /\ Sock \notin Listeners BY Zenon, StreamAssumption, ConstantsAssumption
    <3> QED BY Zenon, <2>1, <2>2, <3>1 DEF EventHandler
  <2>4. Func # NULL /\ Func # TORN BY Zenon, ClientKnown, ConstantsAssumption
  <2>5. UNCHANGED posted \/ posted' = Enqueue(posted, Bind(Sock, StreamRoute[k], arg))
    BY <2>3, Zenon DEF Handle
  <2>6. (StreamRoute[k] # NoSlot /\ on[Sock][StreamRoute[k]] = Func) =>
          posted' = Enqueue(posted, Bind(Sock, StreamRoute[k], arg))
    BY <2>3, <2>4, Zenon DEF Handle
  <2> QED BY Zenon, <2>5, <2>6
\* An event that has nothing to do with connecting and acknowledging.
<1>EventTalk.
  ASSUME life[Sock] \in {"raw", "live"},
         NEW k \in EventKind, NEW arg, Raise(i, k, arg), UNCHANGED echoVars,
         StreamRoute[k] \notin {"onConnect", "onSent"},
         StreamRoute[k] = "onReadable" => Started, UNCHANGED ownVars,
         istate'[i] = istate[i] \/ (istate[i] = "connected" /\ istate'[i] = "down"),
         \A j \in Impl : unsent'[j] \in {unsent[j], 0}, unsent'[i] = unsent[i],
         Started \/ UNCHANGED wireVars
  PROVE  Talk'
  <2> USE <1>EventTalk
  <2>1. /\ impl[Sock] = i /\ life[Sock] = "live" /\ TcpTypeOK /\ Talk
        /\ UNCHANGED <<life, impl, on, call, sink, todo, verdict, terminates>>
    BY Zenon, <1>EventSource
  <2>11. UNCHANGED posted \/ posted' = Enqueue(posted, Bind(Sock, StreamRoute[k], arg))
    BY Zenon, <1>ClientEvent
  <2>2. PICK d : d = Bind(Sock, StreamRoute[k], arg) BY Zenon
  <2>3. d.slot = StreamRoute[k] BY Zenon, <2>2 DEF Bind
  <2>4. SameQueue({"onConnect", "onSent"})
    <3>1. CASE UNCHANGED posted BY Zenon, <3>1 DEF SameQueue
    <3>2. CASE posted' = Enqueue(posted, d)
      <4>1. d.slot \notin {"onConnect", "onSent"} BY Zenon, <2>3
      <4> QED BY Zenon, <3>2, <4>1, QueueOther
    <3> QED BY Zenon, <2>2, <2>11, <3>1, <3>2
  <2>5. DOMAIN posted' \subseteq DOMAIN posted \cup {d}
    <3>1. CASE UNCHANGED posted BY Zenon, <3>1
    <3>2. CASE posted' = Enqueue(posted, d)
      <4>1. DOMAIN posted' = DOMAIN posted \cup {d} BY Zenon, <3>2, EnqueueDomain
      <4> QED BY Zenon, <4>1
    <3> QED BY Zenon, <2>2, <2>11, <3>1, <3>2
  <2>6. /\ Doing({"sendHello"})' <=> Doing({"sendHello"})
        /\ Doing({"sendSuccess"})' <=> Doing({"sendSuccess"})
        /\ Doing({"setOnDisconnect", "connect"})' <=> Doing({"setOnDisconnect", "connect"})
        /\ Doing({"recv"})' <=> Doing({"recv"})
    BY Zenon, <2>1 DEF Doing
  <2>7. HandlersReady' BY Zenon, <2>1, <2>6, ReadyFrame DEF Talk
  <2>8. Started \/ ~Doing({"recv"})' BY Zenon, <2>1, <2>6 DEF Talk, SilentAtFirst, Doing
  <2>9. Started \/ /\ ~Doing({"recv"})' /\ up' = up /\ down' = down
                   /\ \A c \in DOMAIN posted' : c.slot = "onReadable" => c \in DOMAIN posted
    BY Zenon, <2>3, <2>5, <2>8 DEF wireVars
  <2>10. done' = done /\ unacked' = unacked BY Zenon DEF ownVars
  <2> QED BY Zenon, <2>1, <2>4, <2>6, <2>7, <2>9, <2>10, TalkFrame
\* The connection is made: onConnect is posted, and has not run yet.
<1>ConnectTalk.
  ASSUME life[Sock] \in {"raw", "live"}, RaiseConnect(i),
         UNCHANGED <<echoVars, ownVars, wireVars>>,
         \A j \in Impl : unsent'[j] \in {unsent[j], 0}
  PROVE  Talk'
  <2> USE <1>ConnectTalk
  <2>1. PICK arg : /\ Raise(i, "CONNECT", arg) /\ istate[i] = "connecting"
                   /\ istate' = [istate EXCEPT ![i] = "connected"]
    BY Zenon DEF RaiseConnect
  <2>2. StreamRoute["CONNECT"] = "onConnect" /\ "CONNECT" \in EventKind /\ "onConnect" # NoSlot
    BY Zenon DEF StreamRoute, SocketRoute, EventKind, NoSlot
  <2>3. /\ impl[Sock] = i /\ life[Sock] = "live" /\ TcpTypeOK /\ Talk
        /\ UNCHANGED <<life, impl, on, call, sink, todo, verdict, terminates>>
    BY Zenon, <2>1, <2>2, <1>EventSource
  <2>20. on[Sock]["onConnect"] = Func => posted' = Enqueue(posted, Bind(Sock, "onConnect", arg))
    <3>1. (StreamRoute["CONNECT"] # NoSlot /\ on[Sock][StreamRoute["CONNECT"]] = Func) =>
            posted' = Enqueue(posted, Bind(Sock, StreamRoute["CONNECT"], arg))
      BY Zenon, <2>1, <2>2, <1>ClientEvent
    <3> QED BY Zenon, <2>2, <3>1
  <2>4. istate'[i] = "connected" /\ i # NULL
    BY Zenon, <2>1, ConstantsAssumption DEF Ground, BaseInv, SocketTypeOK
  <2>5. PICK d : d = Bind(Sock, "onConnect", arg) BY Zenon
  <2>6. d.slot = "onConnect" BY Zenon, <2>5 DEF Bind
  <2>7. posted' = Enqueue(posted, d) BY Zenon, <2>1, <2>3, <2>4, <2>5, <2>20 DEF Talk, HandlersReady
  <2>8. \A c \in DOMAIN posted : c.slot # "onConnect" BY Zenon, <2>1, <2>3 DEF Talk, ConnectOnce
  <2>9. DOMAIN posted' = DOMAIN posted \cup {d} /\ posted'[d] = 1
    BY Zenon, <2>6, <2>7, <2>8 DEF Enqueue
  <2>10. HandlersReady' BY Zenon, <2>1, <2>3, <2>4 DEF Talk, HandlersReady, Doing
  <2>11. ConnectOnce'
    <3>1. \A c \in DOMAIN posted' : c.slot = "onConnect" => c = d BY Zenon, <2>8, <2>9
    <3> QED BY Zenon, <2>3, <2>4, <2>9, <3>1 DEF ConnectOnce
  <2>12. SentAlone' BY Zenon, <2>3, <2>6, <2>9 DEF Talk, SentAlone, SentCallback
  <2>13. ~Started BY Zenon, <2>1, <2>3 DEF Started
  <2>14. SilentAtFirst'
    BY Zenon, <2>3, <2>6, <2>9, <2>13 DEF Talk, SilentAtFirst, Doing, wireVars
  <2>15. UnackedCounts' BY Zenon, <2>6, <2>9 DEF UnackedCounts, Conversing
  <2> QED BY Zenon, <2>10, <2>11, <2>12, <2>14, <2>15 DEF Talk
\* The stack confirms: one unit less is unconfirmed, one onSent more is to
\* run.
<1>ConfirmTalk.
  ASSUME life[Sock] \in {"raw", "live"}, Confirm(i),
         UNCHANGED <<echoVars, ownVars, wireVars>>
  PROVE  Talk'
  <2> USE <1>ConfirmTalk
  <2>1. /\ Raise(i, "TX_DONE", NULL) /\ unsent[i] > 0 /\ UNCHANGED istate
        /\ unsent' = [unsent EXCEPT ![i] = @ - 1]
    BY Zenon DEF Confirm
  <2>2. StreamRoute["TX_DONE"] = "onSent" /\ "TX_DONE" \in EventKind /\ "onSent" # NoSlot
    BY Zenon DEF StreamRoute, SocketRoute, EventKind, ErrorEvents, NoSlot
  <2>3. /\ impl[Sock] = i /\ life[Sock] = "live" /\ TcpTypeOK /\ Talk
        /\ UNCHANGED <<life, impl, on, call, sink, todo, verdict, terminates>>
    BY Zenon, <2>1, <2>2, <1>EventSource
  <2>20. on[Sock]["onSent"] = Func => posted' = Enqueue(posted, Bind(Sock, "onSent", NULL))
    <3>1. (StreamRoute["TX_DONE"] # NoSlot /\ on[Sock][StreamRoute["TX_DONE"]] = Func) =>
            posted' = Enqueue(posted, Bind(Sock, StreamRoute["TX_DONE"], NULL))
      BY Zenon, <2>1, <2>2, <1>ClientEvent
    <3> QED BY Zenon, <2>2, <3>1
  <2>4. unsent[i] \in Nat \ {0} /\ unsent'[i] = unsent[i] - 1
    BY <2>1, <2>3 DEF TcpTypeOK
  <2>5. Started BY Zenon, <2>3, <2>4 DEF Talk, SilentAtFirst
  <2>6. on[Sock]["onSent"] = Func BY Zenon, <2>3, <2>5 DEF Started, Talk, HandlersReady
  <2>7. Bind(Sock, "onSent", NULL) = SentCallback BY Zenon, <2>6 DEF Bind, SentCallback
  <2>8. SentCallback.slot = "onSent" /\ SentCallback' = SentCallback BY Zenon DEF SentCallback
  <2>9. posted' = Enqueue(posted, SentCallback) BY Zenon, <2>20, <2>6, <2>7
  <2>10. SameQueue({"onConnect"})
    <3>1. SentCallback.slot \notin {"onConnect"} BY Zenon, <2>8
    <3> QED BY Zenon, <2>9, <3>1, QueueOther
  <2>11. DOMAIN posted' = DOMAIN posted \cup {SentCallback} BY Zenon, <2>9, EnqueueDomain
  <2>12. SentPosted \in Nat /\ SentPosted' = SentPosted + 1
    <3>1. SentPosted \in Nat BY Zenon DEF SentPosted, Ground, BaseInv, SocketTypeOK
    <3>2. PICK s : s = SentCallback BY Zenon
    <3>3. posted'[s] = (IF s \in DOMAIN posted THEN posted[s] + 1 ELSE 1) /\ s \in DOMAIN posted'
      BY Zenon, <2>9, <3>2 DEF Enqueue
    <3> QED BY <2>8, <3>1, <3>2, <3>3 DEF SentPosted
  <2>13. HandlersReady'
    <3>1. Doing({"setOnDisconnect", "connect"})' <=> Doing({"setOnDisconnect", "connect"})
      BY Zenon, <2>3 DEF Doing
    <3> QED BY Zenon, <2>1, <2>3, <3>1, ReadyFrame DEF Talk
  <2>14. ConnectOnce' BY Zenon, <2>1, <2>3, <2>10, ConnectSame DEF Talk
  <2>15. SentAlone' BY Zenon, <2>3, <2>8, <2>11 DEF Talk, SentAlone
  <2>16. Started' /\ SilentAtFirst'
    BY Zenon, <2>1, <2>3, <2>5, <2>10 DEF Started, SilentAtFirst, SameQueue
  <2>17. UnackedCounts'
    <3> SUFFICES ASSUME Conversing' PROVE UnackedCounts'
      BY Zenon DEF UnackedCounts
    <3>1. Conversing BY Zenon, <2>1, <2>3, <2>10 DEF Conversing, SameQueue
    <3>2. /\ unacked = unsent[i] + SentPosted + AboutToSend
          /\ unacked <= Hello + (IF done \/ Doing({"sendSuccess"}) THEN Success ELSE 0)
          /\ terminates[TRUE] # 0 => done /\ unacked = 0
      BY Zenon, <2>3, <3>1 DEF Talk, UnackedCounts
    <3>3. AboutToSend' = AboutToSend /\ (Doing({"sendSuccess"})' <=> Doing({"sendSuccess"}))
      BY Zenon, <2>3 DEF AboutToSend, Doing
    <3>4. AboutToSend \in Nat BY Zenon, LengthAssumption DEF AboutToSend
    <3>5. done' = done /\ unacked' = unacked BY Zenon DEF ownVars
    <3>6. unacked' = unsent'[impl'[Sock]] + SentPosted' + AboutToSend'
      <4>1. unsent'[impl'[Sock]] = unsent[i] - 1 /\ unsent[i] \in Nat /\ unsent[i] # 0
        BY Zenon, <2>3, <2>4
      <4>2. PICK a, p, n \in Nat : a = unsent[i] /\ p = SentPosted /\ n = AboutToSend
        BY Zenon, <2>12, <3>4, <4>1
      <4>3. unacked' = a + p + n /\ a + p + n = (a - 1) + (p + 1) + n BY <3>2, <3>5, <4>2
      <4> QED BY Zenon, <2>12, <3>3, <4>1, <4>2, <4>3
    <3>7. unacked' <= Hello + (IF done' \/ Doing({"sendSuccess"})' THEN Success ELSE 0)
      BY Zenon, <3>2, <3>3, <3>5
    <3>8. terminates'[TRUE] # 0 => done' /\ unacked' = 0
      BY <2>3, <3>2, <3>5, Zenon
    <3> QED BY Zenon, <3>6, <3>7, <3>8 DEF UnackedCounts
  <2> QED BY Zenon, <2>13, <2>14, <2>15, <2>16, <2>17 DEF Talk
<1>1. OnlyClient' /\ PointerInv' /\ InOrder(TcpOrder)'
  BY Zenon, EventKeeps DEF Ground, TcpInv
<1>2. TcpTypeOK /\ UNCHANGED <<terminates, done, unacked>> BY Zenon DEF TcpInv, echoVars, ownVars
<1>3. unsent' \in [Impl -> Nat]
  <2>1. CASE ForgetFreed BY Zenon, <1>2, <2>1, ForgetEffect
  <2>2. CASE Confirm(i)
    <3>1. unsent[i] - 1 \in Nat BY <1>2, <2>2 DEF TcpTypeOK, Confirm
    <3> QED BY Zenon, <1>2, <2>2, <3>1 DEF TcpTypeOK, Confirm
  <2>3. CASE \E units : Receive(i, units) BY Zenon, <1>2, <2>3 DEF TcpTypeOK, Receive
  <2> QED BY Zenon, <2>1, <2>2, <2>3
<1>4. TcpTypeOK' BY Zenon, <1>2, <1>3 DEF TcpTypeOK
<1>5. life' = life BY Zenon, EventQuiet DEF OnlyClient, TcpInv, Ground
<1>6. ASSUME life[Sock] \in {"raw", "live"} PROVE Talk'
  <2>1. /\ \A k \in ErrorEvents : k \in EventKind /\ StreamRoute[k] = "onError"
        /\ StreamRoute["DNS"] = "onDNS" /\ "DNS" \in EventKind
        /\ StreamRoute["DISCONNECT"] = "onDisconnect" /\ "DISCONNECT" \in EventKind
        /\ StreamRoute["RX_DONE"] = "onReadable" /\ "RX_DONE" \in EventKind
    BY Zenon DEF StreamRoute, SocketRoute, EventKind, ErrorEvents
  <2>2. istate \in [Impl -> ImplState] BY Zenon DEF Ground, BaseInv, SocketTypeOK
  <2>3. ASSUME NEW k \in EventKind, NEW arg, Raise(i, k, arg),
               StreamRoute[k] \in {"onError", "onDNS", "onDisconnect"}, UNCHANGED wireVars,
               istate'[i] = istate[i] \/ (istate[i] = "connected" /\ istate'[i] = "down"),
               ForgetFreed
        PROVE  Talk'
    <3>1. impl[Sock] = i /\ impl' = impl BY Zenon, <1>6, <2>3, <1>EventSource
    <3>2. i # NULL BY ConstantsAssumption, Zenon
    <3>3. (\A j \in Impl : unsent'[j] \in {unsent[j], 0}) /\ unsent'[i] = unsent[i]
      BY Zenon, <1>2, <2>3, <3>1, <3>2, ForgetEffect
    <3> QED BY Zenon, <1>6, <2>3, <3>3, <1>EventTalk
  <2>4. CASE (RaiseDNS(i) \/ RaiseError(i) \/ RaiseDisconnect(i)) /\ ForgetFreed /\ UNCHANGED wireVars
    <3>1. CASE RaiseDNS(i)
      <4>1. PICK arg : Raise(i, "DNS", arg) /\ UNCHANGED istate BY Zenon, <3>1 DEF RaiseDNS
      <4> QED BY Zenon, <2>1, <2>3, <2>4, <4>1
    <3>2. CASE RaiseError(i)
      <4>1. PICK k \in ErrorEvents : Raise(i, k, "stack error") /\ UNCHANGED istate
        BY Zenon, <3>2 DEF RaiseError
      <4> QED BY Zenon, <2>1, <2>3, <2>4, <4>1
    <3>3. CASE RaiseDisconnect(i)
      <4>1. /\ Raise(i, "DISCONNECT", NULL) /\ istate[i] = "connected"
            /\ istate' = [istate EXCEPT ![i] = "down"]
        BY Zenon, <3>3 DEF RaiseDisconnect
      <4>2. istate'[i] = "down" BY Zenon, <2>2, <4>1
      <4> QED BY Zenon, <2>1, <2>3, <2>4, <4>1, <4>2
    <3> QED BY Zenon, <2>4, <3>1, <3>2, <3>3
  <2>5. CASE RaiseConnect(i) /\ ForgetFreed /\ UNCHANGED wireVars
    <3>1. \A j \in Impl : unsent'[j] \in {unsent[j], 0} BY Zenon, <1>2, <2>5, ForgetEffect
    <3> QED BY Zenon, <1>6, <2>5, <3>1, <1>ConnectTalk
  <2>6. CASE Confirm(i) /\ UNCHANGED wireVars BY Zenon, <1>6, <2>6, <1>ConfirmTalk
  <2>7. ASSUME NEW units, Receive(i, units), down # 0 PROVE Talk'
    <3>1. Raise(i, "RX_DONE", NULL) /\ UNCHANGED <<istate, unsent>> BY Zenon, <2>7 DEF Receive
    <3>2. Started BY Zenon, <1>6, <2>7 DEF TcpInv, Talk, SilentAtFirst
    <3>3. (\A j \in Impl : unsent'[j] \in {unsent[j], 0}) /\ unsent'[i] = unsent[i] BY Zenon, <3>1
    <3> QED BY Zenon, <1>6, <2>1, <3>1, <3>2, <3>3, <1>EventTalk
  <2> QED BY Zenon, <2>4, <2>5, <2>6, <2>7
<1> QED BY Zenon, <1>1, <1>4, <1>5, <1>6 DEF TcpInv

(* Every step of the client keeps its invariant.                           *)
LEMMA TcpStep ==
  ASSUME Ground, Ground', TcpInv, [TcpNext]_tcpVars,
         "reopen" \notin AppMay, "overlap" \notin AppMay
  PROVE  TcpInv'
\* A data call of a handler leaves the layer as it is; what remains is the
\* account of what it sends.
<1>DataTalk.
  ASSUME life[Sock] = "live", Doing({"sendHello", "sendSuccess", "recv"}), UNCHANGED vars,
         unsent' \in [Impl -> Nat], terminates' \in [BOOLEAN -> Nat], done' \in BOOLEAN,
         unacked' \in 0..(Wrap - 1), todo' = <<>> \/ Head(todo') = "sendSuccess",
         UnackedCounts'
  PROVE  TcpTypeOK' /\ Talk'
  <2> USE <1>DataTalk
  <2>1. UNCHANGED <<life, impl, istate, on, call, posted>>
    BY Zenon DEF vars, socketVars, objVars, netVars
  <2>2. Talk BY Zenon DEF TcpInv
  <2>3. Started /\ Started' BY Zenon, <2>1, <2>2 DEF Talk, SilentAtFirst, Started, Doing
  <2>4. HandlersReady'
    <3>1. ~Doing({"setOnDisconnect", "connect"})' BY Zenon DEF Doing
    <3> QED BY Zenon, <2>1, <2>2, <3>1, ReadyFrame DEF Talk
  <2>5. ConnectOnce' /\ SentAlone' /\ SilentAtFirst'
    BY Zenon, <2>1, <2>2, <2>3 DEF Talk, ConnectOnce, SentAlone, SilentAtFirst, SentCallback
  <2> QED BY Zenon, <2>4, <2>5 DEF Talk, TcpTypeOK
\* A send is taken, and what was about to be sent is unconfirmed; or it is
\* refused, and the test is over.
<1>SendTalk.
  ASSUME NEW step \in {"sendHello", "sendSuccess"}, NEW units,
         SendAll(step, units), Len(units) = IF step = "sendHello" THEN Hello ELSE Success,
         done' \in BOOLEAN, done \/ step = "sendSuccess" => done'
  PROVE  /\ TcpTypeOK' /\ Talk' /\ OnlyClient' /\ PointerInv' /\ InOrder(TcpOrder)'
  <2> USE <1>SendTalk
  <2>1. /\ verdict = "none" /\ Doing({step}) /\ todo # <<>> /\ Head(todo) = step
        /\ Main(Sock) /\ life[Sock] = "live"
        /\ UNCHANGED <<vars, client, terminates, unacked>>
    BY Zenon DEF SendAll, At, Doing, Send, Transmit, Main
  <2>2. PICK err \in Verdict(Sock, TRUE, SendErrors(Sock)) :
          /\ out' = Reply(Sock, "send", err)
          /\ unsent' = IF err = "NONE" THEN [unsent EXCEPT ![impl[Sock]] = @ + Len(units)]
                       ELSE unsent
    BY Zenon DEF SendAll, Send, Transmit
  <2>14. out'.err = err BY Zenon, <2>2 DEF Reply, ReadReply
  <2>3. TcpTypeOK /\ Talk /\ Len(units) \in Nat /\ Hello \in Nat /\ Success \in Nat
    BY Zenon, <2>1, LengthAssumption DEF TcpInv
  <2>4. impl[Sock] # NULL => impl[Sock] \in Impl
    BY Zenon, ClientKnown DEF Ground, BaseInv, SocketTypeOK
  <2>5. err = "NONE" => impl[Sock] # NULL BY Zenon, <2>2 DEF Verdict
  <2>6. unsent' \in [Impl -> Nat]
    <3>1. CASE err = "NONE"
      <4>1. unsent[impl[Sock]] + Len(units) \in Nat BY <2>3, <2>4, <2>5, <3>1 DEF TcpTypeOK
      <4> QED BY Zenon, <2>2, <2>3, <3>1, <4>1 DEF TcpTypeOK
    <3>2. CASE err # "NONE" BY Zenon, <2>2, <2>3, <3>2 DEF TcpTypeOK
    <3> QED BY Zenon, <3>1, <3>2
  <2>7. todo' = <<>> \/ todo' = Tail(todo) BY Zenon DEF SendAll, Assert
  <2>8. /\ InOrder(TcpOrder)' /\ todo' = <<>>
    <3>1. CASE todo' = <<>> BY <3>1 DEF InOrder
    <3>2. CASE todo' = Tail(todo) /\ todo' # <<>>
      <4>1. WellOrdered(TcpOrder) /\ InOrder(TcpOrder) BY Zenon, TcpOrdered DEF TcpInv
      <4>2. <<step, Head(todo')>> \in TcpOrder BY Zenon, <2>1, <3>2, <4>1, TodoTail
      <4> QED BY Zenon, <4>2 DEF TcpOrder
    <3> QED BY Zenon, <2>7, <3>1, <3>2
  <2>9. OnlyClient' /\ PointerInv' BY Zenon, <2>1, <2>8, DataKeeps DEF TcpInv
  <2>10. UnackedCounts'
    <3> SUFFICES ASSUME Conversing' PROVE UnackedCounts'
      BY Zenon DEF UnackedCounts
    <3>1. UNCHANGED <<life, impl, istate, posted>> BY Zenon, <2>1 DEF vars, socketVars, objVars, netVars
    <3>2. Conversing BY Zenon, <2>1, <3>1 DEF Conversing
    <3>3. err = "NONE" BY Zenon, <2>14 DEF Conversing, SendAll, Assert
    <3>4. /\ unacked = unsent[impl[Sock]] + SentPosted + AboutToSend
          /\ unacked <= Hello + (IF done \/ Doing({"sendSuccess"}) THEN Success ELSE 0)
          /\ terminates[TRUE] # 0 => done /\ unacked = 0
      BY Zenon, <2>3, <3>2 DEF Talk, UnackedCounts
    <3>5. AboutToSend = Len(units) /\ AboutToSend' = 0
      BY Zenon, <2>1, <2>8 DEF AboutToSend, Doing
    <3>6. SentPosted' = SentPosted BY Zenon, <3>1 DEF SentPosted, SentCallback
    <3>7. unsent[impl[Sock]] \in Nat /\ unsent'[impl'[Sock]] = unsent[impl[Sock]] + Len(units)
      BY Zenon, <2>2, <2>3, <2>4, <2>5, <3>1, <3>3 DEF TcpTypeOK
    <3>8. SentPosted \in Nat
      BY Zenon DEF SentPosted, Ground, BaseInv, SocketTypeOK
    <3>9. unacked' = unsent'[impl'[Sock]] + SentPosted' + AboutToSend'
      <4>1. PICK a, p \in Nat : a = unsent[impl[Sock]] /\ p = SentPosted BY Zenon, <3>7, <3>8
      <4>2. PICK n \in Nat : n = Len(units) BY Zenon, <2>3
      <4>3. unacked' = a + p + n BY Zenon, <2>1, <3>4, <3>5, <4>1, <4>2
      <4>4. a + p + n = (a + n) + p + 0 BY <4>1, <4>2
      <4> QED BY Zenon, <3>5, <3>6, <3>7, <4>1, <4>2, <4>3, <4>4
    <3>10. unacked' <= Hello + (IF done' \/ Doing({"sendSuccess"})' THEN Success ELSE 0)
      <4>1. done \/ Doing({"sendSuccess"}) => done' BY Zenon, <2>1 DEF Doing
      <4>2. unacked \in Nat BY <2>3 DEF TcpTypeOK
      <4> QED BY <2>1, <2>3, <3>4, <4>1, <4>2
    <3>11. unacked # 0
      BY <2>3, <3>4, <3>5, <3>7, <3>8, LengthAssumption
    <3>12. terminates'[TRUE] # 0 => done' /\ unacked' = 0 BY <2>1, <3>4, <3>11, Zenon
    <3> QED BY Zenon, <3>9, <3>10, <3>12 DEF UnackedCounts
  <2>11. Doing({"sendHello", "sendSuccess", "recv"}) BY Zenon, <2>1 DEF Doing
  <2>12. unacked' \in 0..(Wrap - 1) /\ terminates' \in [BOOLEAN -> Nat]
    BY Zenon, <2>1, <2>3 DEF TcpTypeOK
  <2>13. TcpTypeOK' /\ Talk'
    BY Zenon, <2>1, <2>6, <2>8, <2>10, <2>11, <2>12, <1>DataTalk
  <2> QED BY Zenon, <2>8, <2>9, <2>13
\* onRx reads, and may be about to answer.
<1>ReceiptTalk.
  ASSUME Receipt
  PROVE  /\ TcpTypeOK' /\ Talk' /\ OnlyClient' /\ PointerInv' /\ InOrder(TcpOrder)'
  <2> USE <1>ReceiptTalk
  <2>1. /\ verdict = "none" /\ Doing({"recv"}) /\ todo # <<>> /\ Head(todo) = "recv"
        /\ Main(Sock) /\ life[Sock] = "live"
        /\ UNCHANGED <<vars, client, done, unsent>>
    BY Zenon DEF Receipt, At, Doing, Recv, Main
  <2>2. PICK answer \in BOOLEAN :
          /\ Assert(out'.err = "NONE", IF answer THEN <<"sendSuccess">> ELSE <<>>)
          /\ unacked' = IF answer THEN CountSuccess ELSE unacked
          /\ answer => ~done
          /\ Post(FALSE) \/ UNCHANGED terminates
    <3>1. PICK answer : answer = (~done /\ Len(rx[impl[Sock]]) > 0) BY Zenon
    <3>2. answer \in BOOLEAN BY Zenon, <3>1
    <3> QED BY Zenon, <3>1, <3>2 DEF Receipt
  <2>3. /\ TcpTypeOK /\ Talk /\ Hello \in Nat /\ Success \in Nat /\ Wrap \in Nat
        /\ unacked \in 0..(Wrap - 1)
    BY Zenon, <2>1, LengthAssumption DEF TcpInv, TcpTypeOK
  <2>4. terminates' \in [BOOLEAN -> Nat] /\ terminates'[TRUE] = terminates[TRUE]
    <3>1. CASE Post(FALSE) BY <2>3, <3>1, PostType, Zenon DEF TcpTypeOK
    <3>2. CASE UNCHANGED terminates BY <2>3, <3>2, Zenon DEF TcpTypeOK
    <3> QED BY Zenon, <2>2, <3>1, <3>2
  <2>5. unacked' \in 0..(Wrap - 1)
    <3>1. unacked + Success \in Nat BY <2>3
    <3> QED BY Zenon, <2>2, <2>3, <3>1, WrapType DEF CountSuccess
  <2>6. todo' = <<>> \/ todo' = <<"sendSuccess">> BY Zenon, <2>2 DEF Assert
  <2>7. InOrder(TcpOrder)' BY Zenon, <2>6, TcpScripts
  <2>8. todo' = <<>> \/ Head(todo') = "sendSuccess" BY <2>6
  <2>9. OnlyClient' /\ PointerInv' BY Zenon, <2>1, <2>8, DataKeeps DEF TcpInv
  <2>10. UnackedCounts'
    <3> SUFFICES ASSUME Conversing' PROVE UnackedCounts'
      BY Zenon DEF UnackedCounts
    <3>1. UNCHANGED <<life, impl, istate, posted>> BY Zenon, <2>1 DEF vars, socketVars, objVars, netVars
    <3>2. Conversing BY Zenon, <2>1, <3>1 DEF Conversing
    <3>3. todo' = IF answer THEN <<"sendSuccess">> ELSE <<>> BY Zenon, <2>2 DEF Conversing, Assert
    <3>4. /\ unacked = unsent[impl[Sock]] + SentPosted + AboutToSend
          /\ unacked <= Hello + (IF done \/ Doing({"sendSuccess"}) THEN Success ELSE 0)
          /\ terminates[TRUE] # 0 => done /\ unacked = 0
      BY Zenon, <2>3, <3>2 DEF Talk, UnackedCounts
    <3>5. AboutToSend = 0 /\ ~Doing({"sendSuccess"}) BY Zenon, <2>1 DEF AboutToSend, Doing
    <3>6. SentPosted' = SentPosted /\ SentPosted \in Nat
      BY Zenon, <3>1 DEF SentPosted, SentCallback, Ground, BaseInv, SocketTypeOK
    <3>7. impl[Sock] \in Impl
      BY Zenon, <3>2, ClientKnown DEF Conversing, Ground, BaseInv, SocketTypeOK
    <3>8. unsent[impl[Sock]] \in Nat /\ unsent'[impl'[Sock]] = unsent[impl[Sock]]
      BY Zenon, <2>1, <2>3, <3>1, <3>7 DEF TcpTypeOK
    <3>9. CASE answer
      <4>1. Head(todo') = "sendSuccess" /\ todo' # <<>> BY <3>3, <3>9
      <4>2. Doing({"sendSuccess"})' /\ ~Doing({"sendHello"})' BY Zenon, <4>1 DEF Doing
      <4>3. AboutToSend' = Success BY Zenon, <4>2 DEF AboutToSend
      <4>4. unacked <= Hello BY <2>2, <2>3, <3>4, <3>5, <3>9
      <4>5. unacked + Success \in 0..(Wrap - 1) BY <2>3, <4>4, LengthAssumption
      <4>6. unacked' = unacked + Success BY Zenon, <2>2, <3>9, <4>5, WrapSmall DEF CountSuccess
      <4>7. unacked' = unsent'[impl'[Sock]] + SentPosted' + AboutToSend'
        BY <2>3, <3>4, <3>5, <3>6, <3>8, <4>3, <4>6
      <4>8. unacked' <= Hello + (IF done' \/ Doing({"sendSuccess"})' THEN Success ELSE 0)
        BY <2>3, <4>2, <4>4, <4>6
      <4>9. terminates'[TRUE] = 0 BY <2>2, <2>4, <3>4, <3>9, Zenon
      <4> QED BY Zenon, <4>7, <4>8, <4>9 DEF UnackedCounts
    <3>10. CASE ~answer
      <4>1. todo' = <<>> /\ unacked' = unacked BY Zenon, <2>2, <3>3, <3>10
      <4>2. AboutToSend' = 0 /\ ~Doing({"sendSuccess"})' BY Zenon, <4>1 DEF AboutToSend, Doing
      <4>3. unacked' = unsent'[impl'[Sock]] + SentPosted' + AboutToSend'
        BY Zenon, <2>3, <3>4, <3>5, <3>6, <3>8, <4>1, <4>2
      <4>4. unacked' <= Hello + (IF done' \/ Doing({"sendSuccess"})' THEN Success ELSE 0)
        BY Zenon, <2>1, <2>3, <3>4, <3>5, <4>1, <4>2
      <4>5. terminates'[TRUE] # 0 => done' /\ unacked' = 0
        BY <2>1, <2>4, <3>4, <4>1, Zenon
      <4> QED BY Zenon, <4>3, <4>4, <4>5 DEF UnackedCounts
    <3> QED BY Zenon, <3>9, <3>10
  <2>11. Doing({"sendHello", "sendSuccess", "recv"}) BY Zenon, <2>1 DEF Doing
  <2>12. done' \in BOOLEAN /\ unsent' \in [Impl -> Nat] BY Zenon, <2>1, <2>3 DEF TcpTypeOK
  <2>13. TcpTypeOK' /\ Talk'
    BY Zenon, <2>1, <2>4, <2>5, <2>8, <2>10, <2>11, <2>12, <1>DataTalk
  <2> QED BY Zenon, <2>7, <2>9, <2>13
<1>1. CASE ClientStep /\ UNCHANGED <<ownVars, wireVars>>
  <2>1. OnlyClient' /\ PointerInv' /\ InOrder(TcpOrder)'
    BY Zenon, <1>1, ClientKeeps, TcpOrdered DEF Ground, TcpInv
  <2>2. TcpTypeOK' /\ (life'[Sock] \in {"raw", "live"} => Talk') BY Zenon, <1>1, ClientTalk
  <2> QED BY Zenon, <2>1, <2>2 DEF TcpInv
<1>2. CASE SendHello
  <2>1. PICK units : units = [k \in 1..Hello |-> "text"] BY Zenon
  <2>2. Len(units) = Hello BY <2>1, LengthAssumption
  <2>3. SendAll("sendHello", units) /\ UNCHANGED done BY Zenon, <1>2, <2>1 DEF SendHello
  <2>4. done' \in BOOLEAN BY Zenon, <2>3 DEF TcpInv, TcpTypeOK
  <2> QED BY Zenon, <2>2, <2>3, <2>4, <1>SendTalk DEF TcpInv
<1>3. CASE SendSuccess
  <2>1. PICK units : units = [k \in 1..Success |-> IF k = Success THEN "end" ELSE "text"]
    BY Zenon
  <2>2. Len(units) = Success BY <2>1, LengthAssumption
  <2>3. SendAll("sendSuccess", units) /\ done' = TRUE BY Zenon, <1>3, <2>1 DEF SendSuccess
  <2> QED BY Zenon, <2>2, <2>3, <1>SendTalk DEF TcpInv
<1>4. CASE Receipt BY Zenon, <1>4, <1>ReceiptTalk DEF TcpInv
<1>5. ASSUME NEW c \in DOMAIN posted,
             OnDNS(c) \/ OnConnect(c) \/ OnRx(c) \/ OnSent(c) \/ OnDisconnect(c) \/ OnError(c)
      PROVE  TcpInv'
  BY Zenon, <1>5, HandlerSteps
<1>6. CASE (Answers \/ Faulty) /\ UNCHANGED <<echoVars, ownVars, wireVars>>
  <2>1. PICK i \in Impl :
          /\ StackEvent(i) /\ ForgetFreed
          /\ RaiseDNS(i) \/ RaiseConnect(i) \/ RaiseError(i) \/ RaiseDisconnect(i)
    BY Zenon, <1>6, EventIsLayer
  <2> QED BY Zenon, <1>6, <2>1, EventSteps
<1>7. ASSUME NEW i \in Impl, Confirm(i), UNCHANGED <<echoVars, ownVars, wireVars>>
      PROVE  TcpInv'
  <2>1. StackEvent(i) BY Zenon, <1>7, ReceiveIsEvent
  <2> QED BY Zenon, <1>7, <2>1, EventSteps
<1>8. CASE EchoArrives
  <2>1. PICK i \in Impl, n \in 1..down :
          (\E units : Receive(i, units)) /\ UNCHANGED <<echoVars, ownVars>>
    BY Zenon, <1>8 DEF EchoArrives
  <2>2. StackEvent(i) BY Zenon, <2>1, ReceiveIsEvent
  <2>3. down # 0 BY <2>1
  <2> QED BY Zenon, <2>1, <2>2, <2>3, EventSteps
<1>9. CASE ServerEchoes
  <2>1. /\ up # <<>> /\ UNCHANGED <<allVars, echoVars, ownVars>>
    BY <1>9 DEF ServerEchoes
  <2>2. /\ UNCHANGED <<life, impl, on, call, sink, posted, istate, unsent>>
        /\ UNCHANGED <<client, todo, verdict, terminates, done, unacked>>
    BY Zenon, <2>1 DEF allVars, vars, socketVars, objVars, netVars, dataVars, echoVars, ownVars
  <2>3. TcpTypeOK' /\ OnlyClient' /\ PointerInv' /\ InOrder(TcpOrder)'
    BY Zenon, <2>2 DEF TcpInv, TcpTypeOK, OnlyClient, ClientCall, PointerInv, Doing, InOrder
  <2>4. ASSUME life[Sock] \in {"raw", "live"} PROVE Talk'
    <3>1. TcpTypeOK /\ Talk BY Zenon, <2>4 DEF TcpInv
    <3>2. Started BY Zenon, <2>1, <3>1 DEF Talk, SilentAtFirst
    <3>3. SameQueue({"onConnect", "onSent"}) BY Zenon, <2>2 DEF SameQueue
    <3>4. /\ Doing({"sendHello"})' <=> Doing({"sendHello"})
          /\ Doing({"sendSuccess"})' <=> Doing({"sendSuccess"})
          /\ Doing({"setOnDisconnect", "connect"})' <=> Doing({"setOnDisconnect", "connect"})
      BY Zenon, <2>2 DEF Doing
    <3>5. HandlersReady' BY Zenon, <2>2, <3>1, <3>4, ReadyFrame DEF Talk
    <3> QED BY Zenon, <2>2, <3>1, <3>2, <3>3, <3>4, <3>5, TalkFrame
  <2> QED BY Zenon, <2>2, <2>3, <2>4 DEF TcpInv
<1>10. CASE UNCHANGED tcpVars
  <2>1. /\ UNCHANGED <<life, impl, on, call, sink, posted, istate, unsent>>
        /\ UNCHANGED <<client, todo, verdict, terminates, done, unacked, up, down>>
    BY Zenon, <1>10 DEF tcpVars, allVars, vars, socketVars, objVars, netVars, dataVars, echoVars,
                 ownVars, wireVars
  <2>2. TcpTypeOK' /\ OnlyClient' /\ PointerInv' /\ InOrder(TcpOrder)'
    BY Zenon, <2>1 DEF TcpInv, TcpTypeOK, OnlyClient, ClientCall, PointerInv, Doing, InOrder
  <2>3. HandlersReady' <=> HandlersReady BY Zenon, <2>1 DEF HandlersReady, Doing
  <2>4. (ConnectOnce' <=> ConnectOnce) /\ (SentAlone' <=> SentAlone)
    BY Zenon, <2>1 DEF ConnectOnce, SentAlone, SentCallback
  <2>5. SilentAtFirst' <=> SilentAtFirst BY Zenon, <2>1 DEF SilentAtFirst, Started, Doing
  <2>6. UnackedCounts' <=> UnackedCounts
    BY Zenon, <2>1 DEF UnackedCounts, Conversing, SentPosted, SentCallback, AboutToSend, Doing
  <2> QED BY Zenon, <2>1, <2>2, <2>3, <2>4, <2>5, <2>6 DEF TcpInv, Talk
<1> QED BY Zenon, <1>1, <1>2, <1>3, <1>4, <1>5, <1>6, <1>7, <1>8, <1>9, <1>10
    DEF TcpNext, MainContext, Network

(* Every step of the client is a step of the socket layer, or none.        *)
LEMMA TcpIsLayer == [TcpNext]_tcpVars => [Next]_vars
<1>1. CASE ClientStep BY Zenon, <1>1, ClientIsLayer, LayerNextIsNext
<1>2. CASE SendHello \/ SendSuccess \/ Receipt \/ ServerEchoes \/ UNCHANGED tcpVars
  BY Zenon, <1>2 DEF SendHello, SendSuccess, SendAll, Send, Transmit, Receipt, Recv, ServerEchoes,
              tcpVars, allVars
<1>3. ASSUME NEW c \in DOMAIN posted,
             OnDNS(c) \/ OnConnect(c) \/ OnRx(c) \/ OnSent(c) \/ OnDisconnect(c) \/ OnError(c)
      PROVE  Next
  <2>1. PICK slot : Run(c, slot)
    BY Zenon, <1>3 DEF OnDNS, OnConnect, OnRx, OnSent, OnDisconnect, OnError
  <2> QED BY Zenon, <2>1, EventIsLayer, LayerNextIsNext
<1>4. ASSUME NEW i \in Impl, StackEvent(i) PROVE Next
  BY Zenon, <1>4, EventIsLayer, LayerNextIsNext
<1>5. CASE Answers \/ Faulty \/ EchoArrives \/ \E i \in Impl : Confirm(i)
  <2>1. CASE Answers \/ Faulty BY Zenon, <1>4, <2>1, EventIsLayer
  <2>2. CASE EchoArrives
    <3>1. PICK i \in Impl : \E units : Receive(i, units) BY Zenon, <2>2 DEF EchoArrives
    <3> QED BY Zenon, <1>4, <3>1, ReceiveIsEvent
  <2>3. ASSUME NEW i \in Impl, Confirm(i) PROVE Next BY Zenon, <1>4, <2>3, ReceiveIsEvent
  <2> QED BY Zenon, <1>5, <2>1, <2>2, <2>3
<1> QED BY Zenon, <1>1, <1>2, <1>3, <1>5 DEF TcpNext, MainContext, Network

(* The echo client only ever does with the socket layer what the layer     *)
(* allows, so all that is proved of Spec holds under the client.           *)
THEOREM TcpKeepsLayer == TcpSpec => Spec
<1>1. TcpInit => Init BY Zenon DEF TcpInit, EchoInit
<1> QED BY <1>1, TcpIsLayer, PTL DEF TcpSpec, Spec

(* A client that opens its socket once, and connects it once at a time,    *)
(* keeps the account of _unacked, for messages of any length and any       *)
(* number of events.                                                       *)
THEOREM TcpInvariant ==
  ASSUME "reopen" \notin AppMay, "overlap" \notin AppMay
  PROVE  TcpSpec => []TcpInv
<1>1. TcpInit => TcpInv BY Zenon, TcpInitial
<1>2. Ground /\ Ground' /\ TcpInv /\ [TcpNext]_tcpVars => TcpInv' BY Zenon, TcpStep
<1>3. TcpSpec => []Ground
  <2>1. BaseInv /\ OwnershipInv => Ground BY Zenon DEF Ground
  <2> QED BY <2>1, TcpKeepsLayer, BaseInvariant, OwnershipInvariant, PTL
<1> QED BY <1>1, <1>2, <1>3, PTL DEF TcpSpec

(* onConnect, onRx, onSent: _unacked is at any time what the stack has yet *)
(* to acknowledge, what minar has yet to report and what is about to be    *)
(* sent, although interrupts come between any two calls.                   *)
THEOREM UnackedExactAlways ==
  ASSUME "reopen" \notin AppMay, "overlap" \notin AppMay
  PROVE  TcpSpec => []UnackedExact
<1>1. TcpInv => UnackedExact BY Zenon DEF TcpInv, Talk, UnackedCounts, UnackedExact, Conversing
<1> QED BY <1>1, TcpInvariant, PTL

(* onSent: terminate(true) is posted only once all that was sent has been  *)
(* acknowledged.                                                           *)
THEOREM SuccessIsAcknowledged ==
  ASSUME "reopen" \notin AppMay, "overlap" \notin AppMay
  PROVE  TcpSpec => []SuccessAcknowledged
<1>1. Ground /\ TcpInv => SuccessAcknowledged
  <2> SUFFICES ASSUME Ground, TcpInv, terminates[TRUE] > 0, Conversing
               PROVE  done /\ unsent[impl[Sock]] = 0
    BY Zenon DEF SuccessAcknowledged
  <2>1. TcpTypeOK /\ UnackedCounts BY Zenon DEF TcpInv, Talk, Conversing
  <2>2. terminates[TRUE] # 0
    <3>1. PICK t : t = terminates[TRUE] BY Zenon
    <3>2. t > 0 BY <3>1, Zenon
    <3>3. t # 0 BY <3>2
    <3> QED BY <3>1, <3>3, Zenon
  <2>3. done /\ unacked = 0 BY <2>1, <2>2, Zenon DEF UnackedCounts
  <2>4. unacked = unsent[impl[Sock]] + SentPosted + AboutToSend BY Zenon, <2>1 DEF UnackedCounts
  <2>5. impl[Sock] \in Impl /\ SentPosted \in Nat
    BY Zenon, ClientKnown DEF Conversing, Ground, BaseInv, SocketTypeOK, SentPosted
  <2>6. unsent[impl[Sock]] \in Nat /\ AboutToSend \in Nat
    BY Zenon, <2>1, <2>5, LengthAssumption DEF TcpTypeOK, AboutToSend
  <2> QED BY <2>3, <2>4, <2>5, <2>6
<1>2. TcpSpec => []Ground
  <2>1. BaseInv /\ OwnershipInv => Ground BY Zenon DEF Ground
  <2> QED BY <2>1, TcpKeepsLayer, BaseInvariant, OwnershipInvariant, PTL
<1> QED BY <1>1, <1>2, TcpInvariant, PTL

(* terminate: any number of them, run before or after the verdict, closes  *)
(* and deletes a client that is there, or nothing.                         *)
THEOREM TcpDeletedOnce ==
  ASSUME "reopen" \notin AppMay, "overlap" \notin AppMay
  PROVE  TcpSpec => []DeletedOnce
<1>1. BaseInv /\ TcpInv => DeletedOnce BY Zenon, PointerMeans DEF TcpInv
<1> QED BY <1>1, TcpKeepsLayer, BaseInvariant, TcpInvariant, PTL
=============================================================================
