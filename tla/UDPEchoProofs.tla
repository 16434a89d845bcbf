---------------------------- MODULE UDPEchoProofs ----------------------------
(***************************************************************************)
(* The theorems about the UDP echo client, for any number of loops,        *)
(* implementations and events, and a network that loses and repeats: the   *)
(* client's pointer, and that no echo is compared with the wrong test.     *)
(* The address is asked for once, so the loops begin once; and at any time *)
(* one datagram is about to be sent, under way, or received and unread.    *)
(***************************************************************************)
EXTENDS UDPEchoClient, ClientProofs

-----------------------------------------------------------------------------
(* The queue, and the calls a handler makes.                               *)

\* The layer's own invariants; this application opens its socket twice.
Ground == BaseInv /\ HeldByOne

\* The callbacks of a slot are queued as they were.
SameQueue(slot) ==
  \A c \in DOMAIN posted \cup DOMAIN posted' :
    c.slot = slot =>
      c \in DOMAIN posted /\ c \in DOMAIN posted' /\ posted'[c] = posted[c]

(* Posting or running one callback leaves those of other slots alone.      *)
LEMMA QueueOther ==
  ASSUME NEW c, NEW slot, c.slot # slot,
         \/ posted' = Enqueue(posted, c)
         \/ c \in DOMAIN posted /\ posted' = Dequeue(posted, c)
  PROVE  SameQueue(slot)
BY DEF SameQueue, Enqueue, Dequeue

(* Of a slot with one callback, nothing is left when that has run.         *)
LEMMA QueueEmpty ==
  ASSUME NEW c \in DOMAIN posted, Once(c.slot), posted' = Dequeue(posted, c)
  PROVE  ~Waiting(c.slot)'
<1>1. posted[c] = 1 BY Zenon DEF Once
<1>2. DOMAIN posted' = DOMAIN posted \ {c} BY Zenon, <1>1 DEF Dequeue
<1> QED BY Zenon, <1>2 DEF Waiting, Once

(* A slot with none has one callback when one is posted.                   *)
LEMMA QueueFirst ==
  ASSUME NEW c, ~Waiting(c.slot), posted' = Enqueue(posted, c)
  PROVE  Once(c.slot)'
<1>1. DOMAIN posted' = DOMAIN posted \cup {c} BY Zenon DEF Enqueue
<1>2. c \notin DOMAIN posted BY Zenon DEF Waiting
<1>3. posted'[c] = 1 BY Zenon, <1>2 DEF Enqueue
<1> QED BY Zenon, <1>1, <1>3 DEF Once, Waiting

(* What is queued as it was is waited for as it was.                       *)
LEMMA QueueSame ==
  ASSUME NEW slot, SameQueue(slot)
  PROVE  /\ Waiting(slot)' <=> Waiting(slot)
         /\ Once(slot) => Once(slot)'
BY Zenon DEF SameQueue, Waiting, Once

(* What the stack forgets with an implementation that is freed is none of  *)
(* the client's while it has one.                                          *)
LEMMA ForgetRx ==
  ASSUME Ground', rx \in [Impl -> Seq(Data)], ForgetFreed
  PROVE  /\ rx' \in [Impl -> Seq(Data)]
         /\ \A i \in Impl : rx'[i] \in {rx[i], <<>>}
         /\ impl'[Sock] # NULL => impl'[Sock] \in Impl /\ rx'[impl'[Sock]] = rx[impl'[Sock]]
<1>1. impl'[Sock] # NULL => impl'[Sock] \in Impl /\ istate'[impl'[Sock]] # "free"
  BY Zenon, ClientKnown DEF Ground, BaseInv, SocketTypeOK, HeldByOne
<1>2. rx' = [i \in Impl |-> IF istate'[i] = "free" THEN <<>> ELSE rx[i]]
  BY Zenon DEF ForgetFreed
<1> QED BY <1>1, <1>2

(* The order of the calls in the handlers is an order.                     *)
LEMMA UdpOrdered == WellOrdered(UdpOrder)
BY Zenon DEF WellOrdered, UdpOrder

(* What a handler ends with does not change as it goes on, and the calls   *)
(* that end a handler are not followed by another.                         *)
LEMMA UdpTail ==
  ASSUME InOrder(UdpOrder), NEW step, Doing({step}), todo' = Tail(todo)
  PROVE  /\ \A x : Last(x)' <=> Last(x) /\ todo' # <<>>
         /\ todo' = <<>> => Last(step)
         /\ step \in {"resolve", "send_test", "recv", "send_last"} => todo' = <<>> /\ Last(step)
         /\ ~Doing({"recv", "send_last"})'
         /\ Doing({"new", "setOnError", "open", "setOnReadable"})' =>
              step \in {"new", "setOnError", "open", "setOnReadable"}
         /\ Doing({"close", "delete", "passed", "failed"})' => step \in {"close", "delete"}
         /\ InOrder(UdpOrder)'
<1>1. todo # <<>> /\ Head(todo) = step BY Zenon DEF Doing
<1>2. InOrder(UdpOrder)' /\ (todo' # <<>> => <<step, Head(todo')>> \in UdpOrder)
  BY Zenon, <1>1, TodoTail
<1>3. /\ todo \in Seq(Step) /\ Len(todo) \in Nat \ {0}
      /\ todo' \in Seq(Step) /\ Len(todo') = Len(todo) - 1
      /\ \A k \in 1..Len(todo') : todo'[k] = todo[k + 1]
  BY <1>1 DEF InOrder
<1>4. \A x : Last(x)' <=> Last(x) /\ todo' # <<>>
  <2>1. CASE todo' = <<>> BY Zenon, <2>1 DEF Last
  <2>2. CASE todo' # <<>>
    <3>1. Len(todo') \in 1..Len(todo') /\ Len(todo') + 1 = Len(todo) BY <1>3, <2>2
    <3>2. todo'[Len(todo')] = todo[Len(todo)] BY Zenon, <1>3, <3>1
    <3> QED BY Zenon, <1>1, <2>2, <3>2 DEF Last
  <2> QED BY Zenon, <2>1, <2>2
<1>5. todo' = <<>> => Last(step)
  <2> SUFFICES ASSUME todo' = <<>> PROVE Last(step) BY Zenon
  <2>1. Len(todo) = 1
    <3> SUFFICES ASSUME Len(todo) # 1 PROVE Len(todo') # Len(<<>>)
      BY Zenon
    <3> QED BY <1>3
  <2>2. todo[1] = step BY <1>1, <1>3
  <2> QED BY Zenon, <1>1, <2>1, <2>2 DEF Last
<1>6. ASSUME NEW x, <<step, x>> \in UdpOrder
      PROVE  /\ step \notin {"resolve", "send_test", "recv", "send_last"}
             /\ x \notin {"recv", "send_last"}
             /\ x \in {"new", "setOnError", "open", "setOnReadable"} =>
                  step \in {"new", "setOnError", "open", "setOnReadable"}
             /\ x \in {"close", "delete", "passed", "failed"} => step \in {"close", "delete"}
  BY Zenon, <1>6 DEF UdpOrder
<1>7. todo' # <<>> =>
        /\ step \notin {"resolve", "send_test", "recv", "send_last"}
        /\ Head(todo') \notin {"recv", "send_last"}
        /\ Head(todo') \in {"new", "setOnError", "open", "setOnReadable"} =>
             step \in {"new", "setOnError", "open", "setOnReadable"}
        /\ Head(todo') \in {"close", "delete", "passed", "failed"} => step \in {"close", "delete"}
  BY Zenon, <1>2, <1>6
<1> QED BY Zenon, <1>2, <1>4, <1>5, <1>7 DEF Doing

(* The handlers that are started keep to the order.                        *)
LEMMA Scripts ==
  ASSUME todo' \in {<<>>, <<"recv">>, <<"send_test">>, <<"send_last">>}
         \/ todo' = <<"open", "setOnReadable", "send_test">>
  PROVE  InOrder(UdpOrder)'
<1>1. CASE todo' = <<>> BY <1>1 DEF InOrder
<1>2. ASSUME NEW x \in {"recv", "send_test", "send_last"}, todo' = <<x>>
      PROVE  InOrder(UdpOrder)'
  <2>1. x \in Step BY Zenon DEF Step
  <2>2. Len(todo') = 1 /\ todo' \in Seq(Step) /\ todo'[1] = x BY <1>2, <2>1
  <2> QED BY <2>2 DEF InOrder
<1>3. CASE todo' = <<"open", "setOnReadable", "send_test">>
  <2>1. /\ Len(todo') = 3 /\ todo' \in Seq(Step)
        /\ todo'[1] = "open" /\ todo'[2] = "setOnReadable" /\ todo'[3] = "send_test"
    BY <1>3 DEF Step
  <2>2. <<"open", "setOnReadable">> \in UdpOrder /\ <<"setOnReadable", "send_test">> \in UdpOrder
    BY Zenon DEF UdpOrder
  <2>3. ASSUME NEW k \in 1..3
        PROVE  /\ k < 3 => <<todo'[k], todo'[k + 1]>> \in UdpOrder
               /\ todo'[k] # "delete"
    <3>1. CASE k = 1 BY <2>1, <2>2, <3>1
    <3>2. CASE k = 2 BY <2>1, <2>2, <3>2
    <3>3. CASE k = 3 BY <2>1, <3>3
    <3> QED BY <3>1, <3>2, <3>3
  <2> QED BY Zenon, <2>1, <2>3 DEF InOrder
<1> QED BY Zenon, <1>1, <1>2, <1>3

(* The calls that end a handler are its last.                              *)
LEMMA EndLast ==
  ASSUME InOrder(UdpOrder), NEW step, Doing({step}),
         step \in {"resolve", "send_test", "recv", "send_last", "passed", "failed"}
  PROVE  \A x : Last(x) <=> x = step
<1>1. todo \in Seq(Step) /\ todo # <<>> /\ todo[1] = step BY DEF Doing, InOrder
<1>2. PICK n \in Nat : n = Len(todo) /\ n # 0 BY <1>1
<1>3. Len(todo) = 1
  <2>1. ASSUME 1 < n PROVE FALSE
    <3>1. <<todo[1], todo[2]>> \in UdpOrder BY <1>2, <2>1 DEF InOrder
    <3>2. ASSUME NEW y, <<step, y>> \in UdpOrder PROVE FALSE BY Zenon, <3>2 DEF UdpOrder
    <3> QED BY Zenon, <1>1, <3>1, <3>2
  <2>2. ~(1 < n) => n = 1 BY <1>2
  <2> QED BY Zenon, <1>2, <2>1, <2>2
<1> QED BY Zenon, <1>1, <1>3 DEF Last

-----------------------------------------------------------------------------
(* Steps that leave the account of the test alone.                         *)

\* Of the calls that come before the first datagram.
Opening == Doing({"new", "setOnError", "open", "setOnReadable"})
Ending == Doing({"close", "delete", "passed", "failed"})
Account == ResolveOnce /\ LoopsCounted /\ (Orderly => OneAtATime)
counters == <<loop_ctr, tests, air>>

(* The question is asked as before.                                        *)
LEMMA ResolveFrame ==
  ASSUME ResolveOnce, tests' = tests, SameQueue("onDNS"),
         call'.op = call.op \/ call'.op \notin {"resolve", "connect"},
         \A i \in Impl : asked'[i] \in {asked[i], {}},
         Last("resolve")' => Last("resolve"),
         Last("send_test")' => Last("send_test"),
         Opening' => Opening
  PROVE  ResolveOnce'
<1>1. Asked' => Asked BY Zenon DEF Asked
<1>2. (Waiting("onDNS")' <=> Waiting("onDNS")) /\ (Once("onDNS") => Once("onDNS")')
  BY Zenon, QueueSame
<1>3. /\ \A i, j \in Impl : asked'[i] # {} /\ asked'[j] # {} => i = j
      /\ \A i \in Impl : \A r \in asked'[i] : r = <<"onDNS", Func>>
  BY Zenon DEF ResolveOnce
<1> QED BY Zenon, <1>1, <1>2, <1>3 DEF ResolveOnce, Opening

(* The loops are counted as before.                                        *)
LEMMA LoopsFrame ==
  ASSUME LoopsCounted, UNCHANGED counters, SameQueue("onReadable"),
         \A i \in Impl : rx'[i] \in {rx[i], <<>>},
         tests = 0 => ~Doing({"recv", "send_last"})',
         Doing({"send_last"})' => Doing({"send_last"}),
         Last("send_test")' => Last("send_test"),
         Last("send_test") => Last("send_test")' \/ tests = 0,
         \/ life'[Sock] # "live" \/ tests = 0
         \/ life[Sock] = "live" /\ (impl'[Sock] = NULL => impl[Sock] = NULL)
  PROVE  LoopsCounted'
<1>1. Waiting("onReadable")' <=> Waiting("onReadable") BY Zenon, QueueSame
<1>2. loop_ctr' = loop_ctr /\ tests' = tests /\ air' = air BY Zenon DEF counters
<1>3. tests = 0 =>
        /\ loop_ctr' = 0 /\ ~Waiting("onReadable")' /\ ~Doing({"recv", "send_last"})'
        /\ \A d \in Data : air'[d] = 0
        /\ \A i \in Impl : rx'[i] = <<>>
  BY Zenon, <1>1, <1>2 DEF LoopsCounted
<1>4. life'[Sock] = "live" /\ (\E d \in Data : air'[d] # 0) => impl'[Sock] # NULL
  BY Zenon, <1>2, <1>3 DEF LoopsCounted
<1> QED BY Zenon, <1>2, <1>3, <1>4 DEF LoopsCounted

(* One datagram is out as before.                                          *)
LEMMA OneFrame ==
  ASSUME LoopsCounted, OneAtATime, UNCHANGED <<tests, air, verdict, terminates>>,
         SameQueue("onReadable"), Waiting("onError")' => Waiting("onError"),
         ~Ending', Doing({"recv"})' => Doing({"recv"}),
         Last("send_test")' => Last("send_test") \/ tests = 0,
         \A i \in Impl : rx'[i] \in {rx[i], <<>>},
         \/ tests = 0
         \/ /\ impl'[Sock] = impl[Sock]
            /\ impl[Sock] # NULL => rx'[impl[Sock]] = rx[impl[Sock]]
  PROVE  OneAtATime'
<1>1. /\ Waiting("onReadable")' <=> Waiting("onReadable")
      /\ Once("onReadable") => Once("onReadable")'
  BY Zenon, QueueSame
<1>2. tests = 0 =>
        /\ ~Waiting("onReadable") /\ ~Doing({"recv"})
        /\ \A d \in Data : air[d] = 0
        /\ \A i \in Impl : rx'[i] = <<>>
  BY Zenon DEF LoopsCounted, Doing
<1>3. Unread /\ tests # 0 => Unread' BY Zenon DEF Unread
<1>4. \A d \in Data : air'[d] # 0 =>
        d = tests' /\ air'[d] = 1 /\ ~Last("send_test")' /\ \A i \in Impl : rx'[i] = <<>>
  BY Zenon, <1>2 DEF OneAtATime
<1>5. \A i \in Impl : rx'[i] # <<>> => i = impl'[Sock] /\ Unread' /\ ~Last("send_test")'
  BY Zenon, <1>2, <1>3 DEF OneAtATime
<1>6. /\ Waiting("onReadable")' => Unread' /\ ~Doing({"recv"})'
      /\ Doing({"recv"})' => Unread'
  BY Zenon, <1>1, <1>2, <1>3 DEF OneAtATime
<1> QED BY Zenon, <1>1, <1>4, <1>5, <1>6 DEF OneAtATime, Ending

(* A step that leaves the handler as it is, and the datagrams with it.     *)
LEMMA RestLoops ==
  ASSUME Ground', UdpInv, UNCHANGED <<todo, counters, faults>>, ForgetFreed,
         SameQueue("onReadable"),
         Orderly => /\ UNCHANGED <<terminates, verdict>> /\ impl'[Sock] = impl[Sock]
                    /\ Waiting("onError")' => Waiting("onError"),
         \/ life'[Sock] # "live"
         \/ life'[Sock] = life[Sock] /\ impl'[Sock] = impl[Sock]
  PROVE  LoopsCounted' /\ (Orderly' => OneAtATime')
<1>0. rx \in [Impl -> Seq(Data)] /\ LoopsCounted /\ (Orderly => OneAtATime) BY Zenon DEF UdpInv
<1>1. /\ \A i \in Impl : rx'[i] \in {rx[i], <<>>}
      /\ impl'[Sock] # NULL => rx'[impl'[Sock]] = rx[impl'[Sock]]
  BY Zenon, <1>0, ForgetRx
<1>2. /\ Last("send_test")' <=> Last("send_test")
      /\ \A S : Doing(S)' <=> Doing(S)
  BY Zenon DEF Last, Doing
<1>3. /\ Doing({"send_last"})' => Doing({"send_last"})
      /\ Doing({"recv", "send_last"})' => Doing({"recv", "send_last"})
      /\ Doing({"recv"})' => Doing({"recv"})
  BY Zenon, <1>2
<1>4. tests = 0 => ~Doing({"recv", "send_last"})' BY Zenon, <1>0, <1>3 DEF LoopsCounted
<1>5. LoopsCounted' BY Zenon, <1>0, <1>1, <1>2, <1>3, <1>4, LoopsFrame
<1>6. ASSUME Orderly' PROVE OneAtATime'
  <2>1. Orderly /\ OneAtATime BY Zenon, <1>0, <1>6 DEF Orderly, counters
  <2>2. ~Ending' BY Zenon, <1>2, <2>1 DEF OneAtATime, Ending
  <2>3. UNCHANGED <<tests, air, verdict, terminates>> BY Zenon, <2>1 DEF counters
  <2> QED BY Zenon, <1>0, <1>1, <1>2, <1>3, <2>1, <2>2, <2>3, OneFrame
<1> QED BY Zenon, <1>5, <1>6

(* It keeps the account if the question is left alone too.                 *)
LEMMA RestAccount ==
  ASSUME Ground', UdpInv, UNCHANGED <<todo, counters, faults>>, ForgetFreed,
         SameQueue("onDNS"), SameQueue("onReadable"),
         Orderly => /\ UNCHANGED <<terminates, verdict>> /\ impl'[Sock] = impl[Sock]
                    /\ Waiting("onError")' => Waiting("onError"),
         call'.op = call.op \/ call'.op \notin {"resolve", "connect"},
         \A i \in Impl : asked'[i] \in {asked[i], {}},
         \/ life'[Sock] # "live"
         \/ life'[Sock] = life[Sock] /\ impl'[Sock] = impl[Sock]
  PROVE  Account'
<1>1. ResolveOnce /\ UNCHANGED tests BY Zenon DEF UdpInv, counters
<1>2. /\ Last("resolve")' => Last("resolve")
      /\ Last("send_test")' => Last("send_test")
      /\ Opening' => Opening
  BY Zenon DEF Last, Doing, Opening
<1>3. ResolveOnce' BY Zenon, <1>1, <1>2, ResolveFrame
<1>4. LoopsCounted' /\ (Orderly' => OneAtATime') BY Zenon, RestLoops
<1> QED BY Zenon, <1>3, <1>4 DEF Account

(* The client's own steps keep the account.                                *)
LEMMA ClientAccount ==
  ASSUME Ground, Ground', UdpInv, ClientStep, UNCHANGED <<counters, faults>>
  PROVE  Account'
\* A call in the course of a handler leaves the account alone.
<1>QuietCall.
  ASSUME NEW step, Doing({step}),
         step \notin {"resolve", "send_test", "recv", "send_last"}, todo' = Tail(todo),
         UNCHANGED <<counters, faults, terminates, verdict, posted, asked>>, ForgetFreed,
         call'.op = call.op \/ call'.op \notin {"resolve", "connect"},
         tests = 0 \/ (impl'[Sock] = impl[Sock] /\ (life'[Sock] = "live" => life[Sock] = "live"))
  PROVE  Account'
  <2> USE <1>QuietCall
  <2>0. /\ rx \in [Impl -> Seq(Data)] /\ InOrder(UdpOrder)
        /\ ResolveOnce /\ LoopsCounted /\ (Orderly => OneAtATime)
    BY Zenon DEF UdpInv
  <2>1. /\ \A x : Last(x)' <=> Last(x) /\ todo' # <<>>
        /\ todo' = <<>> => Last(step)
        /\ ~Doing({"recv", "send_last"})'
        /\ Opening' => step \in {"new", "setOnError", "open", "setOnReadable"}
        /\ Ending' => step \in {"close", "delete"}
    BY Zenon, <2>0, UdpTail DEF Opening, Ending
  <2>2. /\ \A i \in Impl : rx'[i] \in {rx[i], <<>>}
        /\ impl'[Sock] # NULL => rx'[impl'[Sock]] = rx[impl'[Sock]]
    BY Zenon, <2>0, ForgetRx
  <2>3. SameQueue("onDNS") /\ SameQueue("onReadable") /\ (Waiting("onError")' <=> Waiting("onError"))
    BY Zenon DEF SameQueue, Waiting
  <2>4. /\ Last("resolve")' => Last("resolve")
        /\ Last("send_test")' <=> Last("send_test")
    BY Zenon, <2>1 DEF Last
  <2>5. (Opening' => Opening) /\ (Ending' => Ending) BY Zenon, <2>1 DEF Opening, Ending, Doing
  <2>6. ResolveOnce' BY Zenon, <2>0, <2>3, <2>4, <2>5, ResolveFrame DEF counters
  <2>7. ~Doing({"recv"})' /\ ~Doing({"send_last"})' BY Zenon, <2>1 DEF Doing
  <2>8. LoopsCounted' BY Zenon, <2>0, <2>1, <2>2, <2>3, <2>4, <2>7, LoopsFrame
  <2>9. ASSUME Orderly' PROVE OneAtATime'
    <3>1. Orderly /\ OneAtATime BY Zenon, <2>0, <2>9 DEF Orderly, counters
    <3>2. ~Ending' BY Zenon, <2>5, <3>1 DEF OneAtATime, Ending
    <3>3. UNCHANGED <<tests, air, verdict, terminates>> BY Zenon DEF counters
    <3> QED BY Zenon, <2>0, <2>2, <2>3, <2>4, <2>7, <3>1, <3>2, <3>3, OneFrame
  <2> QED BY Zenon, <2>6, <2>8, <2>9 DEF Account
\* new starts the client with nothing sent.
<1>NewAccount.
  ASSUME New
  PROVE  Account'
  <2> USE <1>NewAccount
  <2>1. /\ Doing({"new"}) /\ todo' = Tail(todo) /\ Construct(Sock) /\ ForgetFreed
        /\ UNCHANGED <<terminates, verdict>>
    BY Zenon DEF New, At, Below
  <2>2. UNCHANGED <<call, posted, asked>>
    BY Zenon, <2>1 DEF Construct, NewStream, NewListener, NewDatagram, netVars
  <2>3. tests = 0 BY Zenon, <2>1 DEF UdpInv, ResolveOnce, Doing
  <2>4. tests = 0 \/ (impl'[Sock] = impl[Sock] /\ (life'[Sock] = "live" => life[Sock] = "live"))
    BY Zenon, <2>3
  <2> QED BY Zenon, <2>1, <2>2, <2>4, <1>QuietCall
\* The calls of the handlers leave the account alone; with resolve the
\* address is being asked for.
<1>LayerCallAccount.
  ASSUME LayerCall
  PROVE  Account'
  <2> USE <1>LayerCallAccount
  <2>0. Types /\ Sock \in Obj /\ Sock \notin Streams
    BY Zenon, BaseTypes, ClientKnown, DatagramAssumption, ConstantsAssumption DEF Ground, TCP
  <2>1. ForgetFreed /\ todo' = Tail(todo) /\ UNCHANGED <<terminates, verdict>>
    BY Zenon DEF LayerCall, Below
  <2>2. ASSUME NEW step, At(step), step \in {"setOnError", "setOnReadable", "setOnSent"},
               NEW s, SetOn(Sock, s, Func)
        PROVE  Account'
    <3>1. UNCHANGED <<life, impl, call, posted, asked>> BY Zenon, <2>2 DEF SetOn, netVars
    <3> QED BY Zenon, <2>1, <2>2, <3>1, <1>QuietCall DEF At
  <2>3. CASE At("open") /\ Open(Sock)
    <3>1. UNCHANGED <<call, posted, asked>> BY Zenon, <2>3 DEF Open
    <3>2. Doing({"open"}) BY Zenon, <2>3 DEF At
    <3>3. tests = 0 BY Zenon, <3>2 DEF UdpInv, ResolveOnce, Doing
    <3>4. tests = 0 \/ (impl'[Sock] = impl[Sock] /\ (life'[Sock] = "live" => life[Sock] = "live"))
      BY Zenon, <3>3
    <3> QED BY Zenon, <2>1, <3>1, <3>2, <3>4, <1>QuietCall
  <2>4. CASE Doing({"close"}) /\ (Close(Sock) \/ UNCHANGED socketVars)
    <3>1. UNCHANGED <<life, impl, call, posted, asked>>
      BY Zenon, <2>4 DEF Close, socketVars, objVars, netVars
    <3> QED BY Zenon, <2>1, <2>4, <3>1, <1>QuietCall
  <2>5. CASE Doing({"delete"}) /\ DeleteDatagram(Sock)
    <3>1. /\ UNCHANGED <<impl, posted, asked>> /\ call'.op = "delete" /\ life[Sock] = "live"
      BY Zenon, <2>5 DEF DeleteDatagram, Main, netVars, Idle
    <3> QED BY Zenon, <2>1, <2>5, <3>1, <1>QuietCall
  <2>6. CASE At("resolve") /\ Resolve(Sock, Func)
    <3>0. /\ rx \in [Impl -> Seq(Data)] /\ InOrder(UdpOrder)
          /\ ResolveOnce /\ LoopsCounted /\ (Orderly => OneAtATime)
      BY Zenon DEF UdpInv
    <3>1. /\ UNCHANGED <<life, impl, posted, asked>> /\ call'.op = "resolve"
          /\ Doing({"resolve"})
      BY Zenon, <2>6 DEF Resolve, BeginAssign, netVars, At
    <3>2. todo' = <<>> /\ Last("resolve") BY Zenon, <2>1, <3>0, <3>1, UdpTail
    <3>3. ~Last("resolve")' /\ ~Last("send_test")' /\ \A S : ~Doing(S)' BY Zenon, <3>2 DEF Last, Doing
    <3>4. ~Last("send_test") /\ tests = 0 BY Zenon, <3>0, <3>2 DEF ResolveOnce
    <3>5. /\ SameQueue("onDNS") /\ SameQueue("onReadable")
          /\ Waiting("onError")' <=> Waiting("onError")
      BY Zenon, <3>1 DEF SameQueue, Waiting
    <3>6. (Waiting("onDNS")' <=> Waiting("onDNS")) /\ (Once("onDNS") => Once("onDNS")')
      BY Zenon, <3>5, QueueSame
    <3>7. ResolveOnce'
      BY Zenon, <3>0, <3>1, <3>2, <3>3, <3>4, <3>6 DEF ResolveOnce, Asked, counters
    <3>8. \A i \in Impl : rx'[i] \in {rx[i], <<>>} BY Zenon, <2>1, <3>0, ForgetRx
    <3>9. LoopsCounted' BY Zenon, <3>0, <3>3, <3>4, <3>5, <3>8, LoopsFrame
    <3>10. ASSUME Orderly' PROVE OneAtATime'
      <4>1. Orderly /\ OneAtATime BY Zenon, <3>0, <3>10 DEF Orderly, counters
      <4>2. ~Ending' BY Zenon, <3>3 DEF Ending
      <4>3. UNCHANGED <<tests, air, verdict, terminates>> BY Zenon, <2>1 DEF counters
      <4> QED BY Zenon, <3>0, <3>3, <3>4, <3>5, <3>8, <4>1, <4>2, <4>3, OneFrame
    <3> QED BY Zenon, <3>7, <3>9, <3>10 DEF Account
  <2>7. ~SetOnDisconnect(Sock, Func) /\ ~Connect(Sock, Func) /\ ~DeleteStream(Sock)
    BY Zenon, <2>0 DEF SetOnDisconnect, Connect, DeleteStream
  <2> QED BY Zenon, <2>2, <2>3, <2>4, <2>5, <2>6, <2>7
     DEF LayerCall, AsynchOpen, DatagramOpen, CloseConnected
\* A step that changes nothing below and empties the handler, or starts the
\* last one, ends the account; the calls left are not counted.
<1>EndAccount.
  ASSUME UNCHANGED <<life, impl, posted>>,
         \A i \in Impl : rx'[i] \in {rx[i], <<>>},
         call'.op = call.op \/ call'.op \notin {"resolve", "connect"},
         \A i \in Impl : asked'[i] \in {asked[i], {}},
         ~Orderly, Last("send_test") => tests = 0,
         todo' = <<>> \/ \E x \in {"passed", "failed"} : todo' = <<"close", "delete", x>>
  PROVE  Account'
  <2> USE <1>EndAccount
  <2>0. ResolveOnce /\ LoopsCounted BY Zenon DEF UdpInv
  <2>2. SameQueue("onDNS") /\ SameQueue("onReadable") BY Zenon DEF SameQueue
  <2>3. /\ ~Last("resolve")' /\ ~Last("send_test")' /\ ~Opening'
        /\ ~Doing({"recv", "send_last"})' /\ ~Doing({"send_last"})'
    <3>1. CASE todo' = <<>> BY Zenon, <3>1 DEF Last, Doing, Opening
    <3>2. ASSUME NEW x \in {"passed", "failed"}, todo' = <<"close", "delete", x>>
          PROVE  /\ ~Last("resolve")' /\ ~Last("send_test")' /\ ~Opening'
                 /\ ~Doing({"recv", "send_last"})' /\ ~Doing({"send_last"})'
      <4>1. Len(todo') = 3 /\ todo'[3] = x /\ Head(todo') = "close" BY <3>2
      <4> QED BY Zenon, <4>1 DEF Last, Doing, Opening
    <3> QED BY Zenon, <3>1, <3>2
  <2>4. ResolveOnce' BY Zenon, <2>0, <2>2, <2>3, ResolveFrame DEF counters
  <2>5. LoopsCounted' BY Zenon, <2>0, <2>2, <2>3, LoopsFrame
  <2>6. ~Orderly' BY Zenon DEF Orderly, counters
  <2> QED BY Zenon, <2>4, <2>5, <2>6 DEF Account
\* The rest of resolve: the address is asked for, or the test has failed.
<1>ProceedAccount.
  ASSUME Proceed
  PROVE  Account'
  <2> USE <1>ProceedAccount
  <2>0. /\ Types /\ Sock \in Obj /\ call \in Call /\ ResolveOnce /\ LoopsCounted /\ ClientCall
        /\ rx \in [Impl -> Seq(Data)] /\ (Orderly => OneAtATime)
    BY Zenon, BaseTypes, ClientKnown DEF Ground, BaseInv, SocketTypeOK, UdpInv, OnlyClient
  <2>1. /\ ForgetFreed /\ Continue /\ UNCHANGED terminates
        /\ \/ todo' = todo /\ UNCHANGED verdict
           \/ /\ call.pc = "api" /\ asked' = asked /\ "refuse" \in faults
              /\ todo' = <<>>
    BY Zenon DEF Proceed, Below, Assert
  <2>2. UNCHANGED <<life, impl, posted>> BY Zenon, <2>1, ContinueQuiet
  <2>3. SameQueue("onDNS") /\ SameQueue("onReadable") /\ (Waiting("onError")' <=> Waiting("onError"))
    BY Zenon, <2>2 DEF SameQueue, Waiting
  <2>4. ~StartListeningApi /\ ~ConnectApi
    BY Zenon, <2>0 DEF StartListeningApi, ConnectApi, StackAnswers, ClientCall, ResolveOnce
  <2>5. /\ call'.op = call.op \/ call'.op \notin {"resolve", "connect"}
        /\ ResolveApi \/ (call.pc = "copy" /\ asked' = asked)
    <3>1. CASE EndAssign BY Zenon, <2>0, <3>1 DEF EndAssign, netVars, Call, Idle
    <3>2. CASE ResolveApi BY Zenon, <3>2 DEF ResolveApi, StackAnswers, Idle
    <3> QED BY Zenon, <2>1, <2>4, <3>1, <3>2 DEF Continue
  <2>6. CASE asked' = asked /\ todo' = todo /\ UNCHANGED verdict
    BY Zenon, <2>1, <2>2, <2>3, <2>5, <2>6, RestAccount
  <2>7. CASE asked' = asked /\ todo' = <<>> /\ "refuse" \in faults /\ call.pc = "api"
    <3>1. call.op = "resolve" BY Zenon, <2>5, <2>7 DEF ResolveApi, StackAnswers
    <3>2. ~Last("send_test") BY Zenon, <2>0, <3>1 DEF ResolveOnce
    <3>3. ~Orderly BY Zenon, <2>7 DEF Orderly
    <3>4. \A i \in Impl : rx'[i] \in {rx[i], <<>>} BY Zenon, <2>0, <2>1, ForgetRx
    <3> QED BY Zenon, <2>2, <2>5, <2>7, <3>2, <3>3, <3>4, <1>EndAccount
  <2>8. CASE ResolveApi /\ asked' # asked /\ todo' = todo /\ UNCHANGED verdict
    <3>1. /\ call.op = "resolve" /\ call' = Idle
          /\ asked' = [asked EXCEPT ![impl[call.obj]] = @ \cup {<<call.slot, call.fn>>}]
      BY Zenon, <2>8 DEF ResolveApi, StackAnswers, Request, NoStackChange, netVars
    <3>2. call.obj = Sock /\ <<call.slot, call.fn>> = <<"onDNS", Func>>
      BY Zenon, <2>0, <3>1 DEF ClientCall
    <3>3. ~Asked /\ ~Waiting("onDNS") /\ tests = 0 /\ ~Last("send_test") /\ ~Last("resolve")
      BY Zenon, <2>0, <3>1 DEF ResolveOnce
    <3>4. /\ \A i \in Impl : asked'[i] # {} => i = impl[Sock]
          /\ \A i \in Impl : \A r \in asked'[i] : r = <<"onDNS", Func>>
      BY <2>0, <3>1, <3>2, <3>3 DEF Asked, Types
    <3>5. /\ \A x : Last(x)' <=> Last(x)
          /\ \A S : Doing(S)' <=> Doing(S)
      BY Zenon, <2>8 DEF Last, Doing
    <3>6. (Waiting("onDNS")' <=> Waiting("onDNS")) /\ (Once("onDNS") => Once("onDNS")')
      BY Zenon, <2>3, QueueSame
    <3>7. call'.op = "idle" BY Zenon, <3>1 DEF Idle
    <3>8. ResolveOnce'
      <4>1. ~Last("resolve")' /\ ~Last("send_test")' /\ (Opening' <=> Opening)
        BY Zenon, <3>3, <3>5 DEF Opening
      <4>2. tests' = 0 BY Zenon, <3>3 DEF counters
      <4> QED BY Zenon, <2>0, <3>3, <3>4, <3>6, <3>7, <4>1, <4>2 DEF ResolveOnce
    <3>9. LoopsCounted' /\ (Orderly' => OneAtATime') BY Zenon, <2>1, <2>2, <2>3, <2>8, RestLoops
    <3> QED BY Zenon, <3>8, <3>9 DEF Account
  <2> QED BY Zenon, <2>1, <2>5, <2>6, <2>7, <2>8
\* While a socket is being destroyed its client is ending the test.
<1>DestroyAccount.
  ASSUME Destroy
  PROVE  Account'
  <2> USE <1>DestroyAccount
  <2>0. Types /\ Sock \in Obj /\ PointerInv /\ (Orderly => OneAtATime)
    BY Zenon, BaseTypes, ClientKnown DEF Ground, UdpInv
  <2>1. ForgetFreed /\ UNCHANGED <<todo, terminates, verdict>> BY Zenon DEF Destroy, Below, echoVars
  <2>2. life[Sock] \in {"~TCPAsynch", "~Socket"}
    BY Zenon DEF Destroy, Below, AsynchDtor, SocketDtor
  <2>3. Ending BY Zenon, <2>0, <2>2 DEF PointerInv, Ending, Doing
  <2>4. ~Orderly BY Zenon, <2>0, <2>3 DEF OneAtATime, Ending
  <2>5. \E x \in {"~Socket", "dead"} : life' = [life EXCEPT ![Sock] = x]
    BY Zenon DEF Destroy, Below, AsynchDtor, SocketDtor
  <2>6. life'[Sock] # "live" BY Zenon, <2>0, <2>5 DEF Types
  <2>7. CASE AsynchDtor(Sock)
    <3>1. UNCHANGED <<call, posted, asked>> BY Zenon, <2>7 DEF AsynchDtor, netVars
    <3>2. SameQueue("onDNS") /\ SameQueue("onReadable") BY Zenon, <3>1 DEF SameQueue
    <3> QED BY Zenon, <2>1, <2>4, <2>6, <3>1, <3>2, RestAccount
  <2>8. CASE SocketDtor(Sock)
    <3>1. call'.op = "idle" BY Zenon, <2>8 DEF SocketDtor, Idle
    <3>2. \A i \in Impl : asked'[i] \in {asked[i], {}}
      <4>1. asked \in [Impl -> SUBSET (Slot \X Fn)] BY Zenon DEF Ground, BaseInv, SocketTypeOK
      <4>2. asked' = asked \/ asked' = [asked EXCEPT ![impl[Sock]] = {}]
        BY Zenon, <2>8 DEF SocketDtor, NoStackChange, netVars
      <4> QED BY Zenon, <4>1, <4>2
    <3>3. UNCHANGED posted \/ posted' = Enqueue(posted, Bind(Sock, "onError", "stack error"))
      BY Zenon, <2>8 DEF SocketDtor, ErrorCheck
    <3>4. SameQueue("onDNS") /\ SameQueue("onReadable")
      <4>1. PICK c : c = Bind(Sock, "onError", "stack error") BY Zenon
      <4>2. c.slot = "onError" BY Zenon, <4>1 DEF Bind
      <4>3. CASE UNCHANGED posted BY Zenon, <4>3 DEF SameQueue
      <4>4. CASE posted' = Enqueue(posted, c) BY Zenon, <4>2, <4>4, QueueOther
      <4> QED BY Zenon, <3>3, <4>1, <4>3, <4>4
    <3> QED BY Zenon, <2>1, <2>4, <2>6, <3>1, <3>2, <3>4, RestAccount
  <2> QED BY Zenon, <2>7, <2>8 DEF Destroy, Below
<1>0. /\ InOrder(UdpOrder) /\ ResolveOnce /\ LoopsCounted /\ (Orderly => OneAtATime)
      /\ rx \in [Impl -> Seq(Data)] /\ PointerInv /\ BaseInv
  BY Zenon DEF UdpInv, Ground
<1>1. ASSUME UNCHANGED allVars, ~Orderly, Last("send_test") => tests = 0,
             todo' = <<>> \/ \E x \in {"passed", "failed"} : todo' = <<"close", "delete", x>>
      PROVE  Account'
  <2>1. UNCHANGED <<life, impl, posted, call, asked, rx>>
    BY Zenon, <1>1 DEF allVars, vars, socketVars, objVars, netVars, dataVars
  <2> QED BY Zenon, <1>1, <2>1, <1>EndAccount
<1>2. CASE OpenRefused
  <2>1. UNCHANGED allVars /\ todo' = <<>> /\ "refuse" \in faults /\ Doing({"open"})
    BY Zenon, <1>2 DEF OpenRefused, Assert, At
  <2>2. ~Orderly BY Zenon, <2>1 DEF Orderly
  <2>3. tests = 0 BY Zenon, <1>0, <2>1 DEF ResolveOnce, Doing
  <2> QED BY Zenon, <1>1, <2>1, <2>2, <2>3
<1>3. CASE Finish
  <2>1. UNCHANGED allVars /\ todo' = <<>> /\ \E x \in {"passed", "failed"} : Doing({x})
    BY Zenon, <1>3 DEF Finish, Doing
  <2>2. ~Orderly BY Zenon, <1>0, <2>1 DEF OneAtATime, Doing
  <2>3. ~Last("send_test")
    <3>1. PICK x \in {"passed", "failed"} : Doing({x}) BY Zenon, <2>1
    <3>2. Last("send_test") <=> "send_test" = x BY Zenon, <1>0, <3>1, EndLast
    <3> QED BY Zenon, <3>2
  <2> QED BY Zenon, <1>1, <2>1, <2>2, <2>3
<1>4. ASSUME NEW status \in BOOLEAN, Terminate(status) PROVE Account'
  <2>1. UNCHANGED allVars /\ todo = <<>> BY Zenon, <1>4 DEF Terminate
  <2>2. terminates[status] # 0
    <3>1. terminates[status] \in Nat /\ terminates[status] > 0
      BY Zenon, <1>4 DEF Terminate, UdpInv, UdpTypeOK, EchoTypeOK
    <3> QED BY <3>1
  <2>3. ~Orderly BY <1>0, <2>2, Zenon DEF OneAtATime
  <2>4. ~Last("send_test") BY Zenon, <2>1 DEF Last
  <2>5. todo' = <<>> \/ \E x \in {"passed", "failed"} : todo' = <<"close", "delete", x>>
    BY Zenon, <1>4 DEF Terminate
  <2> QED BY Zenon, <1>1, <2>1, <2>3, <2>4, <2>5
<1> QED
  BY Zenon, <1>2, <1>3, <1>4, <1>NewAccount, <1>LayerCallAccount, <1>ProceedAccount, <1>DestroyAccount
     DEF ClientStep

-----------------------------------------------------------------------------
(* The datagrams.                                                          *)

(* A datagram that the stack takes is under way; the layer is as it was.   *)
LEMMA SendEffect ==
  ASSUME UdpTypeOK, NEW d \in Data, SendDatagram(d)
  PROVE  /\ Main(Sock) /\ UNCHANGED <<vars, rx, client, loop_ctr>>
         /\ air' \in [Data -> Nat]
         /\ out'.err = "NONE" => impl[Sock] # NULL /\ air' = [air EXCEPT ![d] = @ + 1]
         /\ out'.err # "NONE" => air' = air /\ "refuse" \in faults
<1>1. Main(Sock) /\ UNCHANGED <<vars, rx, client, loop_ctr>>
  BY Zenon DEF SendDatagram, SendTo, Transmit
<1>2. PICK err \in Verdict(Sock, TRUE, SendErrors(Sock)) : out' = Reply(Sock, "send_to", err)
  BY Zenon DEF SendDatagram, SendTo, Transmit
<1>3. out'.err = err BY Zenon, <1>2 DEF Reply, ReadReply
<1>4. /\ impl[Sock] = NULL => err = "NULL_PTR"
      /\ err # "WOULD_BLOCK"
  BY Zenon, <1>2 DEF Verdict, SendErrors
<1>5. air \in [Data -> Nat] BY Zenon DEF UdpTypeOK
<1>6. /\ out'.err = "NONE" => air' = [air EXCEPT ![d] = @ + 1]
      /\ out'.err # "NONE" => air' = air /\ "refuse" \in faults
  BY Zenon, <1>3, <1>4 DEF SendDatagram, ErrorsAllowed
<1>7. air' \in [Data -> Nat]
  <2>1. air[d] + 1 \in Nat BY <1>5
  <2> QED BY Zenon, <1>5, <1>6, <2>1
<1> QED BY Zenon, <1>1, <1>3, <1>4, <1>6, <1>7

(* send_test: the next datagram is the only one under way.                 *)
LEMMA SendTestAccount ==
  ASSUME Ground, UdpInv, SendTest, UNCHANGED faults
  PROVE  /\ UdpTypeOK' /\ UNCHANGED <<vars, rx>> /\ Main(Sock) /\ todo' = <<>>
         /\ Account'
<1>0. /\ UdpTypeOK /\ InOrder(UdpOrder) /\ ResolveOnce /\ LoopsCounted /\ (Orderly => OneAtATime)
      /\ Sock \in Obj /\ (impl[Sock] # NULL => impl[Sock] \in Impl) /\ MaxLoops \in Nat \ {0}
  BY Zenon, ClientKnown, LoopsAssumption DEF UdpInv, Ground, BaseInv, SocketTypeOK
<1>1. /\ Doing({"send_test"}) /\ SendDatagram(tests + 1) /\ tests' = tests + 1
      /\ UNCHANGED terminates /\ Assert(out'.err = "NONE", Tail(todo))
  BY Zenon DEF SendTest, At
<1>2. Last("send_test") /\ ~Last("resolve")
  <2>1. /\ Last("send_test") <=> "send_test" = "send_test"
        /\ Last("resolve") <=> "resolve" = "send_test"
    BY Zenon, <1>0, <1>1, EndLast
  <2> QED BY Zenon, <2>1
<1>3. tests = loop_ctr /\ loop_ctr < MaxLoops BY Zenon, <1>0, <1>2 DEF LoopsCounted
<1>4. loop_ctr \in Nat /\ tests \in Nat /\ tests + 1 \in 1..MaxLoops /\ tests + 1 \in Data
  BY <1>0, <1>3, LoopsAssumption DEF UdpTypeOK
<1>5. PICK d : d = tests + 1 BY Zenon
<1>6. /\ Main(Sock) /\ UNCHANGED <<vars, rx, client, loop_ctr>>
      /\ air' \in [Data -> Nat]
      /\ out'.err = "NONE" => impl[Sock] # NULL /\ air' = [air EXCEPT ![d] = @ + 1]
      /\ out'.err # "NONE" => air' = air /\ "refuse" \in faults
  BY Zenon, <1>0, <1>1, <1>4, <1>5, SendEffect
<1>7. todo' = <<>>
  <2>1. CASE todo' = Tail(todo) BY Zenon, <1>0, <1>1, <2>1, UdpTail
  <2> QED BY Zenon, <1>1, <2>1 DEF Assert
<1>8. UdpTypeOK'
  <2>1. verdict' \in {verdict, "failed"} BY Zenon, <1>1 DEF Assert
  <2>2. tests' \in 0..MaxLoops BY <1>0, <1>1, <1>4
  <2> QED BY Zenon, <1>0, <1>1, <1>6, <2>1, <2>2 DEF UdpTypeOK, EchoTypeOK
<1>9. UNCHANGED <<life, impl, call, posted, asked>>
  BY Zenon, <1>6 DEF vars, socketVars, objVars, netVars
<1>10. (\A x : ~Last(x)') /\ (\A S : ~Doing(S)') BY Zenon, <1>7 DEF Last, Doing
<1>11. ~Waiting("onDNS") /\ ~Asked /\ call.op # "resolve" BY Zenon, <1>0, <1>2 DEF ResolveOnce
<1>12. ResolveOnce'
  <2>1. ~Waiting("onDNS")' /\ ~Asked' BY Zenon, <1>9, <1>11 DEF Waiting, Asked
  <2> QED BY Zenon, <1>0, <1>9, <1>10, <1>11, <2>1 DEF ResolveOnce, Once
<1>13. LoopsCounted'
  <2>1. tests' # 0 /\ tests' = (IF loop_ctr' < MaxLoops THEN loop_ctr' + 1 ELSE MaxLoops)
    BY <1>1, <1>3, <1>4, <1>6
  <2>2. life'[Sock] = "live" /\ (\E e \in Data : air'[e] # 0) => impl'[Sock] # NULL
    BY Zenon, <1>0, <1>6, <1>9 DEF LoopsCounted
  <2> QED BY Zenon, <1>10, <2>1, <2>2 DEF LoopsCounted
<1>14. ASSUME Orderly' PROVE OneAtATime'
  <2>1. Orderly /\ OneAtATime BY Zenon, <1>0, <1>6, <1>14 DEF Orderly
  <2>2. out'.err = "NONE" BY Zenon, <1>6, <2>1 DEF Orderly
  <2>3. /\ UNCHANGED verdict /\ impl[Sock] # NULL
        /\ air' = [air EXCEPT ![d] = @ + 1]
    BY Zenon, <1>1, <1>6, <2>2 DEF Assert
  <2>4. /\ \A e \in Data : air[e] = 0
        /\ \A i \in Impl : rx[i] = <<>>
    BY Zenon, <1>2, <2>1 DEF OneAtATime
  <2>5. \A e \in Data : air'[e] = IF e = d THEN 1 ELSE 0
    BY <1>0, <1>4, <1>5, <2>3, <2>4 DEF UdpTypeOK
  <2>6. ~Waiting("onReadable")
    BY <1>0, <2>1, <2>4 DEF OneAtATime, Unread
  <2>7. ~Waiting("onReadable")' /\ ~Waiting("onError")'
    BY Zenon, <1>9, <2>1, <2>6 DEF OneAtATime, Waiting
  <2>8. /\ \A e \in Data : air'[e] # 0 =>
             e = tests' /\ air'[e] = 1 /\ ~Last("send_test")' /\ \A i \in Impl : rx'[i] = <<>>
        /\ \A i \in Impl : rx'[i] = <<>>
    BY Zenon, <1>1, <1>5, <1>6, <1>10, <2>4, <2>5
  <2>9. verdict' = "none" /\ \A status \in BOOLEAN : terminates'[status] = 0
    BY <1>1, <2>1, <2>3, Zenon DEF OneAtATime
  <2>10. Once("onReadable")' BY Zenon, <2>7 DEF Once, Waiting
  <2> QED BY Zenon, <1>10, <2>7, <2>8, <2>9, <2>10 DEF OneAtATime
<1> QED BY Zenon, <1>6, <1>7, <1>8, <1>12, <1>13, <1>14 DEF Account

(* The farewell: all the loops are done.                                   *)
LEMMA SendLastAccount ==
  ASSUME Ground, UdpInv, SendLast, UNCHANGED faults
  PROVE  /\ UdpTypeOK' /\ UNCHANGED <<vars, rx>> /\ Main(Sock) /\ todo' = <<>>
         /\ Account'
<1>0. /\ UdpTypeOK /\ InOrder(UdpOrder) /\ ResolveOnce /\ LoopsCounted
      /\ MaxLoops \in Nat \ {0} /\ loop_ctr \in Nat /\ tests \in 0..MaxLoops
  BY Zenon, LoopsAssumption DEF UdpInv, UdpTypeOK
<1>1. /\ Doing({"send_last"}) /\ Post(TRUE) /\ todo' = Tail(todo) /\ UNCHANGED <<tests, verdict>>
  BY Zenon DEF SendLast, At
<1>2. PICK d \in {tests, GARBLED} : SendDatagram(d) BY Zenon DEF SendLast
<1>3. tests # 0 /\ loop_ctr >= MaxLoops /\ ~(loop_ctr < MaxLoops)
  BY <1>0, <1>1 DEF LoopsCounted, Doing
<1>4. d \in Data BY <1>0, <1>3, LoopsAssumption
<1>6. /\ Main(Sock) /\ UNCHANGED <<vars, rx, client, loop_ctr>>
      /\ air' \in [Data -> Nat]
      /\ out'.err = "NONE" => impl[Sock] # NULL
      /\ out'.err # "NONE" => air' = air
  BY Zenon, <1>0, <1>2, <1>4, SendEffect
<1>7. todo' = <<>> /\ ~Last("send_test")
  <2>1. Last("send_test") <=> "send_test" = "send_last" BY Zenon, <1>0, <1>1, EndLast
  <2> QED BY Zenon, <1>0, <1>1, <2>1, UdpTail
<1>8. UdpTypeOK'
  <2>1. terminates' \in [BOOLEAN -> Nat] BY Zenon, <1>0, <1>1, PostType DEF UdpTypeOK, EchoTypeOK
  <2> QED BY Zenon, <1>0, <1>1, <1>6, <2>1 DEF UdpTypeOK, EchoTypeOK
<1>9. UNCHANGED <<life, impl, call, posted, asked>>
  BY Zenon, <1>6 DEF vars, socketVars, objVars, netVars
<1>10. (\A x : ~Last(x)') /\ (\A S : ~Doing(S)') BY Zenon, <1>7 DEF Last, Doing
<1>11. ResolveOnce'
  <2>1. SameQueue("onDNS") BY Zenon, <1>9 DEF SameQueue
  <2> QED BY Zenon, <1>0, <1>1, <1>9, <1>10, <2>1, ResolveFrame DEF Opening
<1>12. LoopsCounted'
  <2>1. life'[Sock] = "live" /\ (\E e \in Data : air'[e] # 0) => impl'[Sock] # NULL
    BY Zenon, <1>0, <1>6, <1>9 DEF LoopsCounted
  <2> QED BY Zenon, <1>0, <1>1, <1>3, <1>6, <1>7, <1>10, <2>1 DEF LoopsCounted
<1>13. ~Orderly' BY Zenon, <1>3, <1>6 DEF Orderly
<1> QED BY Zenon, <1>6, <1>7, <1>8, <1>11, <1>12, <1>13 DEF Account

(* onRx goes on: a valid echo ends a loop, and the next one begins.        *)
LEMMA ReceiptAccount ==
  ASSUME Ground, UdpInv, Receipt, UNCHANGED faults
  PROVE  /\ UdpTypeOK' /\ UNCHANGED <<vars, client>> /\ Main(Sock)
         /\ rx' \in [Impl -> Seq(Data)]
         /\ todo' \in {<<>>, <<"send_test">>, <<"send_last">>}
         /\ Account'
\* What a read takes out of the data that the stack holds.
<1>RecvEffect.
  ASSUME rx \in [Impl -> Seq(Data)], NEW n \in Sizes(Sock), Recv(Sock, n)
  PROVE  /\ Main(Sock) /\ UNCHANGED vars /\ n \in {0, 1}
         /\ rx' \in [Impl -> Seq(Data)]
         /\ out'.read = Front(Sock, n)
         /\ out'.err \in Verdict(Sock, TRUE, ReadErrors(Sock, n))
         /\ \A i \in Impl : i # impl[Sock] => rx'[i] = rx[i]
         /\ n = 1 => impl[Sock] \in Impl /\ Len(rx[impl[Sock]]) \in Nat \ {0}
                     /\ rx'[impl[Sock]] = Tail(rx[impl[Sock]])
                     /\ Len(Front(Sock, n)) = 1 /\ Front(Sock, n)[1] = rx[impl[Sock]][1]
  <2> USE <1>RecvEffect
  <2>0. Sock \in Obj /\ (impl[Sock] # NULL => impl[Sock] \in Impl) /\ Sock \in Datagrams
    BY Zenon, ClientKnown, DatagramAssumption DEF Ground, BaseInv, SocketTypeOK
  <2>1. Main(Sock) /\ UNCHANGED vars /\ TakeOut(Sock, n) BY Zenon DEF Recv
  <2>2. PICK err \in Verdict(Sock, TRUE, ReadErrors(Sock, n)) :
          out' = ReadReply(Sock, "recv", err, Front(Sock, n), NULL)
    BY Zenon DEF Recv
  <2>3. out'.err = err /\ out'.read = Front(Sock, n) BY Zenon, <2>2 DEF ReadReply
  <2>4. n \in {0, 1} /\ (n = 1 => impl[Sock] \in Impl /\ 1 <= Len(rx[impl[Sock]]))
    <3>1. CASE impl[Sock] = NULL \/ Closed(Sock) BY <3>1 DEF Sizes
    <3>2. CASE ~(impl[Sock] = NULL \/ Closed(Sock))
      <4>1. Len(rx[impl[Sock]]) \in Nat BY <2>0, <3>2
      <4>2. n \in 0..Len(rx[impl[Sock]]) /\ n <= 1 BY Zenon, <2>0, <3>2 DEF Sizes
      <4> QED BY <2>0, <3>2, <4>1, <4>2
    <3> QED BY Zenon, <3>1, <3>2
  <2>5. n = 0 => rx' = rx BY Zenon, <2>1 DEF TakeOut
  <2>6. ASSUME n = 1
        PROVE  /\ impl[Sock] \in Impl /\ Len(rx[impl[Sock]]) \in Nat \ {0}
               /\ rx' = [rx EXCEPT ![impl[Sock]] = Tail(rx[impl[Sock]])]
               /\ Tail(rx[impl[Sock]]) \in Seq(Data)
               /\ Len(Front(Sock, n)) = 1 /\ Front(Sock, n)[1] = rx[impl[Sock]][1]
    <3>1. PICK q : q = rx[impl[Sock]] BY Zenon
    <3>2. impl[Sock] \in Impl /\ q \in Seq(Data) /\ Len(q) \in Nat \ {0} /\ q # <<>>
      BY <2>4, <2>6, <3>1
    <3>3. Tail(q) = SubSeq(q, 2, Len(q)) /\ Tail(q) \in Seq(Data)
      BY <3>2
    <3>4. rx' = [rx EXCEPT ![impl[Sock]] = SubSeq(q, 2, Len(q))]
      BY <2>1, <2>6, <3>1 DEF TakeOut
    <3>5. Front(Sock, n) = SubSeq(q, 1, 1) BY <2>6, <3>1 DEF Front
    <3>6. Len(SubSeq(q, 1, 1)) = 1 /\ SubSeq(q, 1, 1)[1] = q[1] BY <3>2
    <3> QED BY Zenon, <3>1, <3>2, <3>3, <3>4, <3>5, <3>6
  <2>7. /\ rx' \in [Impl -> Seq(Data)]
        /\ \A i \in Impl : i # impl[Sock] => rx'[i] = rx[i]
        /\ n = 1 => rx'[impl[Sock]] = Tail(rx[impl[Sock]])
    BY Zenon, <2>4, <2>5, <2>6
  <2> QED BY Zenon, <2>1, <2>2, <2>3, <2>4, <2>6, <2>7
<1>0. /\ UdpTypeOK /\ InOrder(UdpOrder) /\ ResolveOnce /\ LoopsCounted /\ (Orderly => OneAtATime)
      /\ rx \in [Impl -> Seq(Data)] /\ Sock \in Obj
      /\ (impl[Sock] # NULL => impl[Sock] \in Impl /\ HasApi(Sock))
      /\ MaxLoops \in Nat \ {0} /\ loop_ctr \in Nat /\ tests \in 0..MaxLoops
  BY Zenon, ClientKnown, LoopsAssumption
     DEF UdpInv, UdpTypeOK, Ground, BaseInv, SocketTypeOK, HeldByOne
<1>1. PICK n \in Sizes(Sock) :
        Recv(Sock, n) /\ (out'.err # "NONE" => "refuse" \in faults \/ out'.err = "WOULD_BLOCK")
  BY Zenon DEF Receipt, ErrorsAllowed
<1>2. /\ Main(Sock) /\ UNCHANGED vars /\ n \in {0, 1}
      /\ rx' \in [Impl -> Seq(Data)]
      /\ out'.read = Front(Sock, n)
      /\ out'.err \in Verdict(Sock, TRUE, ReadErrors(Sock, n))
      /\ \A i \in Impl : i # impl[Sock] => rx'[i] = rx[i]
      /\ n = 1 => impl[Sock] \in Impl /\ Len(rx[impl[Sock]]) \in Nat \ {0}
                  /\ rx'[impl[Sock]] = Tail(rx[impl[Sock]])
                  /\ Len(Front(Sock, n)) = 1 /\ Front(Sock, n)[1] = rx[impl[Sock]][1]
  BY Zenon, <1>0, <1>1, <1>RecvEffect
<1>3. Doing({"recv"}) /\ UNCHANGED <<client, terminates, tests, air>> BY Zenon DEF Receipt, At
<1>4. /\ \/ /\ loop_ctr' = loop_ctr + 1 /\ todo' = AfterEcho(loop_ctr') /\ UNCHANGED verdict
         \/ /\ loop_ctr' = loop_ctr /\ todo' = <<>> /\ verdict' = "failed"
            /\ ~(out'.err = "NONE" /\ Valid(out'.read))
  BY Zenon DEF Receipt, Assert
<1>5. tests # 0 /\ ~Last("send_test")
  <2>1. Last("send_test") <=> "send_test" = "recv" BY Zenon, <1>0, <1>3, EndLast
  <2> QED BY Zenon, <1>0, <1>3, <2>1 DEF LoopsCounted, Doing
<1>6. tests = IF loop_ctr < MaxLoops THEN loop_ctr + 1 ELSE MaxLoops
  BY Zenon, <1>0, <1>5 DEF LoopsCounted
<1>7. UNCHANGED <<life, impl, call, posted, asked>>
  BY Zenon, <1>2 DEF vars, socketVars, objVars, netVars
<1>8. \/ todo' = <<>> /\ loop_ctr' = loop_ctr
      \/ todo' = <<"send_test">> /\ loop_ctr' = loop_ctr + 1 /\ loop_ctr' < MaxLoops
      \/ todo' = <<"send_last">> /\ loop_ctr' = loop_ctr + 1 /\ ~(loop_ctr' < MaxLoops)
  BY Zenon, <1>4 DEF AfterEcho
<1>9. /\ \A x \in {"resolve"} : ~Last(x)'
      /\ Last("send_test")' <=> todo' = <<"send_test">>
      /\ Doing({"send_last"})' => todo' = <<"send_last">>
      /\ ~Doing({"recv"})' /\ ~Opening' /\ ~Ending'
  <2>1. CASE todo' = <<>> BY Zenon, <2>1 DEF Last, Doing, Opening, Ending
  <2>2. ASSUME NEW x \in {"send_test", "send_last"}, todo' = <<x>> PROVE <1>9
    <3>1. Len(todo') = 1 /\ todo'[1] = x /\ Head(todo') = x /\ todo' # <<>> BY <2>2
    <3> QED BY Zenon, <2>2, <3>1 DEF Last, Doing, Opening, Ending
  <2> QED BY Zenon, <1>8, <2>1, <2>2
<1>10. loop_ctr' \in Nat BY <1>0, <1>8
<1>11. UdpTypeOK'
  BY Zenon, <1>0, <1>3, <1>4, <1>10 DEF UdpTypeOK, EchoTypeOK
<1>12. ResolveOnce'
  <2>1. ~Waiting("onDNS") /\ ~Asked /\ call.op # "resolve" /\ ~Last("resolve")
    BY Zenon, <1>0, <1>5 DEF ResolveOnce
  <2>2. ~Waiting("onDNS")' /\ ~Asked' BY Zenon, <1>7, <2>1 DEF Waiting, Asked
  <2>3. ~Last("resolve")' BY Zenon, <1>9
  <2> QED BY Zenon, <1>0, <1>7, <1>9, <2>1, <2>2, <2>3 DEF ResolveOnce, Once, Opening
<1>13. LoopsCounted'
  <2>0. <<"send_test">> # <<>> /\ <<"send_test">> # <<"send_last">> BY Zenon
  <2>1. Last("send_test")' => tests' = loop_ctr' /\ loop_ctr' < MaxLoops
    <3> SUFFICES ASSUME todo' = <<"send_test">> PROVE tests' = loop_ctr' /\ loop_ctr' < MaxLoops
      BY Zenon, <1>9
    <3>1. loop_ctr' = loop_ctr + 1 /\ loop_ctr' < MaxLoops BY Zenon, <1>8, <2>0
    <3> QED BY <1>0, <1>3, <1>6, <3>1
  <2>2. ~Last("send_test")' =>
          tests' = IF loop_ctr' < MaxLoops THEN loop_ctr' + 1 ELSE MaxLoops
    BY <1>0, <1>3, <1>6, <1>8, <1>9
  <2>3. Doing({"send_last"})' => loop_ctr' >= MaxLoops
    <3> SUFFICES ASSUME todo' = <<"send_last">> PROVE loop_ctr' >= MaxLoops BY Zenon, <1>9
    <3>1. ~(loop_ctr' < MaxLoops)
      <4>1. <<"send_last">> # <<>> /\ <<"send_last">> # <<"send_test">> BY Zenon
      <4> QED BY Zenon, <1>8, <4>1
    <3> QED BY <1>0, <1>10, <3>1
  <2>4. life'[Sock] = "live" /\ (\E d \in Data : air'[d] # 0) => impl'[Sock] # NULL
    BY Zenon, <1>0, <1>3, <1>7 DEF LoopsCounted
  <2> QED BY Zenon, <1>3, <1>5, <2>1, <2>2, <2>3, <2>4 DEF LoopsCounted
<1>14. ASSUME Orderly' PROVE OneAtATime'
  <2>1. Orderly /\ OneAtATime BY <1>0, <1>8, <1>10, <1>14 DEF Orderly
  <2>2. /\ impl[Sock] # NULL /\ impl[Sock] \in Impl /\ rx[impl[Sock]] = <<tests>>
        /\ ~Waiting("onReadable") /\ HasApi(Sock)
    BY Zenon, <1>0, <1>3, <2>1 DEF OneAtATime, Unread
  <2>3. n = 1 /\ out'.err = "NONE"
    <3>1. out'.err \in ReadErrors(Sock, n) BY Zenon, <1>2, <2>2 DEF Verdict
    <3>2. CASE n = 0
      <4>1. <<tests>> # <<>> BY Zenon
      <4>2. ReadErrors(Sock, n) = {"stack error"} BY <2>2, <3>2, <4>1 DEF ReadErrors
      <4>3. out'.err = "stack error" BY Zenon, <3>1, <4>2
      <4> QED BY Zenon, <1>1, <2>1, <4>3, DataAssumption DEF Orderly
    <3>3. CASE n = 1
      <4>1. ReadErrors(Sock, n) = {"NONE"} BY <3>3 DEF ReadErrors
      <4> QED BY Zenon, <3>1, <3>3, <4>1
    <3> QED BY Zenon, <1>2, <3>2, <3>3
  <2>4. Tail(<<tests>>) = <<>> /\ <<tests>>[1] = tests OBVIOUS
  <2>5. rx'[impl[Sock]] = <<>> BY Zenon, <1>2, <2>2, <2>3, <2>4
  <2>6. Valid(out'.read)
    <3>1. Len(out'.read) = 1 /\ out'.read[1] = tests BY Zenon, <1>2, <2>2, <2>3, <2>4
    <3>2. \A k \in 1..1 : k = 1 OBVIOUS
    <3> QED BY Zenon, <3>1, <3>2 DEF Valid
  <2>7. UNCHANGED verdict BY Zenon, <1>4, <2>3, <2>6
  <2>8. /\ \A i \in Impl : rx'[i] = <<>>
        /\ \A d \in Data : air[d] = 0
    <3>1. <<tests>> # <<>> BY Zenon
    <3> QED BY Zenon, <1>2, <2>1, <2>2, <2>5, <3>1 DEF OneAtATime
  <2>9. /\ ~Waiting("onReadable")' /\ ~Waiting("onError")'
    BY Zenon, <1>7, <2>1, <2>2 DEF OneAtATime, Waiting
  <2>10. verdict' = "none" /\ \A status \in BOOLEAN : terminates'[status] = 0
    BY <1>3, <2>1, <2>7, Zenon DEF OneAtATime
  <2>11. Once("onReadable")' BY Zenon, <2>9 DEF Once, Waiting
  <2>12. \A d \in Data : air'[d] = 0 BY Zenon, <1>3, <2>8
  <2> QED BY Zenon, <1>9, <2>8, <2>9, <2>10, <2>11, <2>12 DEF OneAtATime, Ending
<1> QED BY Zenon, <1>2, <1>3, <1>8, <1>11, <1>12, <1>13, <1>14 DEF Account

-----------------------------------------------------------------------------
(* The stack's events.                                                     *)

(* A datagram socket has Socket's _eventHandler: the callback is posted    *)
(* for the slot of the event, or none is.                                  *)
LEMMA DatagramEvent ==
  ASSUME OnlyClient, NEW i \in Impl, NEW k, NEW arg, Raise(i, k, arg),
         NEW slot, SocketRoute[k] = slot, slot \in Slot
  PROVE  /\ UNCHANGED <<life, stack, impl, on, call, sink>>
         /\ sink[i] = Sock
         /\ UNCHANGED posted \/ \E c : c.slot = slot /\ posted' = Enqueue(posted, c)
         /\ \A other : other # slot => SameQueue(other)
<1>0. Sock \notin Streams /\ Sock \notin Listeners /\ slot # NoSlot
  BY Zenon, DatagramAssumption, ConstantsAssumption DEF TCP, Slot, SocketSlot, NoSlot
<1>1. /\ UNCHANGED <<life, stack, impl, on, call, sink>> /\ sink[i] = Sock
      /\ EventHandler(Sock, k, arg)
  BY Zenon DEF Raise, OnlyClient, objVars
<1>2. Handle(Sock, slot, arg) BY Zenon, <1>0, <1>1 DEF EventHandler
<1>3. UNCHANGED posted \/ \E c : c.slot = slot /\ posted' = Enqueue(posted, c)
  <2>1. PICK c : c = Bind(Sock, slot, arg) BY Zenon
  <2>2. c.slot = slot BY Zenon, <2>1 DEF Bind
  <2>3. UNCHANGED posted \/ posted' = Enqueue(posted, c) BY Zenon, <1>0, <1>2, <2>1 DEF Handle
  <2> QED BY Zenon, <2>2, <2>3
<1>4. ASSUME NEW other, other # slot PROVE SameQueue(other)
  <2>1. CASE UNCHANGED posted BY Zenon, <2>1 DEF SameQueue
  <2>2. ASSUME NEW c, c.slot = slot, posted' = Enqueue(posted, c) PROVE SameQueue(other)
    BY Zenon, <1>4, <2>2, QueueOther
  <2> QED BY Zenon, <1>3, <2>1, <2>2
<1> QED BY Zenon, <1>1, <1>3, <1>4

(* Where the events of a datagram socket go.                               *)
LEMMA DatagramRoutes ==
  /\ SocketRoute["DNS"] = "onDNS" /\ SocketRoute["RX_DONE"] = "onReadable"
  /\ \A k \in ErrorEvents : SocketRoute[k] = "onError"
  /\ {"onDNS", "onReadable", "onError"} \subseteq Slot
BY Zenon DEF SocketRoute, EventKind, ErrorEvents, Slot, SocketSlot

(* resolve is answered: the one question is answered by one callback.      *)
LEMMA AnswerAccount ==
  ASSUME Ground, Ground', UdpInv, NEW i \in Impl, RaiseDNS(i) \/ RaiseConnect(i), ForgetFreed,
         UNCHANGED <<echoVars, counters>>
  PROVE  Account'
<1>0. /\ ResolveOnce /\ OnlyClient /\ asked \in [Impl -> SUBSET (Slot \X Fn)]
  BY Zenon DEF UdpInv, Ground, BaseInv, SocketTypeOK
<1>1. PICK r \in asked[i] :
        \/ Raise(i, "DNS", r[2]) /\ asked' = [asked EXCEPT ![i] = @ \ {r}]
        \/ r[1] = "onConnect"
  BY Zenon DEF RaiseDNS, RaiseConnect
<1>2. r = <<"onDNS", Func>> /\ asked[i] = {r} BY <1>0, <1>1 DEF ResolveOnce
<1>3. Raise(i, "DNS", r[2]) /\ asked' = [asked EXCEPT ![i] = @ \ {r}]
  <2>1. r[1] = "onDNS" BY Zenon, <1>2
  <2> QED BY Zenon, <1>1, <2>1
<1>4. Asked BY Zenon, <1>1 DEF Asked
<1>5. ~Asked'
  <2>1. asked'[i] = {} BY Zenon, <1>0, <1>2, <1>3
  <2>2. \A j \in Impl : j # i => asked'[j] = {} BY Zenon, <1>0, <1>1, <1>3 DEF ResolveOnce
  <2> QED BY Zenon, <2>1, <2>2 DEF Asked
<1>6. /\ UNCHANGED <<life, impl, call>>
      /\ UNCHANGED posted \/ \E c : c.slot = "onDNS" /\ posted' = Enqueue(posted, c)
      /\ SameQueue("onReadable") /\ SameQueue("onError")
  <2>1. \A other : other # "onDNS" => SameQueue(other)
    BY <1>0, <1>3, DatagramRoutes, DatagramEvent
  <2> QED BY <1>0, <1>3, <2>1, DatagramRoutes, DatagramEvent
<1>7. Waiting("onError")' <=> Waiting("onError") BY Zenon, <1>6, QueueSame
<1>8. UNCHANGED <<todo, terminates, verdict, faults>> BY Zenon DEF echoVars
<1>9. LoopsCounted' /\ (Orderly' => OneAtATime') BY Zenon, <1>6, <1>7, <1>8, RestLoops
<1>10. Once("onDNS")'
  <2>1. CASE UNCHANGED posted BY Zenon, <1>0, <2>1 DEF ResolveOnce, Once
  <2>2. ASSUME NEW c, c.slot = "onDNS", posted' = Enqueue(posted, c) PROVE Once("onDNS")'
    <3>1. ~Waiting(c.slot) BY Zenon, <1>0, <1>4, <2>2 DEF ResolveOnce
    <3>2. Once(c.slot)' BY Zenon, <2>2, <3>1, QueueFirst
    <3> QED BY Zenon, <2>2, <3>2
  <2> QED BY Zenon, <1>6, <2>1, <2>2
<1>11. ~Last("resolve") /\ call.op \notin {"resolve", "connect"} /\ tests = 0 /\ ~Last("send_test")
  BY Zenon, <1>0, <1>4 DEF ResolveOnce
<1>12. ResolveOnce'
  <2>1. (Last("resolve")' <=> Last("resolve")) /\ (Last("send_test")' <=> Last("send_test"))
    BY Zenon, <1>8 DEF Last
  <2>2. tests' = tests /\ call' = call BY Zenon, <1>6 DEF counters
  <2> QED BY Zenon, <1>5, <1>10, <1>11, <2>1, <2>2 DEF ResolveOnce, Asked
<1> QED BY Zenon, <1>9, <1>12 DEF Account

(* An error event: from then on the test need not be orderly.              *)
LEMMA FaultAccount ==
  ASSUME Ground, Ground', UdpInv, Faulty, UNCHANGED <<echoVars, counters>>
  PROVE  Account'
<1>0. OnlyClient BY Zenon DEF UdpInv
<1>1. PICK i \in Impl :
        /\ ForgetFreed
        /\ ("error" \in faults /\ RaiseError(i)) \/ RaiseDisconnect(i)
  BY Zenon DEF Faulty, Below
<1>2. ~RaiseDisconnect(i)
  BY Zenon, <1>0, DatagramAssumption, ConstantsAssumption DEF RaiseDisconnect, Raise, OnlyClient
<1>3. PICK k \in ErrorEvents : Raise(i, k, "stack error") /\ UNCHANGED asked
  BY Zenon, <1>1, <1>2 DEF RaiseError
<1>4. /\ UNCHANGED <<life, impl, call>> /\ SameQueue("onDNS") /\ SameQueue("onReadable")
  <2>1. SocketRoute[k] = "onError" /\ "onError" \in Slot BY Zenon, DatagramRoutes
  <2>2. \A other : other # "onError" => SameQueue(other) BY Zenon, <1>0, <1>3, <2>1, DatagramEvent
  <2> QED BY Zenon, <1>0, <1>3, <2>1, <2>2, DatagramEvent
<1>5. ~Orderly BY Zenon, <1>1, <1>2 DEF Orderly
<1>6. UNCHANGED <<todo, faults>> BY Zenon DEF echoVars
<1> QED BY Zenon, <1>1, <1>3, <1>4, <1>5, <1>6, RestAccount

(* What it takes to keep the account of the loops when datagrams come, go  *)
(* or are lost: some are under way, so a test is.                          *)
LEMMA WireLoops ==
  ASSUME LoopsCounted, UNCHANGED <<life, impl, todo, loop_ctr, tests>>,
         NEW d \in Data, air[d] # 0
  PROVE  LoopsCounted' /\ tests # 0 /\ (life[Sock] = "live" => impl[Sock] # NULL)
<1>1. tests # 0 /\ (life[Sock] = "live" => impl[Sock] # NULL) BY Zenon DEF LoopsCounted
<1>2. /\ Last("send_test")' <=> Last("send_test")
      /\ Doing({"send_last"})' <=> Doing({"send_last"})
  BY Zenon DEF Last, Doing
<1> QED BY Zenon, <1>1, <1>2 DEF LoopsCounted

(* A datagram is lost, or duplicated by a network that does that.          *)
LEMMA WireAccount ==
  ASSUME UdpInv, NEW d \in Data, Lose(d) \/ Duplicate(d),
         UNCHANGED <<echoVars, loop_ctr, tests>>
  PROVE  Account' /\ air' \in [Data -> Nat]
<1>0. /\ ResolveOnce /\ LoopsCounted /\ (Orderly => OneAtATime) /\ air \in [Data -> Nat]
  BY Zenon DEF UdpInv, UdpTypeOK
<1>1. /\ UNCHANGED <<life, impl, posted, call, asked, rx>>
      /\ UNCHANGED <<todo, terminates, verdict, faults>>
  BY Zenon DEF Lose, Duplicate, allVars, vars, socketVars, objVars, netVars, dataVars, echoVars
<1>2. air[d] \in Nat /\ air[d] # 0 BY <1>0 DEF Lose, Duplicate
<1>3. LoopsCounted' BY Zenon, <1>0, <1>1, <1>2, WireLoops
<1>4. /\ SameQueue("onDNS") /\ (Waiting("onReadable")' <=> Waiting("onReadable"))
      /\ Waiting("onError")' <=> Waiting("onError")
      /\ Once("onReadable") => Once("onReadable")'
  BY Zenon, <1>1 DEF SameQueue, Waiting, Once
<1>5. /\ \A x : Last(x)' <=> Last(x)
      /\ Opening' <=> Opening
      /\ Ending' <=> Ending
      /\ Doing({"recv"})' <=> Doing({"recv"})
  BY Zenon, <1>1 DEF Last, Doing, Opening, Ending
<1>6. ResolveOnce' BY Zenon, <1>0, <1>1, <1>4, <1>5, ResolveFrame
<1>7. air' \in [Data -> Nat]
  <2>1. air[d] - 1 \in Nat BY <1>2
  <2> QED BY <1>0, <2>1 DEF Lose, Duplicate
<1>8. ASSUME Orderly' PROVE OneAtATime'
  <2>1. Orderly /\ OneAtATime BY Zenon, <1>0, <1>1, <1>8 DEF Orderly
  <2>2. Lose(d) BY Zenon, <2>1 DEF Duplicate, Orderly
  <2>3. air[d] = 1 BY Zenon, <1>2, <2>1 DEF OneAtATime
  <2>4. \A e \in Data : air'[e] # 0 => air[e] # 0 /\ air'[e] = air[e]
    BY <1>0, <2>2, <2>3 DEF Lose
  <2>5. (Unread' <=> Unread) BY Zenon, <1>1 DEF Unread
  <2>6. /\ \A e \in Data : air'[e] # 0 =>
             e = tests' /\ air'[e] = 1 /\ ~Last("send_test")' /\ \A i \in Impl : rx'[i] = <<>>
        /\ \A i \in Impl : rx'[i] # <<>> => i = impl'[Sock] /\ Unread' /\ ~Last("send_test")'
    BY Zenon, <1>1, <1>5, <2>1, <2>4, <2>5 DEF OneAtATime
  <2>7. verdict' = "none" /\ \A status \in BOOLEAN : terminates'[status] = 0
    BY <1>1, <2>1, Zenon DEF OneAtATime
  <2> QED BY Zenon, <1>4, <1>5, <2>1, <2>5, <2>6, <2>7 DEF OneAtATime, Ending
<1> QED BY Zenon, <1>3, <1>6, <1>7, <1>8 DEF Account

(* A datagram arrives: it is the one that was sent last, it finds the      *)
(* socket's buffer empty, and no callback is waiting to read it.           *)
LEMMA ArrivalAccount ==
  ASSUME Ground, Ground', UdpInv, NEW d \in Data, Arrival(d),
         UNCHANGED <<echoVars, loop_ctr, tests>>
  PROVE  /\ Account' /\ air' \in [Data -> Nat] /\ rx' \in [Impl -> Seq(Data)]
         /\ impl[Sock] \in Impl /\ StackEvent(impl[Sock])
<1>0. /\ ResolveOnce /\ LoopsCounted /\ (Orderly => OneAtATime) /\ air \in [Data -> Nat]
      /\ rx \in [Impl -> Seq(Data)] /\ OnlyClient
      /\ impl[Sock] # NULL => impl[Sock] \in Impl
  BY Zenon, ClientKnown DEF UdpInv, UdpTypeOK, Ground, BaseInv, SocketTypeOK
<1>1. /\ air[d] \in Nat /\ air[d] # 0 /\ life[Sock] = "live" /\ Receive(impl[Sock], <<d>>)
      /\ air' = [air EXCEPT ![d] = @ - 1]
  BY <1>0 DEF Arrival
<1>2. tests # 0 /\ impl[Sock] # NULL BY Zenon, <1>0, <1>1 DEF LoopsCounted
<1>3. PICK i \in Impl : i = impl[Sock] BY Zenon, <1>0, <1>2
<1>4. /\ Raise(i, "RX_DONE", NULL) /\ UNCHANGED asked /\ rx' = [rx EXCEPT ![i] = @ \o <<d>>]
  BY Zenon, <1>1, <1>3 DEF Receive
<1>5. /\ UNCHANGED <<life, impl, call>>
      /\ UNCHANGED posted \/ \E c : c.slot = "onReadable" /\ posted' = Enqueue(posted, c)
      /\ SameQueue("onDNS") /\ SameQueue("onError")
  <2>1. \A other : other # "onReadable" => SameQueue(other)
    BY Zenon, <1>0, <1>4, DatagramRoutes, DatagramEvent
  <2> QED BY Zenon, <1>0, <1>4, <2>1, DatagramRoutes, DatagramEvent
<1>6. UNCHANGED <<todo, terminates, verdict, faults>> BY Zenon DEF echoVars
<1>7. LoopsCounted' BY Zenon, <1>0, <1>1, <1>5, <1>6, WireLoops
<1>8. /\ \A x : Last(x)' <=> Last(x)
      /\ Opening' <=> Opening
      /\ Ending' <=> Ending
      /\ Doing({"recv"})' <=> Doing({"recv"})
  BY Zenon, <1>6 DEF Last, Doing, Opening, Ending
<1>9. ResolveOnce' BY Zenon, <1>0, <1>4, <1>5, <1>8, ResolveFrame
<1>10. air' \in [Data -> Nat]
  <2>1. air[d] - 1 \in Nat BY <1>1
  <2> QED BY Zenon, <1>0, <1>1, <2>1
<1>11. rx' \in [Impl -> Seq(Data)]
  <2>1. rx[i] \o <<d>> \in Seq(Data) BY <1>0
  <2> QED BY Zenon, <1>0, <1>4, <2>1
<1>12. ASSUME Orderly' PROVE OneAtATime'
  <2>1. Orderly /\ OneAtATime BY Zenon, <1>0, <1>6, <1>12 DEF Orderly
  <2>2. d = tests /\ air[d] = 1 /\ ~Last("send_test") /\ \A j \in Impl : rx[j] = <<>>
    BY Zenon, <1>1, <2>1 DEF OneAtATime
  <2>3. ~Unread
    <3>1. <<tests>> # <<>> BY Zenon
    <3> QED BY Zenon, <1>3, <2>2, <3>1 DEF Unread
  <2>4. ~Waiting("onReadable") /\ ~Doing({"recv"}) BY Zenon, <2>1, <2>3 DEF OneAtATime
  <2>5. rx'[i] = <<tests>> /\ \A j \in Impl : j # i => rx'[j] = <<>>
    <3>1. <<>> \o <<d>> = <<d>> OBVIOUS
    <3>2. rx'[i] = <<>> \o <<d>> BY Zenon, <1>0, <1>4, <2>2
    <3> QED BY Zenon, <1>0, <1>4, <2>2, <3>1, <3>2
  <2>6. Unread' BY Zenon, <1>2, <1>3, <1>5, <2>5 DEF Unread
  <2>7. \A e \in Data : air'[e] = 0 BY <1>0, <1>1, <2>1, <2>2 DEF OneAtATime
  <2>8. Once("onReadable")'
    <3>1. CASE UNCHANGED posted BY Zenon, <2>4, <3>1 DEF Once, Waiting
    <3>2. ASSUME NEW c, c.slot = "onReadable", posted' = Enqueue(posted, c)
          PROVE  Once("onReadable")'
      <4>1. Once(c.slot)' BY Zenon, <2>4, <3>2, QueueFirst
      <4> QED BY Zenon, <3>2, <4>1
    <3> QED BY Zenon, <1>5, <3>1, <3>2
  <2>9. ~Waiting("onError")'
    <3>1. Waiting("onError")' <=> Waiting("onError") BY Zenon, <1>5, QueueSame
    <3> QED BY Zenon, <2>1, <3>1 DEF OneAtATime
  <2>10. verdict' = "none" /\ \A status \in BOOLEAN : terminates'[status] = 0
    BY <1>6, <2>1, Zenon DEF OneAtATime
  <2>11. /\ \A e \in Data : air'[e] # 0 =>
              e = tests' /\ air'[e] = 1 /\ ~Last("send_test")' /\ \A j \in Impl : rx'[j] = <<>>
         /\ \A j \in Impl : rx'[j] # <<>> => j = impl'[Sock] /\ Unread' /\ ~Last("send_test")'
    BY Zenon, <1>3, <1>5, <1>8, <2>2, <2>5, <2>6, <2>7
  <2> QED BY Zenon, <1>8, <2>1, <2>4, <2>6, <2>8, <2>9, <2>10, <2>11 DEF OneAtATime, Ending
<1>13. StackEvent(i) BY Zenon, <1>1, <1>3, ReceiveIsEvent
<1> QED BY Zenon, <1>3, <1>7, <1>9, <1>10, <1>11, <1>12, <1>13 DEF Account

-----------------------------------------------------------------------------
(* The invariant and what it gives.                                        *)

(* The client's invariant holds at first.                                  *)
LEMMA UdpInitial == ASSUME UdpInit PROVE UdpInv /\ HeldByOne
<1>1. /\ life = [o \in Obj |-> "raw"] /\ impl = [o \in Obj |-> NULL] /\ call = Idle
      /\ posted = <<>> /\ sink = [i \in Impl |-> NULL] /\ asked = [i \in Impl |-> {}]
      /\ rx = [i \in Impl |-> <<>>] /\ client = NULL
      /\ todo = <<"new", "setOnError", "open", "resolve">>
      /\ terminates = [status \in BOOLEAN |-> 0] /\ verdict = "none"
      /\ loop_ctr = 0 /\ tests = 0 /\ air = [d \in Data |-> 0]
  BY DEF UdpInit, EchoInit, Init, SocketInit, DataInit
<1>2. Sock \in Obj /\ life[Sock] = "raw" /\ impl[Sock] = NULL BY Zenon, <1>1, ClientKnown
<1>3. DOMAIN posted = {} /\ call.op = "idle" BY <1>1 DEF Idle
<1>4. UdpTypeOK /\ rx \in [Impl -> Seq(Data)]
  BY <1>1, LoopsAssumption DEF UdpTypeOK, EchoTypeOK
<1>5. /\ Head(todo) = "new" /\ todo # <<>> /\ Len(todo) = 4 /\ todo \in Seq(Step)
      /\ todo[1] = "new" /\ todo[2] = "setOnError" /\ todo[3] = "open" /\ todo[4] = "resolve"
  BY <1>1 DEF Step
<1>6. OnlyClient
  <2>1. ClientCall BY Zenon, <1>1 DEF ClientCall, Idle
  <2> QED BY Zenon, <1>1, <1>3, <2>1 DEF OnlyClient
<1>7. PointerInv BY Zenon, <1>1, <1>2, <1>5 DEF PointerInv, Doing
<1>8. InOrder(UdpOrder)
  <2>1. ASSUME NEW k \in 1..4
        PROVE  /\ k < 4 => <<todo[k], todo[k + 1]>> \in UdpOrder
               /\ todo[k] # "delete"
    <3>1. CASE k = 1 BY <1>5, <3>1 DEF UdpOrder
    <3>2. CASE k = 2 BY <1>5, <3>2 DEF UdpOrder
    <3>3. CASE k = 3 BY <1>5, <3>3 DEF UdpOrder
    <3>4. CASE k = 4 BY <1>5, <3>4
    <3> QED BY <3>1, <3>2, <3>3, <3>4
  <2> QED BY Zenon, <1>5, <2>1 DEF InOrder
<1>9. /\ ~Last("send_test") /\ ~Doing({"recv"}) /\ ~Doing({"recv", "send_last"})
      /\ ~Doing({"send_last"}) /\ ~Doing({"close", "delete", "passed", "failed"})
  BY Zenon, <1>5 DEF Last, Doing
<1>10. ~Asked /\ \A slot : ~Waiting(slot) /\ Once(slot) BY Zenon, <1>1, <1>3 DEF Asked, Waiting, Once
<1>11. ResolveOnce BY Zenon, <1>1, <1>3, <1>9, <1>10 DEF ResolveOnce
<1>12. LoopsCounted BY Zenon, <1>1, <1>2, <1>9, <1>10 DEF LoopsCounted
<1>13. OneAtATime
  <2>1. \A status \in BOOLEAN : terminates[status] = 0 BY <1>1, Zenon
  <2> QED BY Zenon, <1>1, <1>9, <1>10, <2>1 DEF OneAtATime
<1>14. HeldByOne BY Zenon, <1>1 DEF HeldByOne
<1> QED BY Zenon, <1>4, <1>6, <1>7, <1>8, <1>11, <1>12, <1>13, <1>14 DEF UdpInv

(* The handlers keep the invariant.                                        *)
LEMMA HandlerSteps ==
  ASSUME Ground, Ground', UdpInv, NEW c \in DOMAIN posted, OnDNS(c) \/ OnRx(c) \/ OnError(c),
         UNCHANGED faults
  PROVE  UdpInv'
\* What running a callback leaves as it was.
<1>RunEffect.
  ASSUME NEW slot, Run(c, slot)
  PROVE  /\ todo = <<>> /\ c.slot = slot /\ posted' = Dequeue(posted, c) /\ ForgetFreed
         /\ UNCHANGED <<life, impl, call, asked, verdict, client>>
         /\ rx' \in [Impl -> Seq(Data)]
         /\ \A i \in Impl : rx'[i] \in {rx[i], <<>>}
         /\ impl[Sock] # NULL => rx'[impl[Sock]] = rx[impl[Sock]]
         /\ \A other : other # slot => SameQueue(other)
  <2> USE <1>RunEffect
  <2>1. /\ todo = <<>> /\ c.slot = slot /\ posted' = Dequeue(posted, c) /\ ForgetFreed
        /\ UNCHANGED <<life, impl, call, asked, verdict, client>>
    BY Zenon DEF Run, Below, RunCallback, objVars, netVars
  <2>2. \A other : other # slot => SameQueue(other) BY Zenon, <2>1, QueueOther
  <2> QED BY Zenon, <2>1, <2>2, ForgetRx DEF UdpInv
\* onDNS: the address is known, and nothing has been sent.
<1>OnDNSAccount.
  ASSUME OnDNS(c)
  PROVE  Account'
  <2> USE <1>OnDNSAccount
  <2>0. /\ ResolveOnce /\ LoopsCounted /\ (Orderly => OneAtATime) /\ MaxLoops \in Nat \ {0}
    BY Zenon, LoopsAssumption DEF UdpInv
  <2>1. /\ Run(c, "onDNS") /\ todo' = <<"open", "setOnReadable", "send_test">>
        /\ UNCHANGED <<terminates, loop_ctr, tests, air>>
    BY Zenon DEF OnDNS
  <2>2. /\ c.slot = "onDNS" /\ posted' = Dequeue(posted, c)
        /\ UNCHANGED <<life, impl, call, asked, verdict>>
        /\ \A i \in Impl : rx'[i] \in {rx[i], <<>>}
        /\ SameQueue("onReadable") /\ SameQueue("onError")
    <3>1. \A other : other # "onDNS" => SameQueue(other) BY Zenon, <2>1, <1>RunEffect
    <3> QED BY Zenon, <2>1, <3>1, <1>RunEffect
  <2>3. Waiting("onDNS") BY Zenon, <2>2 DEF Waiting
  <2>4. tests = 0 /\ ~Asked /\ call.op # "resolve" BY Zenon, <2>0, <2>3 DEF ResolveOnce
  <2>5. ~Waiting("onDNS")'
    <3>1. Once(c.slot) BY Zenon, <2>0, <2>2 DEF ResolveOnce
    <3>2. ~Waiting(c.slot)' BY Zenon, <2>2, <3>1, QueueEmpty
    <3> QED BY Zenon, <2>2, <3>2
  <2>6. /\ ~Last("resolve")' /\ ~Ending' /\ ~Doing({"recv"})'
        /\ ~Doing({"recv", "send_last"})' /\ ~Doing({"send_last"})'
    <3>1. Len(todo') = 3 /\ todo'[3] = "send_test" /\ Head(todo') = "open" BY <2>1
    <3> QED BY Zenon, <3>1 DEF Last, Doing, Ending
  <2>7. ResolveOnce'
    <3>1. ~Asked' /\ Once("onDNS")' BY Zenon, <2>2, <2>4, <2>5 DEF Asked, Once, Waiting
    <3> QED BY Zenon, <2>0, <2>1, <2>2, <2>4, <2>5, <2>6, <3>1 DEF ResolveOnce
  <2>8. ~Waiting("onReadable")' /\ (Waiting("onError")' <=> Waiting("onError"))
    <3>1. /\ Waiting("onReadable")' <=> Waiting("onReadable")
          /\ Waiting("onError")' <=> Waiting("onError")
      BY Zenon, <2>2, QueueSame
    <3> QED BY Zenon, <2>0, <2>4, <3>1 DEF LoopsCounted
  <2>9. LoopsCounted'
    <3>1. /\ loop_ctr' = 0 /\ tests' = 0 /\ 0 < MaxLoops
          /\ \A d \in Data : air'[d] = 0
          /\ \A i \in Impl : rx'[i] = <<>>
      BY <2>0, <2>1, <2>2, <2>4 DEF LoopsCounted
    <3> QED BY Zenon, <2>6, <2>8, <3>1 DEF LoopsCounted
  <2>10. ASSUME Orderly' PROVE OneAtATime'
    <3>1. Orderly /\ OneAtATime BY Zenon, <2>0, <2>1, <2>10 DEF Orderly
    <3> QED BY Zenon, <2>0, <2>1, <2>2, <2>4, <2>6, <2>8, <3>1, OneFrame
  <2> QED BY Zenon, <2>7, <2>9, <2>10 DEF Account
\* onRx: the callback finds the datagram it announced.
<1>OnRxAccount.
  ASSUME OnRx(c)
  PROVE  Account'
  <2> USE <1>OnRxAccount
  <2>0. ResolveOnce /\ LoopsCounted /\ (Orderly => OneAtATime) BY Zenon DEF UdpInv
  <2>1. /\ Run(c, "onReadable") /\ todo' = <<"recv">>
        /\ UNCHANGED <<terminates, loop_ctr, tests, air>>
    BY Zenon DEF OnRx
  <2>2. /\ todo = <<>> /\ c.slot = "onReadable" /\ posted' = Dequeue(posted, c)
        /\ UNCHANGED <<life, impl, call, asked, verdict>>
        /\ \A i \in Impl : rx'[i] \in {rx[i], <<>>}
        /\ impl[Sock] # NULL => rx'[impl[Sock]] = rx[impl[Sock]]
        /\ SameQueue("onDNS") /\ SameQueue("onError")
    <3>1. \A other : other # "onReadable" => SameQueue(other) BY Zenon, <2>1, <1>RunEffect
    <3> QED BY Zenon, <2>1, <3>1, <1>RunEffect
  <2>3. Waiting("onReadable") BY Zenon, <2>2 DEF Waiting
  <2>4. tests # 0 BY Zenon, <2>0, <2>3 DEF LoopsCounted
  <2>5. /\ ~Last("resolve")' /\ ~Last("send_test")' /\ ~Last("send_test")
        /\ ~Opening' /\ ~Ending' /\ ~Doing({"send_last"})'
    <3>1. Len(todo') = 1 /\ todo'[1] = "recv" /\ Head(todo') = "recv" BY <2>1
    <3> QED BY Zenon, <2>2, <3>1 DEF Last, Doing, Opening, Ending
  <2>6. ResolveOnce' BY Zenon, <2>0, <2>1, <2>2, <2>5, ResolveFrame
  <2>7. LoopsCounted' BY Zenon, <2>0, <2>1, <2>2, <2>4, <2>5 DEF LoopsCounted
  <2>8. ASSUME Orderly' PROVE OneAtATime'
    <3>1. Orderly /\ OneAtATime BY Zenon, <2>0, <2>1, <2>8 DEF Orderly
    <3>2. Once(c.slot) BY Zenon, <2>2, <3>1 DEF OneAtATime
    <3>3. ~Waiting(c.slot)' BY Zenon, <2>2, <3>2, QueueEmpty
    <3>4. ~Waiting("onReadable")' BY Zenon, <2>2, <3>3
    <3>5. Unread /\ Unread' BY Zenon, <2>1, <2>2, <2>3, <3>1 DEF OneAtATime, Unread
    <3>6. ~Waiting("onError")'
      <4>1. Waiting("onError")' <=> Waiting("onError") BY Zenon, <2>2, QueueSame
      <4> QED BY Zenon, <3>1, <4>1 DEF OneAtATime
    <3>7. verdict' = "none" /\ \A status \in BOOLEAN : terminates'[status] = 0
      BY <2>1, <2>2, <3>1, Zenon DEF OneAtATime
    <3>8. /\ \A d \in Data : air'[d] # 0 =>
               d = tests' /\ air'[d] = 1 /\ ~Last("send_test")' /\ \A i \in Impl : rx'[i] = <<>>
          /\ \A i \in Impl : rx'[i] # <<>> => i = impl'[Sock] /\ Unread' /\ ~Last("send_test")'
      BY Zenon, <2>1, <2>2, <2>5, <3>1, <3>5 DEF OneAtATime
    <3>9. Once("onReadable")' BY Zenon, <3>4 DEF Once, Waiting
    <3> QED BY Zenon, <2>5, <3>4, <3>5, <3>6, <3>7, <3>8, <3>9 DEF OneAtATime, Ending
  <2> QED BY Zenon, <2>6, <2>7, <2>8 DEF Account
\* onError: there has been an error.
<1>OnErrorAccount.
  ASSUME OnError(c)
  PROVE  Account'
  <2> USE <1>OnErrorAccount
  <2>1. Run(c, "onError") /\ UNCHANGED todo /\ UNCHANGED counters BY Zenon DEF OnError, counters
  <2>2. /\ c.slot = "onError" /\ ForgetFreed /\ UNCHANGED <<life, impl, call, asked>>
        /\ SameQueue("onDNS") /\ SameQueue("onReadable")
    <3>1. \A other : other # "onError" => SameQueue(other) BY Zenon, <2>1, <1>RunEffect
    <3> QED BY Zenon, <2>1, <3>1, <1>RunEffect
  <2>3. Waiting("onError") BY Zenon, <2>2 DEF Waiting
  <2>4. ~Orderly BY Zenon, <2>3 DEF UdpInv, OneAtATime
  <2> QED BY Zenon, <2>1, <2>2, <2>4, RestAccount
<1>1. PICK slot : Run(c, slot) BY Zenon DEF OnDNS, OnRx, OnError
<1>2. todo = <<>> /\ UNCHANGED <<verdict, client>> /\ rx' \in [Impl -> Seq(Data)]
  BY Zenon, <1>1, <1>RunEffect
<1>3. \/ todo' \in {<<>>, <<"recv">>, <<"send_test">>, <<"send_last">>}
      \/ todo' = <<"open", "setOnReadable", "send_test">>
  BY Zenon, <1>2 DEF OnDNS, OnRx, OnError
<1>4. todo' = <<>> \/ Head(todo') \notin {"new", "passed", "failed"} BY <1>3
<1>5. OnlyClient' /\ PointerInv' BY Zenon, <1>1, <1>4, RunKeeps DEF Ground, UdpInv
<1>6. InOrder(UdpOrder)' BY Zenon, <1>3, Scripts
<1>7. Account' BY Zenon, <1>OnDNSAccount, <1>OnRxAccount, <1>OnErrorAccount
<1>8. UdpTypeOK /\ UNCHANGED <<loop_ctr, tests, air>> BY Zenon DEF UdpInv, OnDNS, OnRx, OnError
<1>9. terminates' \in [BOOLEAN -> Nat]
  <2>1. terminates \in [BOOLEAN -> Nat] BY Zenon, <1>8 DEF UdpTypeOK, EchoTypeOK
  <2>2. CASE OnError(c)
    <3>1. Post(FALSE) BY Zenon, <2>2 DEF OnError
    <3> QED BY Zenon, <2>1, <3>1, PostType
  <2>3. CASE OnDNS(c) \/ OnRx(c) BY Zenon, <2>1, <2>3 DEF OnDNS, OnRx
  <2> QED BY Zenon, <2>2, <2>3
<1>10. UdpTypeOK' BY Zenon, <1>2, <1>8, <1>9 DEF UdpTypeOK, EchoTypeOK
<1> QED BY Zenon, <1>2, <1>5, <1>6, <1>7, <1>10 DEF UdpInv, Account

(* Every step of the client keeps its invariant.                           *)
LEMMA UdpStep ==
  ASSUME Ground, Ground', UdpInv, [UdpNext]_udpVars
  PROVE  UdpInv'
\* What the client and terminate() write has its type.
<1>ClientTypes.
  ASSUME ClientStep, UNCHANGED counters
  PROVE  UdpTypeOK' /\ rx' \in [Impl -> Seq(Data)]
  <2> USE <1>ClientTypes
  <2>0. /\ client \in {NULL, Sock} /\ terminates \in [BOOLEAN -> Nat]
        /\ verdict \in {"none", "passed", "failed"} /\ rx \in [Impl -> Seq(Data)]
    BY Zenon DEF UdpInv, UdpTypeOK, EchoTypeOK
  <2>1. rx' \in [Impl -> Seq(Data)]
    <3>1. ForgetFreed \/ UNCHANGED rx
      BY Zenon DEF ClientStep, New, LayerCall, OpenRefused, Proceed, Destroy, Finish, Terminate, Below,
             allVars, dataVars
    <3> QED BY Zenon, <2>0, <3>1, ForgetRx
  <2>2. client' \in {NULL, Sock}
    BY Zenon, <2>0 DEF ClientStep, New, LayerCall, OpenRefused, Proceed, Destroy, Finish, Terminate,
                echoVars
  <2>3. verdict' \in {"none", "passed", "failed"}
    BY Zenon, <2>0 DEF ClientStep, New, LayerCall, OpenRefused, Proceed, Destroy, Finish, Terminate,
                Assert, At, Doing, echoVars
  <2>4. terminates' \in [BOOLEAN -> Nat]
    <3>1. ASSUME NEW status \in BOOLEAN, Terminate(status) PROVE terminates' \in [BOOLEAN -> Nat]
      <4>1. terminates[status] > 0 /\ terminates' = [terminates EXCEPT ![status] = @ - 1]
        BY Zenon, <3>1 DEF Terminate
      <4>2. terminates[status] - 1 \in Nat BY <2>0, <4>1
      <4> QED BY Zenon, <2>0, <4>1, <4>2
    <3>2. CASE New \/ LayerCall \/ OpenRefused \/ Proceed \/ Destroy \/ Finish
      BY Zenon, <2>0, <3>2 DEF New, LayerCall, OpenRefused, Proceed, Destroy, Finish, echoVars
    <3> QED BY Zenon, <3>1, <3>2 DEF ClientStep
  <2>5. UNCHANGED <<loop_ctr, tests, air>> BY Zenon DEF counters
  <2> QED BY Zenon, <2>1, <2>2, <2>3, <2>4, <2>5 DEF UdpInv, UdpTypeOK, EchoTypeOK
\* An event keeps the invariant with the account.
<1>EventSteps.
  ASSUME NEW i \in Impl, StackEvent(i),
         UNCHANGED <<echoVars, loop_ctr, tests>>, air' \in [Data -> Nat],
         rx' \in [Impl -> Seq(Data)], Account'
  PROVE  UdpInv'
  <2> USE <1>EventSteps
  <2>1. OnlyClient' /\ PointerInv' /\ InOrder(UdpOrder)' BY Zenon, EventKeeps DEF Ground, UdpInv
  <2>2. UdpTypeOK' BY Zenon DEF UdpInv, UdpTypeOK, EchoTypeOK, echoVars
  <2> QED BY Zenon, <2>1, <2>2 DEF UdpInv, Account
\* A call that only concerns data keeps the invariant with the account.
<1>DataSteps.
  ASSUME UNCHANGED <<vars, client>>, Main(Sock), UdpTypeOK', rx' \in [Impl -> Seq(Data)],
         todo' \in {<<>>, <<"send_test">>, <<"send_last">>}, Account'
  PROVE  UdpInv'
  <2> USE <1>DataSteps
  <2>1. todo' = <<>> \/ Head(todo') \notin {"new", "passed", "failed"} OBVIOUS
  <2>2. OnlyClient' /\ PointerInv' BY Zenon, <2>1, DataKeeps DEF UdpInv
  <2>3. InOrder(UdpOrder)' BY Zenon, Scripts
  <2> QED BY Zenon, <2>2, <2>3 DEF UdpInv, Account
\* Nothing of the client's but the network changes, or nothing at all.
<1>WireSteps.
  ASSUME UNCHANGED <<allVars, echoVars, loop_ctr, tests>>, air' \in [Data -> Nat],
         Account'
  PROVE  UdpInv'
  <2> USE <1>WireSteps
  <2>1. /\ UNCHANGED <<life, impl, call, sink, posted, rx>>
        /\ UNCHANGED <<client, todo, verdict, terminates>>
    BY Zenon DEF allVars, vars, socketVars, objVars, netVars, dataVars, echoVars
  <2>2. UdpTypeOK' /\ OnlyClient' /\ PointerInv' /\ InOrder(UdpOrder)' /\ rx' \in [Impl -> Seq(Data)]
    BY <2>1 DEF UdpInv, UdpTypeOK, EchoTypeOK, OnlyClient, ClientCall, PointerInv, Doing, InOrder
  <2> QED BY Zenon, <2>2 DEF UdpInv, Account
<1>0. UdpTypeOK /\ rx \in [Impl -> Seq(Data)] /\ Account BY Zenon DEF UdpInv, Account
<1>1. CASE ClientStep /\ UNCHANGED <<loop_ctr, tests, air>> /\ UNCHANGED faults
  <2>1. UNCHANGED <<counters, faults>> BY Zenon, <1>1 DEF counters
  <2>2. OnlyClient' /\ PointerInv' /\ InOrder(UdpOrder)'
    BY Zenon, <1>1, ClientKeeps, UdpOrdered DEF Ground, UdpInv
  <2>3. UdpTypeOK' /\ rx' \in [Impl -> Seq(Data)] BY Zenon, <1>1, <2>1, <1>ClientTypes
  <2>4. Account' BY Zenon, <1>1, <2>1, ClientAccount
  <2> QED BY Zenon, <2>2, <2>3, <2>4 DEF UdpInv, Account
<1>2. CASE SendTest /\ UNCHANGED faults
  <2>1. /\ UdpTypeOK' /\ UNCHANGED <<vars, rx>> /\ Main(Sock) /\ todo' = <<>> /\ Account'
    BY Zenon, <1>2, SendTestAccount
  <2>2. UNCHANGED client BY Zenon, <1>2 DEF SendTest, SendDatagram
  <2> QED BY Zenon, <1>0, <2>1, <2>2, <1>DataSteps
<1>3. CASE SendLast /\ UNCHANGED faults
  <2>1. /\ UdpTypeOK' /\ UNCHANGED <<vars, rx>> /\ Main(Sock) /\ todo' = <<>> /\ Account'
    BY Zenon, <1>3, SendLastAccount
  <2>2. UNCHANGED client BY Zenon, <1>3 DEF SendLast, SendDatagram
  <2> QED BY Zenon, <1>0, <2>1, <2>2, <1>DataSteps
<1>4. CASE Receipt /\ UNCHANGED faults BY Zenon, <1>4, ReceiptAccount, <1>DataSteps
<1>5. ASSUME NEW c \in DOMAIN posted, OnDNS(c) \/ OnRx(c) \/ OnError(c), UNCHANGED faults
      PROVE  UdpInv'
  BY Zenon, <1>5, HandlerSteps
<1>6. CASE (Answers \/ Faulty) /\ UNCHANGED <<echoVars, loop_ctr, tests, air>>
  <2>1. PICK i \in Impl :
          /\ StackEvent(i) /\ ForgetFreed
          /\ (RaiseDNS(i) \/ RaiseConnect(i)) \/ Faulty
    BY Zenon, <1>6, EventIsLayer
  <2>2. rx' \in [Impl -> Seq(Data)] /\ air' \in [Data -> Nat]
    BY Zenon, <1>0, <1>6, <2>1, ForgetRx DEF UdpTypeOK
  <2>3. UNCHANGED <<echoVars, counters>> BY Zenon, <1>6 DEF counters
  <2>4. Account' BY Zenon, <2>1, <2>3, AnswerAccount, FaultAccount
  <2> QED BY Zenon, <1>6, <2>1, <2>2, <2>4, <1>EventSteps
<1>7. ASSUME NEW d \in Data, Arrival(d), UNCHANGED <<echoVars, loop_ctr, tests>>
      PROVE  UdpInv'
  BY Zenon, <1>7, ArrivalAccount, <1>EventSteps
<1>8. ASSUME NEW d \in Data, Lose(d) \/ Duplicate(d), UNCHANGED <<echoVars, loop_ctr, tests>>
      PROVE  UdpInv'
  <2>1. UNCHANGED allVars BY Zenon, <1>8 DEF Lose, Duplicate
  <2> QED BY Zenon, <1>8, <2>1, WireAccount, <1>WireSteps
<1>9. CASE UNCHANGED udpVars
  <2>1. UNCHANGED <<allVars, echoVars, loop_ctr, tests, air>> BY Zenon, <1>9 DEF udpVars
  <2>2. /\ UNCHANGED <<life, impl, call, asked, posted, rx>>
        /\ UNCHANGED <<todo, verdict, terminates, faults>>
    BY Zenon, <2>1 DEF allVars, vars, socketVars, objVars, netVars, dataVars, echoVars
  <2>3. ResolveOnce' BY Zenon, <1>0, <2>1, <2>2
    DEF Account, ResolveOnce, Last, Asked, Waiting, Once, Doing
  <2>4. LoopsCounted' BY Zenon, <1>0, <2>1, <2>2 DEF Account, LoopsCounted, Last, Waiting, Doing
  <2>5. Orderly' => OneAtATime'
    BY Zenon, <1>0, <2>1, <2>2 DEF Account, Orderly, OneAtATime, Unread, Last, Waiting, Once, Doing
  <2>6. Account' /\ air' \in [Data -> Nat]
    BY Zenon, <1>0, <2>1, <2>3, <2>4, <2>5 DEF Account, UdpTypeOK
  <2> QED BY Zenon, <2>1, <2>6, <1>WireSteps
<1> QED BY Zenon, <1>1, <1>2, <1>3, <1>4, <1>5, <1>6, <1>7, <1>8, <1>9
    DEF UdpNext, MainContext, Network

(* Every step of the client is a step of the socket layer, or none, in     *)
(* which nobody listens.                                                   *)
LEMMA UdpIsLayer == ASSUME Ground, UdpInv, [UdpNext]_udpVars PROVE [LayerNext]_vars
<1>1. CASE ClientStep BY Zenon, <1>1, ClientIsLayer
<1>2. CASE \/ SendTest \/ SendLast \/ Receipt \/ UNCHANGED udpVars
           \/ \E d \in Data : Lose(d) \/ Duplicate(d)
  BY Zenon, <1>2 DEF SendTest, SendLast, SendDatagram, SendTo, Transmit, Receipt, Recv, Lose, Duplicate,
              udpVars, allVars
<1>3. ASSUME NEW c \in DOMAIN posted, OnDNS(c) \/ OnRx(c) \/ OnError(c)
      PROVE  LayerNext
  <2>1. PICK slot : Run(c, slot) BY Zenon, <1>3 DEF OnDNS, OnRx, OnError
  <2> QED BY Zenon, <2>1, EventIsLayer
<1>4. CASE Answers \/ Faulty BY Zenon, <1>4, EventIsLayer
<1>5. ASSUME NEW d \in Data, Arrival(d) PROVE LayerNext
  <2>1. air[d] # 0 /\ life[Sock] = "live" /\ Receive(impl[Sock], <<d>>)
    BY <1>5 DEF Arrival, UdpInv, UdpTypeOK
  <2>2. impl[Sock] # NULL BY Zenon, <2>1 DEF UdpInv, LoopsCounted
  <2>3. impl[Sock] \in Impl BY Zenon, <2>2, ClientKnown DEF Ground, BaseInv, SocketTypeOK
  <2> QED BY Zenon, <2>1, <2>3, ReceiveIsEvent, EventIsLayer
<1> QED BY Zenon, <1>1, <1>2, <1>3, <1>4, <1>5 DEF UdpNext, MainContext, Network

(* Whatever the network loses or repeats and the stack reports, the client *)
(* keeps its account: for any number of loops, implementations and events. *)
THEOREM UdpInvariant == UdpSpec => [](Ground /\ UdpInv)
<1>1. UdpInit => Ground /\ UdpInv
  <2> SUFFICES ASSUME UdpInit PROVE Ground /\ UdpInv
    BY Zenon
  <2>1. Init BY Zenon DEF UdpInit, EchoInit
  <2> QED BY Zenon, <2>1, BaseInit, UdpInitial DEF Ground
<1>2. (Ground /\ UdpInv) /\ [UdpNext]_udpVars => (Ground /\ UdpInv)'
  <2> SUFFICES ASSUME Ground, UdpInv, [UdpNext]_udpVars PROVE Ground' /\ UdpInv'
    BY Zenon
  <2>1. [LayerNext]_vars BY Zenon, UdpIsLayer
  <2>2. BaseInv' /\ HeldByOne' BY Zenon, <2>1, LayerNextIsNext, BaseNext, HeldNext DEF Ground
  <2>3. Ground' BY Zenon, <2>2 DEF Ground
  <2> QED BY Zenon, <2>3, UdpStep
<1> QED BY <1>1, <1>2, PTL DEF UdpSpec

(* The echo client only ever does with the socket layer what the layer     *)
(* allows, so all that is proved of Spec holds under the client.           *)
THEOREM UdpKeepsLayer == UdpSpec => Spec
<1>1. UdpInit => Init BY Zenon DEF UdpInit, EchoInit
<1>2. Ground /\ UdpInv /\ [UdpNext]_udpVars => [Next]_vars BY Zenon, UdpIsLayer, LayerNextIsNext
<1> QED BY <1>1, <1>2, UdpInvariant, PTL DEF UdpSpec, Spec

(* The counters of the loops, of terminate() and of the network keep their *)
(* types: no more tests are sent than MAX_ECHO_LOOPS.                      *)
THEOREM UdpTypeCorrect == UdpSpec => []UdpTypeOK
<1>1. UdpInv => UdpTypeOK BY Zenon DEF UdpInv
<1> QED BY <1>1, UdpInvariant, PTL

(* onRx, send_test: if nothing is duplicated and no call fails, no echo    *)
(* fails the comparison before the loops are through, for any number of    *)
(* loops and whatever is lost.                                             *)
THEOREM EchoesInStepAlways == UdpSpec => []EchoesInStep
<1>1. UdpInv => EchoesInStep
  <2> SUFFICES ASSUME UdpInv, faults \cap {"duplicate", "refuse", "error"} = {},
                      verdict = "failed", ~(loop_ctr >= MaxLoops)
               PROVE  FALSE
    BY Zenon DEF EchoesInStep
  <2>1. loop_ctr < MaxLoops BY LoopsAssumption DEF UdpInv, UdpTypeOK
  <2>2. OneAtATime BY Zenon, <2>1 DEF UdpInv, Orderly
  <2> QED BY Zenon, <2>2 DEF OneAtATime
<1> QED BY <1>1, UdpInvariant, PTL

(* terminate: however many errors and farewells have posted one, and run   *)
(* before or after the verdict, each deletes a client that is there, or    *)
(* nothing.                                                                *)
THEOREM UdpDeletedOnce == UdpSpec => []DeletedOnce
<1>1. Ground /\ UdpInv => DeletedOnce BY Zenon, PointerMeans DEF Ground, UdpInv
<1> QED BY <1>1, UdpInvariant, PTL
=============================================================================
