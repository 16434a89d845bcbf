---------------------------- MODULE UDPEchoClient ----------------------------
(***************************************************************************)
(* The UDP echo client (test/echo-udp-client/main.cpp) and the server that *)
(* returns each datagram to its sender (host_tests/udpecho_client_auto.py).*)
(* A datagram is the number of the send_test that filled out_buffer for    *)
(* it; GARBLED is one with bytes that out_buffer does not hold.            *)
(***************************************************************************)
EXTENDS EchoClient

CONSTANTS
  MaxLoops,  \* MAX_ECHO_LOOPS
  GARBLED

ASSUME DatagramAssumption == Sock \in Datagrams
ASSUME LoopsAssumption ==
  /\ MaxLoops \in Nat \ {0}
  /\ Data = 1..MaxLoops \cup {GARBLED}

VARIABLES
  loop_ctr,
  tests,  \* how often send_test has run: what out_buffer holds
  air     \* [Data -> Nat]: datagrams under way to the server or back

udpVars == <<allVars, echoVars, loop_ctr, tests, air>>

UdpTypeOK ==
  /\ EchoTypeOK
  /\ loop_ctr \in Nat
  /\ tests \in 0..MaxLoops
  /\ air \in [Data -> Nat]

UdpInit ==
  /\ EchoInit
  /\ loop_ctr = 0
  /\ tests = 0
  /\ air = [d \in Data |-> 0]

-----------------------------------------------------------------------------
(* The handlers.                                                           *)

\* onDNS opens the socket once more, although start_test has opened it.
OnDNS(c) ==
  /\ Run(c, "onDNS")
  /\ todo' = <<"open", "setOnReadable", "send_test">>
  /\ UNCHANGED <<terminates, loop_ctr, tests, air>>

OnError(c) ==
  /\ Run(c, "onError")
  /\ Post(FALSE)
  /\ UNCHANGED <<todo, loop_ctr, tests, air>>

\* The datagram d is handed to the stack and, if it takes it, under way.
SendDatagram(d) ==
  /\ SendTo(Sock, TRUE, 1)
  /\ ErrorsAllowed
  /\ air' = IF out'.err = "NONE" THEN [air EXCEPT ![d] = @ + 1] ELSE air
  /\ UNCHANGED <<client, loop_ctr>>

SendTest ==
  /\ At("send_test")
  /\ tests' = tests + 1
  /\ SendDatagram(tests')
  /\ Assert(out'.err = "NONE", Tail(todo))
  /\ UNCHANGED terminates

OnRx(c) ==
  /\ Run(c, "onReadable")
  /\ todo' = <<"recv">>
  /\ UNCHANGED <<terminates, loop_ctr, tests, air>>

\* The datagram that recv returned compares equal; so does an empty one.
Valid(read) == \A k \in 1..Len(read) : read[k] = tests

\* What onRx does after the n-th valid echo; as it would be if the first
\* comparison let one more through, the second came one late, or the first sent
\* two datagrams.
AfterEcho_OneMore(n) == IF n <= MaxLoops THEN <<"send_test">> ELSE <<"send_last">>
AfterEcho_Late(n) ==
  IF n < MaxLoops THEN <<"send_test">> ELSE IF n > MaxLoops THEN <<"send_last">> ELSE <<>>
AfterEcho_Twice(n) ==
  IF tests + 2 <= MaxLoops THEN <<"send_test", "send_test">> ELSE <<"send_last">>
AfterEcho(n) == IF n < MaxLoops THEN <<"send_test">> ELSE <<"send_last">>

(* onRx goes on: the datagram is compared with out_buffer, the next one    *)
(* sent or, after the last, a farewell.                                    *)
Receipt ==
  /\ At("recv")
  /\ \E n \in Sizes(Sock) :
       /\ Recv(Sock, n)
       /\ ErrorsAllowed
  /\ LET ok == out'.err = "NONE" /\ Valid(out'.read) IN
       /\ loop_ctr' = IF ok THEN loop_ctr + 1 ELSE loop_ctr
       /\ Assert(ok, AfterEcho(loop_ctr'))
  /\ UNCHANGED <<client, terminates, tests, air>>

(* The farewell is strlen(buffer) bytes of the member buffer, which no one *)
(* terminated: the bytes of the last datagram, or more.  Its result is not *)
(* looked at.                                                              *)
SendLast ==
  /\ At("send_last")
  /\ \E d \in {tests, GARBLED} : SendDatagram(d)
  /\ Post(TRUE)
  /\ todo' = Tail(todo)
  /\ UNCHANGED <<tests, verdict>>

-----------------------------------------------------------------------------
(* The network: each datagram comes back to the socket that sent it, on    *)
(* the implementation it has now.                                          *)
Arrival(d) ==
  /\ air[d] > 0
  /\ life[Sock] = "live"
  /\ Receive(impl[Sock], <<d>>)
  /\ air' = [air EXCEPT ![d] = @ - 1]

Lose(d) ==
  /\ "lose" \in faults
  /\ air[d] > 0
  /\ air' = [air EXCEPT ![d] = @ - 1]
  /\ UNCHANGED allVars

\* Bound: a datagram is under way twice at most.
Duplicate(d) ==
  /\ "duplicate" \in faults
  /\ air[d] = 1
  /\ air' = [air EXCEPT ![d] = 2]
  /\ UNCHANGED allVars

MainContext ==
  /\ UNCHANGED faults
  /\ \/ ClientStep /\ UNCHANGED <<loop_ctr, tests, air>>
     \/ SendTest \/ Receipt \/ SendLast
     \/ \E c \in DOMAIN posted : OnDNS(c) \/ OnRx(c) \/ OnError(c)

Network ==
  \/ Answers /\ UNCHANGED <<echoVars, loop_ctr, tests, air>>
  \/ \E d \in Data : Arrival(d) /\ UNCHANGED <<echoVars, loop_ctr, tests>>

UdpNext ==
  \/ MainContext
  \/ Network
  \/ Faulty /\ UNCHANGED <<echoVars, loop_ctr, tests, air>>
  \/ \E d \in Data : (Lose(d) \/ Duplicate(d)) /\ UNCHANGED <<echoVars, loop_ctr, tests>>

(* As in TCPEchoClient: the main context goes on while it has something to *)
(* do, and the network delivers what it does not lose.                     *)
UdpSpec ==
  /\ UdpInit /\ [][UdpNext]_udpVars
  /\ WF_udpVars(MainContext)
  /\ WF_udpVars(Network)

-----------------------------------------------------------------------------
(* Properties.                                                             *)

(* onRx, send_test: one datagram is out at a time, so as long as none is   *)
(* duplicated and no call fails, the comparison fails for no echo of       *)
(* send_test; only the echo of the farewell can still fail it.             *)
EchoesInStep ==
  faults \cap {"duplicate", "refuse", "error"} = {} =>
    (verdict = "failed" => loop_ctr >= MaxLoops)

(* onRx, terminate: all the loops are run and the test ends, if no         *)
(* datagram is lost and nothing fails; no onRx finds its datagram gone.    *)
LoopsComplete ==
  faults \subseteq {"would_block"} => <>(loop_ctr >= MaxLoops /\ verdict # "none")

(* Socket.h:58: ~Socket frees the underlying socket implementation.        *)
DestructorFrees == \A o \in Obj, i \in Impl : life[o] = "dead" => sink[i] # o

-----------------------------------------------------------------------------
(* What these invariants need to be inductive.                             *)

\* Which call of a handler may come after which, and what a handler ends with.
UdpOrder ==
  {<<"new", "setOnError">>, <<"setOnError", "open">>, <<"open", "resolve">>,
   <<"open", "setOnReadable">>, <<"setOnReadable", "send_test">>,
   <<"close", "delete">>, <<"delete", "passed">>, <<"delete", "failed">>}
Last(step) == todo # <<>> /\ todo[Len(todo)] = step

\* The address is asked for, and answered, once; with the answer the loops begin.
Asked == \E i \in Impl : asked[i] # {}
Waiting(slot) == \E c \in DOMAIN posted : c.slot = slot
Once(slot) ==
  \A c, d \in DOMAIN posted : c.slot = slot /\ d.slot = slot => c = d /\ posted[c] = 1
ResolveOnce ==
  /\ Last("resolve") => call.op # "resolve"
  /\ call.op # "connect"
  /\ Last("resolve") \/ call.op = "resolve" => ~Asked /\ ~Waiting("onDNS")
  /\ Asked => ~Waiting("onDNS")
  /\ Last("resolve") \/ call.op = "resolve" \/ Asked \/ Waiting("onDNS") =>
       tests = 0 /\ ~Last("send_test")
  /\ \A i, j \in Impl : asked[i] # {} /\ asked[j] # {} => i = j
  /\ \A i \in Impl : \A r \in asked[i] : r = <<"onDNS", Func>>
  /\ Once("onDNS")
  /\ Doing({"new", "setOnError", "open", "setOnReadable"}) => tests = 0

\* Which test is under way after how many echoes; before the first there are none.
LoopsCounted ==
  /\ tests = 0 =>
       /\ loop_ctr = 0 /\ ~Waiting("onReadable") /\ ~Doing({"recv", "send_last"})
       /\ \A d \in Data : air[d] = 0
       /\ \A i \in Impl : rx[i] = <<>>
  /\ Last("send_test") => tests = loop_ctr /\ loop_ctr < MaxLoops
  /\ ~Last("send_test") /\ tests # 0 =>
       tests = IF loop_ctr < MaxLoops THEN loop_ctr + 1 ELSE MaxLoops
  /\ Doing({"send_last"}) => loop_ctr >= MaxLoops
  /\ life[Sock] = "live" /\ (\E d \in Data : air[d] # 0) => impl[Sock] # NULL

\* A datagram is about to be sent, under way, or received and not yet read.
Orderly == faults \cap {"duplicate", "refuse", "error"} = {} /\ loop_ctr < MaxLoops
Unread == impl[Sock] # NULL /\ rx[impl[Sock]] = <<tests>>
OneAtATime ==
  /\ verdict = "none" /\ (\A status \in BOOLEAN : terminates[status] = 0)
  /\ ~Doing({"close", "delete", "passed", "failed"}) /\ ~Waiting("onError")
  /\ \A d \in Data : air[d] # 0 =>
       d = tests /\ air[d] = 1 /\ ~Last("send_test") /\ \A i \in Impl : rx[i] = <<>>
  /\ \A i \in Impl : rx[i] # <<>> => i = impl[Sock] /\ Unread /\ ~Last("send_test")
  /\ Waiting("onReadable") => Unread /\ ~Doing({"recv"})
  /\ Doing({"recv"}) => Unread
  /\ Once("onReadable")

UdpInv ==
  /\ UdpTypeOK /\ rx \in [Impl -> Seq(Data)]
  /\ OnlyClient /\ PointerInv /\ InOrder(UdpOrder)
  /\ ResolveOnce /\ LoopsCounted
  /\ Orderly => OneAtATime
=============================================================================
