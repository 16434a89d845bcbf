---------------------------- MODULE TCPEchoClient ----------------------------
(***************************************************************************)
(* The TCP echo client (test/echo-tcp-client/main.cpp) and the server it   *)
(* talks to (test/host_tests/tcpecho_client_auto.py).                      *)
(***************************************************************************)
EXTENDS EchoClient

CONSTANTS
  Hello,    \* units of out_buffer
  Success,  \* units of out_success, the last of which carries {{end}}
  Wrap      \* _unacked is unsigned and counts modulo Wrap

ASSUME StreamAssumption == Sock \in Streams
ASSUME LengthAssumption ==
  /\ {Hello, Success} \subseteq Nat \ {0}
  /\ Wrap \in Nat /\ Hello + Success < Wrap

VARIABLES
  done, disconnected, unacked,  \* _done, _disconnected, _unacked
  up,    \* units under way to the server
  down   \* units under way to the client

ownVars == <<done, disconnected, unacked>>
wireVars == <<up, down>>
tcpVars == <<allVars, echoVars, ownVars, wireVars>>

TcpInit ==
  /\ EchoInit
  /\ done = FALSE /\ disconnected = TRUE
  /\ unacked \in 0..(Wrap - 1)   \* set by onConnect, not by the constructor
  /\ up = <<>> /\ down = 0

-----------------------------------------------------------------------------
(* The handlers.                                                           *)

OnDNS(c) ==
  /\ Run(c, "onDNS")
  /\ todo' = <<"setOnReadable", "setOnSent", "setOnDisconnect", "connect">>
  /\ UNCHANGED <<terminates, ownVars, wireVars>>

OnConnect(c) ==
  /\ Run(c, "onConnect")
  /\ disconnected' = FALSE
  /\ unacked' = Hello
  /\ todo' = <<"sendHello">>
  /\ UNCHANGED <<terminates, done, wireVars>>

\* The send of a handler, asserted to succeed.
SendAll(step, units) ==
  /\ At(step)
  /\ Send(Sock, Len(units))
  /\ ErrorsAllowed
  /\ up' = IF out'.err = "NONE" THEN up \o units ELSE up
  /\ Assert(out'.err = "NONE", Tail(todo))
  /\ UNCHANGED <<client, terminates, disconnected, unacked, down>>

SendHello == SendAll("sendHello", [k \in 1..Hello |-> "text"]) /\ UNCHANGED done

SendSuccess ==
  /\ SendAll("sendSuccess", [k \in 1..Success |-> IF k = Success THEN "end" ELSE "text"])
  /\ done' = TRUE

OnRx(c) ==
  /\ Run(c, "onReadable")
  /\ todo' = <<"recv">>
  /\ UNCHANGED <<terminates, ownVars, wireVars>>

\* onRx counts out_success, on top of what is still unacknowledged.
CountSuccess_Assign == Success
CountSuccess == (unacked + Success) % Wrap

(* onRx goes on: it reads what the stack gives it, some or all there is.   *)
(* The first data is answered with out_success; no data before that is a   *)
(* failure, and so is an error of recv, one that says there is no data     *)
(* included.                                                               *)
Receipt ==
  /\ At("recv")
  /\ \E n \in Sizes(Sock) :
       /\ Recv(Sock, n)
       /\ ErrorsAllowed
       /\ Assert(out'.err = "NONE", IF ~done /\ n > 0 THEN <<"sendSuccess">> ELSE <<>>)
       /\ unacked' = IF ~done /\ n > 0 THEN CountSuccess ELSE unacked
       /\ IF out'.err = "NONE" /\ ~done /\ n = 0 THEN Post(FALSE) ELSE UNCHANGED terminates
  /\ UNCHANGED <<client, done, disconnected, wireVars>>

\* onSent: n units are left unacknowledged; is that the end?  Without the test of
\* _done, and with a test for less than 0 of an unsigned number.
AllSent_Early(n) == n = 0
AllSent_Never(n) == done /\ n < 0
AllSent(n) == done /\ n = 0

OnSent(c) ==
  /\ Run(c, "onSent")
  /\ unacked' = (unacked + Wrap - 1) % Wrap
  /\ IF AllSent(unacked') THEN Post(TRUE) ELSE UNCHANGED terminates
  /\ UNCHANGED <<todo, done, disconnected, wireVars>>

OnDisconnect(c) ==
  /\ Run(c, "onDisconnect")
  /\ disconnected' = TRUE
  /\ UNCHANGED <<todo, terminates, done, unacked, wireVars>>

\* onError that only notes that the test is over.
OnError_NoPost(c) ==
  /\ Run(c, "onError")
  /\ done' = TRUE
  /\ UNCHANGED <<todo, terminates, disconnected, unacked, wireVars>>

OnError(c) ==
  /\ Run(c, "onError")
  /\ done' = TRUE
  /\ Post(FALSE)
  /\ UNCHANGED <<todo, disconnected, unacked, wireVars>>

-----------------------------------------------------------------------------
(* The wire.  The server echoes what it reads at a time unless {{end}} is  *)
(* in it; the client's stack gets the echo in any pieces.                  *)
ServerEchoes ==
  \E n \in 1..Len(up) :
    /\ up' = SubSeq(up, n + 1, Len(up))
    /\ down' = IF \E k \in 1..n : up[k] = "end" THEN down ELSE down + n
    /\ UNCHANGED <<allVars, echoVars, ownVars>>

EchoArrives ==
  \E i \in Impl, n \in 1..down :
    /\ \E d \in Data : Receive(i, [k \in 1..n |-> d])
    /\ down' = down - n
    /\ UNCHANGED <<echoVars, ownVars, up>>

MainContext ==
  /\ UNCHANGED faults
  /\ \/ ClientStep /\ UNCHANGED <<ownVars, wireVars>>
     \/ SendHello \/ SendSuccess \/ Receipt
     \/ \E c \in DOMAIN posted :
          \/ OnDNS(c) \/ OnConnect(c) \/ OnRx(c) \/ OnSent(c)
          \/ OnDisconnect(c) \/ OnError(c)

Network ==
  \/ Answers /\ UNCHANGED <<echoVars, ownVars, wireVars>>
  \/ \E i \in Impl : Confirm(i) /\ UNCHANGED <<echoVars, ownVars, wireVars>>
  \/ ServerEchoes
  \/ EchoArrives

TcpNext ==
  \/ MainContext
  \/ Network
  \/ Faulty /\ UNCHANGED <<echoVars, ownVars, wireVars>>

(* The main context never rests while it has something to do, and the      *)
(* network, unless it is at fault, delivers.                               *)
TcpSpec ==
  /\ TcpInit /\ [][TcpNext]_tcpVars
  /\ WF_tcpVars(MainContext)
  /\ WF_tcpVars(Network)

-----------------------------------------------------------------------------
(* Properties.                                                             *)

\* What setOnSent's handler is posted as, and how often it is yet to run.
SentCallback == [obj |-> Sock, slot |-> "onSent", fn |-> Func, arg |-> NULL]
SentPosted == IF SentCallback \in DOMAIN posted THEN posted[SentCallback] ELSE 0
SentAlone == \A c \in DOMAIN posted : c.slot = "onSent" => c = SentCallback

\* What the running handler has counted in _unacked and is about to send.
AboutToSend ==
  IF Doing({"sendHello"}) THEN Hello ELSE IF Doing({"sendSuccess"}) THEN Success ELSE 0

\* onConnect has run on a socket that is still there.
Conversing ==
  /\ verdict = "none"
  /\ life[Sock] = "live" /\ impl[Sock] # NULL
  /\ istate[impl[Sock]] \in {"connected", "down"}
  /\ \A c \in DOMAIN posted : c.slot # "onConnect"

(* onConnect, onRx, onSent: _unacked is always what the stack has yet to   *)
(* acknowledge plus what minar has yet to report, although it is counted   *)
(* in the main context and acknowledgements come in interrupts.            *)
UnackedExact ==
  Conversing => SentAlone /\ unacked = unsent[impl[Sock]] + SentPosted + AboutToSend

(* onSent: terminate(true) is posted only when nothing that was sent is    *)
(* unacknowledged.                                                         *)
SuccessAcknowledged ==
  terminates[TRUE] > 0 /\ Conversing => done /\ unsent[impl[Sock]] = 0

(* onRx, onSent: over a network that does its part the test ends, and with *)
(* success.  On a stack that calls a read that finds nothing an error it   *)
(* may also end with that: if one onRx has read what two events announced, *)
(* the assertion on the recv of the second fails.                          *)
EchoCompletes ==
  faults \subseteq {"would_block"} =>
    <>(verdict = "passed" \/ (verdict = "failed" /\ out.err = "WOULD_BLOCK"))

(* onError, terminate: an error that is reported while the test runs ends  *)
(* it, whatever else fails.                                                *)
ErrorEndsTest ==
  (\E c \in DOMAIN posted : c.slot = "onError") ~> verdict # "none"

-----------------------------------------------------------------------------
(* What these invariants need to be inductive.                             *)

\* Which call of a handler may come after which.
TcpOrder ==
  {<<"new", "setOnError">>, <<"setOnError", "open">>, <<"open", "resolve">>,
   <<"setOnReadable", "setOnSent">>, <<"setOnSent", "setOnDisconnect">>,
   <<"setOnDisconnect", "connect">>,
   <<"close", "delete">>, <<"delete", "passed">>, <<"delete", "failed">>}

TcpTypeOK ==
  /\ terminates \in [BOOLEAN -> Nat]
  /\ unsent \in [Impl -> Nat]
  /\ done \in BOOLEAN
  /\ unacked \in 0..(Wrap - 1)

\* connect is under way with its handler stored, and from its call on, what is
\* acknowledged is reported to onSent.
HandlersReady ==
  LET i == impl[Sock] IN
    /\ i # NULL /\ istate[i] = "connecting" =>
         on[Sock]["onConnect"] = Func /\ call.op # "connect"
    /\ call.op = "connect" /\ call.pc = "api" => on[Sock]["onConnect"] = Func
    /\ \/ Doing({"setOnDisconnect", "connect"})
       \/ call.op = "connect"
       \/ i # NULL /\ istate[i] # "open"
       => on[Sock]["onSent"] = Func

\* The connection is made once, and onConnect is posted once for it.
ConnectOnce ==
  LET i == impl[Sock] IN
    /\ i # NULL => istate[i] \in {"open", "connecting", "connected", "down", "closed"}
    /\ \A c, d \in DOMAIN posted :
         c.slot = "onConnect" /\ d.slot = "onConnect" => c = d /\ posted[c] = 1
    /\ i = NULL \/ istate[i] \in {"open", "connecting"} =>
         \A c \in DOMAIN posted : c.slot # "onConnect"

\* Until onConnect has run, nothing is sent and nothing comes back.
Started ==
  /\ impl[Sock] # NULL /\ istate[impl[Sock]] \in {"connected", "down", "closed"}
  /\ \A c \in DOMAIN posted : c.slot # "onConnect"
SilentAtFirst ==
  ~Started =>
    /\ \A i \in Impl : unsent[i] = 0
    /\ up = <<>> /\ down = 0
    /\ \A c \in DOMAIN posted : c.slot \notin {"onSent", "onReadable"}
    /\ ~Doing({"sendHello", "sendSuccess", "recv"})
    /\ terminates[TRUE] = 0

\* _unacked does not wrap, and is 0 when terminate(true) is posted.
UnackedCounts ==
  Conversing =>
    /\ unacked = unsent[impl[Sock]] + SentPosted + AboutToSend
    /\ unacked <= Hello + (IF done \/ Doing({"sendSuccess"}) THEN Success ELSE 0)
    /\ terminates[TRUE] # 0 => done /\ unacked = 0

Talk ==
  HandlersReady /\ ConnectOnce /\ SentAlone /\ SilentAtFirst /\ UnackedCounts

TcpInv ==
  /\ TcpTypeOK /\ OnlyClient /\ PointerInv /\ InOrder(TcpOrder)
  /\ life[Sock] \in {"raw", "live"} => Talk
=============================================================================
