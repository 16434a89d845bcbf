------------------------------ MODULE HostTest ------------------------------
(***************************************************************************)
(* The host's side of the echo tests (test/host_tests/*.py): the device    *)
(* and the host agree over the serial line on where the echo server is, a  *)
(* thread of the host runs that server, and teardown, called when the test *)
(* is over or its time is up, stops it.  The client may connect, send,     *)
(* stall and close as it likes.                                            *)
(***************************************************************************)
EXTENDS Naturals, Sequences

CONSTANTS
  Port,     \* the ports the host's system may choose
  HOST,     \* the host's address
  MaxSent,  \* bound: how often the client sends
  NONE      \* Python's None

ASSUME HostAssumption ==
  /\ {0, NONE} \cap Port = {}
  /\ MaxSent \in Nat

VARIABLES
  tcp,               \* TRUE: TCPServerWrapper and its handler; FALSE: UDPServer
  device,            \* where test_echo_..._client is
  told,              \* the device's buffer and port: where it takes the server to be
  toHost, toDevice,  \* key-value messages on the serial line, in order
  serverIP, serverPort, bound, \* SERVER_IP, SERVER_PORT, and where the server listens
  main,              \* where the thread of the callbacks and of teardown is
  thread,            \* where server_thread is
  running,           \* TCPServerWrapper.running
  request, isShutDown, \* SocketServer: stop serving; no longer serving
  conn, inbox, sent  \* the client's connection, data not read, messages sent

deviceVars == <<device, told>>
lineVars == <<toHost, toDevice>>
hostVars == <<tcp, serverIP, serverPort, bound>>
stopVars == <<running, request, isShutDown>>
clientVars == <<conn, inbox, sent>>
hostTestVars == <<deviceVars, lineVars, hostVars, main, thread, stopVars, clientVars>>

HostInit ==
  /\ tcp \in BOOLEAN
  /\ device = "start" /\ told = [ip |-> NONE, port |-> 0]
  /\ toHost = <<>> /\ toDevice = <<>>
  /\ serverIP = NONE /\ serverPort = 0 /\ bound = NONE
  /\ main = "events" /\ thread = "none"
  /\ running = FALSE /\ request = FALSE /\ isShutDown = FALSE
  /\ conn = "none" /\ inbox = <<>> /\ sent = 0

-----------------------------------------------------------------------------
(* The device: it sends its address, then asks twice and waits for the     *)
(* answer each time; it does not look at the key of an answer.             *)
SendKv(from, key, to) ==
  /\ device = from
  /\ device' = to
  /\ toHost' = Append(toHost, key)
  /\ UNCHANGED <<told, toDevice, hostVars, main, thread, stopVars, clientVars>>

ParseKv(from, field, to) ==
  /\ device = from
  /\ toDevice # <<>>
  /\ device' = to
  /\ told' = [told EXCEPT ![field] = Head(toDevice)]
  /\ toDevice' = Tail(toDevice)
  /\ UNCHANGED <<toHost, hostVars, main, thread, stopVars, clientVars>>

Device ==
  \/ SendKv("start", "target_ip", "addressed")
  \/ SendKv("addressed", "host_ip", "awaits ip")
  \/ ParseKv("awaits ip", "ip", "has ip")
  \/ SendKv("has ip", "host_port", "awaits port")
  \/ ParseKv("awaits port", "port", "runs")

-----------------------------------------------------------------------------
(* The callbacks of the host test, run one after the other.                *)

HostEvent(key) ==
  /\ main = "events"
  /\ toHost # <<>> /\ Head(toHost) = key
  /\ toHost' = Tail(toHost)
  /\ UNCHANGED <<deviceVars, main, stopVars, clientVars>>

\* setup_..._server that does not note the port.
Setup_PortUnset ==
  /\ bound' \in Port
  /\ thread' = "started"
  /\ UNCHANGED serverPort

\* setup_tcp_server, setup_udp_server
Setup ==
  /\ bound' \in Port
  /\ serverPort' = bound'
  /\ thread' = "started"

CallbackTargetIP ==
  /\ HostEvent("target_ip")
  /\ serverIP' = HOST
  /\ Setup
  /\ UNCHANGED <<tcp, toDevice>>

CallbackHostIP ==
  /\ HostEvent("host_ip")
  /\ toDevice' = Append(toDevice, serverIP)
  /\ UNCHANGED <<hostVars, thread>>

\* The callback for host_port that does not answer if there is no server yet, with
\* the test the wrong way round.
CallbackHostPort_Silent ==
  /\ HostEvent("host_port")
  /\ toDevice' = IF bound = NONE THEN Append(toDevice, serverPort) ELSE toDevice
  /\ UNCHANGED <<hostVars, thread>>

CallbackHostPort ==
  /\ HostEvent("host_port")
  /\ toDevice' = Append(toDevice, serverPort)
  /\ UNCHANGED <<hostVars, thread>>

Callback == CallbackTargetIP \/ CallbackHostIP \/ CallbackHostPort

-----------------------------------------------------------------------------
(* teardown: shutdown, which of a TCPServerWrapper first clears the flag,  *)
(* then asks SocketServer to stop and waits for it; then join.             *)

HostStep(from, to) ==
  /\ main = from
  /\ main' = to
  /\ UNCHANGED <<deviceVars, lineVars, hostVars, thread, clientVars>>

Teardown ==
  /\ HostStep("events", IF bound = NONE THEN "done" ELSE IF tcp THEN "flag" ELSE "stop")
  /\ UNCHANGED stopVars

\* shutdown that leaves the flag as it is.
ClearRunning_Not == HostStep("flag", "stop") /\ UNCHANGED stopVars
ClearRunning == HostStep("flag", "stop") /\ running' = FALSE /\ UNCHANGED <<request, isShutDown>>

RequestStop == HostStep("stop", "wait") /\ request' = TRUE /\ UNCHANGED <<running, isShutDown>>
AwaitStop == isShutDown /\ HostStep("wait", "join") /\ UNCHANGED stopVars
Join == thread = "ended" /\ HostStep("join", "done") /\ UNCHANGED stopVars

-----------------------------------------------------------------------------
(* The server's thread.                                                    *)

ThreadStep(from, to) ==
  /\ thread = from
  /\ thread' = to
  /\ UNCHANGED <<deviceVars, lineVars, hostVars, main, sent>>

\* serve_forever of the wrapper sets the flag and calls SocketServer's.
ServeForever ==
  /\ ThreadStep("started", "serve")
  /\ running' = tcp
  /\ UNCHANGED <<request, isShutDown, conn, inbox>>

\* SocketServer looks for a request to stop between two requests to serve.
StopServing ==
  /\ request
  /\ ThreadStep("serve", "ended")
  /\ request' = FALSE /\ isShutDown' = TRUE
  /\ UNCHANGED <<running, conn, inbox>>

AcceptConnection ==
  /\ tcp /\ ~request
  /\ conn \in {"up", "closed"}
  /\ ThreadStep("serve", "handle")
  /\ UNCHANGED <<stopVars, conn, inbox>>

\* UDPEchoClientHandler.handle: one datagram, no loop.
EchoDatagram ==
  /\ ~tcp /\ ~request
  /\ inbox # <<>>
  /\ ThreadStep("serve", "serve")
  /\ inbox' = Tail(inbox)
  /\ UNCHANGED <<stopVars, conn>>

\* TCPEchoClientHandler.handle returns and SocketServer closes the connection.
Leave(from) ==
  /\ ThreadStep(from, "serve")
  /\ conn' = "over" /\ inbox' = <<>>
  /\ UNCHANGED stopVars

Stay(from, to) == ThreadStep(from, to) /\ UNCHANGED <<stopVars, conn, inbox>>

\* The loop of handle goes round as long as the flag is set.
HandleLoop == IF running THEN Stay("handle", "recv") ELSE Leave("handle")

(* recv: if the flag is set, it polls until there is something to read or  *)
(* it finds the flag cleared; an end of the connection reads as no data,   *)
(* which ends handle.  What comes with {{end}} is not echoed.              *)
HandlerRecv ==
  \/ IF running THEN Stay("recv", "poll recv") ELSE Leave("recv")
  \/ (~running \/ (inbox = <<>> /\ conn = "closed")) /\ Leave("poll recv")
  \/ \E n \in 1..Len(inbox) :
       /\ ThreadStep("poll recv",
                     IF \E k \in 1..n : inbox[k] = "end" THEN "handle" ELSE "send")
       /\ inbox' = SubSeq(inbox, n + 1, Len(inbox))
       /\ UNCHANGED <<stopVars, conn>>

\* send polls in the same way until the client has room for something.
HandlerSend ==
  \/ Stay("send", IF running THEN "poll send" ELSE "handle")
  \/ ~running /\ Stay("poll send", "handle")
HandlerHasRoom == Stay("poll send", "sendall")

\* sendall looks at no flag: it returns when the client has made room for all of the
\* data, or fails when it finds it gone.
HandlerSendAll == Stay("sendall", "handle") \/ (conn = "closed" /\ Leave("sendall"))

-----------------------------------------------------------------------------
\* The client, once the device knows the server.
Client ==
  /\ device = "runs"
  /\ \/ conn = "none" /\ conn' = "up" /\ UNCHANGED <<inbox, sent>>
     \/ conn = "up" /\ conn' = "closed" /\ UNCHANGED <<inbox, sent>>
     \/ /\ conn = "up" /\ sent < MaxSent
        /\ \E data \in {"text", "end"} : inbox' = Append(inbox, data)
        /\ sent' = sent + 1
        /\ UNCHANGED conn
  /\ UNCHANGED <<deviceVars, lineVars, hostVars, main, thread, stopVars>>

\* Steps that a thread takes when it can; what waits for the client is not among them.
Stopping == ClearRunning \/ RequestStop \/ AwaitStop \/ Join
Serving ==
  \/ ServeForever \/ StopServing \/ AcceptConnection \/ EchoDatagram
  \/ HandleLoop \/ HandlerRecv \/ HandlerSend

HostNext ==
  \/ Device \/ Callback \/ Teardown \/ Stopping \/ Serving
  \/ HandlerHasRoom \/ HandlerSendAll
  \/ Client

HostSpec ==
  /\ HostInit /\ [][HostNext]_hostTestVars
  /\ WF_hostTestVars(Device)
  /\ WF_hostTestVars(Callback)
  /\ WF_hostTestVars(Stopping)
  /\ WF_hostTestVars(Serving)

-----------------------------------------------------------------------------
(* test_echo_..._client, the callbacks: when the device starts its client, *)
(* it has been told where the server listens, although it does not look at *)
(* the keys of the answers and the server is set up only on demand.        *)
ServerKnown ==
  device = "runs" => bound # NONE /\ told = [ip |-> HOST, port |-> bound]

(* greentea_parse_kv, the callbacks: the device does not wait in vain for  *)
(* an answer unless the host has given the test up.                        *)
HandshakeCompletes == <>(device = "runs" \/ main # "events")

(* teardown, TCPServerWrapper: teardown comes to its end although the      *)
(* client neither sends nor closes, of the TCP server if its thread has    *)
(* got to serve_forever when shutdown clears the flag: one that comes      *)
(* later sets it again.  Only a client that takes no data holds it up, and *)
(* only in sendall.                                                        *)
TeardownEnds ==
  (IF tcp THEN main = "flag" /\ thread # "started" ELSE main # "events")
    ~> (main = "done" \/ [](thread = "sendall"))

-----------------------------------------------------------------------------
(* What ServerKnown needs to be inductive: at each stage of the device,    *)
(* what is on the line, and whether the server has been set up.            *)

ServerUp == bound \in Port /\ serverIP = HOST /\ serverPort = bound

Line(host, dev) == toHost = host /\ toDevice = dev

HandshakeInv ==
  /\ told = [ip |-> told.ip, port |-> told.port]
  /\ \/ device = "start" /\ Line(<<>>, <<>>)
     \/ device = "addressed" /\ Line(<<"target_ip">>, <<>>)
     \/ device = "addressed" /\ ServerUp /\ Line(<<>>, <<>>)
     \/ device = "awaits ip" /\ Line(<<"target_ip", "host_ip">>, <<>>)
     \/ device = "awaits ip" /\ ServerUp /\ Line(<<"host_ip">>, <<>>)
     \/ device = "awaits ip" /\ ServerUp /\ Line(<<>>, <<HOST>>)
     \/ device = "has ip" /\ ServerUp /\ Line(<<>>, <<>>) /\ told.ip = HOST
     \/ device = "awaits port" /\ ServerUp /\ told.ip = HOST /\ Line(<<"host_port">>, <<>>)
     \/ device = "awaits port" /\ ServerUp /\ told.ip = HOST /\ Line(<<>>, <<bound>>)
     \/ /\ device = "runs" /\ ServerUp /\ Line(<<>>, <<>>)
        /\ told.ip = HOST /\ told.port = bound
=============================================================================
