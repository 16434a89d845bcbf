----------------------------- MODULE EchoClient -----------------------------
(***************************************************************************)
(* What the two echo clients of test/ share: one socket, handlers that are *)
(* run by minar, and terminate(), which deletes the client and ends the    *)
(* test.  A handler's calls are done one by one; interrupts come between   *)
(* any two of them, other callbacks only once the handler has returned.    *)
(***************************************************************************)
EXTENDS SocketData

CONSTANT FaultSets \* sets of: "refuse" (a call of the stack fails), "would_block" (a
                   \* read that finds nothing does), "error" (an error event),
                   \* "disconnect", "lose", "duplicate" (a datagram)

ASSUME ClientAssumption ==
  /\ Obj # {} /\ Fn # {}
  /\ FaultSets \subseteq
       SUBSET {"refuse", "would_block", "error", "disconnect", "lose", "duplicate"}

VARIABLES
  client,     \* the global client pointer
  todo,       \* the calls that the running handler has yet to make
  terminates, \* [BOOLEAN -> Nat]: terminate(status) callbacks posted to minar
  verdict,    \* "none" until an assertion fails or terminate has come to its end
  faults      \* what may go wrong in this behaviour

echoVars == <<client, todo, terminates, verdict, faults>>

Sock == CHOOSE o \in Obj : TRUE
Func == CHOOSE f \in Fn : TRUE

EchoTypeOK ==
  /\ client \in {NULL, Sock}
  /\ terminates \in [BOOLEAN -> Nat]
  /\ verdict \in {"none", "passed", "failed"}

\* test_echo_..._client: the client is built, start_test is posted and runs.
EchoInit ==
  /\ Init /\ DataInit
  /\ client = NULL
  /\ todo = <<"new", "setOnError", "open", "resolve">>
  /\ terminates = [status \in BOOLEAN |-> 0]
  /\ verdict = "none"
  /\ faults \in FaultSets

-----------------------------------------------------------------------------
\* What runs has arrived at one of these calls; it is a handler, and the test is on.
Doing(steps) == todo # <<>> /\ Head(todo) \in steps
At(step) == verdict = "none" /\ Doing({step})

\* TEST_ASSERT: the next calls are made, or the test has failed here.
Assert(ok, next) ==
  IF ok THEN todo' = next /\ UNCHANGED verdict
        ELSE todo' = <<>> /\ verdict' = "failed"

Post(status) == terminates' = [terminates EXCEPT ![status] = @ + 1]

\* A data call of a handler returns an error only if this behaviour has such errors.
ErrorsAllowed ==
  /\ out'.err = "WOULD_BLOCK" => "would_block" \in faults
  /\ out'.err \notin {"NONE", "WOULD_BLOCK"} => "refuse" \in faults

\* A step of the layer below, with what it means for the data the stack holds.
Below(step) == step /\ ForgetFreed /\ UNCHANGED out

\* new: the client's constructor builds its socket.
New ==
  /\ At("new")
  /\ Below(Construct(Sock))
  /\ client' = Sock
  /\ todo' = Tail(todo)
  /\ UNCHANGED <<terminates, verdict>>

\* The destructor of the client closes a connected socket; it ignores a failure.
CloseConnected ==
  \/ Connected(Sock) /\ Close(Sock)
  \/ (Connected(Sock) => "refuse" \in faults) /\ UNCHANGED socketVars

\* The calls on the socket that a handler makes and that change the layer.
LayerCall ==
  /\ \/ At("setOnError") /\ SetOn(Sock, "onError", Func)
     \/ At("setOnReadable") /\ SetOn(Sock, "onReadable", Func)
     \/ At("setOnSent") /\ SetOn(Sock, "onSent", Func)
     \/ At("setOnDisconnect") /\ SetOnDisconnect(Sock, Func)
     \/ At("open") /\ (AsynchOpen(Sock) \/ DatagramOpen(Sock))
     \/ At("resolve") /\ Resolve(Sock, Func)
     \/ At("connect") /\ Connect(Sock, Func)
     \/ Doing({"close"}) /\ CloseConnected
     \/ Doing({"delete"}) /\ (DeleteStream(Sock) \/ DeleteDatagram(Sock))
  /\ Below(UNCHANGED <<asynchVars, offered>>)
  /\ todo' = Tail(todo)
  /\ UNCHANGED <<client, terminates, verdict>>

\* open has failed.
OpenRefused ==
  /\ At("open") /\ call = Idle
  /\ "refuse" \in faults
  /\ Assert(FALSE, todo)
  /\ UNCHANGED <<allVars, client, terminates>>

\* The rest of resolve or connect: asserted to succeed.
Proceed ==
  /\ Below(Continue)
  /\ LET refused == call.pc = "api" /\ asked' = asked
     IN  (refused => "refuse" \in faults) /\ Assert(~refused, todo)
  /\ UNCHANGED <<client, terminates>>

Destroy ==
  /\ \/ Below(AsynchDtor(Sock) /\ UNCHANGED offered)
     \/ Below(SocketDtor(Sock) /\ UNCHANGED <<asynchVars, offered>>)
  /\ UNCHANGED echoVars

\* terminate without the test of the pointer.
Terminate_Untested(status) ==
  /\ call = Idle /\ todo = <<>>
  /\ terminates[status] > 0
  /\ terminates' = [terminates EXCEPT ![status] = @ - 1]
  /\ todo' = <<"close", "delete", IF status THEN "passed" ELSE "failed">>
  /\ UNCHANGED <<allVars, client, verdict>>

(* terminate: the first one to run deletes the client, its socket closed   *)
(* if it is connected, and gives the verdict; the others, which minar runs *)
(* after the verdict too, find no client.                                  *)
Terminate(status) ==
  /\ call = Idle /\ todo = <<>>
  /\ terminates[status] > 0
  /\ terminates' = [terminates EXCEPT ![status] = @ - 1]
  /\ todo' = IF client = NULL THEN <<>>
             ELSE <<"close", "delete", IF status THEN "passed" ELSE "failed">>
  /\ UNCHANGED <<allVars, client, verdict>>

\* terminate that leaves the pointer as it is.
Finish_KeepPointer ==
  /\ Doing({"passed", "failed"})
  /\ call = Idle
  /\ verdict' = IF verdict = "none" THEN Head(todo) ELSE verdict
  /\ todo' = <<>>
  /\ UNCHANGED <<allVars, client, terminates>>

\* The end of terminate; an assertion that failed before has given the verdict.
Finish ==
  /\ Doing({"passed", "failed"})
  /\ call = Idle
  /\ client' = NULL
  /\ verdict' = IF verdict = "none" THEN Head(todo) ELSE verdict
  /\ todo' = <<>>
  /\ UNCHANGED <<allVars, terminates>>

\* minar runs a callback of the socket, as the first step of its handler.
Run(c, slot) ==
  /\ todo = <<>> /\ verdict = "none"
  /\ c.slot = slot
  /\ Below(RunCallback(c))
  /\ UNCHANGED <<client, verdict>>

ClientStep ==
  \/ New \/ LayerCall \/ OpenRefused \/ Proceed \/ Destroy \/ Finish
  \/ \E status \in BOOLEAN : Terminate(status)

\* What the stack does of its own accord, and what it does if it fails.
Answers == \E i \in Impl : Below(RaiseDNS(i) \/ RaiseConnect(i))

Faulty ==
  \E i \in Impl :
    \/ "error" \in faults /\ Below(RaiseError(i))
    \/ "disconnect" \in faults /\ Below(RaiseDisconnect(i))
-----------------------------------------------------------------------------
(* terminate: however many of them errors, acknowledgements and echoes     *)
(* have posted, and whatever verdict came before, each closes and deletes  *)
(* a client that is there or nothing.  Between callbacks the pointer tells *)
(* which.                                                                  *)
DeletedOnce ==
  /\ Doing({"close", "delete"}) => client # NULL /\ life[Sock] = "live"
  /\ todo = <<>> /\ call = Idle => (client # NULL <=> life[Sock] = "live")

-----------------------------------------------------------------------------
(* What the invariants of the clients need to be inductive.                *)

\* The client has one socket, and every call in progress is about it.
ClientCall ==
  /\ call.op # "idle" => call.obj = Sock
  /\ call.op = "resolve" => call.slot = "onDNS" /\ call.fn = Func
  /\ call.op = "connect" => call.slot = "onConnect" /\ call.fn = Func
  /\ call.op = "setOnDisconnect" => call.slot = "onDisconnect"
  /\ call.op # "start_listening"
OnlyClient ==
  /\ \A o \in Obj \ {Sock} : life[o] = "raw"
  /\ \A i \in Impl : sink[i] \in {Sock, NULL}
  /\ \A c \in DOMAIN posted : c.obj = Sock
  /\ ClientCall

\* What the handler that runs has yet to do, by which call may follow which.
Step == {"new", "setOnError", "open", "resolve", "setOnReadable", "setOnSent",
         "setOnDisconnect", "connect", "close", "delete", "passed", "failed",
         "recv", "sendHello", "sendSuccess", "send_test", "send_last"}
InOrder(order) ==
  /\ todo \in Seq(Step)
  /\ \A k \in 1..Len(todo) :
       /\ k < Len(todo) => <<todo[k], todo[k + 1]>> \in order
       /\ todo[k] = "delete" => k < Len(todo)

\* Where the client's life stands while a handler runs, and between handlers.
PointerInv ==
  /\ life[Sock] = "raw" <=> Doing({"new"})
  /\ life[Sock] = "raw" => client = NULL /\ call = Idle
  /\ life[Sock] = "live" => client = Sock /\ ~Doing({"passed", "failed"})
  /\ life[Sock] \in {"~TCPAsynch", "~Socket"} =>
       call.op = "delete" /\ Doing({"passed", "failed"})
  /\ life[Sock] = "dead" =>
       /\ call = Idle
       /\ Doing({"passed", "failed"}) \/ (todo = <<>> /\ client = NULL /\ verdict # "none")
=============================================================================
