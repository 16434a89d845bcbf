# A TLA+ model of the mbed socket layer

The repository is a C++ layer of asynchronous sockets over a network stack. The
application calls objects of three classes; the stack answers with events, in
interrupt context; the layer turns each event into a callback posted to the
scheduler. Under `test/` are two applications of the layer, a TCP and a UDP echo
client, and the scripts that run their servers. This directory models all of it,
checks it with TLC on small instances, and proves its safety properties with TLAPS for
all instances.

## The system

| Part | Source | Here |
|---|---|---|
| `Socket`: API table, implementation, handlers, event routing, error reports | `source/v0/Socket.cpp` | `Socket` |
| its data path: `recv`, `send`, the getters; `TCPStream::setNagle` | `source/v0/Socket.cpp`, `TCPStream.cpp` | `SocketData`; promise: `SocketInterface` |
| its event slot, `_nvEventHandler` | `source/v0/Socket.cpp` | `EventSlot` |
| `TCPAsynch`: counter of TCP sockets, the stack's periodic task | `source/v0/TCPAsynch.cpp` | `TCPAsynch`; promise: `TickService` |
| `TCPStream`: connect, accepting constructors, disconnect | `source/v0/TCPStream.cpp` | `TCPStream` |
| `TCPListener`: listen, accept, reject | `source/v0/TCPListener.cpp` | `TCPListener` |
| `UDPSocket` | `source/v0/UDPSocket.cpp` | `UDPSocket` |
| all classes, the stack's events, the scheduler, the application | | `Sockets`; promise: `Handover` |
| `SocketAddr` | `source/v0/SocketAddr.cpp` | `SocketAddr` |
| the echo clients and what their servers echo | `test/echo-*-client/main.cpp`, `test/host_tests` | `EchoClient`, `TCPEchoClient`, `UDPEchoClient` |
| the host scripts: handshake, server thread, teardown | `test/host_tests` | `HostTest` |

External, modelled from how the code uses them: *sal* (the `socket_api` table, its
events, `inet_pton`, `inet_ntop`), *minar* (the scheduler: a bag of posted callbacks,
since no order is promised for callbacks without delay), the network, the test
harness and Python's `SocketServer`.

### The layer (`Sockets` and the modules it extends)

Two contexts run. The **main** context runs API calls and callbacks one at a time,
to completion. The **interrupt** context raises events between any two steps of it.
A step is what the main context does without an interrupt being able to observe it
half done:

- a constructor, `open`, `bind`, `close`, `accept`, `reject` is one step;
- `setOnError`, `setOnReadable`, `setOnSent` disable interrupts, so one step;
- `resolve`, `connect`, `start_listening`, `setOnDisconnect` copy a function pointer
  of several words with interrupts enabled: the member is `TORN` in between
  (`BeginAssign`, `EndAssign`), and the call of the stack is a further step;
- a destructor is a step per class (`~TCPAsynch`, `~Socket`), because the virtual
  `_eventHandler` of an object changes with each (`life`).

State and code: `impl`, `stack` are `_socket.impl`, `_socket.stack` (`HasApi` is
`_socket.api != NULL`); `on` the `_onXxx` members; `posted` minar's queue, each
callback holding the handler value bound when it was posted; `tcpSockets`, `tick`
the static members of `TCPAsynch`; `istate`, `sink`, `asked` the stack's side (state
of an implementation, whose handler it calls, requests open); `offered` the
connections `onIncoming` has run for. `missed` records dropped events.

### On top of it

`SocketData` adds the data the stack holds (`rx`), what is sent and not confirmed
(`unsent`) and the result of the last data call (`out`), and composes them with every
step of the layer. `EchoClient` drives the same actions with the calls of the test
programs: `todo` holds the calls the running handler has yet to make, so interrupts
come between any two of them, and other callbacks only after the last. `TCPEchoClient`
and `UDPEchoClient` add the handlers, the members (`_done`, `_unacked`, `loop_ctr`) and
the wire; what may go wrong in a behaviour (`faults`) is chosen at its start from
`FaultSets`. `EventSlot`, `SocketAddr` and `HostTest` stand alone.

## Assumptions about what is outside

- A call that is refused or fails changes nothing, so it is a stuttering step,
  except where the code has already stored the handler (`connect`, `resolve`,
  `start_listening`): then the handler is replaced and the stack is not.
- `close` clears the stack's handler and keeps the implementation; a closed one sends
  and receives nothing, which is the stack's part: the layer passes every call on.
  `destroy` lets go of the implementation whatever it returns, and every API table has
  it, so `~Socket`'s two tests are one (`HasApi`).
- The application passes a set handler to `resolve`, `connect`, `start_listening`;
  uses the pointer given to `onIncoming` once, while the listener lives (`TakeOffer`:
  the layer could not tell); does not touch a deleted object; does not reopen
  (`Socket.h:193`). `AppMay` lifts limits:
  `"reopen"`, and `"overlap"` for a second request while one is open.
- In `Sockets` an event is handled without another one in between, and storage is not
  reused by a second object. `EventSlot` drops the first: `src/README.md:6` says that
  events are handled in interrupt context, and interrupts of a higher priority nest.
- A read that finds no data is answered from `EmptyRead`: with `WOULD_BLOCK` in `data`,
  with that or with success, as the stack likes, in the echo runs. `TX_DONE` confirms one unit
  at a time. `_unacked` counts modulo `Wrap`, which is larger than both messages
  together, as `size_t` is. `onReadable` of `SocketData` reads all there is.
- `inet_pton` stores an IPv4 text as a mapped IPv6 address, which is what `is_v4` and
  `fmtIPv4` look for, or as four bytes and nothing else (`maps`). It may also answer
  what `setAddr` has no case for.
- The UDP client's farewell is `strlen` of a buffer nobody terminates: the last
  datagram or other bytes. TX_DONE of its datagrams finds no `onSent` and is left out.
- A failed assertion, or the end of `terminate`, gives the verdict. Of what the queue
  then still holds, the `terminate` callbacks are run; those of the socket's handlers,
  which would run on a deleted client, are not followed.
- The serial line of the host test neither loses nor reorders. A server's socket takes
  an echo only if the client makes room for it.

## Runs

Deadlock is not checked except for `addresses`: once every object is deleted, every
event told or the test over, the systems rightly stop. Symmetry is over objects of a
class, implementations, handlers and data, which no definition tells apart; no run
with symmetry checks liveness.

| Run | Instance | Shows |
|---|---|---|
| `layer` | four casts, below | `Ownership`: an implementation has one, existing owner; `HandlersAlive`: no event reaches a destroyed object; `RequestsAnswered`: an answer finds the handler it was asked with; `TornOnlyDisconnect`; `RoutedByClass`; `TypeOK`, `TickExact`; the action property `QuietAfterDeath`: nothing is posted for an object that is gone; TCPAsynch implements `TickService`; the layer implements `Handover`: what an object got is freed with it, and only a rejected connection, or one nobody was told of, is left to nobody |
| `data` | a stream or a datagram socket, 2 data, 3 events, one of two stacks without an API table | `Ownership`: without a table no implementation; `NoNullTable`: only `setNagle` can meet a null table; `UnreadAnnounced`: data never waits unannounced; the data calls implement `SocketInterface`: refused before `open`, and before it alone does `setNagle` crash; from `open` on answered by the stack, after `close` too |
| `addresses` | 2 objects, words of 2 values, both forms of `inet_pton` | `PrintsAsSet`, `ReadsBack`: texts and addresses agree both ways, for IPv4 texts if `inet_pton` maps them |
| `event_slot` | 3 sockets, 4 events, depth 3, one socket interrupted for itself | `ToldAsRaised`: the handlers of the others are told of the event that was raised |
| `tcp_echo` | two messages of 2 units; no faults, empty reads that are errors, or these with failing calls, errors and disconnects | `UnackedExact`, `SuccessAcknowledged`; `DeletedOnce`: one deletion however many `terminate` callbacks run; `EchoCompletes`: without faults the test passes, see below; `ErrorEndsTest` |
| `udp_echo` | 3 loops; no loss, loss, or all of loss, duplication, failing calls and errors | `UdpTypeOK`: `send_test` runs at most `MAX_ECHO_LOOPS` times; `EchoesInStep`: with loss alone no echo of a `send_test` fails the comparison; `DeletedOnce`; `LoopsComplete` without loss |
| `host` | both scripts, 2 ports, 3 messages | `ServerKnown`, `HandshakeCompletes`; `TeardownEnds`: a stalling client does not hold up teardown, unless in `sendall` |

The behaviours of `layer` each belong to one cast of `MCLayer`, so that many objects
are not multiplied by many handlers and events:

| Cast | Objects | Handlers | Events |
|---|---|---|---|
| `Server` | 2 streams, 1 listener, 3 implementations | `onIncoming` | 2: two connections |
| `Client` | 1 stream | `onDNS`, `onConnect`, `onDisconnect`, two of each | 3: DNS, CONNECT, DISCONNECT |
| `Stages` | 1 stream, 1 listener, 2 implementations | `onReadable`, `onIncoming`, `onConnect` | 1, of any kind, at any stage of a life |
| `Crowd` | 2 streams, 1 listener, 1 datagram socket on 2 stacks | none | none |

Bounds. `MaxEvents` limits the stack only: in `data`, three let a stream connect,
receive and confirm, and a datagram socket receive twice and confirm. Three implementations are one for the listener
and two connections. One event is enough for `Stages`, whose questions are about the
stage at which a single event arrives. In `tcp_echo` `MaxEvents` leaves room for
every fault-free behaviour (two answers, four confirmations and up to three echoes):
`EchoCompletes` would fail if it cut one off. In `udp_echo` six are one answer, three
echoes and two farewells. They do cut behaviours off: a farewell that equals the last
datagram is echoed, taken for a test and answered by another farewell without end, until
`terminate` runs. The cut comes after all loops are through, so `LoopsComplete` does
not depend on it. `Alone` of `MCSocketData` has one object
built in a behaviour; data calls touch no other. `MaxUnsent` limits what the
application of `SocketData` has under way; `MaxSent` the client of `HostTest`;
`MaxDepth` the nesting of interrupts; a datagram is under way twice at most
(`Duplicate`). Words of two values tell the mapped prefix from everything else.

Five runs are expected to fail, each where a document and the code disagree:

- `error_unset`: `error_check` posts an empty callback if `onError` is not set;
- `disconnect_early`: a disconnect before the `onConnect` callback has run is lost;
- `bind_unopened`: the overloads of `bind` differ on an unopened socket;
- `overlapping_resolve`: a second `resolve` takes the first one's answer;
- `udp_reopen`: the UDP echo client opens its socket twice, and the first
  implementation outlives the object whose handler it has.

Some properties are as weak as they are because the code is.
`EchoCompletes` lets the test also fail on a read that would block: if the echo comes
in two pieces and one `recv` takes both, the second `onRx` finds nothing, and on a
stack that calls this an error the assertion of `main.cpp:102` fails. `Socket.h:293`
warns readers that such events come but leaves the stack's answer open, so this is not
counted as a disagreement; the run shows that there is no other way to fail.
`UnreadAnnounced` leaves out data whose event found no handler set, `EchoesInStep`
duplicated echoes and the farewell's, and `ToldAsRaised` the socket that is interrupted
for itself. `ErrorEndsTest` accepts either verdict: minar promises no order between
`terminate(false)` and a `terminate(true)` that an acknowledgement has posted.
`TeardownEnds` speaks of a TCP server whose thread has got to `serve_forever` when
`shutdown` clears the flag. If it has not (`tcpecho_client_auto.py:90`), it sets the
flag again, and if it then accepts a connection before `SocketServer` is asked to stop,
its handler polls, and teardown waits, for as long as the client keeps it open. Nor
does it end while the thread is in `sendall`, which tests no flag.
`TornOnlyDisconnect` leaves out `setOnDisconnect`, the one setter that does not mask
interrupts, on a connection that may go down at any time.

### Fairness

Only the echo clients and the host scripts state fairness; the layer itself starts
nothing. It is weak in every case:

- `MainContext`: minar runs to completion whatever is posted and never rests while
  something is, so a handler goes on and a posted callback eventually runs;
- `Network`: it answers, confirms and delivers. `EchoCompletes` and `LoopsComplete` use
  this and are stated for behaviours in which no call but an empty read fails;
  `ErrorEndsTest` needs `MainContext` alone;
- in `HostTest` the device's start-up, the callbacks, the steps of teardown and the
  steps the server thread can take by itself. The client has none: it may stall, so
  `HandlerHasRoom` and `HandlerSendAll`, which wait for it to read, have none either.
  When teardown comes is up to the framework.

With loss no liveness is claimed: the UDP client does not send again.

## Proofs

Every safety property that a passing run checks is also proved, for all values of the
constants: any finite set of objects, any implementations, stacks, handlers, data,
words, ports and number of events, messages of any length, any `MAX_ECHO_LOOPS`. The
named `ASSUME`s of the modules are all that is used: classes do not overlap
(`ConstantsAssumption`), the two messages together are shorter than `size_t` counts
(`LengthAssumption`), the clients' socket is of the class they create
(`StreamAssumption`, `DatagramAssumption`), and the like.

| Module | Theorem | States | If the application |
|---|---|---|---|
| `SocketsProofs` | `OwnershipSafe`, `HandlersSafe` | `[]Ownership`, `[]HandlersAlive` | does not reopen |
| `ServiceProofs` | `TypeCorrect`, `TickExactAlways` | `[]TypeOK`, `[]TickExact` | |
| | `TickRefinement` | `ImplementsTickService`, if `Known = Stack` | |
| | `HandoverRefinement` | `ImplementsHandover` | does not reopen |
| `HandlerProofs` | `DeadAreQuiet`, `CallbacksFit` | `QuietAfterDeath`, `[]RoutedByClass` | does not reopen |
| | `RequestsFindHandlers`, `OnlyDisconnectTorn` | `[]RequestsAnswered`, `[]TornOnlyDisconnect` | neither reopens nor overlaps |
| `SocketDataProofs` | `DataKeepsLayer` | `DataSpec => Spec` | |
| | `UnreadAnnouncedAlways`, `NoNullTableAlways` | `[]UnreadAnnounced`, `[]NoNullTable` | |
| | `InterfaceRefinement` | `ImplementsInterface` | does not reopen |
| `TCPEchoProofs` | `TcpKeepsLayer` | `TcpSpec => Spec` | |
| | `UnackedExactAlways`, `SuccessIsAcknowledged`, `TcpDeletedOnce` | `[]UnackedExact`, `[]SuccessAcknowledged`, `[]DeletedOnce` | neither reopens nor overlaps |
| `UDPEchoProofs` | `UdpKeepsLayer` | `UdpSpec => Spec` | |
| | `UdpTypeCorrect`, `EchoesInStepAlways`, `UdpDeletedOnce` | `[]UdpTypeOK`, `[]EchoesInStep`, `[]DeletedOnce` | |
| `ComponentProofs` | `AddressesPrint`, `AddressesReadBack` | `[]PrintsAsSet`, `[]ReadsBack` | |
| | `ToldAlways` | `[]ToldAsRaised` | |
| | `ServerKnownAlways` | `[]ServerKnown` | |

"Does not reopen" is `"reopen" \notin AppMay`: the actions of the layer do not let the
application do it. That it is needed shows in `udp_reopen`. `ClientProofs` holds the
lemmas that the data path and the two clients share. The theorems `...KeepsLayer`
carry what is proved of `Spec` over: `Ownership`, which `data` checks again, follows
from `DataKeepsLayer` and `OwnershipSafe`.

**Types** (`SocketsProofs`). The inductive invariant is `BaseInv`: the type of a
request needs that a call in progress carries a handler (`CallOK`); the type of
`offered` needs that an `onIncoming` callback carries an implementation to a listener
(`IncomingOK`); and only TCP sockets reach `~TCPAsynch` (`LifeOK`).

**Ownership** (`SocketsProofs`). `OwnershipInv` adds `OfferOK` (a connection under
way came through a listener with an API table) and `HandedOverOnce` (it is under way
once, and has no owner yet) to the two properties; all need each other: accepting
keeps one owner because the offer is unique and unowned; the offer is unique because a free implementation is neither owned nor announced. Most
steps move no implementation (`MovesNothing`) and are dealt with at once; each of the
seven that do is a step of `OwnershipNext`.

**Counter** (`ServiceProofs`). That `_TCPSockets` stays in `Nat` after a decrement
needs that it counts (`TickExact`), so the two are one invariant, `TickInv`, on top of
`BaseInv`; together they give `TypeOK`. The lemma `TickStep` reduces every step of the
layer to one of three effects on the static members; exactness and the refinement
follow.

**Hand-over** (`ServiceProofs`). The place of an implementation is computed from
callbacks, offers and owners (`Place`). Under `OwnershipInv` at most one of these
holds it, so each of the moving steps changes one place, as an action of `Handover`;
the rest leaves all places alone.

**Events** (`HandlerProofs`). Every step posts nothing new, an error for an object
under destruction, or the one callback that `_eventHandler` of the object's present
class chooses. What it chooses depends on `life` only; that the object is there at all
is `HandlersAlive`.

**Requests** (`HandlerProofs`). `HandlerInv` says that for whatever the stack may
still answer, the handler asked with is in place (`AnswersReady`), that a call in
progress overwrites a handler no open request looks for (`CallReady`), that an
implementation nobody owns has nothing asked of it (`Unasked`), and that the three
masked setters leave no half copy (`NeverTorn`). That is where the order of the code,
first the handler and then the stack, enters; `"overlap"` breaks `CallReady`, as the
run `overlapping_resolve` shows.

**Data path** (`SocketDataProofs`). `DataInv` adds to the two properties that an
implementation came from an API table and answers to the one object that holds it
(`HeldByOne`), that listeners do not connect (`StreamsConnect`), and that the stack
holds no data for a free implementation or a listener (`NoStrayData`). The first is why no
call meets a null table; the others are why data can only arrive where its event is
turned into an `onReadable` callback, or recorded as missed. For the refinement every
step is a step of `SocketInterface` in the phase of the object it touches; that
`setNagle`, which tests nothing, finds a table from `open` on is `HeldByOne` again.

**The clients** (`ClientProofs`). A handler makes its calls in the order of the
source (`InOrder`), on the one socket there is (`OnlyClient`), and the pointer is set
while that socket lives, except between the calls of `terminate` (`PointerInv`).
`DeletedOnce` follows, for any number of `terminate` callbacks, verdict or not.

**TCP client** (`TCPEchoProofs`). `UnackedExact` needs the whole history of the
connection: from `connect` on `onSent` is set, so no confirmation is missed
(`HandlersReady`); the connection is made, and `onConnect` posted, once
(`ConnectOnce`); until then nothing is sent or comes back (`SilentAtFirst`); and what
is counted stays below both messages together, so `_unacked` does not wrap and is 0
only when all is confirmed (`UnackedCounts`). The conjunction, while the socket lives, is
`Talk`.

**UDP client** (`UDPEchoProofs`). The handler of the address starts the loops, so it
must run once: `ResolveOnce` follows the one request from the call to the callback.
`LoopsCounted` ties the test under way to the echoes counted. Where nothing is
duplicated and nothing fails, `OneAtATime` says that the datagram is in one place:
about to be sent, in the air, or received and announced by one callback. It is proved under
the reopening that this client does: the first implementation, which the object has
lost, receives nothing.

**Components** (`ComponentProofs`). `PrintsAsSet` is inductive with the types.
`SlotInv` adds that a socket not interrupted for itself has one frame, whose event its two fields
hold (`FieldsOfFrame`). `HandshakeInv` says what is on the line at each stage of the
device, and that the server is bound before its address is sent.

All strengthenings were checked with TLC on the instances of the runs before they
were proved.

Model-checked only: `EchoCompletes`, `ErrorEndsTest`, `LoopsComplete`,
`HandshakeCompletes` and `TeardownEnds`. They are liveness properties, and the prover
does not handle fairness. The five expected violations are TLC's counterexamples.

The queue operators `Enqueue` and `Dequeue` are written out in `Socket.tla` instead of
being taken from a bags library to keep the provers' context small.

## Not modelled

- The contents of data, beyond what tells an echo from another; partial sends.
- Time: the period of the task, the harness's timeouts.
- Memory exhaustion; the stack's and the scheduler's own limits.
- `__enable_irq` in a setter called with interrupts already disabled: no code here
  does that.
- Callbacks that run on a deleted object: the layer cannot cancel them and promises
  nothing; `QuietAfterDeath` shows that no new ones come.
- The harness around the echo clients (`GREENTEA_SETUP`, case tables) and
  `find_interface_to_target_addr`, a query of the host's routing.
- The forwarding headers in `sockets/` and `mbed-net-sockets/`, which include or alias
  the `v0` classes.
