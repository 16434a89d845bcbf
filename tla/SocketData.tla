----------------------------- MODULE SocketData -----------------------------
(***************************************************************************)
(* The data path of a socket (Socket.cpp from recv on, TCPStream::setNagle)*)
(* on top of the layer: calls that the layer passes to the stack if it has *)
(* an implementation, and the data the stack holds for it.  One unit of    *)
(* data stands for a datagram, or for some bytes of a stream.              *)
(***************************************************************************)
EXTENDS Sockets, Sequences

CONSTANTS
  Data,      \* units of data; in a datagram socket, also who sent them
  EmptyRead, \* what the stack answers to a read when it holds no data
  MaxUnsent  \* bound: units under way when the application sends another

ASSUME DataAssumption ==
  /\ EmptyRead \subseteq {"NONE", "WOULD_BLOCK"}
  /\ MaxUnsent \in Nat

VARIABLES
  rx,      \* [Impl -> Seq(Data)]: received and not read
  unsent,  \* [Impl -> Nat]: units taken by send whose TX_DONE is to come
  out      \* the data call that returned last: what it returned and stored

dataVars == <<rx, unsent, out>>

DataOp == {"recv", "recv_from", "send", "send_to", "getLocalAddr",
           "getLocalPort", "getRemoteAddr", "getRemotePort", "isConnected",
           "setNagle"}
DataError == {"NONE", "NULL_PTR", "WOULD_BLOCK", "NOT_BOUND", "NO_CONNECTION",
              "true", "false", "stack error", "fault"}

DataTypeOK ==
  /\ rx \in [Impl -> Seq(Data)]
  /\ unsent \in [Impl -> Nat]
  /\ out \in [op : DataOp \cup {"none"}, obj : Obj \cup {NULL}, err : DataError,
              read : Seq(Data), addr : Data \cup {NULL}]

NoReply == [op |-> "none", obj |-> NULL, err |-> "NONE", read |-> <<>>, addr |-> NULL]

DataInit ==
  /\ rx = [i \in Impl |-> <<>>]
  /\ unsent = [i \in Impl |-> 0]
  /\ out = NoReply

-----------------------------------------------------------------------------
\* What a call returns and stores; nothing is stored unless it is a read.
ReadReply(o, opname, err, read, addr) ==
  [op |-> opname, obj |-> o, err |-> err, read |-> read, addr |-> addr]
Reply(o, opname, err) == ReadReply(o, opname, err, <<>>, NULL)

(* Every data call tests _socket.impl, and nothing else of the socket,     *)
(* before it goes through _socket.api: without a table that is a fault.    *)
(* given: the SocketAddr argument of a call that tests one is not NULL.    *)
Verdict(o, given, errs) ==
  IF impl[o] = NULL \/ ~given THEN {"NULL_PTR"}
  ELSE IF HasApi(o) THEN errs ELSE {"fault"}

Closed(o) == impl[o] # NULL /\ istate[impl[o]] = "closed"

\* recv in the stack: n units, or an error and nothing is read.
ReadErrors(o, n) ==
  IF n > 0 THEN {"NONE"}
  ELSE {"stack error"} \cup IF Closed(o) \/ rx[impl[o]] # <<>> THEN {} ELSE EmptyRead

\* The units a read may return: a datagram, or any part of a stream.
Sizes(o) ==
  IF impl[o] = NULL \/ Closed(o) THEN {0}
  ELSE {n \in 0..Len(rx[impl[o]]) : o \in Datagrams => n <= 1}

TakeOut(o, n) ==
  rx' = IF n = 0 THEN rx ELSE [rx EXCEPT ![impl[o]] = SubSeq(@, n + 1, Len(@))]

\* The first n units received; nothing if there is no implementation.
Front(o, n) == IF n = 0 THEN <<>> ELSE SubSeq(rx[impl[o]], 1, n)

Recv(o, n) ==
  /\ Main(o)
  /\ \E err \in Verdict(o, TRUE, ReadErrors(o, n)) :
       out' = ReadReply(o, "recv", err, Front(o, n), NULL)
  /\ TakeOut(o, n)
  /\ UNCHANGED <<vars, unsent>>

(* recv_from: the sender's address goes through a local variable, which is *)
(* copied into the caller's SocketAddr whatever the stack answered: after  *)
(* an error that copies what the variable happened to hold.                *)
RecvFrom(o, given, n) ==
  /\ Main(o)
  /\ ~given => n = 0
  /\ \E err \in Verdict(o, given, ReadErrors(o, n)), junk \in Data :
       out' = ReadReply(o, "recv_from", err, Front(o, n),
                        IF err = "NULL_PTR" THEN NULL
                        ELSE IF n > 0 THEN Front(o, n)[n] ELSE junk)
  /\ TakeOut(o, n)
  /\ UNCHANGED <<vars, unsent>>

\* send in the stack: taken, or refused; a closed socket sends nothing.
SendErrors(o) == {"stack error"} \cup IF Closed(o) THEN {} ELSE {"NONE"}

\* send and send_to; n units are on their way once the stack has taken them.
Transmit(o, opname, given, n) ==
  /\ Main(o)
  /\ \E err \in Verdict(o, given, SendErrors(o)) :
       /\ out' = Reply(o, opname, err)
       /\ unsent' = IF err = "NONE" THEN [unsent EXCEPT ![impl[o]] = @ + n] ELSE unsent
  /\ UNCHANGED <<vars, rx>>

Send(o, n) == Transmit(o, "send", TRUE, n)
SendTo(o, given, n) == Transmit(o, "send_to", given, n)

Connected(o) == impl[o] # NULL /\ istate[impl[o]] = "connected"

\* isConnected: false, and not an error, if there is no implementation.
IsConnected(o) ==
  /\ Main(o)
  /\ \E err \in Verdict(o, TRUE, {IF Connected(o) THEN "true" ELSE "false"}) :
       out' = Reply(o, "isConnected", IF err = "NULL_PTR" THEN "false" ELSE err)
  /\ UNCHANGED <<vars, rx, unsent>>

\* A call that only reads the socket's state.
Query(o, opname, given, errs) ==
  /\ Main(o)
  /\ \E err \in Verdict(o, given, errs) : out' = Reply(o, opname, err)
  /\ UNCHANGED <<vars, rx, unsent>>

GetLocal(o, given) ==
  LET errs == {"stack error", IF istate[impl[o]] = "open" THEN "NOT_BOUND" ELSE "NONE"}
  IN  \/ Query(o, "getLocalAddr", given, errs)
      \/ given /\ Query(o, "getLocalPort", TRUE, errs)

GetRemote(o, given) ==
  LET errs == {"stack error", IF Connected(o) THEN "NONE" ELSE "NO_CONNECTION"}
  IN  \/ Query(o, "getRemoteAddr", given, errs)
      \/ given /\ Query(o, "getRemotePort", TRUE, errs)

\* setNagle goes through the API table with no test at all and drops the result.
SetNagle(o) ==
  /\ o \in Streams
  /\ Main(o)
  /\ out' = Reply(o, "setNagle", IF HasApi(o) THEN "NONE" ELSE "fault")
  /\ UNCHANGED <<vars, rx, unsent>>

-----------------------------------------------------------------------------
(* The stack's side: data comes in and is kept until it is read, what was  *)
(* sent is confirmed, each with its event.                                 *)

Receiving(i) ==
  /\ sink[i] # NULL
  /\ istate[i] = "connected" \/ (sink[i] \in Datagrams /\ istate[i] \in {"open", "bound"})

Receive(i, units) ==
  /\ Receiving(i)
  /\ rx' = [rx EXCEPT ![i] = @ \o units]
  /\ Raise(i, "RX_DONE", NULL)
  /\ UNCHANGED <<istate, asked, unsent, out>>

Confirm(i) ==
  /\ unsent[i] > 0
  /\ unsent' = [unsent EXCEPT ![i] = @ - 1]
  /\ Raise(i, "TX_DONE", NULL)
  /\ UNCHANGED <<istate, asked, rx, out>>

\* The stack keeps no data for an implementation it has let go of.
ForgetFreed ==
  /\ rx' = [i \in Impl |-> IF istate'[i] = "free" THEN <<>> ELSE rx[i]]
  /\ unsent' = [i \in Impl |-> IF istate'[i] = "free" THEN 0 ELSE unsent[i]]

(* onReadable as Socket.h suggests it: the handler reads until there is    *)
(* nothing left.  For an object that is gone or closed it reads nothing.   *)
OnReadable(c) ==
  /\ c.slot = "onReadable"
  /\ RunCallback(c)
  /\ rx' = IF life[c.obj] = "live" /\ impl[c.obj] # NULL /\ ~Closed(c.obj)
           THEN [rx EXCEPT ![impl[c.obj]] = <<>>] ELSE rx
  /\ UNCHANGED <<unsent, out>>

-----------------------------------------------------------------------------
\* The layer's own steps, for an application without listeners.
LayerStep ==
  /\ \/ \E o \in Obj : Construct(o) \/ AppCall(o)
     \/ \E o \in Obj : AsynchDtor(o) /\ UNCHANGED offered
     \/ Continue
     \/ \E c \in DOMAIN posted : c.slot # "onReadable" /\ RunCallback(c)
     \/ \E i \in Impl : StackEvent(i)
  /\ ForgetFreed
  /\ UNCHANGED out

MaySend(o) == impl[o] # NULL => unsent[impl[o]] < MaxUnsent

DataCall(o) ==
  \/ \E n \in Sizes(o) : Recv(o, n)
  \/ \E n \in Sizes(o), given \in BOOLEAN : o \in Datagrams /\ RecvFrom(o, given, n)
  \/ MaySend(o) /\ Send(o, 1)
  \/ \E given \in BOOLEAN : o \in Datagrams /\ MaySend(o) /\ SendTo(o, given, 1)
  \/ \E given \in BOOLEAN : GetLocal(o, given) \/ GetRemote(o, given)
  \/ IsConnected(o)
  \/ SetNagle(o)

DataNext ==
  \/ LayerStep
  \/ \E o \in Obj : DataCall(o)
  \/ \E c \in DOMAIN posted : OnReadable(c)
  \/ \E i \in Impl, d \in Data : Receive(i, <<d>>)
  \/ \E i \in Impl : Confirm(i)

allVars == <<vars, dataVars>>

DataSpec == Init /\ DataInit /\ [][DataNext]_allVars

-----------------------------------------------------------------------------
(* recv, isConnected and the others test only _socket.impl, not            *)
(* _socket.api: still none of them ever goes through a null API table,     *)
(* setNagle excepted.                                                      *)
NoNullTable == out.err = "fault" => out.op = "setNagle"

(* _eventHandler, setOnReadable: data that the stack holds for a socket    *)
(* never goes unannounced.  As long as no receive event found onReadable   *)
(* unset, a handler that reads greedily is yet to run.                     *)
UnreadAnnounced ==
  \A o \in Obj :
    /\ life[o] = "live" /\ impl[o] # NULL /\ ~Closed(o)
    /\ rx[impl[o]] # <<>>
    /\ "onReadable" \notin missed[o]
    => \E c \in DOMAIN posted : c.obj = o /\ c.slot = "onReadable"

PhaseOf(o) ==
  CASE life[o] # "live" -> "none"
    [] life[o] = "live" /\ impl[o] = NULL -> "new"
    [] life[o] = "live" /\ impl[o] # NULL -> IF Closed(o) THEN "closed" ELSE "opened"

User == INSTANCE SocketInterface
          WITH phase <- [o \in Obj |-> PhaseOf(o)],
               answer <- [op |-> out.op, obj |-> out.obj, err |-> out.err]

(* Socket: the calls implement SocketInterface: open is final, close does  *)
(* not undo it, and which calls reach the stack in which phase.            *)
ImplementsInterface == User!Spec

-----------------------------------------------------------------------------
(* What the invariants above need to be inductive.  Without accept, only   *)
(* open gives a socket its implementation.                                 *)

\* An implementation came from an API table and answers to its one owner.
HeldByOne ==
  /\ \A o \in Obj : impl[o] # NULL =>
       HasApi(o) /\ istate[impl[o]] # "free" /\ sink[impl[o]] \in {o, NULL}
  /\ \A o, p \in Obj : impl[o] # NULL /\ impl[o] = impl[p] => o = p

\* A listener does not connect.
StreamsConnect ==
  /\ call.op = "connect" => call.obj \in Streams
  /\ \A o \in Listeners : impl[o] # NULL =>
       istate[impl[o]] \notin {"connecting", "connected"}

\* The stack holds no data for what is free, nor for a listener.
NoStrayData ==
  /\ \A i \in Impl : istate[i] = "free" => rx[i] = <<>>
  /\ \A o \in Listeners : impl[o] # NULL => rx[impl[o]] = <<>>

DataInv ==
  /\ DataTypeOK /\ HeldByOne /\ StreamsConnect /\ NoStrayData
  /\ NoNullTable /\ UnreadAnnounced
=============================================================================
