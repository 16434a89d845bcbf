------------------------------- MODULE MCLayer -------------------------------
(***************************************************************************)
(* The layer under four kinds of application.  Each behaviour belongs to   *)
(* one cast, which bounds how many objects, implementations and stacks it  *)
(* uses, which handlers it sets and how many events the stack raises: the  *)
(* cases that need many objects are not multiplied by those that need many *)
(* handlers.  No cast tells two objects of a class apart, so the symmetry  *)
(* of MCSockets stays sound.                                               *)
(***************************************************************************)
EXTENDS MCSockets

VARIABLE cast

First == CHOOSE st \in Stack : TRUE

\* A server: two connections, accepted, rejected or lost, through one listener.
Server == [streams |-> 2, listeners |-> 1, datagrams |-> 0, impls |-> 3, stacks |-> {First},
           used |-> {"onIncoming"}, fns |-> 1, events |-> 2]

\* A client: a name, a connection and its end, handlers assigned at any moment.
Client == [streams |-> 1, listeners |-> 0, datagrams |-> 0, impls |-> 1, stacks |-> {First},
           used |-> {"onDNS", "onConnect", "onDisconnect"}, fns |-> 2, events |-> 3]

\* One event of any kind in any stage of construction and destruction.
Stages == [streams |-> 1, listeners |-> 1, datagrams |-> 0, impls |-> 2, stacks |-> {First},
           used |-> {"onReadable", "onIncoming", "onConnect"}, fns |-> 1, events |-> 1]

\* Sockets of all classes on two stacks that come and go.
Crowd == [streams |-> 2, listeners |-> 1, datagrams |-> 1, impls |-> 1, stacks |-> Stack,
          used |-> {}, fns |-> 0, events |-> 0]

Built(S) == {o \in S : life[o] # "raw"}

Within ==
  /\ Cardinality(Built(Streams)) <= cast.streams
  /\ Cardinality(Built(Listeners)) <= cast.listeners
  /\ Cardinality(Built(Datagrams)) <= cast.datagrams
  /\ Cardinality({i \in Impl : istate[i] # "free"}) <= cast.impls
  /\ \A o \in Built(Obj) : stack[o] \in cast.stacks
  /\ \A o \in Obj, s \in Slot : on[o][s] # NULL => s \in cast.used
  /\ Cardinality(Fn \cap ({on[o][s] : o \in Obj, s \in Slot} \cup {call.fn})) <= cast.fns
  /\ raised <= cast.events

LayerInit == Init /\ cast \in {Server, Client, Stages, Crowd}

LayerNext == Next /\ UNCHANGED cast /\ Within'

LayerSpec == LayerInit /\ [][LayerNext]_<<vars, cast>>
=============================================================================
