------------------------------ MODULE EventSlot ------------------------------
(***************************************************************************)
(* How an event travels from the stack to _eventHandler (Socket.cpp,       *)
(* _nvEventHandler): not as an argument but through two fields of the      *)
(* socket.  The stack points _socket.event at the event and calls the      *)
(* thunk, _nvEventHandler copies that to _event, hands _event on and sets  *)
(* it to NULL.  Interrupts of a higher priority may come in between, for   *)
(* another socket as well as, if the stack allows it, for the same one.    *)
(***************************************************************************)
EXTENDS Naturals, Sequences

CONSTANTS
  Sock,       \* the sockets
  Event,      \* the events the stack raises, each at most once
  MaxDepth,   \* bound: interrupts nested in each other
  Reentrant,  \* the sockets one may be taken for while they are handling one
  NULL

ASSUME SlotAssumption ==
  /\ MaxDepth \in Nat
  /\ Reentrant \subseteq Sock
  /\ NULL \notin Event

VARIABLES
  socketEvent,  \* [Sock -> Event or NULL]: _socket.event
  event,        \* [Sock -> Event or NULL]: _event
  frames,       \* the interrupts in progress, the innermost last
  pending,      \* the events the stack has yet to raise
  handled       \* history: which socket was told of which event, for which

slotVars == <<socketEvent, event, frames, pending, handled>>

Pc == {"copy", "call", "clear"}
Frame == [sock : Sock, ev : Event, pc : Pc]
Report == [sock : Sock, raised : Event, told : Event \cup {NULL}]

SlotTypeOK ==
  /\ socketEvent \in [Sock -> Event \cup {NULL}]
  /\ event \in [Sock -> Event \cup {NULL}]
  /\ frames \in Seq(Frame)
  /\ pending \subseteq Event
  /\ handled \subseteq Report

SlotInit ==
  /\ socketEvent = [s \in Sock |-> NULL]
  /\ event = [s \in Sock |-> NULL]
  /\ frames = <<>>
  /\ pending = Event
  /\ handled = {}

Top == frames[Len(frames)]
Busy(s) == \E k \in 1..Len(frames) : frames[k].sock = s
Goto(pc) == frames' = [frames EXCEPT ![Len(frames)].pc = pc]

\* The stack interrupts whatever runs: it sets _socket.event and calls the thunk.
Interrupt(s, e) ==
  /\ e \in pending
  /\ Len(frames) < MaxDepth
  /\ Busy(s) => s \in Reentrant
  /\ pending' = pending \ {e}
  /\ socketEvent' = [socketEvent EXCEPT ![s] = e]
  /\ frames' = Append(frames, [sock |-> s, ev |-> e, pc |-> "copy"])
  /\ UNCHANGED <<event, handled>>

\* At statement pc of the innermost interrupt.
At(pc) == frames # <<>> /\ Top.pc = pc

\* _event as one variable for all sockets.
CopyEvent_Static ==
  /\ At("copy")
  /\ event' = [s \in Sock |-> socketEvent[Top.sock]]
  /\ Goto("call")
  /\ UNCHANGED <<socketEvent, pending, handled>>

CopyEvent ==
  /\ At("copy")
  /\ event' = [event EXCEPT ![Top.sock] = socketEvent[Top.sock]]
  /\ Goto("call")
  /\ UNCHANGED <<socketEvent, pending, handled>>

CallHandler ==
  /\ At("call")
  /\ handled' = handled \cup
       {[sock |-> Top.sock, raised |-> Top.ev, told |-> event[Top.sock]]}
  /\ Goto("clear")
  /\ UNCHANGED <<socketEvent, event, pending>>

ClearEvent ==
  /\ At("clear")
  /\ event' = [event EXCEPT ![Top.sock] = NULL]
  /\ frames' = SubSeq(frames, 1, Len(frames) - 1)
  /\ UNCHANGED <<socketEvent, pending, handled>>

SlotNext ==
  \/ \E s \in Sock, e \in Event : Interrupt(s, e)
  \/ CopyEvent \/ CallHandler \/ ClearEvent

SlotSpec == SlotInit /\ [][SlotNext]_slotVars

-----------------------------------------------------------------------------
(* _nvEventHandler: interrupts for other sockets may come at any point,    *)
(* still _eventHandler is told of the event the stack raised.  It need not *)
(* be for a socket that the stack interrupts itself for.                   *)
ToldAsRaised == \A r \in handled : r.sock \notin Reentrant => r.told = r.raised

-----------------------------------------------------------------------------
(* What ToldAsRaised needs to be inductive.                                *)

\* A socket that is not interrupted twice has one frame, and its fields are of it.
FieldsOfFrame ==
  \A k \in 1..Len(frames) : frames[k].sock \notin Reentrant =>
    /\ \A j \in 1..Len(frames) : frames[j].sock = frames[k].sock => j = k
    /\ socketEvent[frames[k].sock] = frames[k].ev
    /\ frames[k].pc = "call" => event[frames[k].sock] = frames[k].ev

SlotInv == SlotTypeOK /\ FieldsOfFrame /\ ToldAsRaised
=============================================================================
