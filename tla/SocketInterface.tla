--------------------------- MODULE SocketInterface ---------------------------
(***************************************************************************)
(* A socket as its user sees it: the phases it goes through, and in which  *)
(* of them a call is answered by the layer, by the stack, or crashes.      *)
(* What the stack answers, after close too, is up to the stack.            *)
(***************************************************************************)
CONSTANTS Obj, NULL

VARIABLES
  phase,  \* [Obj -> Phase]
  answer  \* the call that returned last, and what it returned

Phase == {"none", "new", "opened", "closed"}

Init ==
  /\ phase = [o \in Obj |-> "none"]
  /\ answer = [op |-> "none", obj |-> NULL, err |-> "NONE"]

Step(o, from, to) ==
  /\ phase[o] \in from
  /\ phase' = [phase EXCEPT ![o] = to]
  /\ UNCHANGED answer

\* Constructors and destructors; ~Socket can come in any phase.
Create(o) == Step(o, {"none"}, "new")
Destroy(o) == Step(o, Phase, "none")

\* open, once; close, after which there is no way back.
Open(o) == Step(o, {"new"}, "opened")
Close(o) == Step(o, {"opened", "closed"}, "closed")

\* A call on a socket that exists returns one of these results.
Returns(o, ops, errs) ==
  /\ phase[o] # "none"
  /\ answer'.op \in ops /\ answer'.obj = o /\ answer'.err \in errs
  /\ UNCHANGED phase

\* Before open the layer refuses; from then on the stack answers, closed or not.
Opened(o, errs) == IF phase[o] = "new" THEN {"NULL_PTR"} ELSE errs \cup {"stack error"}

\* A call with plain arguments, and one with an address, which may be null.
Answers(o, plain, addressed, errs) ==
  \/ Returns(o, {plain}, Opened(o, errs))
  \/ Returns(o, {addressed}, Opened(o, errs) \cup {"NULL_PTR"})

Receive(o) == Answers(o, "recv", "recv_from", {"NONE", "WOULD_BLOCK"})
Transmit(o) == Answers(o, "send", "send_to", {"NONE"})
LocalName(o) == Answers(o, "getLocalPort", "getLocalAddr", {"NONE", "NOT_BOUND"})
RemoteName(o) == Answers(o, "getRemotePort", "getRemoteAddr", {"NONE", "NO_CONNECTION"})

\* isConnected: never true before open.
IsConnected(o) ==
  Returns(o, {"isConnected"}, {"false"} \cup IF phase[o] = "new" THEN {} ELSE {"true"})

\* setNagle returns nothing; before open it may crash for want of an API table.
SetOption(o) ==
  Returns(o, {"setNagle"}, {"NONE"} \cup IF phase[o] = "new" THEN {"fault"} ELSE {})

Next ==
  \E o \in Obj :
    \/ Create(o) \/ Destroy(o) \/ Open(o) \/ Close(o)
    \/ Receive(o) \/ Transmit(o) \/ LocalName(o) \/ RemoteName(o)
    \/ IsConnected(o) \/ SetOption(o)

Spec == Init /\ [][Next]_<<phase, answer>>
=============================================================================
