------------------------------ MODULE Handover ------------------------------
(***************************************************************************)
(* What becomes of a socket implementation, as the layer promises it: one  *)
(* that an object got by open or accept stays with it until it is freed,   *)
(* and a connection a listener hears of is offered once and answered once. *)
(* Only a connection that was not accepted is ever left to nobody: it was  *)
(* rejected, or came while its listener was being destroyed.               *)
(***************************************************************************)
CONSTANT Impl

VARIABLE
  place \* [Impl -> Place]: where an implementation is

Place == {"free",      \* not allocated
          "announced", \* with a posted onIncoming callback
          "offered",   \* with the application, which has not answered
          "owned",     \* with an object
          "abandoned"} \* allocated, and no object is there to free it

TypeOK == place \in [Impl -> Place]

Init == place = [i \in Impl |-> "free"]

Move(i, from, to) ==
  /\ place[i] \in from
  /\ place' = [place EXCEPT ![i] = to]

Open(i) == Move(i, {"free"}, "owned")
Arrive(i) == Move(i, {"free"}, "announced")
Ignore(i) == Move(i, {"free"}, "abandoned")
Offer(i) == Move(i, {"announced"}, "offered")
Accept(i) == Move(i, {"offered"}, "owned")
Reject(i) == Move(i, {"offered"}, "abandoned")
Free(i) == Move(i, {"owned"}, "free")

Next ==
  \E i \in Impl :
    \/ Open(i) \/ Arrive(i) \/ Ignore(i) \/ Offer(i)
    \/ Accept(i) \/ Reject(i) \/ Free(i)

Spec == Init /\ [][Next]_place
=============================================================================
