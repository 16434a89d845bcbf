----------------------------- MODULE TickService -----------------------------
(***************************************************************************)
(* What the static part of TCPAsynch promises its stack: the periodic task *)
(* runs exactly while some TCP socket exists.  It starts with the first    *)
(* one and ends with the last one, in the same step, and never in between. *)
(***************************************************************************)
CONSTANT Users \* the TCP sockets

VARIABLES
  users,   \* those that exist
  running  \* whether the periodic task is scheduled

TypeOK ==
  /\ users \subseteq Users
  /\ running \in BOOLEAN

Init ==
  /\ users = {}
  /\ running = FALSE

Join(u) ==
  /\ u \notin users
  /\ users' = users \cup {u}
  /\ running' = TRUE

Leave(u) ==
  /\ u \in users
  /\ users' = users \ {u}
  /\ running' = (users' # {})

Next == \E u \in Users : Join(u) \/ Leave(u)

Spec == Init /\ [][Next]_<<users, running>>
=============================================================================
