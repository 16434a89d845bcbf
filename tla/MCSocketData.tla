---------------------------- MODULE MCSocketData ----------------------------
(* Instances of SocketData for TLC: one socket of either class at a time.  *)
EXTENDS SocketData, TLC

Alone == \A o, p \in Obj : life[o] # "raw" /\ life[p] # "raw" => o = p

AloneInit == Init /\ DataInit
AloneNext == DataNext /\ Alone'
AloneSpec == AloneInit /\ [][AloneNext]_allVars

DataSymmetry == Permutations(Streams) \cup Permutations(Data)
=============================================================================
