------------------------------ MODULE MCSockets ------------------------------
(* Instances of Sockets for TLC: sets of model values and their symmetry.  *)
EXTENDS Sockets, TLC

Symmetry == Permutations(Streams) \cup Permutations(Listeners)
              \cup Permutations(Impl) \cup Permutations(Fn)
=============================================================================
