---------------------------- MODULE MCSocketAddr ----------------------------
\* SocketAddr for TLC: the objects are interchangeable.
EXTENDS SocketAddr, TLC

Interchangeable == Permutations(Name)
=============================================================================
