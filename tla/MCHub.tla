------------------------------- MODULE MCHub -------------------------------
(* One slot per send buffer, so that a client is slow as soon as it is one    *)
(* frame behind.  Connections are interchangeable, and so are broadcasters.   *)
EXTENDS Hub, TLC

Symmetry == Permutations(Conns) \cup Permutations(Casters)
=============================================================================
