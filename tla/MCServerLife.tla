---------------------------- MODULE MCServerLife ----------------------------
(* One server on one port: it is started, and stopped over its socket. *)
EXTENDS ServerLife

CONSTANT n1

OnePort == {[p \in Procs |-> n1]}
=============================================================================
