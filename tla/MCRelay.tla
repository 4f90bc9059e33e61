------------------------------ MODULE MCRelay ------------------------------
(* A queue of two lines and five lines to read: the queue fills up, overflows *)
(* and is flushed in part and as a whole.                                     *)
EXTENDS Relay
=============================================================================
