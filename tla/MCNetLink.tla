----------------------------- MODULE MCNetLink ------------------------------
(* NetLink for TLC. *)
EXTENDS NetLink

MCMsgLen == [m \in Msgs |-> 2]
=============================================================================
