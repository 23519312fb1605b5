------------------------------ MODULE MCUartRx ------------------------------
(* UartRx for TLC: the net thread (priority 12) preempts the shell (20).   *)
EXTENDS UartRx

MCThreads == {"net", "shell"}
MCAbove == [t \in MCThreads |-> IF t = "shell" THEN {"net"} ELSE {}]
=============================================================================
