------------------------------ MODULE MCUartTx ------------------------------
(* UartTx for TLC: the net thread preempts the shell; texts of two lengths. *)
EXTENDS UartTx

MCThreads == {"net", "shell"}
MCAbove == [t \in MCThreads |-> IF t = "shell" THEN {"net"} ELSE {}]

MCMsgs == {"heart", "reply"}
MCMsgLen == [m \in MCMsgs |-> IF m = "heart" THEN 3 ELSE 2]
=============================================================================
