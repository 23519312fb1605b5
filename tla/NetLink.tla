------------------------------- MODULE NetLink -------------------------------
(***************************************************************************)
(* The network link at work: the loop of usart_net_run (applications/      *)
(* atk_usart_net/usart_net.c) in the net thread, the msh command "led"     *)
(* (applications/main.c) in the shell thread, and both halves of the UART  *)
(* driver, UartRx and UartTx, which share huart3.Lock.                     *)
(*                                                                         *)
(* The net thread has the higher priority: the shell runs only while the   *)
(* net thread sleeps in rt_thread_delay.                                   *)
(***************************************************************************)
EXTENDS Integers, Sequences

CONSTANTS
    BufSize, MaxBytes, Prompt,  \* see UartRx
    MsgLen, TxSize,             \* see UartTx
    ErrFrames,  \* may a frame be the module's "U2E SENT ERR"?  a set of BOOLEANs
    MaxCmds     \* bound on the led commands typed

ASSUME ErrFramesAssumption == ErrFrames \in SUBSET BOOLEAN /\ ErrFrames # {}
ASSUME MaxCmdsAssumption == MaxCmds \in Nat

Threads == {"net", "shell"}
Above == [t \in Threads |-> IF t = "shell" THEN {"net"} ELSE {}]
\* TX_HEART, TX_DISCONNECT and the reply of the led command
Msgs == {"HEART", "DISCONNECT", "reply"}

\* As in UartRx and UartTx
ASSUME BufSizeAssumption == BufSize \in Nat /\ BufSize >= 2
ASSUME MaxBytesAssumption == MaxBytes \in Nat
ASSUME PromptAssumption == Prompt \in BOOLEAN
ASSUME TxSizeAssumption == TxSize \in Nat \ {0}
ASSUME MsgLenAssumption == MsgLen \in [Msgs -> 1..TxSize-1]

VARIABLES
    buf, len, finsh, dr, rxne, ore, idle, armed, sent, isr, rpc, reg, ret,
    txbuf, gState, dmaState, dmaLock, en, ndtr, pos, ht, tc, dmat, burst,
    tpc, arg, k, n,
    locked,     \* huart3.Lock
    ctl,        \* per thread: the next call of its program
    flight,     \* a transfer was under way when the net thread fell asleep
    dealt,      \* history: the bytes json_deal_cmd was given in this round
    cmds        \* led commands typed so far

Rx == INSTANCE UartRx WITH pc <- rpc
Tx == INSTANCE UartTx WITH pc <- tpc

rxVars == <<buf, len, finsh, dr, rxne, ore, idle, armed, sent, isr, rpc, reg, ret>>
txVars == <<txbuf, gState, dmaState, dmaLock, en, ndtr, pos, ht, tc, dmat, burst,
            tpc, arg, k, n>>
appVars == <<ctl, flight, dealt, cmds>>
vars == <<rxVars, txVars, locked, appVars>>

Init ==
    /\ Rx!Init /\ Tx!Init
    /\ ctl = [t \in Threads |-> IF t = "net" THEN "boot" ELSE "prompt"]
    /\ flight = FALSE /\ dealt = {} /\ cmds = 0

-----------------------------------------------------------------------------
(* Hardware and interrupts.  Both interrupts have the same NVIC priority, so *)
(* neither preempts the other.                                               *)

Line == (Rx!ByteArrives \/ Rx!LineIdle) /\ UNCHANGED <<txVars, appVars>>

UsartIsr == Rx!UsartIsr /\ UNCHANGED <<txVars, appVars>>

DmaBeat ==
    /\ Tx!DmaBeat
    /\ flight' = (flight /\ en')
    /\ UNCHANGED <<rxVars, ctl, dealt, cmds>>

DmaIsr == isr = "none" /\ Tx!DmaIsr /\ UNCHANGED <<rxVars, appVars>>

-----------------------------------------------------------------------------
(* Threads *)

\* A thread runs when no interrupt does and the net thread, if above it, sleeps.
CanRun(t) ==
    /\ isr = "none" /\ ~Rx!IrqPending /\ ~ht /\ ~tc
    /\ t = "net" \/ ctl["net"] = "asleep"

Returned(t) == rpc[t] = "idle" /\ tpc[t] = "idle"

\* A step inside the call that t is making.
InCall(t) ==
    /\ \/ Rx!Continue(t) /\ UNCHANGED txVars
       \/ Tx!Continue(t) /\ UNCHANGED rxVars
    /\ UNCHANGED appVars

\* t has returned from its last call and goes on from program point a to b.
At(t, a, b) ==
    /\ Returned(t) /\ ctl[t] = a
    /\ ctl' = [ctl EXCEPT ![t] = b]

Calls(t, a, b, call) ==
    /\ At(t, a, b) /\ call
    /\ UNCHANGED <<flight, dealt, cmds>>

Restart(t) == Rx!Restart(t) /\ UNCHANGED txVars
Says(t, m) == Tx!Printf(t, m) /\ UNCHANGED rxVars

(* usart_net_run *)

NetBoot == Calls("net", "boot", "heart", Restart("net"))

NetHeart == Calls("net", "heart", "upload", Says("net", "HEART"))

\* usart_net_upload_data
NetUpload ==
    Calls("net", "upload", "deal", Rx!GetFrame("net") /\ UNCHANGED txVars)

\* The bytes that a C string function sees: those before the first terminator.
Shown == {buf[i] : i \in {j \in Rx!Index : \A h \in 0..j : buf[h] # Rx!NUL}}

\* Mutant: without a frame the thread asks again at once instead of going on.
NetDealPolls ==
    IF ret["net"] = "null"
      THEN /\ At("net", "deal", "upload")
           /\ UNCHANGED <<rxVars, txVars, locked, flight, dealt, cmds>>
      ELSE /\ At("net", "deal", "restart")
           /\ dealt' = dealt \cup Shown
           /\ UNCHANGED <<rxVars, txVars, locked, flight, cmds>>

\* json_deal_cmd: an error frame of the module is answered with TX_DISCONNECT;
\* any other frame is parsed and its fields are printed on the console.
NetDeal ==
    IF ret["net"] = "null"
      THEN /\ At("net", "deal", "sleep")
           /\ UNCHANGED <<rxVars, txVars, locked, flight, dealt, cmds>>
      ELSE \E err \in ErrFrames :
           /\ At("net", "deal", "restart")
           /\ IF err THEN Says("net", "DISCONNECT")
                     ELSE UNCHANGED <<rxVars, txVars, locked>>
           /\ dealt' = dealt \cup Shown
           /\ UNCHANGED <<flight, cmds>>

\* Mutant: the frame is cleared from outside the driver.
NetRestartDirect ==
    /\ At("net", "restart", "sleep")
    /\ len' = 0 /\ finsh' = FALSE
    /\ UNCHANGED <<buf, dr, rxne, ore, idle, armed, sent, isr, rpc, reg, ret,
                   txVars, locked, flight, dealt, cmds>>

NetRestart == Calls("net", "restart", "sleep", Restart("net"))

\* rt_thread_delay(1000)
NetSleep ==
    /\ At("net", "sleep", "asleep")
    /\ flight' = en /\ dealt' = {}
    /\ UNCHANGED <<rxVars, txVars, locked, cmds>>

\* Mutant: after the delay the handle is taken to be ready.
NetWakeForcesReady ==
    /\ ~flight
    /\ At("net", "asleep", "heart")
    /\ gState' = "READY"
    /\ UNCHANGED <<rxVars, txbuf, dmaState, dmaLock, en, ndtr, pos, ht, tc, dmat,
                   burst, tpc, arg, k, n, locked, flight, dealt, cmds>>

\* A full g_uart_tx_buf takes 178 ms at 115200 baud, the delay one second: what
\* was under way when the thread fell asleep is over when it wakes up.
NetWake ==
    /\ ~flight
    /\ At("net", "asleep", "heart")
    /\ UNCHANGED <<rxVars, txVars, locked, flight, dealt, cmds>>

(* led *)

ShellCommand ==
    /\ cmds < MaxCmds /\ cmds' = cmds + 1
    /\ At("shell", "prompt", "print")
    /\ Restart("shell")
    /\ UNCHANGED <<flight, dealt>>

ShellPrint == Calls("shell", "print", "prompt", Says("shell", "reply"))

Net == \/ InCall("net")
       \/ NetBoot \/ NetHeart \/ NetUpload \/ NetDeal \/ NetRestart
       \/ NetSleep \/ NetWake

Shell == InCall("shell") \/ ShellCommand \/ ShellPrint

Next ==
    \/ Line \/ UsartIsr \/ DmaBeat \/ DmaIsr
    \/ CanRun("net") /\ Net
    \/ CanRun("shell") /\ Shell

\* Interrupts are served, the stream moves, an active line goes idle in the end.
\* The net thread is the highest of the two; the shell has the processor again
\* and again because the net thread sleeps in every round.
Fairness ==
    /\ WF_vars(UsartIsr) /\ WF_vars(DmaBeat) /\ WF_vars(DmaIsr)
    /\ WF_vars(Rx!LineIdle /\ UNCHANGED <<txVars, appVars>>)
    /\ SF_vars(CanRun("net") /\ Net) /\ SF_vars(CanRun("shell") /\ InCall("shell"))

Spec == Init /\ [][Next]_vars /\ Fairness

-----------------------------------------------------------------------------
\* The composition drives the receive path as UartRx allows: a thread in the
\* critical section of HAL_UART_Transmit_DMA is one that holds the lock there.
RxView == INSTANCE UartRx WITH
    pc <- [t \in Threads |-> IF tpc[t] \in Tx!Critical THEN "hold" ELSE rpc[t]]
ImplementsRx == RxView!Init /\ [][RxView!Next]_(RxView!vars)

\* ... and the transmit path as UartTx allows, preemption included.
ImplementsTx == Tx!Init /\ [][Tx!Next]_(Tx!vars)

\* The net thread goes round its loop for ever, whatever the line, the shell and
\* the interrupts do: no lock, busy transmitter or interrupt storm holds it.
HeartbeatForever == []<>(ctl["net"] = "heart")

\* The receive handler cannot keep the processor for ever: when a thread that holds
\* huart3.Lock is interrupted by a byte, HAL_UART_Receive fails and the interrupt
\* stays pending, but the idle branch (or an overrun) reads DR and ends the storm.
StormEnds == (Rx!IrqPending \/ isr # "none") ~> (~Rx!IrqPending /\ isr = "none")

\* On a line that does not outrun the handler every reception is in the end
\* reported as a frame (finsh), whatever the threads are doing to the buffer.
FrameReported == Prompt /\ rxne ~> finsh

\* usart_net.c:149: usart_net_json_tx sends its JSON text to the server.  Each
\* transfer that ends has put exactly one message on the line.
Text(m) == [i \in 1..MsgLen[m] |-> <<m, i - 1>>]
WholeMessages == tc => \E m \in Msgs : burst = Text(m)

\* usart_net.c:164: the data received from the server is passed on to the console
\* and the command parser.  The restart with which usart_net_upload_data ends
\* throws away only what was passed on.
NothingUnread ==
    [][ctl["net"] = "sleep" /\ rpc["net"] = "len_st" /\ rpc'["net"] = "fin_ld" =>
           \A i \in Rx!Index : i < len => buf[i] \in dealt \cup {Rx!NUL, Rx!JUNK}]_vars
=============================================================================
