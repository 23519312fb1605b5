------------------------------- MODULE UartRx -------------------------------
(***************************************************************************)
(* The receive half of cubemx/Src/usart.c: the frame buffer                *)
(* g_uart_rx_frame, the interrupt handler USART3_IRQHandler that fills it, *)
(* and the three functions with which threads empty it                     *)
(* (atk_ide01_uart_rx_restart, _rx_get_frame, _rx_get_frame_len).          *)
(*                                                                         *)
(* A byte is its arrival number (1, 2, ...), so that order and loss can be *)
(* seen in the buffer.  The handler is three steps, one for each of its    *)
(* "if" statements, because the line goes on while it runs; no thread runs *)
(* during it.  A bit-field assignment to sta is a load and a store of the  *)
(* halfword that holds both fields, and the handler may run in between.    *)
(***************************************************************************)
EXTENDS Integers

CONSTANTS
    Threads,    \* threads that use the UART
    Above,      \* Above[t]: the threads of higher priority than t
    BufSize,    \* ATK_IDE01_UART_RX_BUF_SIZE
    MaxBytes,   \* bound on the bytes that arrive
    Prompt      \* the line never outruns the handler (no overrun, no late idle)

ASSUME ThreadsAssumption == Above \in [Threads -> SUBSET Threads]
ASSUME BufSizeAssumption == BufSize \in Nat /\ BufSize >= 2
ASSUME MaxBytesAssumption == MaxBytes \in Nat
ASSUME PromptAssumption == Prompt \in BOOLEAN

VARIABLES
    buf, len, finsh,        \* g_uart_rx_frame
    dr, rxne, ore, idle,    \* USART3 DR and the flags of SR
    armed,                  \* the line was active since IDLE was last raised
    sent,                   \* bytes that came in over the line
    locked,                 \* huart3.Lock is taken by a thread
    isr,                    \* the next "if" of USART3_IRQHandler, or "none"
    pc, reg, ret            \* per thread: step, copy of sta, result

frame == <<buf, len, finsh>>
flags == <<dr, rxne, ore, idle>>
line == <<armed, sent>>
locals == <<pc, reg, ret>>
vars == <<frame, flags, line, locked, isr, locals>>

NUL == 0
JUNK == -1     \* a byte that never came over the line
Cell == {JUNK, NUL} \cup 1..MaxBytes
Index == 0..BufSize-1

Steps == {"idle", "len_ld", "len_st", "fin_ld", "fin_st",
          "gf_ix", "gf_nul", "fl_rd", "hold"}

Dead == [len |-> 0, finsh |-> FALSE]    \* a register whose call is over

Init ==
    /\ buf = [i \in Index |-> NUL] /\ len = 0 /\ finsh = FALSE
    /\ dr = NUL /\ rxne = FALSE /\ ore = FALSE /\ idle = FALSE
    /\ armed = FALSE /\ sent = 0
    /\ locked = FALSE /\ isr = "none"
    /\ pc = [t \in Threads |-> "idle"]
    /\ reg = [t \in Threads |-> Dead]
    /\ ret = [t \in Threads |-> "null"]

-----------------------------------------------------------------------------
(* The line and the peripheral (hardware).  A byte that completes while    *)
(* RXNE is still set is lost and raises ORE; IDLE is raised once after     *)
(* activity; reading SR and then DR clears RXNE, ORE and IDLE together.    *)

IrqPending == rxne \/ ore \/ idle

\* A line that does not outrun the handler waits until what it raised is served;
\* only RXNE cannot be served while a thread holds the lock.
LineMayMove == Prompt => ~ore /\ ~idle /\ (rxne => locked)

ByteArrives ==
    /\ LineMayMove /\ sent < MaxBytes
    /\ sent' = sent + 1 /\ armed' = TRUE
    /\ IF rxne THEN ore' = TRUE /\ UNCHANGED <<dr, rxne>>
               ELSE dr' = sent + 1 /\ rxne' = TRUE /\ ore' = ore
    /\ UNCHANGED <<frame, idle, locked, isr, locals>>

LineIdle ==
    /\ LineMayMove /\ armed
    /\ armed' = FALSE /\ idle' = TRUE
    /\ UNCHANGED <<frame, dr, rxne, ore, sent, locked, isr, locals>>

ReadDR == rxne' = FALSE /\ ore' = FALSE /\ idle' = FALSE /\ dr' = dr

-----------------------------------------------------------------------------
(* USART3_IRQHandler *)

IsrEnter ==
    /\ isr = "none" /\ IrqPending
    /\ isr' = "ore"
    /\ UNCHANGED <<frame, flags, line, locked, locals>>

IsrOre ==
    /\ isr = "ore" /\ isr' = "rxne"
    /\ IF ore THEN ReadDR ELSE UNCHANGED flags
    /\ UNCHANGED <<frame, line, locked, locals>>

\* HAL_UART_Receive(&huart3, &tmp, 1, HAL_MAX_DELAY) with RXNE set: it reads DR,
\* unless the handle is locked; then it returns HAL_BUSY and tmp, uninitialised,
\* may hold anything.
Receive(tmp) ==
    IF locked THEN UNCHANGED flags
              ELSE tmp = dr /\ ReadDR

\* Mutant: the bound forgets the cell of the terminator.
AppendOffByOne(tmp) ==
    LET at == IF len < BufSize THEN len ELSE 0
    IN  /\ buf' = [buf EXCEPT ![at] = tmp]
        /\ len' = at + 1
        /\ finsh' = finsh

\* Mutant: a full buffer is clamped at its last cell instead of started again.
AppendClamped(tmp) ==
    /\ buf' = [buf EXCEPT ![len] = tmp]
    /\ len' = IF len < BufSize - 1 THEN len + 1 ELSE len
    /\ finsh' = finsh

Append(tmp) ==
    LET at == IF len < BufSize - 1 THEN len ELSE 0
    IN  /\ buf' = [buf EXCEPT ![at] = tmp]
        /\ len' = at + 1
        /\ finsh' = finsh

IsrRxne ==
    /\ isr = "rxne" /\ isr' = "idle"
    /\ IF rxne THEN \E tmp \in Cell : Receive(tmp) /\ Append(tmp)
               ELSE UNCHANGED <<frame, flags>>
    /\ UNCHANGED <<line, locked, locals>>

\* Mutant: the idle flag is cleared without the SR and DR reads.
IsrIdleFlagOnly ==
    /\ isr = "idle" /\ isr' = "none"
    /\ finsh' = (finsh \/ idle) /\ idle' = FALSE
    /\ UNCHANGED <<buf, len, dr, rxne, ore, line, locked, locals>>

\* Mutant: an idle line ends a frame only when the buffer holds something.
IsrIdleNonEmpty ==
    /\ isr = "idle" /\ isr' = "none"
    /\ IF idle THEN finsh' = (finsh \/ len > 0) /\ ReadDR
               ELSE UNCHANGED <<finsh, flags>>
    /\ UNCHANGED <<buf, len, line, locked, locals>>

IsrIdle ==
    /\ isr = "idle" /\ isr' = "none"
    /\ IF idle THEN finsh' = TRUE /\ ReadDR
               ELSE UNCHANGED <<finsh, flags>>
    /\ UNCHANGED <<buf, len, line, locked, locals>>

UsartIsr == IsrEnter \/ IsrOre \/ IsrRxne \/ IsrIdle

-----------------------------------------------------------------------------
(* Thread side.  Goto(t, a, b): thread t goes from step a to step b. *)

Goto(t, a, b) == pc[t] = a /\ pc' = [pc EXCEPT ![t] = b]

Load(t) == reg' = [reg EXCEPT ![t] = [len |-> len, finsh |-> finsh]]

ThreadOnly == UNCHANGED <<flags, line, isr>>

\* atk_ide01_uart_rx_restart: sta.len = 0; sta.finsh = 0
Restart(t) ==
    /\ Goto(t, "idle", "len_ld")
    /\ UNCHANGED <<frame, locked, reg, ret>> /\ ThreadOnly

LoadLen(t) ==
    /\ Goto(t, "len_ld", "len_st") /\ Load(t)
    /\ UNCHANGED <<frame, locked, ret>> /\ ThreadOnly

StoreLen(t) ==
    /\ Goto(t, "len_st", "fin_ld")
    /\ len' = 0 /\ finsh' = reg[t].finsh
    /\ UNCHANGED <<buf, locked, reg, ret>> /\ ThreadOnly

LoadFinsh(t) ==
    /\ Goto(t, "fin_ld", "fin_st") /\ Load(t)
    /\ UNCHANGED <<frame, locked, ret>> /\ ThreadOnly

StoreFinsh(t) ==
    /\ Goto(t, "fin_st", "idle")
    /\ len' = reg[t].len /\ finsh' = FALSE
    /\ reg' = [reg EXCEPT ![t] = Dead]
    /\ UNCHANGED <<buf, locked, ret>> /\ ThreadOnly

\* atk_ide01_uart_rx_get_frame
GetFrame(t) ==
    /\ Goto(t, "idle", IF finsh THEN "gf_ix" ELSE "idle")
    /\ ret' = [ret EXCEPT ![t] = IF finsh THEN "frame" ELSE "null"]
    /\ UNCHANGED <<frame, locked, reg>> /\ ThreadOnly

ReadIndex(t) ==
    /\ Goto(t, "gf_ix", "gf_nul") /\ Load(t)
    /\ UNCHANGED <<frame, locked, ret>> /\ ThreadOnly

Terminate(t) ==
    /\ Goto(t, "gf_nul", "idle")
    /\ buf' = [buf EXCEPT ![reg[t].len] = NUL]
    /\ reg' = [reg EXCEPT ![t] = Dead]
    /\ UNCHANGED <<len, finsh, locked, ret>> /\ ThreadOnly

\* atk_ide01_uart_rx_get_frame_len: reg[t].len is what it returns
GetFrameLen(t) ==
    /\ Goto(t, "idle", IF finsh THEN "fl_rd" ELSE "idle")
    /\ reg' = [reg EXCEPT ![t] = Dead]
    /\ UNCHANGED <<frame, locked, ret>> /\ ThreadOnly

ReadLen(t) ==
    /\ Goto(t, "fl_rd", "idle") /\ Load(t)
    /\ UNCHANGED <<frame, locked, ret>> /\ ThreadOnly

\* HAL_UART_Transmit_DMA, seen from here: it holds huart3.Lock for a while.  This is
\* the store of __HAL_LOCK; its test is a step of UartTx, after which the store still
\* finds the lock free.
Lock(t) ==
    /\ ~locked /\ locked' = TRUE
    /\ Goto(t, "idle", "hold")
    /\ UNCHANGED <<frame, reg, ret>> /\ ThreadOnly

Unlock(t) ==
    /\ Goto(t, "hold", "idle") /\ locked' = FALSE
    /\ UNCHANGED <<frame, reg, ret>> /\ ThreadOnly

Call(t) == Restart(t) \/ GetFrame(t) \/ GetFrameLen(t) \/ Lock(t)

Continue(t) ==
    \/ LoadLen(t) \/ StoreLen(t) \/ LoadFinsh(t) \/ StoreFinsh(t)
    \/ ReadIndex(t) \/ Terminate(t) \/ ReadLen(t) \/ Unlock(t)

\* Interrupts preempt threads, and a thread preempts the ones below it.
CanRun(t) ==
    /\ isr = "none" /\ ~IrqPending
    /\ \A u \in Above[t] : pc[u] = "idle"

Next ==
    \/ ByteArrives \/ LineIdle \/ UsartIsr
    \/ \E t \in Threads : CanRun(t) /\ (Call(t) \/ Continue(t))

\* The handler runs when it is pending, an active line goes idle in the end, and
\* a thread in the middle of a call gets the processor again and again.
Fairness ==
    /\ WF_vars(UsartIsr) /\ WF_vars(LineIdle)
    /\ \A t \in Threads : SF_vars(CanRun(t) /\ Continue(t))

Spec == Init /\ [][Next]_vars /\ Fairness

-----------------------------------------------------------------------------
\* Every variable has its type; len, and every copy of it in a thread, indexes buf.
TypeOK ==
    /\ buf \in [Index -> Cell] /\ len \in Index /\ finsh \in BOOLEAN
    /\ dr \in {NUL} \cup 1..MaxBytes
    /\ rxne \in BOOLEAN /\ ore \in BOOLEAN /\ idle \in BOOLEAN
    /\ armed \in BOOLEAN /\ sent \in 0..MaxBytes
    /\ locked \in BOOLEAN /\ isr \in {"none", "ore", "rxne", "idle"}
    /\ pc \in [Threads -> Steps]
    /\ reg \in [Threads -> [len : Index, finsh : BOOLEAN]]
    /\ ret \in [Threads -> {"null", "frame"}]

\* Whatever the handler and the threads do to each other, the buffer always ends
\* in a terminator, so that the strlen, strstr and jsmn_parse calls that walk the
\* returned frame stay inside it (usart.c:195 keeps one cell for '\0').
Terminated == buf[BufSize-1] = NUL
=============================================================================
