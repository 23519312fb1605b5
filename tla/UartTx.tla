------------------------------- MODULE UartTx -------------------------------
(***************************************************************************)
(* The transmit half of cubemx/Src/usart.c: atk_ide01_uart_printf, which   *)
(* formats into the one buffer g_uart_tx_buf and hands it to               *)
(* HAL_UART_Transmit_DMA, and DMA1_Stream3_IRQHandler, which marks handle  *)
(* and stream ready again on every interrupt of the stream.                *)
(*                                                                         *)
(* A message is a model value with a length; its k-th character is the     *)
(* pair <<m, k>>.  Formatting stores one character per step, the DMA       *)
(* stream reads one per step, and neither waits for the other.             *)
(***************************************************************************)
EXTENDS Integers, Sequences

CONSTANTS
    Threads,    \* threads that call atk_ide01_uart_printf
    Above,      \* Above[t]: the threads of higher priority than t
    Msgs,       \* the texts that are printed
    MsgLen,     \* their lengths
    TxSize      \* ATK_IDE01_UART_TX_BUF_SIZE

ASSUME ThreadsAssumption == Above \in [Threads -> SUBSET Threads]
ASSUME PriorityAssumption ==    \* no two threads share a priority
    \A t, u \in Threads : t # u => t \in Above[u] \/ u \in Above[t]
ASSUME TxSizeAssumption == TxSize \in Nat \ {0}
ASSUME MsgsAssumption == Msgs # {} /\ MsgLen \in [Msgs -> 1..TxSize-1]

VARIABLES
    txbuf,              \* g_uart_tx_buf
    gState, locked,     \* huart3.gState, huart3.Lock
    dmaState, dmaLock,  \* hdma_usart3_tx.State, .Lock
    en, ndtr, pos,      \* stream: enabled, count, next character
    ht, tc,             \* stream: half transfer and transfer complete flags
    dmat,               \* USART3 CR3.DMAT
    burst,              \* characters of the current transfer put on the line
    pc, arg, k, n       \* per thread: step, message, characters written, length

handle == <<gState, locked, dmaState, dmaLock>>
stream == <<en, ndtr, pos, ht, tc, burst>>
locals == <<pc, arg, k, n>>
vars == <<txbuf, handle, stream, dmat, locals>>

NUL == << >>
Index == 0..TxSize-1
Char == {NUL} \cup (Msgs \X Index)

Steps == {"idle", "format", "strlen", "ready", "lock", "locking", "busy", "dmalock",
          "dmalocking", "dmatest", "config", "enable", "unlock", "dmat"}

\* The steps of HAL_UART_Transmit_DMA between __HAL_LOCK and __HAL_UNLOCK.
Critical == {"busy", "dmalock", "dmalocking", "dmatest", "config", "enable", "unlock"}

Init ==
    /\ txbuf = [i \in Index |-> NUL]
    /\ gState = "READY" /\ locked = FALSE
    /\ dmaState = "READY" /\ dmaLock = FALSE
    /\ en = FALSE /\ ndtr = 0 /\ pos = 0 /\ ht = FALSE /\ tc = FALSE
    /\ dmat = FALSE /\ burst = << >>
    /\ pc = [t \in Threads |-> "idle"]
    /\ arg = [t \in Threads |-> CHOOSE m \in Msgs : TRUE]
    /\ k = [t \in Threads |-> 0]
    /\ n = [t \in Threads |-> 0]

-----------------------------------------------------------------------------
(* The DMA stream (hardware) and its interrupt *)

\* One character goes out; at half of the count HT is raised, at the end TC is
\* and the stream disables itself.
DmaBeat ==
    /\ en /\ dmat
    /\ burst' = Append(burst, txbuf[pos])
    /\ pos' = pos + 1
    /\ ht' = (ht \/ pos + 1 = ndtr \div 2)
    /\ tc' = (pos + 1 = ndtr)
    /\ en' = (pos + 1 # ndtr)
    /\ UNCHANGED <<txbuf, handle, ndtr, dmat, locals>>

\* Mutant: the handler forgets the stream's state and lock.
DmaIsrUartOnly ==
    /\ ht \/ tc
    /\ gState' = "READY"
    /\ ht' = FALSE /\ tc' = FALSE
    /\ UNCHANGED <<txbuf, locked, dmaState, dmaLock, en, ndtr, pos, burst, dmat, locals>>

\* DMA1_Stream3_IRQHandler
DmaIsr ==
    /\ ht \/ tc
    /\ gState' = "READY" /\ dmaState' = "READY" /\ dmaLock' = FALSE
    /\ ht' = FALSE /\ tc' = FALSE
    /\ UNCHANGED <<txbuf, locked, en, ndtr, pos, burst, dmat, locals>>

-----------------------------------------------------------------------------
(* atk_ide01_uart_printf *)

Goto(t, a, b) == pc[t] = a /\ pc' = [pc EXCEPT ![t] = b]

Printf(t, m) ==
    /\ Goto(t, "idle", "format")
    /\ arg' = [arg EXCEPT ![t] = m] /\ k' = [k EXCEPT ![t] = 0]
    /\ UNCHANGED <<txbuf, handle, stream, dmat, n>>

\* Mutant: one character more than the text has.
FormatOneMore(t) ==
    LET m == arg[t] IN
    /\ Goto(t, "format", IF k[t] <= MsgLen[m] THEN "format" ELSE "strlen")
    /\ txbuf' = [txbuf EXCEPT ![k[t]] = IF k[t] <= MsgLen[m] THEN <<m, k[t]>> ELSE NUL]
    /\ k' = [k EXCEPT ![t] = IF k[t] <= MsgLen[m] THEN k[t] + 1 ELSE 0]
    /\ UNCHANGED <<handle, stream, dmat, arg, n>>

\* rt_vsprintf: the characters one by one, then the terminator
Format(t) ==
    LET m == arg[t] IN
    /\ Goto(t, "format", IF k[t] < MsgLen[m] THEN "format" ELSE "strlen")
    /\ txbuf' = [txbuf EXCEPT ![k[t]] = IF k[t] < MsgLen[m] THEN <<m, k[t]>> ELSE NUL]
    /\ k' = [k EXCEPT ![t] = IF k[t] < MsgLen[m] THEN k[t] + 1 ELSE 0]
    /\ UNCHANGED <<handle, stream, dmat, arg, n>>

IsStrlen(i) == txbuf[i] = NUL /\ \A j \in Index : j < i => txbuf[j] # NUL

Strlen(t) ==
    /\ Goto(t, "strlen", "ready")
    /\ \E i \in Index : IsStrlen(i) /\ n' = [n EXCEPT ![t] = i]
    /\ UNCHANGED <<txbuf, handle, stream, dmat, arg, k>>

(* HAL_UART_Transmit_DMA; printf ignores what it returns *)

TestReady(t) ==
    /\ Goto(t, "ready", IF gState = "READY" /\ n[t] # 0 THEN "lock" ELSE "idle")
    /\ UNCHANGED <<txbuf, handle, stream, dmat, arg, k, n>>

\* Mutant: the lock is taken without looking at it.
TestLockBlind(t) ==
    /\ Goto(t, "lock", "locking")
    /\ UNCHANGED <<txbuf, handle, stream, dmat, arg, k, n>>

\* __HAL_LOCK: the test, and in another step the store
TestLock(t) ==
    /\ Goto(t, "lock", IF locked THEN "idle" ELSE "locking")
    /\ UNCHANGED <<txbuf, handle, stream, dmat, arg, k, n>>

StoreLock(t) ==
    /\ Goto(t, "locking", "busy")
    /\ locked' = TRUE
    /\ UNCHANGED <<txbuf, gState, dmaState, dmaLock, stream, dmat, arg, k, n>>

SetBusy(t) ==
    /\ Goto(t, "busy", "dmalock")
    /\ gState' = "BUSY_TX"
    /\ UNCHANGED <<txbuf, locked, dmaState, dmaLock, stream, dmat, arg, k, n>>

(* HAL_DMA_Start_IT; its result is ignored too *)

TestDmaLock(t) ==
    /\ Goto(t, "dmalock", IF dmaLock THEN "unlock" ELSE "dmalocking")
    /\ UNCHANGED <<txbuf, handle, stream, dmat, arg, k, n>>

StoreDmaLock(t) ==
    /\ Goto(t, "dmalocking", "dmatest")
    /\ dmaLock' = TRUE
    /\ UNCHANGED <<txbuf, gState, locked, dmaState, stream, dmat, arg, k, n>>

DmaTest(t) ==
    /\ Goto(t, "dmatest", IF dmaState = "READY" THEN "config" ELSE "unlock")
    /\ dmaLock' = (dmaLock /\ dmaState = "READY")
    /\ UNCHANGED <<txbuf, gState, locked, dmaState, stream, dmat, arg, k, n>>

\* State = BUSY and DMA_SetConfig: an enabled stream ignores the new count.
Config(t) ==
    /\ Goto(t, "config", "enable")
    /\ dmaState' = "BUSY"
    /\ ndtr' = IF en THEN ndtr ELSE n[t]
    /\ UNCHANGED <<txbuf, gState, locked, dmaLock, en, pos, ht, tc, burst, dmat,
                   arg, k, n>>

\* The flags are cleared and the stream is enabled: one that stopped starts over
\* with the count it was last given.
Enable(t) ==
    /\ Goto(t, "enable", "unlock")
    /\ en' = TRUE /\ ht' = FALSE /\ tc' = FALSE
    /\ pos' = IF en THEN pos ELSE 0
    /\ burst' = IF en THEN burst ELSE << >>
    /\ UNCHANGED <<txbuf, handle, ndtr, dmat, arg, k, n>>

Unlock(t) ==
    /\ Goto(t, "unlock", "dmat")
    /\ locked' = FALSE
    /\ UNCHANGED <<txbuf, gState, dmaState, dmaLock, stream, dmat, arg, k, n>>

\* Mutant: the stream is started and the UART's DMA request is not.
SetDmatForgotten(t) ==
    /\ Goto(t, "dmat", "idle")
    /\ UNCHANGED <<txbuf, handle, stream, dmat, arg, k, n>>

SetDmat(t) ==
    /\ Goto(t, "dmat", "idle")
    /\ dmat' = TRUE
    /\ UNCHANGED <<txbuf, handle, stream, arg, k, n>>

Continue(t) ==
    \/ Format(t) \/ Strlen(t) \/ TestReady(t) \/ TestLock(t) \/ StoreLock(t)
    \/ SetBusy(t) \/ TestDmaLock(t) \/ StoreDmaLock(t) \/ DmaTest(t)
    \/ Config(t) \/ Enable(t) \/ Unlock(t) \/ SetDmat(t)

\* The interrupt preempts threads, and a thread preempts the ones below it.
CanRun(t) == ~ht /\ ~tc /\ \A u \in Above[t] : pc[u] = "idle"

Next ==
    \/ DmaBeat \/ DmaIsr
    \/ \E t \in Threads : /\ CanRun(t)
                          /\ Continue(t) \/ \E m \in Msgs : Printf(t, m)

\* The stream moves on, its interrupt is served, and a thread in the middle of a
\* call gets the processor again and again (the callers sleep between calls).
Fairness ==
    /\ WF_vars(DmaBeat) /\ WF_vars(DmaIsr)
    /\ \A t \in Threads : SF_vars(CanRun(t) /\ Continue(t))

Spec == Init /\ [][Next]_vars /\ Fairness

-----------------------------------------------------------------------------
\* Every variable has its type; the stream never reads past the buffer.
TypeOK ==
    /\ txbuf \in [Index -> Char] /\ burst \in Seq(Char)
    /\ gState \in {"READY", "BUSY_TX"} /\ dmaState \in {"READY", "BUSY"}
    /\ locked \in BOOLEAN /\ dmaLock \in BOOLEAN /\ dmat \in BOOLEAN
    /\ en \in BOOLEAN /\ ht \in BOOLEAN /\ tc \in BOOLEAN
    /\ ndtr \in Index /\ pos \in Index
    /\ pc \in [Threads -> Steps] /\ arg \in [Threads -> Msgs]
    /\ k \in [Threads -> Index] /\ n \in [Threads -> Index]

\* Between __HAL_LOCK and __HAL_UNLOCK of HAL_UART_Transmit_DMA there is at most
\* one thread, and the lock is taken exactly meanwhile, although __HAL_LOCK can be
\* preempted between its test and its store: the thread that preempts is through,
\* or has given up, before the store.
LockExclusive ==
    /\ locked <=> \E t \in Threads : pc[t] \in Critical
    /\ \A t, u \in Threads : pc[t] \in Critical /\ pc[u] \in Critical => t = u

\* Nobody waits for an interrupt that does not come: while the handle or the
\* stream is marked busy, or the stream locked, the stream still runs, or its
\* interrupt is pending, or a thread is at a step that starts it.
Running == en \/ ht \/ tc
Starting(steps) == \E t \in Threads : pc[t] \in steps
BusyHasOwner ==
    /\ gState = "BUSY_TX" =>
           Running \/ Starting({"dmalock", "dmalocking", "dmatest", "config", "enable"})
    /\ dmaState = "BUSY" => Running \/ Starting({"enable"})
    /\ dmaLock => Running \/ Starting({"dmatest", "config", "enable"})

\* A busy transmitter becomes ready again: no call order and no preemption makes
\* atk_ide01_uart_printf drop every later message.
BusyEnds == gState = "BUSY_TX" ~> gState = "READY"
=============================================================================
