---------------------------- MODULE UartTxProofs ----------------------------
(* Proofs about UartTx: mutual exclusion of HAL_UART_Transmit_DMA and the   *)
(* fact that a busy transmitter always has someone who will free it, for    *)
(* every set of threads of different priorities, messages and buffer size.  *)
EXTENDS UartTx, TLAPS

\* A thread that still formats has not passed the end of its message.
FormatOK == \A t \in Threads : pc[t] = "format" => k[t] <= MsgLen[arg[t]]

\* A call that got past the size test has a count, and so has the stream it starts.
CountOK ==
    /\ \A t \in Threads :
         /\ pc[t] \in {"lock", "locking", "busy", "dmalock", "dmalocking",
                       "dmatest", "config"} => n[t] # 0
         /\ pc[t] = "enable" => ndtr # 0
    /\ en => pos < ndtr

\* Between the test and the store of __HAL_LOCK only a thread of higher priority
\* can have taken the lock.
StoreOK ==
    \A t, u \in Threads :
        t # u /\ pc[t] = "locking" /\ pc[u] \in Critical => u \in Above[t]

IInv == TypeOK /\ LockExclusive /\ BusyHasOwner /\ FormatOK /\ CountOK /\ StoreOK

\* What a step of thread t from a to b does to the program counters.
LEMMA GotoFacts ==
    ASSUME TypeOK, NEW t \in Threads, NEW a, NEW b \in Steps, Goto(t, a, b)
    PROVE  /\ pc' \in [Threads -> Steps] /\ pc[t] = a /\ pc'[t] = b
           /\ \A u \in Threads : u # t => pc'[u] = pc[u]
BY DEF TypeOK, Goto

\* A step outside the critical section that leaves handle and stream alone
\* disturbs neither the lock nor the owners.
LEMMA OutsideStep ==
    ASSUME IInv, NEW t \in Threads, UNCHANGED <<handle, stream>>,
           pc[t] \notin Critical, pc'[t] \notin Critical, pc'[t] # "locking",
           \A u \in Threads : u # t => pc'[u] = pc[u]
    PROVE  LockExclusive' /\ BusyHasOwner' /\ StoreOK'
<1>1. \A u \in Threads : pc'[u] \in Critical <=> pc[u] \in Critical
  OBVIOUS
<1>2. \A u \in Threads : pc[u] \in Critical => pc'[u] = pc[u]
  OBVIOUS
<1>3. LockExclusive'
  BY <1>1 DEF LockExclusive, IInv, handle
<1>4. ASSUME NEW steps \in SUBSET Critical, Starting(steps)
      PROVE  Starting(steps)'
  BY <1>2, <1>4 DEF Starting
<1>5. Running' <=> Running
  BY DEF Running, stream
<1>6. BusyHasOwner'
  BY <1>4, <1>5 DEF BusyHasOwner, IInv, Critical, handle
<1>7. StoreOK'
  BY <1>1 DEF StoreOK, IInv
<1> QED BY <1>3, <1>6, <1>7

\* The initial state: g_uart_tx_buf is zero, handle and stream are READY.
LEMMA InitOK == Init => IInv
<1> SUFFICES ASSUME Init PROVE IInv
  OBVIOUS
<1>1. TypeOK
  <2>1. txbuf \in [Index -> Char] /\ burst \in Seq(Char)
    BY DEF Init, Char
  <2>2. /\ gState \in {"READY", "BUSY_TX"} /\ dmaState \in {"READY", "BUSY"}
        /\ locked \in BOOLEAN /\ dmaLock \in BOOLEAN /\ dmat \in BOOLEAN
        /\ en \in BOOLEAN /\ ht \in BOOLEAN /\ tc \in BOOLEAN
    BY DEF Init
  <2>3. /\ ndtr \in Index /\ pos \in Index
        /\ pc \in [Threads -> Steps] /\ arg \in [Threads -> Msgs]
        /\ k \in [Threads -> Index] /\ n \in [Threads -> Index]
    BY TxSizeAssumption, MsgsAssumption DEF Init, Index, Steps
  <2> QED BY <2>1, <2>2, <2>3 DEF TypeOK
<1>2. LockExclusive /\ FormatOK /\ CountOK /\ StoreOK
  BY DEF Init, LockExclusive, FormatOK, CountOK, StoreOK, Critical
<1>3. BusyHasOwner
  BY DEF Init, BusyHasOwner
<1> QED BY <1>1, <1>2, <1>3 DEF IInv

\* The stream preserves the invariant: each transfer ends with TC.
LEMMA DmaBeatOK == IInv /\ DmaBeat => IInv'
<1> SUFFICES ASSUME IInv, DmaBeat PROVE IInv'
  OBVIOUS
<1> USE DEF IInv, DmaBeat, handle, locals
<1>1. TypeOK'
  <2>1. pos' \in Index /\ ndtr' \in Index
    BY TxSizeAssumption DEF TypeOK, CountOK, Index
  <2>2. txbuf[pos] \in Char /\ burst' \in Seq(Char)
    BY DEF TypeOK
  <2>3. en' \in BOOLEAN /\ ht' \in BOOLEAN /\ tc' \in BOOLEAN
    OBVIOUS
  <2> QED BY <2>1, <2>2, <2>3 DEF TypeOK
<1>2. LockExclusive' /\ FormatOK' /\ StoreOK'
  BY DEF LockExclusive, FormatOK, StoreOK
<1>3. CountOK'
  <2>1. pos + 1 # ndtr => pos' < ndtr'
    BY DEF TypeOK, CountOK, Index
  <2>2. en' => pos' < ndtr'
    BY <2>1
  <2> QED BY <2>2 DEF CountOK
<1>4. BusyHasOwner'
  <2>1. Running'
    BY DEF Running
  <2> QED BY <2>1 DEF BusyHasOwner
<1> QED BY <1>1, <1>2, <1>3, <1>4

\* DMA1_Stream3_IRQHandler preserves the invariant: it frees all that was busy.
LEMMA DmaIsrOK == IInv /\ DmaIsr => IInv'
<1> SUFFICES ASSUME IInv, DmaIsr PROVE IInv'
  OBVIOUS
<1> USE DEF IInv, DmaIsr, locals
<1>1. TypeOK' BY DEF TypeOK
<1>2. LockExclusive' BY DEF LockExclusive
<1>3. BusyHasOwner' BY DEF BusyHasOwner
<1>4. FormatOK' /\ CountOK' /\ StoreOK' BY DEF FormatOK, CountOK, StoreOK
<1> QED BY <1>1, <1>2, <1>3, <1>4

\* The steps of atk_ide01_uart_printf before HAL_UART_Transmit_DMA.
LEMMA PrintfStepOK ==
    ASSUME IInv, NEW t \in Threads,
           \/ \E m \in Msgs : Printf(t, m)
           \/ Format(t) \/ Strlen(t) \/ TestReady(t)
    PROVE  IInv'
<1> USE DEF IInv, handle, stream
<1>1. CASE \E m \in Msgs : Printf(t, m)
  <2>1. PICK m \in Msgs : Printf(t, m) BY <1>1
  <2>2. /\ pc' \in [Threads -> Steps] /\ pc[t] = "idle" /\ pc'[t] = "format"
        /\ \A u \in Threads : u # t => pc'[u] = pc[u]
    BY <2>1, GotoFacts DEF Printf, Steps
  <2>3. TypeOK'
    <3>1. 0 \in Index BY TxSizeAssumption DEF Index
    <3>2. arg' \in [Threads -> Msgs] /\ k' \in [Threads -> Index]
      BY <2>1, <3>1 DEF Printf, TypeOK
    <3> QED BY <2>1, <2>2, <3>2 DEF Printf, TypeOK
  <2>4. LockExclusive' /\ BusyHasOwner' /\ StoreOK'
    BY <2>1, <2>2, OutsideStep DEF Printf, Critical
  <2>6. CountOK'
    BY <2>1, <2>2 DEF Printf, CountOK
  <2>5. FormatOK'
    BY <2>1, <2>2, MsgsAssumption DEF Printf, FormatOK, TypeOK
  <2> QED BY <2>3, <2>4, <2>5, <2>6
<1>2. CASE Format(t)
  <2> DEFINE b == IF k[t] < MsgLen[arg[t]] THEN "format" ELSE "strlen"
  <2>1. /\ pc' \in [Threads -> Steps] /\ pc[t] = "format" /\ pc'[t] = b
        /\ \A u \in Threads : u # t => pc'[u] = pc[u]
    <3>1. b \in Steps BY DEF Steps
    <3> QED BY <1>2, <3>1, GotoFacts DEF Format
  <2>2. k[t] \in Index /\ arg[t] \in Msgs /\ MsgLen[arg[t]] \in 1..TxSize-1
        /\ k[t] <= MsgLen[arg[t]]
    BY <2>1, MsgsAssumption DEF TypeOK, FormatOK
  <2>3. k' \in [Threads -> Index]
    BY <1>2, <2>2, TxSizeAssumption DEF Format, TypeOK, Index
  <2>4. txbuf' \in [Index -> Char]
    BY <1>2, <2>2 DEF Format, TypeOK, Char
  <2>5. TypeOK'
    BY <1>2, <2>1, <2>3, <2>4 DEF Format, TypeOK
  <2>6. LockExclusive' /\ BusyHasOwner' /\ StoreOK'
    BY <1>2, <2>1, OutsideStep DEF Format, Critical
  <2>8. CountOK'
    BY <1>2, <2>1 DEF Format, CountOK
  <2>7. FormatOK'
    BY <1>2, <2>1, <2>2 DEF Format, FormatOK, TypeOK, Index
  <2> QED BY <2>5, <2>6, <2>7, <2>8
<1>3. CASE Strlen(t)
  <2>1. /\ pc' \in [Threads -> Steps] /\ pc[t] = "strlen" /\ pc'[t] = "ready"
        /\ \A u \in Threads : u # t => pc'[u] = pc[u]
    BY <1>3, GotoFacts DEF Strlen, Steps
  <2>2. PICK i \in Index : n' = [n EXCEPT ![t] = i]
    BY <1>3 DEF Strlen
  <2>3. TypeOK'
    BY <1>3, <2>1, <2>2 DEF Strlen, TypeOK
  <2>4. LockExclusive' /\ BusyHasOwner' /\ StoreOK' /\ FormatOK'
    BY <1>3, <2>1, OutsideStep DEF Strlen, FormatOK, Critical
  <2>5. CountOK'
    BY <1>3, <2>1, <2>2 DEF Strlen, CountOK, TypeOK
  <2> QED BY <2>3, <2>4, <2>5
<1>4. CASE TestReady(t)
  <2> DEFINE b == IF gState = "READY" /\ n[t] # 0 THEN "lock" ELSE "idle"
  <2>1. /\ pc' \in [Threads -> Steps] /\ pc[t] = "ready" /\ pc'[t] = b
        /\ \A u \in Threads : u # t => pc'[u] = pc[u]
    <3>1. b \in Steps BY DEF Steps
    <3> QED BY <1>4, <3>1, GotoFacts DEF TestReady
  <2>2. TypeOK'
    BY <1>4, <2>1 DEF TestReady, TypeOK
  <2>3. LockExclusive' /\ BusyHasOwner' /\ StoreOK' /\ FormatOK' /\ CountOK'
    BY <1>4, <2>1, OutsideStep DEF TestReady, FormatOK, CountOK, Critical
  <2> QED BY <2>2, <2>3
<1> QED BY <1>1, <1>2, <1>3, <1>4

\* The test of __HAL_LOCK lets a thread through only while nobody is inside.
LEMMA TestLockOK == \A t \in Threads : IInv /\ TestLock(t) => IInv'
<1> SUFFICES ASSUME NEW t \in Threads, IInv, TestLock(t) PROVE IInv'
  OBVIOUS
<1> USE DEF IInv, TestLock, handle, stream
<1> DEFINE b == IF locked THEN "idle" ELSE "locking"
<1>1. /\ pc' \in [Threads -> Steps] /\ pc[t] = "lock" /\ pc'[t] = b
      /\ \A u \in Threads : u # t => pc'[u] = pc[u]
  <2>1. b \in Steps BY DEF Steps
  <2> QED BY <2>1, GotoFacts
<1>2. TypeOK' /\ FormatOK' /\ CountOK'
  BY <1>1 DEF TypeOK, FormatOK, CountOK
<1>3. \A u \in Threads : (pc'[u] \in Critical <=> pc[u] \in Critical)
                       /\ (pc[u] \in Critical => pc'[u] = pc[u])
  BY <1>1 DEF Critical
<1>4. LockExclusive'
  BY <1>3 DEF LockExclusive
<1>5. StoreOK'
  <2>1. ~locked => \A u \in Threads : pc'[u] \notin Critical
    BY <1>3 DEF LockExclusive
  <2> QED BY <1>1, <1>3, <2>1 DEF StoreOK
<1>6. BusyHasOwner'
  <2>1. ASSUME NEW steps \in SUBSET Critical, Starting(steps)
        PROVE  Starting(steps)'
    BY <1>3, <2>1 DEF Starting
  <2>2. Running' <=> Running BY DEF Running
  <2> QED BY <2>1, <2>2 DEF BusyHasOwner, Critical
<1> QED BY <1>2, <1>4, <1>5, <1>6

\* The store of __HAL_LOCK: a thread that can run finds all of higher priority
\* idle, so whoever took the lock since the test has released it again.
LEMMA StoreFindsFree ==
    ASSUME IInv, NEW t \in Threads, CanRun(t), pc[t] = "locking"
    PROVE  /\ ~locked /\ \A u \in Threads : pc[u] \notin Critical
           /\ \A u \in Threads : u # t /\ pc[u] = "locking" => t \in Above[u]
<1>1. \A u \in Threads : pc[u] \notin Critical
  BY DEF IInv, StoreOK, CanRun, Critical
<1>2. ~locked
  BY <1>1 DEF IInv, LockExclusive
<1>3. \A u \in Threads : u # t /\ pc[u] = "locking" => t \in Above[u]
  BY PriorityAssumption DEF CanRun
<1> QED BY <1>1, <1>2, <1>3

LEMMA StoreLockOK == \A t \in Threads : IInv /\ CanRun(t) /\ StoreLock(t) => IInv'
<1> SUFFICES ASSUME NEW t \in Threads, IInv, CanRun(t), StoreLock(t) PROVE IInv'
  OBVIOUS
<1> USE DEF IInv, StoreLock, stream
<1>1. /\ pc' \in [Threads -> Steps] /\ pc[t] = "locking" /\ pc'[t] = "busy"
      /\ \A u \in Threads : u # t => pc'[u] = pc[u]
  BY GotoFacts DEF Steps
<1>2. TypeOK' /\ FormatOK' /\ CountOK'
  BY <1>1 DEF TypeOK, FormatOK, CountOK
<1>3. /\ pc'[t] \in Critical
      /\ \A u \in Threads : u # t => pc'[u] \notin Critical
      /\ \A u \in Threads : u # t /\ pc'[u] = "locking" => t \in Above[u]
  BY <1>1, StoreFindsFree DEF Critical
<1>4. LockExclusive'
  BY <1>3 DEF LockExclusive
<1>5. StoreOK'
  BY <1>3 DEF StoreOK
<1>6. BusyHasOwner'
  <2>1. ASSUME NEW steps \in SUBSET Critical PROVE ~Starting(steps)
    BY <1>1, StoreFindsFree DEF Starting
  <2>2. Running' <=> Running BY DEF Running
  <2> QED BY <2>1, <2>2 DEF BusyHasOwner, Critical
<1> QED BY <1>2, <1>4, <1>5, <1>6

\* A step inside the critical section keeps the exclusion.
LEMMA InsideStep ==
    ASSUME IInv, NEW t \in Threads, locked' = locked,
           pc[t] \in Critical, pc'[t] \in Critical,
           \A u \in Threads : u # t => pc'[u] = pc[u]
    PROVE  LockExclusive' /\ StoreOK'
<1>1. \A u \in Threads : pc'[u] \in Critical <=> pc[u] \in Critical
  OBVIOUS
<1>2. pc'[t] # "locking"
  BY DEF Critical
<1> QED BY <1>1, <1>2 DEF IInv, LockExclusive, StoreOK

\* Only the thread inside the critical section can be starting the stream.
LEMMA StartingAlone ==
    ASSUME IInv, NEW t \in Threads, pc[t] \in Critical,
           NEW steps \in SUBSET Critical, Starting(steps)
    PROVE  pc[t] \in steps
BY DEF IInv, LockExclusive, Starting

\* HAL_UART_Transmit_DMA and HAL_DMA_Start_IT below the lock.
LEMMA CriticalStepOK ==
    ASSUME IInv, NEW t \in Threads,
           \/ SetBusy(t) \/ TestDmaLock(t) \/ StoreDmaLock(t) \/ DmaTest(t)
           \/ Config(t) \/ Enable(t) \/ Unlock(t)
    PROVE  IInv'
<1> USE DEF IInv, handle, stream
<1>1. CASE SetBusy(t)
  <2>1. /\ pc' \in [Threads -> Steps] /\ pc[t] = "busy" /\ pc'[t] = "dmalock"
        /\ \A u \in Threads : u # t => pc'[u] = pc[u]
    BY <1>1, GotoFacts DEF SetBusy, Steps
  <2>2. TypeOK' BY <1>1, <2>1 DEF SetBusy, TypeOK
  <2>3. LockExclusive' /\ StoreOK' BY <1>1, <2>1, InsideStep DEF SetBusy, Critical
  <2>4. FormatOK' /\ CountOK' BY <1>1, <2>1 DEF SetBusy, FormatOK, CountOK
  <2>5. ASSUME NEW steps \in {{"enable"}, {"dmatest", "config", "enable"}}
        PROVE  ~Starting(steps)
    BY <2>1, StartingAlone DEF Critical
  <2>6. Running' <=> Running BY <1>1 DEF SetBusy, Running
  <2>7. Starting({"dmalock", "dmalocking", "dmatest", "config", "enable"})'
    BY <2>1 DEF Starting
  <2>8. BusyHasOwner'
    BY <1>1, <2>5, <2>6, <2>7 DEF SetBusy, BusyHasOwner
  <2> QED BY <2>2, <2>3, <2>4, <2>8
<1>2. CASE TestDmaLock(t)
  <2> DEFINE b == IF dmaLock THEN "unlock" ELSE "dmalocking"
  <2>1. /\ pc' \in [Threads -> Steps] /\ pc[t] = "dmalock" /\ pc'[t] = b
        /\ \A u \in Threads : u # t => pc'[u] = pc[u]
    <3>1. b \in Steps BY DEF Steps
    <3> QED BY <1>2, <3>1, GotoFacts DEF TestDmaLock
  <2>2. TypeOK' BY <1>2, <2>1 DEF TestDmaLock, TypeOK
  <2>3. LockExclusive' /\ StoreOK' BY <1>2, <2>1, InsideStep DEF TestDmaLock, Critical
  <2>4. FormatOK' /\ CountOK' BY <1>2, <2>1 DEF TestDmaLock, FormatOK, CountOK
  <2>5. ASSUME NEW steps \in {{"enable"}, {"dmatest", "config", "enable"}}
        PROVE  ~Starting(steps)
    BY <2>1, StartingAlone DEF Critical
  <2>6. (Running' <=> Running) /\ UNCHANGED <<dmaLock, dmaState>>
    BY <1>2 DEF TestDmaLock, Running
  <2>7. dmaLock => Running
    BY <2>5 DEF BusyHasOwner
  <2>8. ~dmaLock => Starting({"dmalock", "dmalocking", "dmatest", "config", "enable"})'
    BY <2>1 DEF Starting
  <2>9. dmaState' = "BUSY" => Running'
    BY <2>5, <2>6 DEF BusyHasOwner
  <2>10. BusyHasOwner'
    BY <2>6, <2>7, <2>8, <2>9 DEF BusyHasOwner
  <2> QED BY <2>2, <2>3, <2>4, <2>10
<1>7. CASE StoreDmaLock(t)
  <2>1. /\ pc' \in [Threads -> Steps] /\ pc[t] = "dmalocking" /\ pc'[t] = "dmatest"
        /\ \A u \in Threads : u # t => pc'[u] = pc[u]
    BY <1>7, GotoFacts DEF StoreDmaLock, Steps
  <2>2. TypeOK' BY <1>7, <2>1 DEF StoreDmaLock, TypeOK
  <2>3. LockExclusive' /\ StoreOK' BY <1>7, <2>1, InsideStep DEF StoreDmaLock, Critical
  <2>4. FormatOK' /\ CountOK' BY <1>7, <2>1 DEF StoreDmaLock, FormatOK, CountOK
  <2>5. ~Starting({"enable"})
    BY <2>1, StartingAlone DEF Critical
  <2>6. Running' <=> Running BY <1>7 DEF StoreDmaLock, Running
  <2>7. /\ Starting({"dmalock", "dmalocking", "dmatest", "config", "enable"})'
        /\ Starting({"dmatest", "config", "enable"})'
    BY <2>1 DEF Starting
  <2>8. dmaState' = "BUSY" => Running'
    BY <1>7, <2>5, <2>6 DEF StoreDmaLock, BusyHasOwner
  <2>9. BusyHasOwner'
    BY <2>7, <2>8 DEF BusyHasOwner
  <2> QED BY <2>2, <2>3, <2>4, <2>9
<1>3. CASE DmaTest(t)
  <2> DEFINE b == IF dmaState = "READY" THEN "config" ELSE "unlock"
  <2>1. /\ pc' \in [Threads -> Steps] /\ pc[t] = "dmatest" /\ pc'[t] = b
        /\ \A u \in Threads : u # t => pc'[u] = pc[u]
    <3>1. b \in Steps BY DEF Steps
    <3> QED BY <1>3, <3>1, GotoFacts DEF DmaTest
  <2>2. TypeOK' BY <1>3, <2>1 DEF DmaTest, TypeOK
  <2>3. LockExclusive' /\ StoreOK' BY <1>3, <2>1, InsideStep DEF DmaTest, Critical
  <2>4. FormatOK' /\ CountOK' BY <1>3, <2>1 DEF DmaTest, FormatOK, CountOK
  <2>5. ~Starting({"enable"})
    BY <2>1, StartingAlone DEF Critical
  <2>6. Running' <=> Running BY <1>3 DEF DmaTest, Running
  <2>7. dmaState # "READY" => Running
    BY <2>5 DEF BusyHasOwner, TypeOK
  <2>8. dmaState = "READY" => /\ Starting({"dmalock", "dmalocking", "dmatest", "config", "enable"})'
                              /\ Starting({"dmatest", "config", "enable"})'
    BY <2>1 DEF Starting
  <2>9. dmaState' = dmaState
    BY <1>3 DEF DmaTest
  <2>10. BusyHasOwner'
    BY <2>6, <2>7, <2>8, <2>9 DEF BusyHasOwner
  <2> QED BY <2>2, <2>3, <2>4, <2>10
<1>4. CASE Config(t)
  <2>1. /\ pc' \in [Threads -> Steps] /\ pc[t] = "config" /\ pc'[t] = "enable"
        /\ \A u \in Threads : u # t => pc'[u] = pc[u]
    BY <1>4, GotoFacts DEF Config, Steps
  <2>2. TypeOK' BY <1>4, <2>1 DEF Config, TypeOK
  <2>3. LockExclusive' /\ StoreOK' BY <1>4, <2>1, InsideStep DEF Config, Critical
  <2>4. FormatOK' BY <1>4, <2>1 DEF Config, FormatOK
  <2>5. CountOK'
    <3>1. n[t] # 0 /\ ndtr' # 0
      BY <1>4, <2>1 DEF Config, CountOK, TypeOK, Index
    <3>2. en' => pos' < ndtr'
      BY <1>4 DEF Config, CountOK
    <3> QED BY <1>4, <2>1, <3>1, <3>2 DEF Config, CountOK
  <2>6. ASSUME NEW steps, "enable" \in steps PROVE Starting(steps)'
    BY <2>1, <2>6 DEF Starting
  <2>7. BusyHasOwner' BY <2>6 DEF BusyHasOwner
  <2> QED BY <2>2, <2>3, <2>4, <2>5, <2>7
<1>5. CASE Enable(t)
  <2>1. /\ pc' \in [Threads -> Steps] /\ pc[t] = "enable" /\ pc'[t] = "unlock"
        /\ \A u \in Threads : u # t => pc'[u] = pc[u]
    BY <1>5, GotoFacts DEF Enable, Steps
  <2>2. TypeOK'
    <3>1. pos' \in Index BY <1>5, TxSizeAssumption DEF Enable, TypeOK, Index
    <3>2. burst' \in Seq(Char) BY <1>5 DEF Enable, TypeOK
    <3> QED BY <1>5, <2>1, <3>1, <3>2 DEF Enable, TypeOK
  <2>3. LockExclusive' /\ StoreOK' BY <1>5, <2>1, InsideStep DEF Enable, Critical
  <2>4. FormatOK' BY <1>5, <2>1 DEF Enable, FormatOK
  <2>5. CountOK'
    <3>1. pos' < ndtr'
      BY <1>5, <2>1 DEF Enable, CountOK, TypeOK, Index
    <3> QED BY <1>5, <2>1, <3>1 DEF Enable, CountOK
  <2>6. Running' BY <1>5 DEF Enable, Running
  <2>7. BusyHasOwner' BY <2>6 DEF BusyHasOwner
  <2> QED BY <2>2, <2>3, <2>4, <2>5, <2>7
<1>6. CASE Unlock(t)
  <2>1. /\ pc' \in [Threads -> Steps] /\ pc[t] = "unlock" /\ pc'[t] = "dmat"
        /\ \A u \in Threads : u # t => pc'[u] = pc[u]
    BY <1>6, GotoFacts DEF Unlock, Steps
  <2>2. TypeOK' BY <1>6, <2>1 DEF Unlock, TypeOK
  <2>3. LockExclusive' /\ StoreOK'
    <3>1. \A u \in Threads : pc'[u] \notin Critical
      BY <2>1 DEF LockExclusive, Critical
    <3> QED BY <1>6, <3>1 DEF Unlock, LockExclusive, StoreOK
  <2>4. FormatOK' /\ CountOK' BY <1>6, <2>1 DEF Unlock, FormatOK, CountOK
  <2>5. ASSUME NEW steps \in {{"enable"}, {"dmatest", "config", "enable"},
                              {"dmalock", "dmalocking", "dmatest", "config", "enable"}}
        PROVE  ~Starting(steps)
    BY <2>1, StartingAlone DEF Critical
  <2>6. Running' <=> Running BY <1>6 DEF Unlock, Running
  <2>7. BusyHasOwner'
    BY <1>6, <2>5, <2>6 DEF Unlock, BusyHasOwner
  <2> QED BY <2>2, <2>3, <2>4, <2>7
<1> QED BY <1>1, <1>2, <1>3, <1>4, <1>5, <1>6, <1>7

\* Setting DMAT at the end of HAL_UART_Transmit_DMA.
LEMMA SetDmatOK == \A t \in Threads : IInv /\ SetDmat(t) => IInv'
<1> SUFFICES ASSUME NEW t \in Threads, IInv, SetDmat(t) PROVE IInv'
  OBVIOUS
<1> USE DEF IInv, SetDmat
<1>1. /\ pc' \in [Threads -> Steps] /\ pc[t] = "dmat" /\ pc'[t] = "idle"
      /\ \A u \in Threads : u # t => pc'[u] = pc[u]
  BY GotoFacts DEF Steps
<1>2. TypeOK' BY <1>1 DEF TypeOK, handle, stream
<1>3. LockExclusive' /\ BusyHasOwner' /\ StoreOK'
  BY <1>1, OutsideStep DEF Critical
<1>4. FormatOK' /\ CountOK'
  BY <1>1 DEF FormatOK, CountOK, stream
<1> QED BY <1>2, <1>3, <1>4

\* IInv is inductive.
LEMMA NextOK == IInv /\ [Next]_vars => IInv'
<1> SUFFICES ASSUME IInv, [Next]_vars PROVE IInv'
  OBVIOUS
<1>1. CASE UNCHANGED vars
  <2> USE <1>1 DEF vars, handle, stream, locals, IInv
  <2>1. TypeOK' BY DEF TypeOK
  <2>2. LockExclusive' BY DEF LockExclusive
  <2>3. BusyHasOwner' BY DEF BusyHasOwner, Running, Starting
  <2>4. FormatOK' /\ CountOK' /\ StoreOK' BY DEF FormatOK, CountOK, StoreOK
  <2> QED BY <2>1, <2>2, <2>3, <2>4
<1>2. CASE DmaBeat BY <1>2, DmaBeatOK
<1>3. CASE DmaIsr BY <1>3, DmaIsrOK
<1>4. ASSUME NEW t \in Threads, CanRun(t),
             Continue(t) \/ \E m \in Msgs : Printf(t, m)
      PROVE  IInv'
  BY <1>4, PrintfStepOK, TestLockOK, StoreLockOK, CriticalStepOK, SetDmatOK DEF Continue
<1> QED BY <1>1, <1>2, <1>3, <1>4 DEF Next

\* The transmit path keeps its type; in particular the stream never reads past
\* g_uart_tx_buf, even when it is started again with a stale count.
THEOREM TypeCorrect == Spec => []TypeOK
<1>1. Init => IInv BY InitOK
<1>2. IInv /\ [Next]_vars => IInv' BY NextOK
<1>3. IInv => TypeOK BY DEF IInv
<1> QED BY <1>1, <1>2, <1>3, PTL DEF Spec

\* HAL_UART_Transmit_DMA is a critical section for any number of threads, no two
\* of the same priority, although __HAL_LOCK tests and stores in two steps: a
\* thread preempted between them goes on only when all above it are idle again.
THEOREM MutualExclusion == Spec => []LockExclusive
<1>1. Init => IInv BY InitOK
<1>2. IInv /\ [Next]_vars => IInv' BY NextOK
<1>3. IInv => LockExclusive BY DEF IInv
<1> QED BY <1>1, <1>2, <1>3, PTL DEF Spec

\* The transmitter is never busy without a stream, an interrupt or a thread that
\* will make it ready: the safety half of BusyEnds, for any number of threads.
THEOREM NeverOrphaned == Spec => []BusyHasOwner
<1>1. Init => IInv BY InitOK
<1>2. IInv /\ [Next]_vars => IInv' BY NextOK
<1>3. IInv => BusyHasOwner BY DEF IInv
<1> QED BY <1>1, <1>2, <1>3, PTL DEF Spec
=============================================================================
