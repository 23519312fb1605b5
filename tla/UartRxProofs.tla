---------------------------- MODULE UartRxProofs ----------------------------
(* Proofs about UartRx: the type invariant and the terminator invariant,   *)
(* for every buffer size, set of threads and priority order.               *)
EXTENDS UartRx, TLAPS

\* A thread step that only moves pc keeps pc in its type.
LEMMA GotoType ==
    ASSUME TypeOK, NEW t \in Threads, NEW a, NEW b \in Steps, Goto(t, a, b)
    PROVE  pc' \in [Threads -> Steps]
BY DEF TypeOK, Goto

\* Loading sta into a register keeps the register in its type.
LEMMA LoadType ==
    ASSUME TypeOK, NEW t \in Threads, Load(t)
    PROVE  reg' \in [Threads -> [len : Index, finsh : BOOLEAN]]
BY DEF TypeOK, Load

\* So does giving it up.
LEMMA DeadType ==
    /\ Dead \in [len : Index, finsh : BOOLEAN]
    /\ \A t \in Threads : TypeOK /\ reg' = [reg EXCEPT ![t] = Dead]
                          => reg' \in [Threads -> [len : Index, finsh : BOOLEAN]]
<1>1. Dead \in [len : Index, finsh : BOOLEAN]
  BY BufSizeAssumption DEF Dead, Index
<1> QED BY <1>1 DEF TypeOK

\* The initial state (g_uart_rx_frame = {0}) satisfies both invariants.
LEMMA InitOK == Init => TypeOK /\ Terminated
<1> SUFFICES ASSUME Init PROVE TypeOK /\ Terminated
  OBVIOUS
<1>1. buf \in [Index -> Cell] /\ len \in Index /\ Terminated
  BY BufSizeAssumption DEF Init, Terminated, Index, Cell
<1>2. dr \in {NUL} \cup 1..MaxBytes /\ sent \in 0..MaxBytes
  BY MaxBytesAssumption DEF Init
<1>3. /\ finsh \in BOOLEAN /\ rxne \in BOOLEAN /\ ore \in BOOLEAN /\ idle \in BOOLEAN
      /\ armed \in BOOLEAN /\ locked \in BOOLEAN
      /\ isr \in {"none", "ore", "rxne", "idle"}
  BY DEF Init
<1>4. /\ pc \in [Threads -> Steps] /\ ret \in [Threads -> {"null", "frame"}]
      /\ reg \in [Threads -> [len : Index, finsh : BOOLEAN]]
  BY DeadType DEF Init, Steps
<1> QED BY <1>1, <1>2, <1>3, <1>4 DEF TypeOK

\* The handler's append stores below the last cell and leaves len inside buf.
LEMMA AppendOK ==
    ASSUME TypeOK, Terminated, NEW tmp \in Cell, Append(tmp)
    PROVE  /\ buf' \in [Index -> Cell] /\ len' \in Index /\ finsh' \in BOOLEAN
           /\ Terminated'
BY BufSizeAssumption DEF TypeOK, Terminated, Append, Index

\* The line and the interrupt handler preserve both invariants.
LEMMA HardwareStep ==
    ASSUME TypeOK, Terminated, ByteArrives \/ LineIdle \/ UsartIsr
    PROVE  TypeOK' /\ Terminated'
<1> USE DEF frame, flags, line, locals
<1>1. CASE ByteArrives
  <2>1. sent' \in 0..MaxBytes /\ dr' \in {NUL} \cup 1..MaxBytes
    BY <1>1, MaxBytesAssumption DEF ByteArrives, TypeOK
  <2>2. rxne' \in BOOLEAN /\ ore' \in BOOLEAN /\ armed' \in BOOLEAN
    BY <1>1 DEF ByteArrives, TypeOK
  <2> QED BY <1>1, <2>1, <2>2 DEF ByteArrives, TypeOK, Terminated
<1>2. CASE LineIdle
  BY <1>2 DEF LineIdle, TypeOK, Terminated
<1>3. CASE IsrEnter
  BY <1>3 DEF IsrEnter, TypeOK, Terminated
<1>4. CASE IsrOre
  BY <1>4 DEF IsrOre, ReadDR, TypeOK, Terminated
<1>5. CASE IsrRxne
  <2>1. CASE ~rxne
    BY <1>5, <2>1 DEF IsrRxne, TypeOK, Terminated
  <2>2. CASE rxne
    <3>1. PICK tmp \in Cell : Receive(tmp) /\ Append(tmp)
      BY <1>5, <2>2 DEF IsrRxne
    <3>2. /\ buf' \in [Index -> Cell] /\ len' \in Index /\ finsh' \in BOOLEAN
          /\ Terminated'
      BY <3>1, AppendOK
    <3>3. dr' = dr /\ rxne' \in BOOLEAN /\ ore' \in BOOLEAN /\ idle' \in BOOLEAN
      BY <3>1 DEF Receive, ReadDR, TypeOK
    <3> QED BY <1>5, <3>2, <3>3 DEF IsrRxne, TypeOK
  <2> QED BY <2>1, <2>2
<1>6. CASE IsrIdle
  BY <1>6 DEF IsrIdle, ReadDR, TypeOK, Terminated
<1> QED BY <1>1, <1>2, <1>3, <1>4, <1>5, <1>6 DEF UsartIsr

\* Every step of every thread preserves both invariants.
LEMMA ThreadStep ==
    ASSUME TypeOK, Terminated, NEW t \in Threads, Call(t) \/ Continue(t)
    PROVE  TypeOK' /\ Terminated'
<1> USE DEF frame, flags, line, ThreadOnly
<1>1. CASE Restart(t)
  BY <1>1, GotoType DEF Restart, TypeOK, Terminated, Steps
<1>2. CASE LoadLen(t)
  BY <1>2, GotoType, LoadType DEF LoadLen, TypeOK, Terminated, Steps
<1>3. CASE StoreLen(t)
  BY <1>3, GotoType, BufSizeAssumption DEF StoreLen, TypeOK, Terminated, Steps, Index
<1>4. CASE LoadFinsh(t)
  BY <1>4, GotoType, LoadType DEF LoadFinsh, TypeOK, Terminated, Steps
<1>5. CASE StoreFinsh(t)
  <2>1. pc' \in [Threads -> Steps]
    BY <1>5, GotoType DEF StoreFinsh, Steps
  <2>2. reg' \in [Threads -> [len : Index, finsh : BOOLEAN]]
    BY <1>5, DeadType DEF StoreFinsh
  <2> QED BY <1>5, <2>1, <2>2 DEF StoreFinsh, TypeOK, Terminated
<1>6. CASE GetFrame(t)
  <2>1. pc' \in [Threads -> Steps]
    BY <1>6, GotoType DEF GetFrame, Steps
  <2> QED BY <1>6, <2>1 DEF GetFrame, TypeOK, Terminated
<1>7. CASE ReadIndex(t)
  BY <1>7, GotoType, LoadType DEF ReadIndex, TypeOK, Terminated, Steps
<1>8. CASE Terminate(t)
  <2>1. pc' \in [Threads -> Steps]
    BY <1>8, GotoType DEF Terminate, Steps
  <2>2. buf' \in [Index -> Cell] /\ Terminated'
    BY <1>8 DEF Terminate, TypeOK, Terminated, Cell
  <2>3. reg' \in [Threads -> [len : Index, finsh : BOOLEAN]]
    BY <1>8, DeadType DEF Terminate
  <2> QED BY <1>8, <2>1, <2>2, <2>3 DEF Terminate, TypeOK
<1>9. CASE GetFrameLen(t)
  <2>1. pc' \in [Threads -> Steps]
    BY <1>9, GotoType DEF GetFrameLen, Steps
  <2>2. reg' \in [Threads -> [len : Index, finsh : BOOLEAN]]
    BY <1>9, DeadType DEF GetFrameLen
  <2> QED BY <1>9, <2>1, <2>2 DEF GetFrameLen, TypeOK, Terminated
<1>10. CASE ReadLen(t)
  BY <1>10, GotoType, LoadType DEF ReadLen, TypeOK, Terminated, Steps
<1>11. CASE Lock(t)
  BY <1>11, GotoType DEF Lock, TypeOK, Terminated, Steps
<1>12. CASE Unlock(t)
  BY <1>12, GotoType DEF Unlock, TypeOK, Terminated, Steps
<1> QED BY <1>1, <1>2, <1>3, <1>4, <1>5, <1>6, <1>7, <1>8, <1>9, <1>10,
           <1>11, <1>12 DEF Call, Continue

\* Both invariants are inductive together.
LEMMA NextOK == TypeOK /\ Terminated /\ [Next]_vars => TypeOK' /\ Terminated'
<1> SUFFICES ASSUME TypeOK, Terminated, [Next]_vars
             PROVE  TypeOK' /\ Terminated'
  OBVIOUS
<1>1. CASE UNCHANGED vars
  BY <1>1 DEF vars, frame, flags, line, locals, TypeOK, Terminated
<1>2. CASE Next
  BY <1>2, HardwareStep, ThreadStep DEF Next
<1> QED BY <1>1, <1>2

\* The receive path keeps its type: in particular no interleaving of
\* USART3_IRQHandler with the read-modify-writes of the threads takes len, or a
\* stale copy of it, out of the buffer (usart.c:195-207, 246-270).
THEOREM TypeCorrect == Spec => []TypeOK
<1>1. Init => TypeOK /\ Terminated BY InitOK
<1>2. TypeOK /\ Terminated /\ [Next]_vars => (TypeOK /\ Terminated)'
  BY NextOK
<1> QED BY <1>1, <1>2, PTL DEF Spec

\* The buffer ends in a terminator in every reachable state, for every buffer
\* size of at least two: a returned frame can always be walked as a C string.
THEOREM AlwaysTerminated == Spec => []Terminated
<1>1. Init => TypeOK /\ Terminated BY InitOK
<1>2. TypeOK /\ Terminated /\ [Next]_vars => (TypeOK /\ Terminated)'
  BY NextOK
<1> QED BY <1>1, <1>2, PTL DEF Spec
=============================================================================
