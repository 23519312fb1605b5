---------------------------- MODULE NetLinkProofs ---------------------------
(* The composition of NetLink implements both halves of the UART driver, for *)
(* every buffer size, message length and number of commands: the net thread, *)
(* the shell and the interrupts use UartRx and UartTx only as these allow,   *)
(* and what the halves promise holds of the composition.  While the module   *)
(* reports no error and no led command is typed, every transfer is a whole   *)
(* heartbeat.                                                                *)
EXTENDS NetLink, TLAPS

-----------------------------------------------------------------------------
(* The invariant *)

\* The program points between two calls.
Points == {"boot", "heart", "upload", "deal", "restart", "sleep", "asleep",
           "prompt", "print"}

\* A thread is in one call at a time, the net thread sleeps between calls, and the
\* receive half is never seen at the lock itself: only HAL_UART_Transmit_DMA takes it.
LinkInv ==
    /\ rpc \in [Threads -> Rx!Steps \ {"hold"}] /\ tpc \in [Threads -> Tx!Steps]
    /\ ctl \in [Threads -> Points] /\ locked \in BOOLEAN
    /\ \A t \in Threads : rpc[t] = "idle" \/ tpc[t] = "idle"
    /\ ctl["net"] = "asleep" => Returned("net")

\* What the receive half sees of the program counters.
View == [t \in Threads |-> IF tpc[t] \in Tx!Critical THEN "hold" ELSE rpc[t]]

\* A step of the receive half, by its name and by what it changes.
LEMMA RxSteps ==
    ASSUME LinkInv, NEW t \in Threads,
           Rx!Restart(t) \/ Rx!GetFrame(t) \/ Rx!Continue(t)
    PROVE  /\ \E a \in Rx!Steps \ {"hold"}, b \in Rx!Steps \ {"hold"} :
                  rpc[t] = a /\ rpc' = [rpc EXCEPT ![t] = b]
           /\ locked' = locked
           /\ Rx!Continue(t) => rpc[t] # "idle"
<1> USE DEF LinkInv, Rx!Goto, Rx!Steps
<1>0. Rx!Continue(t) => rpc[t] # "idle"
  BY DEF Rx!Continue, Rx!LoadLen, Rx!StoreLen, Rx!LoadFinsh, Rx!StoreFinsh, Rx!ReadIndex,
         Rx!Terminate, Rx!ReadLen, Rx!Unlock
<1>1. CASE Rx!Restart(t) BY <1>0, <1>1 DEF Rx!Restart
<1>2. CASE Rx!GetFrame(t) BY <1>0, <1>2 DEF Rx!GetFrame
<1>3. CASE Rx!LoadLen(t) BY <1>3 DEF Rx!LoadLen
<1>4. CASE Rx!StoreLen(t) BY <1>4 DEF Rx!StoreLen
<1>5. CASE Rx!LoadFinsh(t) BY <1>5 DEF Rx!LoadFinsh
<1>6. CASE Rx!StoreFinsh(t) BY <1>6 DEF Rx!StoreFinsh
<1>7. CASE Rx!ReadIndex(t) BY <1>7 DEF Rx!ReadIndex
<1>8. CASE Rx!Terminate(t) BY <1>8 DEF Rx!Terminate
<1>9. CASE Rx!ReadLen(t) BY <1>9 DEF Rx!ReadLen
<1>10. CASE Rx!Unlock(t)
  BY <1>10 DEF Rx!Unlock
<1> QED BY <1>0, <1>1, <1>2, <1>3, <1>4, <1>5, <1>6, <1>7, <1>8, <1>9, <1>10
        DEF Rx!Continue

\* A step of the transmit half: it touches the lock at __HAL_LOCK and __HAL_UNLOCK.
LEMMA TxSteps ==
    ASSUME LinkInv, NEW t \in Threads,
           Tx!Continue(t) \/ \E m \in Msgs : Tx!Printf(t, m)
    PROVE  \E a \in Tx!Steps, b \in Tx!Steps :
              /\ tpc[t] = a /\ tpc' = [tpc EXCEPT ![t] = b]
              /\ locked' \in BOOLEAN
              /\ Tx!Continue(t) => a # "idle"
              /\ \/ locked' = locked /\ (a \in Tx!Critical <=> b \in Tx!Critical)
                 \/ locked' /\ a = "locking" /\ b = "busy"
                 \/ ~locked' /\ a = "unlock" /\ b = "dmat"
<1> USE DEF LinkInv, Tx!Goto, Tx!Steps, Tx!Critical, Tx!handle
<1>0. Tx!Continue(t) => tpc[t] # "idle"
  BY DEF Tx!Continue, Tx!Format, Tx!Strlen, Tx!TestReady, Tx!TestLock, Tx!StoreLock,
         Tx!SetBusy, Tx!TestDmaLock, Tx!StoreDmaLock, Tx!DmaTest, Tx!Config, Tx!Enable,
         Tx!Unlock, Tx!SetDmat
<1>1. CASE Tx!Format(t) BY <1>1 DEF Tx!Format
<1>2. CASE Tx!Strlen(t) BY <1>2 DEF Tx!Strlen
<1>3. CASE Tx!TestReady(t) BY <1>3 DEF Tx!TestReady
<1>4. CASE Tx!TestLock(t) BY <1>4 DEF Tx!TestLock
<1>13. CASE Tx!StoreLock(t) BY <1>13 DEF Tx!StoreLock
<1>5. CASE Tx!SetBusy(t) BY <1>5 DEF Tx!SetBusy
<1>6. CASE Tx!TestDmaLock(t) BY <1>6 DEF Tx!TestDmaLock
<1>14. CASE Tx!StoreDmaLock(t) BY <1>14 DEF Tx!StoreDmaLock
<1>7. CASE Tx!DmaTest(t) BY <1>7 DEF Tx!DmaTest
<1>8. CASE Tx!Config(t) BY <1>8 DEF Tx!Config
<1>9. CASE Tx!Enable(t) BY <1>9 DEF Tx!Enable
<1>10. CASE Tx!Unlock(t) BY <1>10 DEF Tx!Unlock
<1>11. CASE Tx!SetDmat(t) BY <1>11 DEF Tx!SetDmat
<1>12. ASSUME NEW m \in Msgs, Tx!Printf(t, m)
       PROVE  tpc[t] = "idle" /\ tpc' = [tpc EXCEPT ![t] = "format"] /\ locked' = locked
  BY <1>12 DEF Tx!Printf
<1> QED BY <1>0, <1>1, <1>2, <1>3, <1>4, <1>5, <1>6, <1>7, <1>8, <1>9, <1>10, <1>11,
           <1>12, <1>13, <1>14
        DEF Tx!Continue
-----------------------------------------------------------------------------
(* What a step of the composition does to the two halves *)

\* A step after which the net thread sleeps only if it slept before, and did not move.
Awake(t) ==
    /\ ctl' \in [Threads -> Points]
    /\ ctl'["net"] = "asleep" => ctl["net"] = "asleep" /\ t # "net"

\* Thread t moves in the receive half, or in the transmit half.
RxMove(t) ==
    /\ CanRun(t) /\ tpc[t] = "idle"
    /\ Rx!Restart(t) \/ Rx!GetFrame(t) \/ Rx!Continue(t)
    /\ UNCHANGED txVars /\ Awake(t)

TxMove(t) ==
    /\ CanRun(t) /\ rpc[t] = "idle"
    /\ Tx!Continue(t) \/ \E m \in Msgs : Tx!Printf(t, m)
    /\ UNCHANGED rxVars /\ Awake(t)

\* Neither half moves.
NoMove ==
    /\ UNCHANGED <<rxVars, txVars, locked>>
    /\ ctl' \in [Threads -> Points]
    /\ ctl'["net"] = "asleep" => Returned("net")

\* A step inside a call.
LEMMA InCallMoves ==
    ASSUME LinkInv, NEW t \in Threads, CanRun(t), InCall(t)
    PROVE  RxMove(t) \/ TxMove(t)
<1>1. ctl' = ctl BY DEF InCall, appVars
<1>2. CASE Rx!Continue(t) /\ UNCHANGED txVars
  <2>1. rpc[t] # "idle" BY <1>2, RxSteps
  <2>2. tpc[t] = "idle" BY <2>1 DEF LinkInv
  <2>3. Awake(t) BY <1>1, <2>1 DEF LinkInv, Awake, Returned
  <2> QED BY <1>2, <2>2, <2>3 DEF RxMove
<1>3. CASE Tx!Continue(t) /\ UNCHANGED rxVars
  <2>1. tpc[t] # "idle" BY <1>3, TxSteps
  <2>2. rpc[t] = "idle" BY <2>1 DEF LinkInv
  <2>3. Awake(t) BY <1>1, <2>1 DEF LinkInv, Awake, Returned
  <2> QED BY <1>3, <2>2, <2>3 DEF TxMove
<1> QED BY <1>2, <1>3 DEF InCall

\* A step of a program from one call to the next.
LEMMA AtMoves ==
    ASSUME LinkInv, NEW t \in Threads, NEW a \in Points, NEW b \in Points, At(t, a, b)
    PROVE  /\ rpc[t] = "idle" /\ tpc[t] = "idle"
           /\ ctl' \in [Threads -> Points]
           /\ ctl'["net"] = "asleep" /\ t = "net" => b = "asleep"
           /\ ctl'["net"] = "asleep" /\ t # "net" => ctl["net"] = "asleep"
<1>1. rpc[t] = "idle" /\ tpc[t] = "idle" /\ ctl' = [ctl EXCEPT ![t] = b]
  BY DEF At, Returned
<1>2. ctl \in [Threads -> Points] /\ "net" \in Threads BY DEF LinkInv, Threads
<1> QED BY <1>1, <1>2

LEMMA NetMoves ==
    ASSUME LinkInv, CanRun("net"), Net
    PROVE  RxMove("net") \/ TxMove("net") \/ NoMove
<1> USE DEF Awake, Threads, Points
<1>1. CASE InCall("net") BY <1>1, InCallMoves
<1>2. CASE NetBoot
  <2>1. At("net", "boot", "heart") /\ Rx!Restart("net") /\ UNCHANGED txVars
    BY <1>2 DEF NetBoot, Calls, Restart
  <2>2. rpc["net"] = "idle" /\ tpc["net"] = "idle" /\ ctl' \in [Threads -> Points]
        /\ ctl'["net"] # "asleep"
    BY <2>1, AtMoves
  <2> QED BY <2>1, <2>2 DEF RxMove
<1>3. CASE NetHeart
  <2>1. At("net", "heart", "upload") /\ Tx!Printf("net", "HEART") /\ UNCHANGED rxVars
    BY <1>3 DEF NetHeart, Calls, Says
  <2> QED BY <2>1, AtMoves DEF TxMove, Msgs
<1>4. CASE NetUpload
  <2>1. At("net", "upload", "deal") /\ Rx!GetFrame("net") /\ UNCHANGED txVars
    BY <1>4 DEF NetUpload, Calls
  <2> QED BY <2>1, AtMoves DEF RxMove
<1>5. CASE NetDeal
  <2>1. CASE ret["net"] = "null"
    <3>1. At("net", "deal", "sleep") /\ UNCHANGED <<rxVars, txVars, locked>>
      BY <1>5, <2>1 DEF NetDeal
    <3> QED BY <3>1, AtMoves DEF NoMove, Returned
  <2>2. CASE ret["net"] # "null"
    <3>1. PICK err \in ErrFrames :
              /\ At("net", "deal", "restart")
              /\ IF err THEN Says("net", "DISCONNECT")
                        ELSE UNCHANGED <<rxVars, txVars, locked>>
      BY <1>5, <2>2 DEF NetDeal
    <3>2. CASE err
      <4>1. Tx!Printf("net", "DISCONNECT") /\ UNCHANGED rxVars BY <3>1, <3>2 DEF Says
      <4> QED BY <3>1, <4>1, AtMoves DEF TxMove, Msgs
    <3>3. CASE ~err
      <4>1. UNCHANGED <<rxVars, txVars, locked>> BY <3>1, <3>3
      <4> QED BY <3>1, <4>1, AtMoves DEF NoMove, Returned
    <3> QED BY <3>2, <3>3
  <2> QED BY <2>1, <2>2
<1>6. CASE NetRestart
  <2>1. At("net", "restart", "sleep") /\ Rx!Restart("net") /\ UNCHANGED txVars
    BY <1>6 DEF NetRestart, Calls, Restart
  <2> QED BY <2>1, AtMoves DEF RxMove
<1>7. CASE NetSleep
  <2>1. At("net", "sleep", "asleep") /\ UNCHANGED <<rxVars, txVars, locked>>
    BY <1>7 DEF NetSleep
  <2> QED BY <2>1, AtMoves DEF NoMove, Returned
<1>8. CASE NetWake
  <2>1. At("net", "asleep", "heart") /\ UNCHANGED <<rxVars, txVars, locked>>
    BY <1>8 DEF NetWake
  <2> QED BY <2>1, AtMoves DEF NoMove, Returned
<1> QED BY <1>1, <1>2, <1>3, <1>4, <1>5, <1>6, <1>7, <1>8 DEF Net

LEMMA ShellMoves ==
    ASSUME LinkInv, CanRun("shell"), Shell
    PROVE  RxMove("shell") \/ TxMove("shell")
<1> USE DEF Awake, Threads, Points
<1>1. CASE InCall("shell") BY <1>1, InCallMoves
<1>2. CASE ShellCommand
  <2>1. At("shell", "prompt", "print") /\ Rx!Restart("shell") /\ UNCHANGED txVars
    BY <1>2 DEF ShellCommand, Restart
  <2> QED BY <2>1, AtMoves DEF RxMove
<1>3. CASE ShellPrint
  <2>1. At("shell", "print", "prompt") /\ Tx!Printf("shell", "reply") /\ UNCHANGED rxVars
    BY <1>3 DEF ShellPrint, Calls, Says
  <2> QED BY <2>1, AtMoves DEF TxMove, Msgs
<1> QED BY <1>1, <1>2, <1>3 DEF Shell

\* The hardware and the interrupts move no program counter and not the lock.
LEMMA HardwareFrame ==
    ASSUME Line \/ UsartIsr \/ DmaBeat \/ DmaIsr
    PROVE  rpc' = rpc /\ tpc' = tpc /\ ctl' = ctl /\ locked' = locked
<1> USE DEF rxVars, txVars, appVars, Rx!locals, Tx!locals, Tx!handle
<1>1. CASE Line BY <1>1 DEF Line, Rx!ByteArrives, Rx!LineIdle
<1>2. CASE UsartIsr
  BY <1>2 DEF UsartIsr, Rx!UsartIsr, Rx!IsrEnter, Rx!IsrOre, Rx!IsrRxne, Rx!IsrIdle
<1>3. CASE DmaBeat BY <1>3 DEF DmaBeat, Tx!DmaBeat
<1>4. CASE DmaIsr BY <1>4 DEF DmaIsr, Tx!DmaIsr
<1> QED BY <1>1, <1>2, <1>3, <1>4

\* Every step of the composition is one of these.
LEMMA Moves ==
    ASSUME LinkInv, [Next]_vars
    PROVE  \/ Line \/ UsartIsr \/ DmaBeat \/ DmaIsr
           \/ \E t \in Threads : RxMove(t) \/ TxMove(t)
           \/ NoMove
<1>1. CASE UNCHANGED vars
  BY <1>1 DEF vars, appVars, NoMove, LinkInv
<1>2. CASE CanRun("net") /\ Net BY <1>2, NetMoves DEF Threads
<1>3. CASE CanRun("shell") /\ Shell BY <1>3, ShellMoves DEF Threads
<1> QED BY <1>1, <1>2, <1>3 DEF Next

LEMMA LinkInit == Init => LinkInv
<1> SUFFICES ASSUME Init PROVE LinkInv
  OBVIOUS
<1>1. rpc = [t \in Threads |-> "idle"] /\ locked = FALSE BY DEF Init, Rx!Init
<1>2. tpc = [t \in Threads |-> "idle"] BY DEF Init, Tx!Init
<1>3. ctl \in [Threads -> Points] /\ ctl["net"] = "boot"
  BY DEF Init, Threads, Points
<1> QED BY <1>1, <1>2, <1>3 DEF LinkInv, Rx!Steps, Tx!Steps

LEMMA LinkNext == LinkInv /\ [Next]_vars => LinkInv'
<1> SUFFICES ASSUME LinkInv, [Next]_vars PROVE LinkInv'
  OBVIOUS
<1>0. "net" \in Threads BY DEF Threads
<1>1. CASE Line \/ UsartIsr \/ DmaBeat \/ DmaIsr
  BY <1>1, HardwareFrame DEF LinkInv, Returned
<1>2. CASE NoMove
  BY <1>2 DEF NoMove, LinkInv, Returned, rxVars, txVars
<1>3. ASSUME NEW t \in Threads, RxMove(t) PROVE LinkInv'
  <2>1. PICK a \in Rx!Steps \ {"hold"}, b \in Rx!Steps \ {"hold"} :
            rpc[t] = a /\ rpc' = [rpc EXCEPT ![t] = b]
    BY <1>3, RxSteps DEF RxMove
  <2>2. locked' = locked BY <1>3, RxSteps DEF RxMove
  <2>3. tpc' = tpc /\ tpc[t] = "idle" /\ ctl' \in [Threads -> Points]
        /\ (ctl'["net"] = "asleep" => ctl["net"] = "asleep" /\ t # "net")
    BY <1>3 DEF RxMove, txVars, Awake
  <2> QED BY <1>0, <2>1, <2>2, <2>3 DEF LinkInv, Returned
<1>4. ASSUME NEW t \in Threads, TxMove(t) PROVE LinkInv'
  <2>1. PICK a \in Tx!Steps, b \in Tx!Steps :
            tpc' = [tpc EXCEPT ![t] = b] /\ locked' \in BOOLEAN
    BY <1>4, TxSteps DEF TxMove
  <2>2. rpc' = rpc /\ rpc[t] = "idle" /\ ctl' \in [Threads -> Points]
        /\ (ctl'["net"] = "asleep" => ctl["net"] = "asleep" /\ t # "net")
    BY <1>4 DEF TxMove, rxVars, Awake
  <2> QED BY <1>0, <2>1, <2>2 DEF LinkInv, Returned
<1> QED BY <1>1, <1>2, <1>3, <1>4, Moves

-----------------------------------------------------------------------------
(* The transmit half *)

\* A thread that may run in the composition may run in each half.
LEMMA MayRun ==
    ASSUME LinkInv, NEW t \in Threads, CanRun(t)
    PROVE  Tx!CanRun(t) /\ RxView!CanRun(t)
<1>1. \A u \in Above[t] : u = "net" /\ t # "net" BY DEF Above, Threads
<1>2. \A u \in Above[t] : rpc[u] = "idle" /\ tpc[u] = "idle"
  BY <1>1 DEF CanRun, LinkInv, Returned
<1>3. \A u \in Above[t] : View[u] = "idle"
  BY <1>1, <1>2 DEF View, Threads, Tx!Critical
<1> QED BY <1>2, <1>3 DEF CanRun, Tx!CanRun, RxView!CanRun, View, Rx!IrqPending,
                          RxView!IrqPending

LEMMA TxInit == Init => Tx!Init
BY DEF Init

LEMMA TxNext == LinkInv /\ [Next]_vars => [Tx!Next]_(Tx!vars)
<1> SUFFICES ASSUME LinkInv, [Next]_vars PROVE Tx!Next \/ UNCHANGED Tx!vars
  OBVIOUS
<1>1. CASE Line \/ UsartIsr
  <2>1. UNCHANGED txVars BY <1>1 DEF Line, UsartIsr
  <2>2. locked' = locked BY <1>1, HardwareFrame
  <2> QED BY <2>1, <2>2 DEF txVars, Tx!vars, Tx!handle, Tx!stream, Tx!locals
<1>2. CASE DmaBeat BY <1>2 DEF DmaBeat, Tx!Next
<1>3. CASE DmaIsr BY <1>3 DEF DmaIsr, Tx!Next
<1>4. CASE NoMove
  BY <1>4 DEF NoMove, txVars, Tx!vars, Tx!handle, Tx!stream, Tx!locals
<1>5. ASSUME NEW t \in Threads, RxMove(t) PROVE UNCHANGED Tx!vars
  <2>1. UNCHANGED txVars BY <1>5 DEF RxMove
  <2>2. locked' = locked BY <1>5, RxSteps DEF RxMove
  <2> QED BY <2>1, <2>2 DEF txVars, Tx!vars, Tx!handle, Tx!stream, Tx!locals
<1>6. ASSUME NEW t \in Threads, TxMove(t) PROVE Tx!Next
  BY <1>6, MayRun DEF TxMove, Tx!Next
<1> QED BY <1>1, <1>2, <1>3, <1>4, <1>5, <1>6, Moves

-----------------------------------------------------------------------------
(* The invariants of the two halves *)

TxP == INSTANCE UartTxProofs WITH pc <- tpc
RxP == INSTANCE UartRxProofs WITH
    pc <- [t \in Threads |-> IF tpc[t] \in Tx!Critical THEN "hold" ELSE rpc[t]]

\* The assumptions of UartTx and UartRx hold of the threads and messages of NetLink.
LEMMA Priorities == Above \in [Threads -> SUBSET Threads]
BY DEF Above, Threads

LEMMA MessagesExist == Msgs # {}
BY DEF Msgs

LEMMA Ranked == \A t, u \in Threads : t # u => t \in Above[u] \/ u \in Above[t]
BY DEF Above, Threads

\* The proof modules speak of the specifications that NetLink refines.
LEMMA SameTxInit == Tx!Init = TxP!Init
BY DEF Tx!Init, TxP!Init, Tx!Index, TxP!Index, Tx!NUL, TxP!NUL, Tx!stream,
       TxP!stream

LEMMA SameTxNext == [Tx!Next]_(Tx!vars) => [TxP!Next]_(TxP!vars)
BY DEF Tx!Next, TxP!Next, Tx!CanRun, TxP!CanRun, Tx!Continue, TxP!Continue,
       Tx!SetDmat, TxP!SetDmat, Tx!Goto, TxP!Goto, Tx!stream, TxP!stream, Tx!handle,
       TxP!handle, Tx!Unlock, TxP!Unlock, Tx!Enable, TxP!Enable, Tx!Config,
       TxP!Config, Tx!DmaTest, TxP!DmaTest, Tx!TestDmaLock, TxP!TestDmaLock,
       Tx!StoreDmaLock, TxP!StoreDmaLock,
       Tx!SetBusy, TxP!SetBusy, Tx!TestLock, TxP!TestLock,
       Tx!StoreLock, TxP!StoreLock, Tx!TestReady,
       TxP!TestReady, Tx!Strlen, TxP!Strlen, Tx!IsStrlen, TxP!IsStrlen, Tx!Index,
       TxP!Index, Tx!NUL, TxP!NUL, Tx!Format, TxP!Format, Tx!Printf, TxP!Printf,
       Tx!DmaIsr, TxP!DmaIsr, Tx!locals, TxP!locals, Tx!DmaBeat, TxP!DmaBeat,
       Tx!vars, TxP!vars

LEMMA SameRxInit == RxView!Init = RxP!Init
BY DEF RxView!Init, RxP!Init, RxView!Dead, RxP!Dead, RxView!Index, RxP!Index,
       RxView!NUL, RxP!NUL, RxView!line, RxP!line

LEMMA SameRxNext == [RxView!Next]_(RxView!vars) => [RxP!Next]_(RxP!vars)
BY DEF RxView!Next, RxP!Next, RxView!CanRun, RxP!CanRun, RxView!IrqPending,
       RxP!IrqPending, RxView!Continue, RxP!Continue, RxView!Unlock, RxP!Unlock,
       RxView!ThreadOnly, RxP!ThreadOnly, RxView!line, RxP!line, RxView!flags,
       RxP!flags, RxView!Goto, RxP!Goto, RxView!frame, RxP!frame, RxView!ReadLen,
       RxP!ReadLen, RxView!Load, RxP!Load, RxView!Terminate, RxP!Terminate,
       RxView!Dead, RxP!Dead, RxView!NUL, RxP!NUL, RxView!ReadIndex, RxP!ReadIndex,
       RxView!StoreFinsh, RxP!StoreFinsh, RxView!LoadFinsh, RxP!LoadFinsh,
       RxView!StoreLen, RxP!StoreLen, RxView!LoadLen, RxP!LoadLen, RxView!Call,
       RxP!Call, RxView!Lock, RxP!Lock, RxView!GetFrameLen, RxP!GetFrameLen,
       RxView!GetFrame, RxP!GetFrame, RxView!Restart, RxP!Restart, RxView!UsartIsr,
       RxP!UsartIsr, RxView!IsrIdle, RxP!IsrIdle, RxView!ReadDR, RxP!ReadDR,
       RxView!locals, RxP!locals, RxView!IsrRxne, RxP!IsrRxne, RxView!Append,
       RxP!Append, RxView!Receive, RxP!Receive, RxView!Cell, RxP!Cell, RxView!JUNK,
       RxP!JUNK, RxView!IsrOre, RxP!IsrOre, RxView!IsrEnter, RxP!IsrEnter,
       RxView!LineIdle, RxP!LineIdle, RxView!LineMayMove, RxP!LineMayMove,
       RxView!ByteArrives, RxP!ByteArrives, RxView!vars, RxP!vars

\* The invariant of UartTxProofs holds of the composition.
LEMMA LinkTxInit == Init => LinkInv /\ TxP!IInv
<1>1. TxP!Init => TxP!IInv
  BY TxP!InitOK, Priorities, Ranked, MessagesExist, TxSizeAssumption, MsgLenAssumption
<1> QED BY <1>1, LinkInit, TxInit, SameTxInit

LEMMA LinkTxNext == LinkInv /\ TxP!IInv /\ [Next]_vars => LinkInv' /\ TxP!IInv'
<1>1. TxP!IInv /\ [TxP!Next]_(TxP!vars) => TxP!IInv'
  BY TxP!NextOK, Priorities, Ranked, MessagesExist, TxSizeAssumption, MsgLenAssumption
<1> QED BY <1>1, LinkNext, TxNext, SameTxNext

\* A thread that stores into huart3.Lock finds it free.
LEMMA StoreFree ==
    ASSUME TxP!IInv, NEW t \in Threads, Tx!CanRun(t), tpc[t] = "locking"
    PROVE  ~locked
<1>1. TxP!CanRun(t) BY DEF Tx!CanRun, TxP!CanRun
<1> QED BY <1>1, TxP!StoreFindsFree, Priorities, Ranked, MessagesExist, TxSizeAssumption,
           MsgLenAssumption

-----------------------------------------------------------------------------
(* The receive half *)

\* Seen through View, a step of the receive half is the same step.
LEMMA ViewGoto ==
    ASSUME LinkInv, NEW t \in Threads, tpc[t] = "idle", tpc' = tpc,
           NEW a, NEW b, rpc[t] = a, rpc' = [rpc EXCEPT ![t] = b]
    PROVE  RxView!Goto(t, a, b)
<1>1. View[t] = a BY DEF View, Tx!Critical
<1>2. View' = [View EXCEPT ![t] = b]
  BY DEF View, Tx!Critical, LinkInv
<1> QED BY <1>1, <1>2 DEF View, RxView!Goto

\* Entering and leaving the critical section of HAL_UART_Transmit_DMA is taking and
\* releasing the lock.
LEMMA ViewTake ==
    ASSUME LinkInv, NEW t \in Threads, rpc[t] = "idle", rpc' = rpc,
           tpc[t] = "locking", tpc' = [tpc EXCEPT ![t] = "busy"]
    PROVE  RxView!Goto(t, "idle", "hold")
<1>1. View[t] = "idle" BY DEF View, Tx!Critical
<1>2. View' = [View EXCEPT ![t] = "hold"] BY DEF View, Tx!Critical, LinkInv
<1> QED BY <1>1, <1>2 DEF View, RxView!Goto

LEMMA ViewRelease ==
    ASSUME LinkInv, NEW t \in Threads, rpc[t] = "idle", rpc' = rpc,
           tpc[t] = "unlock", tpc' = [tpc EXCEPT ![t] = "dmat"]
    PROVE  RxView!Goto(t, "hold", "idle")
<1>1. View[t] = "hold" BY DEF View, Tx!Critical
<1>2. View' = [View EXCEPT ![t] = "idle"] BY DEF View, Tx!Critical, LinkInv
<1> QED BY <1>1, <1>2 DEF View, RxView!Goto

\* Any other step of the transmit half is not seen.
LEMMA ViewSame ==
    ASSUME LinkInv, NEW t \in Threads, rpc' = rpc, NEW b,
           tpc' = [tpc EXCEPT ![t] = b], tpc[t] \in Tx!Critical <=> b \in Tx!Critical
    PROVE  View' = View
BY DEF View, LinkInv

LEMMA ViewStutter ==
    ASSUME View' = View, UNCHANGED <<buf, len, finsh, dr, rxne, ore, idle, armed, sent, isr,
                                     reg, ret, locked>>
    PROVE  UNCHANGED RxView!vars
BY DEF View, RxView!vars, RxView!frame, RxView!flags, RxView!line, RxView!locals

LEMMA RxInit == Init => RxView!Init
<1> SUFFICES ASSUME Init PROVE RxView!Init
  OBVIOUS
<1>1. rpc = [t \in Threads |-> "idle"] BY DEF Init, Rx!Init
<1>2. tpc = [t \in Threads |-> "idle"] BY DEF Init, Tx!Init
<1>3. View = [t \in Threads |-> "idle"] BY <1>1, <1>2 DEF View, Tx!Critical
<1> QED BY <1>3 DEF View, Init, Rx!Init, RxView!Init, Rx!Index, RxView!Index, Rx!NUL,
                    RxView!NUL, Rx!Dead, RxView!Dead

\* The line and the handler are the same in both.
LEMMA RxHardware ==
    ASSUME LinkInv, Line \/ UsartIsr
    PROVE  RxView!ByteArrives \/ RxView!LineIdle \/ RxView!UsartIsr
<1>0. View' = View BY HardwareFrame DEF View
<1>1. UNCHANGED Rx!locals => UNCHANGED RxView!locals
  BY <1>0 DEF View, Rx!locals, RxView!locals
<1> USE DEF Rx!frame, RxView!frame, Rx!flags, RxView!flags, Rx!line, RxView!line,
            Rx!ReadDR, RxView!ReadDR, Rx!IrqPending, RxView!IrqPending,
            Rx!LineMayMove, RxView!LineMayMove
<1>2. CASE Rx!ByteArrives BY <1>1, <1>2 DEF Rx!ByteArrives, RxView!ByteArrives
<1>3. CASE Rx!LineIdle BY <1>1, <1>3 DEF Rx!LineIdle, RxView!LineIdle
<1>4. CASE Rx!IsrEnter BY <1>1, <1>4 DEF Rx!IsrEnter, RxView!IsrEnter, RxView!UsartIsr
<1>5. CASE Rx!IsrOre BY <1>1, <1>5 DEF Rx!IsrOre, RxView!IsrOre, RxView!UsartIsr
<1>6. CASE Rx!IsrRxne
  BY <1>1, <1>6 DEF Rx!IsrRxne, RxView!IsrRxne, RxView!UsartIsr, Rx!Receive,
                    RxView!Receive, Rx!Append, RxView!Append, Rx!Cell, RxView!Cell,
                    Rx!JUNK, RxView!JUNK, Rx!NUL, RxView!NUL
<1>7. CASE Rx!IsrIdle BY <1>1, <1>7 DEF Rx!IsrIdle, RxView!IsrIdle, RxView!UsartIsr
<1> QED BY <1>2, <1>3, <1>4, <1>5, <1>6, <1>7 DEF Line, UsartIsr, Rx!UsartIsr

\* A step of a thread in the receive half is the same step of UartRx.
LEMMA RxThread ==
    ASSUME LinkInv, NEW t \in Threads, RxMove(t)
    PROVE  RxView!Call(t) \/ RxView!Continue(t)
<1>1. tpc[t] = "idle" /\ tpc' = tpc BY DEF RxMove, txVars
<1>2. ASSUME NEW a, NEW b, Rx!Goto(t, a, b) PROVE RxView!Goto(t, a, b)
  BY <1>1, <1>2, ViewGoto DEF Rx!Goto
<1> USE DEF Rx!frame, RxView!frame, Rx!flags, RxView!flags, Rx!line, RxView!line,
            Rx!Load, RxView!Load, Rx!ThreadOnly, RxView!ThreadOnly, Rx!Dead, RxView!Dead
<1>3. CASE Rx!Restart(t) BY <1>2, <1>3 DEF Rx!Restart, RxView!Restart, RxView!Call
<1>4. CASE Rx!GetFrame(t)
  <2>1. CASE finsh
    <3>1. Rx!Goto(t, "idle", "gf_ix") BY <1>4, <2>1 DEF Rx!GetFrame, Rx!Goto
    <3>2. RxView!Goto(t, "idle", "gf_ix") BY <1>2, <3>1
    <3> QED BY <1>4, <2>1, <3>2 DEF Rx!GetFrame, RxView!GetFrame, RxView!Call, RxView!Goto
  <2>2. CASE ~finsh
    <3>1. Rx!Goto(t, "idle", "idle") BY <1>4, <2>2 DEF Rx!GetFrame, Rx!Goto
    <3>2. RxView!Goto(t, "idle", "idle") BY <1>2, <3>1
    <3> QED BY <1>4, <2>2, <3>2 DEF Rx!GetFrame, RxView!GetFrame, RxView!Call, RxView!Goto
  <2> QED BY <2>1, <2>2
<1>5. CASE Rx!LoadLen(t) BY <1>2, <1>5 DEF Rx!LoadLen, RxView!LoadLen, RxView!Continue
<1>6. CASE Rx!StoreLen(t) BY <1>2, <1>6 DEF Rx!StoreLen, RxView!StoreLen, RxView!Continue
<1>7. CASE Rx!LoadFinsh(t)
  BY <1>2, <1>7 DEF Rx!LoadFinsh, RxView!LoadFinsh, RxView!Continue
<1>8. CASE Rx!StoreFinsh(t)
  BY <1>2, <1>8 DEF Rx!StoreFinsh, RxView!StoreFinsh, RxView!Continue
<1>9. CASE Rx!ReadIndex(t)
  BY <1>2, <1>9 DEF Rx!ReadIndex, RxView!ReadIndex, RxView!Continue
<1>10. CASE Rx!Terminate(t)
  BY <1>2, <1>10 DEF Rx!Terminate, RxView!Terminate, RxView!Continue, Rx!NUL, RxView!NUL
<1>11. CASE Rx!ReadLen(t) BY <1>2, <1>11 DEF Rx!ReadLen, RxView!ReadLen, RxView!Continue
<1>12. ~Rx!Unlock(t) BY DEF Rx!Unlock, Rx!Goto, LinkInv
<1> QED BY <1>3, <1>4, <1>5, <1>6, <1>7, <1>8, <1>9, <1>10, <1>11, <1>12
        DEF RxMove, Rx!Continue

\* A step in the transmit half takes or releases the lock, or is not seen.
LEMMA TxThread ==
    ASSUME LinkInv, TxP!IInv, NEW t \in Threads, TxMove(t)
    PROVE  RxView!Lock(t) \/ RxView!Unlock(t) \/ UNCHANGED RxView!vars
<1>0. rpc[t] = "idle" /\ UNCHANGED rxVars BY DEF TxMove
<1>1. PICK a \in Tx!Steps, b \in Tx!Steps :
         /\ tpc[t] = a /\ tpc' = [tpc EXCEPT ![t] = b]
         /\ locked' \in BOOLEAN
         /\ \/ locked' = locked /\ (a \in Tx!Critical <=> b \in Tx!Critical)
            \/ locked' /\ a = "locking" /\ b = "busy"
            \/ ~locked' /\ a = "unlock" /\ b = "dmat"
  BY TxSteps DEF TxMove
<1> USE DEF RxView!frame, RxView!flags, RxView!line, RxView!ThreadOnly, rxVars
<1>2. CASE locked' = locked /\ (a \in Tx!Critical <=> b \in Tx!Critical)
  BY <1>0, <1>1, <1>2, ViewSame, ViewStutter
<1>3. CASE locked' /\ a = "locking" /\ b = "busy"
  <2>1. RxView!Goto(t, "idle", "hold") BY <1>0, <1>1, <1>3, ViewTake
  <2>2. ~locked BY <1>1, <1>3, MayRun, StoreFree DEF TxMove
  <2> QED BY <1>0, <1>1, <1>3, <2>1, <2>2 DEF RxView!Lock
<1>4. CASE ~locked' /\ a = "unlock" /\ b = "dmat"
  <2>1. RxView!Goto(t, "hold", "idle") BY <1>0, <1>1, <1>4, ViewRelease
  <2> QED BY <1>0, <1>1, <1>4, <2>1 DEF RxView!Unlock
<1> QED BY <1>1, <1>2, <1>3, <1>4

LEMMA RxNext == LinkInv /\ TxP!IInv /\ [Next]_vars => [RxView!Next]_(RxView!vars)
<1> SUFFICES ASSUME LinkInv, TxP!IInv, [Next]_vars PROVE RxView!Next \/ UNCHANGED RxView!vars
  OBVIOUS
<1>1. CASE Line \/ UsartIsr BY <1>1, RxHardware DEF RxView!Next
<1>2. CASE DmaBeat \/ DmaIsr
  <2>1. View' = View BY <1>2, HardwareFrame DEF View
  <2>2. UNCHANGED rxVars BY <1>2 DEF DmaBeat, DmaIsr
  <2>3. locked' = locked BY <1>2, HardwareFrame
  <2> QED BY <2>1, <2>2, <2>3, ViewStutter DEF rxVars
<1>3. CASE NoMove
  <2>1. rpc' = rpc /\ tpc' = tpc BY <1>3 DEF NoMove, rxVars, txVars
  <2>2. View' = View BY <2>1 DEF View
  <2> QED BY <1>3, <2>2, ViewStutter DEF NoMove, rxVars
<1>4. ASSUME NEW t \in Threads, RxMove(t) PROVE RxView!Next
  BY <1>4, RxThread, MayRun DEF RxMove, RxView!Next
<1>5. ASSUME NEW t \in Threads, TxMove(t) PROVE RxView!Next \/ UNCHANGED RxView!vars
  <2>1. RxView!CanRun(t) BY <1>5, MayRun DEF TxMove
  <2> QED BY <1>5, <2>1, TxThread DEF RxView!Next, RxView!Call, RxView!Continue
<1> QED BY <1>1, <1>2, <1>3, <1>4, <1>5, Moves

-----------------------------------------------------------------------------
\* The net thread, the shell and the interrupts call the transmit path only as UartTx
\* allows: what UartTx promises of g_uart_tx_buf and the DMA stream holds of the system
\* in which usart_net_run and the led command are its callers.
THEOREM LinkImplementsTx == Spec => ImplementsTx
<1>1. Init => LinkInv /\ Tx!Init BY LinkInit, TxInit
<1> QED BY <1>1, LinkNext, TxNext, PTL DEF Spec, ImplementsTx

\* ... and the receive path only as UartRx allows, where a thread between __HAL_LOCK and
\* __HAL_UNLOCK of HAL_UART_Transmit_DMA is one that holds huart3.Lock against the
\* HAL_UART_Receive call of USART3_IRQHandler.  That UartRx takes the lock in one step is
\* sound because the store of __HAL_LOCK always finds it free.
THEOREM LinkImplementsRx == Spec => ImplementsRx
<1>1. Init => LinkInv /\ TxP!IInv /\ RxView!Init BY LinkTxInit, RxInit
<1> QED BY <1>1, LinkTxNext, RxNext, PTL DEF Spec, ImplementsRx

-----------------------------------------------------------------------------
(* What the two halves promise, in the composition *)

\* Whatever usart_net_run, the led command and the interrupts do, the lock section of
\* HAL_UART_Transmit_DMA has at most one thread in it, and a handle or stream marked busy
\* has a transfer, an interrupt or a thread that will mark it ready again.
THEOREM LinkTransmits == Spec => [](Tx!LockExclusive /\ Tx!BusyHasOwner)
<1>1. TxP!IInv => Tx!LockExclusive /\ Tx!BusyHasOwner
  BY DEF TxP!IInv, TxP!LockExclusive, TxP!BusyHasOwner, Tx!LockExclusive,
         Tx!BusyHasOwner, TxP!Critical, Tx!Critical, TxP!Starting, Tx!Starting,
         TxP!Running, Tx!Running
<1> QED
  BY <1>1, LinkTxInit, LinkTxNext, PTL DEF Spec

\* ... and the frame that json_deal_cmd is given always ends inside the buffer, also when a
\* byte is appended unread because a thread printing holds huart3.Lock.
THEOREM LinkReceives == Spec => []Rx!Terminated
<1> DEFINE Inv == RxP!TypeOK /\ RxP!Terminated
<1>1. RxP!Init => Inv
  BY RxP!InitOK, Priorities, BufSizeAssumption, MaxBytesAssumption, PromptAssumption
<1>2. Inv /\ [RxP!Next]_(RxP!vars) => Inv'
  BY RxP!NextOK, Priorities, BufSizeAssumption, MaxBytesAssumption, PromptAssumption
<1> HIDE DEF Inv
<1>3. Init => LinkInv /\ TxP!IInv /\ Inv
  BY <1>1, LinkTxInit, RxInit, SameRxInit
<1>4. LinkInv /\ TxP!IInv /\ Inv /\ [Next]_vars => LinkInv' /\ TxP!IInv' /\ Inv'
  BY <1>2, LinkTxNext, RxNext, SameRxNext
<1>5. Inv => Rx!Terminated
  BY DEF Inv, RxP!Terminated, Rx!Terminated, RxP!NUL, Rx!NUL
<1> QED
  BY <1>3, <1>4, <1>5, PTL DEF Spec

-----------------------------------------------------------------------------
(* The heartbeat alone *)

Heart == MsgLen["HEART"]

\* The steps of atk_ide01_uart_printf up to the start of the stream.
Preparing == {"format", "strlen", "ready", "lock", "locking", "busy", "dmalock",
              "dmalocking", "dmatest", "config", "enable"}

\* g_uart_tx_buf holds the first i characters of the heartbeat, or all of it.
Begun(i) == \A j \in 0..i-1 : txbuf[j] = <<"HEART", j>>
Filled == Begun(Heart) /\ txbuf[Heart] = Tx!NUL

\* Only the net thread prints, and only the heartbeat, and the stream is still while it
\* does so: the delay at the end of the round has outlasted the transfer.
Turn ==
    /\ tpc["shell"] = "idle" /\ ctl["shell"] = "prompt" /\ cmds = 0
    /\ tpc["net"] # "idle" => ctl["net"] = "upload" /\ arg["net"] = "HEART"
    /\ en => /\ ctl["net"] \notin {"boot", "heart"} /\ tpc["net"] \notin Preparing
             /\ ctl["net"] = "asleep" => flight

\* What was formatted, counted and sent of it.
Formatted ==
    /\ tpc["net"] = "format" => Begun(k["net"])
    /\ en \/ tpc["net"] \in Tx!Steps \ {"idle", "format"} => Filled
Sized ==
    /\ tpc["net"] \in Preparing \ {"format", "strlen", "enable"} => n["net"] = Heart
    /\ en \/ tpc["net"] = "enable" => ndtr = Heart
Sent ==
    /\ en => Len(burst) = pos /\ \A i \in 1..pos : burst[i] = <<"HEART", i - 1>>
    /\ tc => burst = Text("HEART")

HeartInv == Turn /\ Formatted /\ Sized /\ Sent

\* A step that does not touch the transmit half.
LEMMA HeartStays ==
    ASSUME HeartInv, UNCHANGED txVars, Turn'
    PROVE  HeartInv'
BY DEF HeartInv, Formatted, Sized, Sent, Begun, Filled, txVars, Heart, Text, Tx!NUL

LEMMA HeartInit == Init => HeartInv
<1> SUFFICES ASSUME Init PROVE HeartInv OBVIOUS
<1>1. /\ tpc["net"] = "idle" /\ tpc["shell"] = "idle" /\ en = FALSE /\ tc = FALSE
      /\ ctl["shell"] = "prompt" /\ cmds = 0
  BY DEF Init, Tx!Init, Threads
<1> QED BY <1>1 DEF HeartInv, Turn, Formatted, Sized, Sent, Preparing

\* The types of the transmit half.
LEMMA HeartTypes ==
    ASSUME TxP!IInv
    PROVE  /\ Heart \in 1..TxSize-1 /\ TxSize \in Nat
           /\ txbuf \in [0..TxSize-1 -> Tx!Char] /\ burst \in Seq(Tx!Char)
           /\ pos \in 0..TxSize-1 /\ ndtr \in 0..TxSize-1
           /\ en \in BOOLEAN /\ tc \in BOOLEAN /\ (en => pos < ndtr)
           /\ tpc \in [Threads -> Tx!Steps]
           /\ arg \in [Threads -> Msgs] /\ k \in [Threads -> 0..TxSize-1]
           /\ n \in [Threads -> 0..TxSize-1]
           /\ tpc["net"] = "format" => k["net"] <= MsgLen[arg["net"]]
<1>1. Heart \in 1..TxSize-1 /\ TxSize \in Nat
  BY MsgLenAssumption, TxSizeAssumption DEF Heart, Msgs
<1>2. TxP!TypeOK /\ TxP!FormatOK /\ TxP!CountOK BY DEF TxP!IInv
<1> QED
  BY <1>1, <1>2 DEF TxP!TypeOK, TxP!FormatOK, TxP!CountOK, TxP!Index, TxP!Char, Tx!Char,
     TxP!NUL, Tx!NUL, Tx!Index, TxP!Steps, Tx!Steps, Threads

\* The stream sends the next character of the heartbeat.
LEMMA HeartBeat ==
    ASSUME HeartInv, TxP!IInv, DmaBeat
    PROVE  HeartInv'
<1>1. /\ en /\ burst' = Append(burst, txbuf[pos]) /\ pos' = pos + 1
      /\ tc' = (pos + 1 = ndtr) /\ en' = (pos + 1 # ndtr)
      /\ flight' = (flight /\ en')
      /\ UNCHANGED <<txbuf, ndtr, tpc, arg, k, n, ctl, cmds>>
  BY DEF DmaBeat, Tx!DmaBeat, Tx!locals
<1>2. /\ pos \in 0..TxSize-1 /\ pos < Heart /\ Heart \in 1..TxSize-1 /\ ndtr = Heart
      /\ burst \in Seq(Tx!Char) /\ txbuf[pos] = <<"HEART", pos>>
      /\ Len(burst) = pos /\ \A i \in 1..pos : burst[i] = <<"HEART", i - 1>>
      /\ TxSize \in Nat
  BY <1>1, HeartTypes DEF HeartInv, Sized, Sent, Formatted, Filled, Begun
<1>3. txbuf[pos] \in Tx!Char BY <1>2, HeartTypes
<1>4. /\ Len(burst') = pos + 1 /\ \A i \in 1..pos + 1 : burst'[i] = <<"HEART", i - 1>>
      /\ burst' \in Seq(Tx!Char)
  <2>1. /\ burst' \in Seq(Tx!Char) /\ Len(burst') = pos + 1
        /\ \A i \in 1..pos : burst'[i] = burst[i]
        /\ burst'[pos + 1] = <<"HEART", pos>>
    BY <1>1, <1>2, <1>3
  <2> QED BY <1>2, <2>1
<1>5. tc' => burst' = Text("HEART")
  <2>1. ASSUME tc' PROVE burst' = [i \in 1..Heart |-> <<"HEART", i - 1>>]
    <3>1. pos + 1 = Heart BY <1>1, <1>2, <2>1
    <3>2. burst' = [i \in 1..pos + 1 |-> burst'[i]] BY <1>4
    <3> QED BY <1>4, <3>1, <3>2
  <2> QED BY <2>1 DEF Text, Heart
<1>6. Sent' BY <1>1, <1>4, <1>5 DEF Sent, Text
<1>7. Turn'
  BY <1>1 DEF Turn, HeartInv
<1>8. Formatted' /\ Sized'
  BY <1>1 DEF HeartInv, Formatted, Sized, Filled, Begun, Heart, Tx!NUL
<1> QED BY <1>6, <1>7, <1>8 DEF HeartInv

\* The net thread prints.
LEMMA HeartPrints ==
    ASSUME HeartInv, TxP!IInv, Tx!Continue("net"), UNCHANGED appVars
    PROVE  HeartInv'
<1> USE DEF HeartInv, Preparing
<1>0. /\ tpc \in [Threads -> Tx!Steps] /\ "net" \in Threads /\ "shell" \in Threads
      /\ ctl' = ctl /\ flight' = flight /\ cmds' = cmds
  BY HeartTypes DEF Threads, appVars
<1>a. ASSUME NEW a, NEW b, Tx!Goto("net", a, b)
      PROVE  tpc["net"] = a /\ tpc'["net"] = b /\ tpc'["shell"] = tpc["shell"]
  BY <1>0, <1>a DEF Tx!Goto
<1>1. CASE Tx!Format("net")
  <2> DEFINE i == k["net"]
  <2>0. tpc["net"] = "format" /\ arg["net"] = "HEART" /\ ~en
    <3>1. tpc["net"] = "format" BY <1>1, <1>a DEF Tx!Format
    <3> QED BY <3>1 DEF Turn
  <2>1. /\ tpc["net"] = "format" /\ tpc'["shell"] = "idle" /\ ~en
        /\ tpc'["net"] = IF i < Heart THEN "format" ELSE "strlen"
        /\ txbuf' = [txbuf EXCEPT ![i] = IF i < Heart THEN <<"HEART", i>> ELSE Tx!NUL]
        /\ k' = [k EXCEPT !["net"] = IF i < Heart THEN i + 1 ELSE 0]
        /\ UNCHANGED <<en, ndtr, pos, tc, burst, arg, n>>
    <3>1. /\ Tx!Goto("net", "format", IF i < Heart THEN "format" ELSE "strlen")
          /\ txbuf' = [txbuf EXCEPT ![i] = IF i < Heart THEN <<"HEART", i>> ELSE Tx!NUL]
          /\ k' = [k EXCEPT !["net"] = IF i < Heart THEN i + 1 ELSE 0]
          /\ UNCHANGED <<Tx!stream, arg, n>>
      BY <1>1, <2>0 DEF Tx!Format, Heart
    <3>2. tpc'["shell"] = "idle" BY <3>1, <1>a DEF Turn
    <3> QED BY <2>0, <3>1, <3>2, <1>a DEF Tx!stream
  <2>2. /\ i \in 0..Heart /\ Heart \in 1..TxSize-1 /\ TxSize \in Nat
        /\ txbuf \in [0..TxSize-1 -> Tx!Char] /\ k \in [Threads -> 0..TxSize-1]
    <3>1. /\ Heart \in 1..TxSize-1 /\ TxSize \in Nat
          /\ txbuf \in [0..TxSize-1 -> Tx!Char] /\ k \in [Threads -> 0..TxSize-1]
          /\ k["net"] <= MsgLen["HEART"]
      BY <2>0, HeartTypes
    <3> QED BY <1>0, <3>1 DEF Heart
  <2>3. Begun(i) BY <2>1 DEF Formatted
  <2>4. Turn' BY <1>0, <2>1 DEF Turn
  <2>5. Formatted'
    <3>1. CASE i < Heart
      <4>1. tpc'["net"] = "format" /\ k'["net"] = i + 1 BY <1>0, <2>1, <2>2, <3>1
      <4>2. \A j \in 0..i : txbuf'[j] = <<"HEART", j>>
        BY <2>1, <2>2, <2>3, <3>1 DEF Begun
      <4> QED BY <2>1, <2>2, <4>1, <4>2 DEF Formatted, Begun
    <3>2. CASE i = Heart
      <4>1. tpc'["net"] = "strlen" /\ txbuf'[Heart] = Tx!NUL BY <2>1, <2>2, <3>2
      <4>2. \A j \in 0..Heart-1 : txbuf'[j] = <<"HEART", j>>
        BY <2>1, <2>2, <2>3, <3>2 DEF Begun
      <4> QED BY <4>1, <4>2 DEF Formatted, Begun, Filled, Heart, Tx!NUL
    <3> QED BY <2>2, <3>1, <3>2
  <2>6. Sized' /\ Sent' BY <2>1 DEF Sized, Sent, Text, Heart
  <2> QED BY <2>4, <2>5, <2>6
<1>2. CASE Tx!Strlen("net")
  <2>1. /\ tpc["net"] = "strlen" /\ tpc'["net"] = "ready" /\ tpc'["shell"] = "idle"
        /\ UNCHANGED <<txbuf, en, ndtr, pos, tc, burst, arg, k>> /\ ~en
    BY <1>0, <1>2, <1>a DEF Tx!Strlen, Turn, Tx!stream
  <2>2. PICK i \in Tx!Index : Tx!IsStrlen(i) /\ n' = [n EXCEPT !["net"] = i]
    BY <1>2 DEF Tx!Strlen
  <2>3. Filled BY <2>1 DEF Formatted, Tx!Steps
  <2>4. i = Heart
    <3>1. i \in 0..TxSize-1 /\ Heart \in 0..TxSize-1 /\ TxSize \in Nat
      BY <2>2, HeartTypes DEF Tx!Index
    <3>2. ~(i < Heart)
      <4>1. ASSUME i < Heart PROVE FALSE
        <5>1. txbuf[i] = <<"HEART", i>> BY <2>3, <3>1, <4>1 DEF Filled, Begun
        <5>2. txbuf[i] = << >> BY <2>2 DEF Tx!IsStrlen, Tx!NUL
        <5> QED BY <5>1, <5>2
      <4> QED BY <4>1
    <3>3. ~(Heart < i) BY <2>2, <2>3, <3>1 DEF Tx!IsStrlen, Filled, Tx!Index
    <3> QED BY <3>1, <3>2, <3>3
  <2>5. n'["net"] = Heart BY <1>0, <2>2, <2>4, HeartTypes
  <2>6. Turn' /\ Sent' BY <1>0, <2>1 DEF Turn, Sent, Text
  <2>7. Formatted' /\ Sized'
    BY <2>1, <2>3, <2>5 DEF Formatted, Sized, Filled, Begun, Heart, Tx!NUL
  <2> QED BY <2>6, <2>7
<1>3. CASE Tx!TestReady("net") \/ Tx!TestLock("net") \/ Tx!StoreLock("net")
           \/ Tx!SetBusy("net") \/ Tx!TestDmaLock("net") \/ Tx!StoreDmaLock("net")
           \/ Tx!DmaTest("net")
  <2>1. /\ tpc["net"] \in {"ready", "lock", "locking", "busy", "dmalock", "dmalocking",
                           "dmatest"}
        /\ tpc'["net"] \in {"idle", "lock", "locking", "busy", "dmalock", "dmalocking",
                            "dmatest", "config", "unlock"}
        /\ tpc'["shell"] = tpc["shell"]
        /\ UNCHANGED <<txbuf, en, ndtr, pos, tc, burst, arg, k, n>>
    BY <1>0, <1>3, <1>a DEF Tx!TestReady, Tx!TestLock, Tx!StoreLock, Tx!SetBusy,
       Tx!TestDmaLock, Tx!StoreDmaLock, Tx!DmaTest, Tx!stream
  <2>2. ~en /\ Filled /\ n["net"] = Heart
    BY <2>1 DEF Turn, Formatted, Sized, Tx!Steps
  <2>3. Turn' BY <1>0, <2>1, <2>2 DEF Turn
  <2>4. Formatted' /\ Sized' /\ Sent'
    BY <2>1, <2>2 DEF Formatted, Sized, Sent, Filled, Begun, Heart, Text, Tx!NUL
  <2> QED BY <2>3, <2>4
<1>4. CASE Tx!Config("net")
  <2>1. /\ tpc["net"] = "config" /\ tpc'["net"] = "enable" /\ tpc'["shell"] = tpc["shell"]
        /\ ndtr' = (IF en THEN ndtr ELSE n["net"])
        /\ UNCHANGED <<txbuf, en, pos, tc, burst, arg, k, n>>
    BY <1>0, <1>4, <1>a DEF Tx!Config
  <2>2. ~en /\ Filled /\ n["net"] = Heart
    BY <2>1 DEF Turn, Formatted, Sized, Tx!Steps
  <2>3. Turn' BY <1>0, <2>1, <2>2 DEF Turn
  <2>4. Formatted' /\ Sized' /\ Sent'
    BY <2>1, <2>2 DEF Formatted, Sized, Sent, Filled, Begun, Heart, Text, Tx!NUL
  <2> QED BY <2>3, <2>4
<1>5. CASE Tx!Enable("net")
  <2>1. /\ tpc["net"] = "enable" /\ tpc'["net"] = "unlock" /\ tpc'["shell"] = tpc["shell"]
        /\ en' = TRUE /\ tc' = FALSE /\ pos' = (IF en THEN pos ELSE 0)
        /\ burst' = (IF en THEN burst ELSE << >>)
        /\ UNCHANGED <<txbuf, ndtr, arg, k, n>>
    BY <1>0, <1>5, <1>a DEF Tx!Enable
  <2>2. ~en /\ Filled /\ ndtr = Heart
    BY <2>1 DEF Turn, Formatted, Sized, Tx!Steps
  <2>3. Turn' BY <1>0, <2>1, <2>2 DEF Turn
  <2>4. Formatted' /\ Sized'
    BY <2>1, <2>2 DEF Formatted, Sized, Filled, Begun, Heart, Tx!NUL
  <2>5. Sent' BY <2>1, <2>2 DEF Sent
  <2> QED BY <2>3, <2>4, <2>5
<1>6. CASE Tx!Unlock("net") \/ Tx!SetDmat("net")
  <2>1. /\ tpc["net"] \in {"unlock", "dmat"} /\ tpc'["net"] \in {"dmat", "idle"}
        /\ tpc'["shell"] = tpc["shell"]
        /\ UNCHANGED <<txbuf, en, ndtr, pos, tc, burst, arg, k, n>>
    BY <1>0, <1>6, <1>a DEF Tx!Unlock, Tx!SetDmat, Tx!stream
  <2>2. Turn' BY <1>0, <2>1 DEF Turn
  <2>3. Filled BY <2>1 DEF Formatted, Tx!Steps
  <2>4. Formatted' /\ Sized' /\ Sent'
    BY <2>1, <2>3 DEF Formatted, Sized, Sent, Filled, Begun, Heart, Text, Tx!NUL
  <2> QED BY <2>2, <2>4
<1> QED BY <1>1, <1>2, <1>3, <1>4, <1>5, <1>6 DEF Tx!Continue

\* The program of the net thread between two calls.
LEMMA HeartRound ==
    ASSUME HeartInv, LinkInv, TxP!IInv, ErrFrames = {FALSE},
           NetBoot \/ NetHeart \/ NetUpload \/ NetDeal \/ NetRestart \/ NetSleep \/ NetWake
    PROVE  HeartInv'
<1> USE DEF HeartInv, Preparing
<1>0. /\ tpc \in [Threads -> Tx!Steps] /\ "net" \in Threads /\ "shell" \in Threads
      /\ ctl \in [Threads -> Points]
  BY HeartTypes DEF Threads, LinkInv
<1>a. ASSUME NEW a, NEW b, At("net", a, b)
      PROVE  /\ ctl["net"] = a /\ ctl'["net"] = b /\ ctl'["shell"] = ctl["shell"]
             /\ tpc["net"] = "idle"
  BY <1>0, <1>a DEF At, Returned
<1>1. CASE NetHeart
  <2>1. /\ At("net", "heart", "upload") /\ Tx!Printf("net", "HEART")
        /\ UNCHANGED <<flight, cmds>>
    BY <1>1 DEF NetHeart, Calls, Says
  <2>2. /\ tpc'["net"] = "format" /\ tpc'["shell"] = tpc["shell"]
        /\ arg'["net"] = "HEART" /\ k'["net"] = 0
        /\ UNCHANGED <<txbuf, en, ndtr, pos, tc, burst>>
    BY <2>1, <1>0, HeartTypes DEF Tx!Printf, Tx!Goto, Tx!stream
  <2>3. ~en BY <1>a, <2>1 DEF Turn
  <2>4. Turn' BY <1>a, <2>1, <2>2, <2>3 DEF Turn
  <2>5. Formatted' /\ Sized' /\ Sent'
    BY <2>2, <2>3 DEF Formatted, Sized, Sent, Begun, Text
  <2> QED BY <2>4, <2>5
<1>2. CASE NetBoot \/ NetUpload \/ NetRestart
  <2>1. /\ At("net", "boot", "heart") \/ At("net", "upload", "deal") \/ At("net", "restart", "sleep")
        /\ UNCHANGED txVars /\ UNCHANGED <<flight, cmds>>
    BY <1>2 DEF NetBoot, NetUpload, NetRestart, Calls, Restart
  <2>2. Turn' BY <1>a, <2>1 DEF Turn, txVars
  <2> QED BY <2>1, <2>2, HeartStays
<1>3. CASE NetDeal
  <2>1. /\ At("net", "deal", "sleep") \/ At("net", "deal", "restart")
        /\ UNCHANGED txVars /\ UNCHANGED <<flight, cmds>>
    BY <1>3 DEF NetDeal
  <2>2. Turn' BY <1>a, <2>1 DEF Turn, txVars
  <2> QED BY <2>1, <2>2, HeartStays
<1>4. CASE NetSleep
  <2>1. At("net", "sleep", "asleep") /\ UNCHANGED txVars /\ flight' = en /\ UNCHANGED cmds
    BY <1>4 DEF NetSleep
  <2>2. Turn' BY <1>a, <2>1 DEF Turn, txVars
  <2> QED BY <2>1, <2>2, HeartStays
<1>5. CASE NetWake
  <2>1. At("net", "asleep", "heart") /\ UNCHANGED txVars /\ ~flight /\ UNCHANGED cmds
    BY <1>5 DEF NetWake
  <2>2. Turn' BY <1>a, <2>1 DEF Turn, txVars
  <2> QED BY <2>1, <2>2, HeartStays
<1> QED BY <1>1, <1>2, <1>3, <1>4, <1>5

LEMMA HeartNext ==
    ASSUME ErrFrames = {FALSE}, MaxCmds = 0, HeartInv, LinkInv, TxP!IInv, [Next]_vars
    PROVE  HeartInv'
<1>1. CASE DmaBeat BY <1>1, HeartBeat
<1>2. CASE DmaIsr
  <2>1. /\ tc' = FALSE /\ UNCHANGED <<txbuf, en, ndtr, pos, burst, tpc, arg, k, n>>
        /\ UNCHANGED <<ctl, flight, cmds>>
    BY <1>2 DEF DmaIsr, Tx!DmaIsr, Tx!locals, appVars
  <2> QED BY <2>1 DEF HeartInv, Turn, Formatted, Sized, Sent, Begun, Filled, Heart, Text, Tx!NUL
<1>3. CASE UNCHANGED <<txVars, ctl, flight, cmds>>
  <2>1. Turn' BY <1>3 DEF HeartInv, Turn, txVars
  <2> QED BY <1>3, <2>1, HeartStays
<1>4. CASE Line \/ UsartIsr \/ UNCHANGED vars
  BY <1>3, <1>4 DEF Line, UsartIsr, appVars, vars
<1>5. CASE InCall("net")
  <2>1. CASE Rx!Continue("net") /\ UNCHANGED txVars /\ UNCHANGED appVars
    BY <1>3, <2>1 DEF appVars
  <2>2. CASE Tx!Continue("net") /\ UNCHANGED appVars BY <2>2, HeartPrints
  <2> QED BY <1>5, <2>1, <2>2 DEF InCall
<1>6. CASE Shell
  <2>1. tpc["shell"] = "idle" /\ ctl["shell"] = "prompt" /\ cmds = 0
    BY DEF HeartInv, Turn
  <2>2. ~Tx!Continue("shell") BY <2>1, TxSteps DEF Threads
  <2>3. CASE InCall("shell") BY <1>3, <2>2, <2>3 DEF InCall, appVars
  <2>4. ~ShellCommand BY <2>1 DEF ShellCommand
  <2>5. ~ShellPrint BY <2>1 DEF ShellPrint, Calls, At
  <2> QED BY <1>6, <2>3, <2>4, <2>5 DEF Shell
<1>7. CASE Net BY <1>5, <1>7, HeartRound DEF Net
<1> QED BY <1>1, <1>2, <1>4, <1>6, <1>7 DEF Next

\* usart_net_json_tx sends its text to the server (usart_net.c:149): while the module
\* reports no error and nobody types a led command, every transfer that ends has put
\* exactly the heartbeat on the line, although handle and stream are marked ready at half
\* of it and the results of the HAL functions are ignored.  The disconnect notice and the
\* reply of the led command are thus the only causes of mixed messages.
THEOREM HeartbeatWhole ==
    ASSUME ErrFrames = {FALSE}, MaxCmds = 0
    PROVE  Spec => []WholeMessages
<1> DEFINE Inv == LinkInv /\ TxP!IInv /\ HeartInv
<1>1. Init => Inv BY LinkTxInit, HeartInit
<1>2. Inv /\ [Next]_vars => Inv'
  BY LinkTxNext, HeartNext
<1>3. Inv => WholeMessages
  BY DEF HeartInv, Sent, WholeMessages, Msgs
<1> QED BY <1>1, <1>2, <1>3, PTL DEF Spec
=============================================================================
