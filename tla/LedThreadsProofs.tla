-------------------------- MODULE LedThreadsProofs --------------------------
(***************************************************************************)
(* Proofs about LedThreads, whichever LEDs are closed and however often.   *)
(* The three invariants rest on three facts about the steps of             *)
(* rt_thread_detach: the tick cannot start a timer, a LED thread cannot    *)
(* run while the shell is in a command, and only a closed LED can be in    *)
(* the ready queue without being in the object list.  The last three       *)
(* theorems bound what can go wrong: only a LED that was closed loses its  *)
(* links, runs on without its object or stops the machine with the         *)
(* interrupts off.                                                         *)
(***************************************************************************)
EXTENDS LedThreads, TLAPS

\* A listed thread that is in the ready queue was started.
Started ==
    \A t \in Threads : listed[t] /\ queue[t] # "out" =>
        stat[t] \in {"ready", "suspend"} \/ (sh.step = "startup" /\ sh.thread = t)

\* Only a LED can be queued without having been started since it was last listed.
Stray ==
    \A t \in Threads \ Leds : queue[t] # "out" =>
        listed[t] /\ stat[t] \in {"ready", "suspend"}

\* The last step of rt_thread_detach finds the timer stopped.
Stopped == sh.step = "detach" => ~timer[sh.thread]

IInv == TypeOK /\ TimerSound /\ ReadyIsQueued /\ Started /\ Stray /\ Stopped

USE ClosedAssumption

\* A thread of main.c that runs has the processor only when no thread above it is
\* ready; a LED thread only while the shell is at its prompt.
LEMMA RunsAlone ==
    ASSUME IInv, NEW t \in Threads, CanRun(t)
    PROVE  /\ queue[t] # "out"
           /\ t \in Leds => sh = Prompt
           /\ listed[t] => stat[t] \in {"ready", "suspend"}
<1>1. queue[t] # "out"
  BY DEF CanRun, Ready, Threads, Leds
<1>2. ASSUME t \in Leds PROVE sh = Prompt
  <2>1. ~Ready("shell")
    BY <1>2 DEF CanRun, Prio, Leds
  <2> QED BY <2>1 DEF Ready
<1>3. ASSUME listed[t] PROVE stat[t] \in {"ready", "suspend"}
  <2>1. CASE sh.step = "startup" /\ sh.thread = t
    <3>1. t \notin Leds
      BY <2>1, <1>2 DEF Prompt
    <3> QED BY <3>1, <2>1, <1>1, <1>3 DEF IInv, Started, Stray
  <2> QED BY <2>1, <1>1, <1>3 DEF IInv, Started
<1> QED BY <1>1, <1>2, <1>3

LEMMA InitHolds == Init => IInv
BY DEF Init, IInv, TypeOK, TimerSound, ReadyIsQueued, Started, Stray, Stopped, Prompt

\* A thread that goes to sleep.
LEMMA SleepKeeps ==
    ASSUME IInv, NEW t \in Threads, NEW next, CanRun(t), Sleep(t, next)
    PROVE  IInv'
<1> USE DEF IInv, Sleep, kernelVars, Removed, Assert
<1>1. /\ listed[t] => stat[t] \in {"ready", "suspend"}
      /\ queue[t] # "out"
      /\ t \in Leds => sh = Prompt
  BY RunsAlone
<1>2. TypeOK'
  BY ZenonT(30) DEF TypeOK
<1>3. TimerSound'
  BY <1>1 DEF TimerSound, TypeOK
<1>4. ReadyIsQueued'
  BY <1>1 DEF ReadyIsQueued, TypeOK
<1>5. Started'
  BY <1>1 DEF Started, TypeOK
<1>6. Stray'
  BY <1>1 DEF Stray, TypeOK
<1>7. Stopped'
  <2>1. sh.step = "detach" => sh.thread \in Leds
    BY DEF TypeOK, Prompt
  <2>2. sh.step = "detach" => sh.thread # t
    BY <1>1, <2>1 DEF Prompt
  <2> QED BY <2>2, <2>1 DEF Stopped, TypeOK, Threads
<1> QED BY <1>2, <1>3, <1>4, <1>5, <1>6, <1>7

\* The tick interrupt, at any step of any thread or command.
LEMMA TimeoutKeeps ==
    ASSUME IInv, NEW t \in Threads, Timeout(t)
    PROVE  IInv'
<1> USE DEF IInv, Timeout, Inserted, Assert
<1>1. listed[t] /\ stat[t] = "suspend"
  BY DEF TimerSound
<1>2. TypeOK'
  BY <1>1 DEF TypeOK
<1>3. TimerSound'
  BY <1>1 DEF TimerSound, TypeOK
<1>4. ReadyIsQueued'
  BY <1>1 DEF ReadyIsQueued, TypeOK
<1>5. Started'
  BY <1>1 DEF Started, TypeOK
<1>6. Stray'
  BY <1>1 DEF Stray, TypeOK
<1>7. Stopped'
  BY DEF Stopped, TypeOK
<1> QED BY <1>2, <1>3, <1>4, <1>5, <1>6, <1>7

LEMMA ThreadsKeep ==
    ASSUME IInv, (\E l \in Leds : Led(l)) \/ Net \/ MailRecv
    PROVE  IInv'
<1> USE DEF IInv
<1>1. ASSUME NEW l \in Leds, LedWrite(l) PROVE IInv'
  <2>1. pin' \in [Leds -> {0, 1}]
    BY <1>1 DEF LedWrite, TypeOK
  <2> QED BY <1>1, <2>1 DEF LedWrite, kernelVars, TypeOK, TimerSound,
             ReadyIsQueued, Started, Stray, Stopped
<1>2. ASSUME NEW l \in Leds, LedDelay(l) PROVE IInv'
  BY <1>2, SleepKeeps DEF LedDelay, Threads
<1>3. CASE NetRound
  BY <1>3 DEF NetRound, kernelVars, TypeOK, TimerSound, ReadyIsQueued, Started,
     Stray, Stopped
<1>4. CASE NetDelay
  BY <1>4, SleepKeeps DEF NetDelay, Threads
<1>5. CASE MailRecv
  <2> DEFINE t == "mail_deal"
  <2>0. t \in Threads /\ t \notin Leds /\ queue[t] # "out"
    BY <1>5, RunsAlone DEF MailRecv, Threads, Leds
  <2>1. listed[t]
    BY <2>0 DEF Stray
  <2> HIDE DEF t
  <2> USE <2>0, <2>1, <1>5 DEF MailRecv, Removed
  <2>2. /\ stat' = [stat EXCEPT ![t] = "suspend"]
        /\ queue' = [queue EXCEPT ![t] = Removed(t)]
        /\ UNCHANGED <<listed, timer, at, pin, sh, halt>>
    BY DEF t
  <2>3. TypeOK'
    BY <2>2 DEF TypeOK
  <2>4. TimerSound'
    BY <2>2 DEF TimerSound, TypeOK
  <2>5. ReadyIsQueued'
    BY <2>2 DEF ReadyIsQueued, TypeOK
  <2>6. Started'
    BY <2>2 DEF Started, TypeOK
  <2>7. Stray'
    BY <2>2 DEF Stray, TypeOK
  <2>8. Stopped'
    BY <2>2 DEF Stopped, TypeOK
  <2> QED BY <2>3, <2>4, <2>5, <2>6, <2>7, <2>8
<1> QED BY <1>1, <1>2, <1>3, <1>4, <1>5 DEF Led, Net

LEMMA CommandsKeep ==
    ASSUME IInv, Command \/ Shell
    PROVE  IInv'
<1> USE DEF IInv, kernelVars, Assert, ShellAt, Go
<1>0. Closed \subseteq Threads /\ Leds \subseteq Threads
  BY DEF Threads
<1>1. CASE Command
  <2>1. TypeOK'
    BY <1>1, <1>0 DEF Command, TypeOK, Prompt
  <2>2. sh.step = "prompt" /\ sh'.step \in {"init", "control"}
    BY <1>1 DEF Command, Prompt
  <2> QED BY <1>1, <2>1, <2>2 DEF Command, TimerSound, ReadyIsQueued, Started,
             Stray, Stopped
<1>2. CASE OpenInit /\ listed[sh.thread]
  BY <1>2 DEF OpenInit, TypeOK, TimerSound, ReadyIsQueued, Started, Stray, Stopped
<1>3. CASE OpenInit /\ ~listed[sh.thread]
  <2> USE <1>3 DEF OpenInit
  <2>0. sh \in [step : {"init", "startup"}, thread : Threads] /\ sh.step = "init"
    BY <1>0 DEF TypeOK, Prompt
  <2>1. sh' = [step |-> "startup", thread |-> sh.thread]
    BY <2>0
  <2>2. TypeOK'
    BY <2>0, <2>1, ZenonT(30) DEF TypeOK
  <2>3. TimerSound'
    BY <2>0 DEF TimerSound, TypeOK
  <2>4. ReadyIsQueued'
    BY <2>0, <2>1 DEF ReadyIsQueued, TypeOK
  <2>5. Started'
    BY <2>0, <2>1 DEF Started, TypeOK
  <2>6. Stray'
    BY <2>0 DEF Stray, TypeOK
  <2>7. Stopped'
    BY <2>1 DEF Stopped
  <2> QED BY <2>2, <2>3, <2>4, <2>5, <2>6, <2>7
<1>4. CASE OpenStartup
  <2> USE <1>4 DEF OpenStartup, Inserted, Prompt
  <2>0. sh.thread \in Threads /\ listed[sh.thread]
    BY <1>0 DEF TypeOK
  <2>2. TypeOK'
    BY <2>0 DEF TypeOK
  <2>3. TimerSound'
    BY <2>0 DEF TimerSound, TypeOK
  <2>4. ReadyIsQueued'
    BY <2>0 DEF ReadyIsQueued, TypeOK
  <2>5. Started'
    BY <2>0 DEF Started, TypeOK
  <2>6. Stray'
    BY <2>0 DEF Stray, TypeOK
  <2> QED BY <2>2, <2>3, <2>4, <2>5, <2>6 DEF Stopped
<1>5. ASSUME CloseControl \/ CloseRemove \/ CloseTimer \/ CloseDetach
      PROVE  IInv'
  <2> DEFINE t == sh.thread
  <2>0. /\ t \in Closed /\ t \in Leds /\ t \in Threads
        /\ sh = [step |-> sh.step, thread |-> t]
    BY <1>5, <1>0 DEF TypeOK, Prompt, CloseControl, CloseRemove, CloseTimer, CloseDetach
  <2>1. CASE CloseControl
    <3>1. TypeOK'
      BY <2>1, <2>0 DEF CloseControl, CloseCase, TypeOK
    <3>2. sh.step = "control" /\ sh'.step \in {"control", "remove"}
      BY <2>1, <2>0 DEF CloseControl, CloseCase
    <3> QED BY <2>1, <3>1, <3>2 DEF CloseControl, TimerSound, ReadyIsQueued,
               Started, Stray, Stopped
  <2>2. CASE CloseRemove
    <3> USE <2>2, <2>0 DEF CloseRemove, Removed
    <3>1. sh' = [step |-> "timer", thread |-> t] /\ sh.step = "remove"
      BY <2>0
    <3>2. TypeOK'
      BY <3>1 DEF TypeOK
    <3>3. ReadyIsQueued'
      BY <3>1 DEF ReadyIsQueued, TypeOK
    <3>4. Started'
      BY <3>1 DEF Started, TypeOK
    <3>5. Stray'
      BY <3>1 DEF Stray, TypeOK
    <3> QED BY <3>1, <3>2, <3>3, <3>4, <3>5 DEF TimerSound, Stopped
  <2>3. CASE CloseTimer
    <3> USE <2>3, <2>0 DEF CloseTimer
    <3>1. sh' = [step |-> "detach", thread |-> t] /\ sh.step = "timer"
      BY <2>0
    <3>2. TypeOK'
      BY <3>1 DEF TypeOK
    <3>3. TimerSound' /\ Stopped'
      BY <3>1 DEF TimerSound, Stopped, TypeOK
    <3>4. ReadyIsQueued'
      BY <3>1 DEF ReadyIsQueued
    <3> QED BY <3>1, <3>2, <3>3, <3>4 DEF Started, Stray
  <2>4. CASE CloseDetach
    <3> USE <2>4, <2>0 DEF CloseDetach, Prompt
    <3>1. sh.step = "detach" /\ ~timer[t]
      BY DEF Stopped
    <3>2. TypeOK'
      BY <3>1 DEF TypeOK
    <3>3. TimerSound'
      BY <3>1 DEF TimerSound, TypeOK
    <3>4. ReadyIsQueued'
      BY <3>1 DEF ReadyIsQueued, TypeOK
    <3>5. Started' /\ Stray'
      BY <3>1 DEF Started, Stray, TypeOK
    <3> QED BY <3>2, <3>3, <3>4, <3>5 DEF Stopped
  <2> QED BY <1>5, <2>1, <2>2, <2>3, <2>4
<1> QED BY <1>1, <1>2, <1>3, <1>4, <1>5 DEF Shell

LEMMA Inductive == Spec => []IInv
<1>1. ASSUME IInv, [Next]_vars PROVE IInv'
  <2>1. CASE UNCHANGED vars
    BY <1>1, <2>1 DEF vars, kernelVars, IInv, TypeOK, TimerSound, ReadyIsQueued,
       Started, Stray, Stopped
  <2> QED BY <1>1, <2>1, TimeoutKeeps, ThreadsKeep, CommandsKeep DEF Next
<1> QED BY <1>1, InitHolds, PTL DEF Spec

\* Type correctness: no command works on a thread that is not in the object list,
\* once rt_thread_control has tested it (main.c:87-126).
THEOREM TypeCorrect == Spec => []TypeOK
BY Inductive, PTL DEF IInv

\* The assertion in rt_thread_timeout (thread.c:840) never stops the machine inside
\* the tick interrupt, although rt_thread_detach takes no lock: a timer that runs
\* belongs to a suspended thread in the object list.
THEOREM TickNeverAsserts == Spec => []TimerSound
BY Inductive, PTL DEF IInv

\* No ready thread is lost from the queues of scheduler.c, but for the steps of
\* rt_thread_detach (thread.c:347-349) that take it out.
THEOREM NoThreadLost == Spec => []ReadyIsQueued
BY Inductive, PTL DEF IInv

-----------------------------------------------------------------------------
(* Closing is the only cause of what goes wrong *)

Orderly == QueueSound /\ HaltCauses

\* A thread that has the processor and is not open is a LED that was closed.
LEMMA StraysAreClosed ==
    ASSUME IInv, QueueSound, NEW t \in Threads, CanRun(t), ~listed[t]
    PROVE  t \in Closed /\ queue[t] # "out"
<1>1. queue[t] \in {"in", "stuck"} BY RunsAlone DEF IInv, TypeOK
<1> QED BY <1>1 DEF QueueSound

LEMMA SleepOrderly ==
    ASSUME IInv, Orderly, NEW t \in Threads, NEW next, CanRun(t), Sleep(t, next)
    PROVE  Orderly'
<1> USE DEF Orderly
<1>0. TypeOK /\ Closed \subseteq Threads BY DEF IInv, Threads
<1>1. CASE listed[t]
  <2>1. UNCHANGED <<listed, sh, halt>> BY <1>1 DEF Sleep
  <2>2. \A u \in Threads : u # t => stat'[u] = stat[u] /\ queue'[u] = queue[u]
    BY <1>0, <1>1 DEF Sleep, TypeOK
  <2>3. queue'[t] \in {"out", "stuck"} /\ (queue'[t] = "stuck" => queue[t] = "stuck")
    BY <1>0, <1>1, RunsAlone DEF Sleep, Removed, TypeOK, QueueSound
  <2>4. QueueSound' BY <2>1, <2>2, <2>3 DEF QueueSound
  <2>5. HaltCauses'
    <3>1. halt # "masked" BY DEF CanRun
    <3> QED BY <2>1, <3>1 DEF HaltCauses
  <2> QED BY <2>4, <2>5
<1>2. CASE ~listed[t]
  <2>1. halt' = "masked" /\ UNCHANGED <<kernelVars, sh>> BY <1>2 DEF Sleep, Assert
  <2>2. t \in Closed /\ queue[t] # "out" BY <1>2, StraysAreClosed
  <2> QED BY <1>2, <2>1, <2>2 DEF QueueSound, HaltCauses, kernelVars
<1> QED BY <1>1, <1>2

LEMMA OrderlyNext ==
    ASSUME IInv, Orderly, [Next]_vars
    PROVE  Orderly'
<1> USE DEF Orderly
<1>0. TypeOK /\ Closed \subseteq Threads /\ Leds \subseteq Threads
  BY DEF IInv, Threads
<1>1. ASSUME NEW t \in Threads, Timeout(t) PROVE Orderly'
  <2>1. /\ listed[t] /\ stat' = [stat EXCEPT ![t] = "ready"]
        /\ queue' = [queue EXCEPT ![t] = Inserted(t)] /\ UNCHANGED <<listed, sh, halt>>
        /\ halt # "masked"
    BY <1>1 DEF Timeout, IInv, TimerSound
  <2>2. QueueSound' BY <1>0, <2>1 DEF QueueSound, Inserted, TypeOK
  <2> QED BY <2>1, <2>2 DEF HaltCauses
<1>2. ASSUME NEW l \in Leds, Led(l) PROVE Orderly'
  <2>1. CASE LedWrite(l)
    BY <2>1 DEF LedWrite, kernelVars, QueueSound, HaltCauses
  <2>2. CASE LedDelay(l) BY <1>0, <2>2, SleepOrderly DEF LedDelay
  <2> QED BY <1>2, <2>1, <2>2 DEF Led
<1>3. CASE Net
  <2>1. CASE NetRound BY <2>1 DEF NetRound, kernelVars, QueueSound, HaltCauses
  <2>2. CASE NetDelay BY <2>2, SleepOrderly DEF NetDelay, Threads
  <2> QED BY <1>3, <2>1, <2>2 DEF Net
<1>4. CASE MailRecv
  <2>1. "mail_deal" \in Threads \ Closed /\ halt # "masked"
    BY <1>4 DEF Threads, Leds, MailRecv, CanRun
  <2>2. queue["mail_deal"] # "stuck" BY <2>1 DEF QueueSound
  <2> QED BY <1>0, <1>4, <2>1, <2>2 DEF MailRecv, Removed, TypeOK, QueueSound, HaltCauses
<1>5. CASE Command
  BY <1>5 DEF Command, kernelVars, QueueSound, HaltCauses
<1>6. CASE Shell
  <2>0. halt = "no" /\ halt # "masked"
    BY <1>6 DEF Shell, OpenInit, OpenStartup, CloseControl, CloseRemove, CloseTimer,
       CloseDetach, ShellAt, CanRun
  <2>1. CASE OpenInit
    <3>1. sh.thread \in Threads /\ sh.step = "init"
      BY <1>0, <2>1 DEF OpenInit, ShellAt, TypeOK, Prompt
    <3>2. CASE listed[sh.thread]
      BY <2>1, <3>1, <3>2 DEF OpenInit, Assert, kernelVars, QueueSound, HaltCauses
    <3>3. CASE ~listed[sh.thread]
      <4>1. /\ listed' = [listed EXCEPT ![sh.thread] = TRUE]
            /\ stat' = [stat EXCEPT ![sh.thread] = "init"]
            /\ queue' = [queue EXCEPT ![sh.thread] = IF @ = "out" THEN "out" ELSE "stuck"]
            /\ halt' = halt
        BY <2>1, <3>3 DEF OpenInit
      <4>2. queue[sh.thread] # "out" => sh.thread \in Closed
        BY <1>0, <3>1, <3>3 DEF QueueSound, TypeOK
      <4>3. QueueSound' BY <1>0, <3>1, <4>1, <4>2 DEF QueueSound, TypeOK
      <4> QED BY <2>0, <4>1, <4>3 DEF HaltCauses
    <3> QED BY <3>2, <3>3
  <2>2. CASE OpenStartup
    <3>1. sh.thread \in Threads /\ listed[sh.thread] /\ halt' = halt
      BY <1>0, <2>2 DEF OpenStartup, ShellAt, TypeOK, Prompt
    <3>2. QueueSound'
      BY <1>0, <2>2, <3>1 DEF OpenStartup, Inserted, QueueSound, TypeOK
    <3> QED BY <2>0, <3>1, <3>2 DEF HaltCauses
  <2>3. CASE CloseControl
    BY <2>0, <2>3 DEF CloseControl, ShellAt, Assert, kernelVars, QueueSound, HaltCauses
  <2>4. CASE CloseRemove \/ CloseTimer \/ CloseDetach
    <3>1. sh.thread \in Closed /\ halt' = halt
      BY <1>0, <2>4 DEF CloseRemove, CloseTimer, CloseDetach, ShellAt, TypeOK, Prompt
    <3>2. QueueSound'
      BY <1>0, <2>4, <3>1 DEF CloseRemove, CloseTimer, CloseDetach, Removed, QueueSound,
         TypeOK
    <3> QED BY <2>0, <3>1, <3>2 DEF HaltCauses
  <2> QED BY <1>6, <2>1, <2>2, <2>3, <2>4 DEF Shell
<1>7. CASE UNCHANGED vars BY <1>7 DEF vars, kernelVars, QueueSound, HaltCauses
<1> QED BY <1>1, <1>2, <1>3, <1>4, <1>5, <1>6, <1>7 DEF Next

LEMMA OrderlyHolds == Spec => [](IInv /\ Orderly)
<1>1. Init => Orderly BY DEF Init, Orderly, QueueSound, HaltCauses
<1>2. IInv /\ Orderly /\ [Next]_vars => Orderly' BY OrderlyNext
<1> QED BY <1>1, <1>2, Inductive, PTL DEF Spec

\* Whichever LEDs are closed, whenever the tick comes and however often they are opened
\* again: the queues of scheduler.c refer to open threads that are ready and to LEDs that
\* were closed, and the links of a thread whose close command is not given are never lost.
THEOREM QueuesSound == Spec => []QueueSound
BY OrderlyHolds, PTL DEF Orderly

\* Of the assertions that these threads pass in the kernel only three can fail: object.c:340 for
\* a thread that is opened twice, thread.c:665 for one that is closed and not open, and
\* thread.c:538 in a LED that was closed and is still queued.
THEOREM HaltsExplained == Spec => []HaltCauses
BY OrderlyHolds, PTL DEF Orderly

\* A LED thread that runs writes its pin; one that is never closed does so only while it
\* is in the object list.
LEMMA WritesListed ==
    ASSUME IInv, Orderly, [Next]_vars, NEW l \in Leds \ Closed, ~listed[l]
    PROVE  pin'[l] = pin[l]
<1>0. l \in Threads /\ queue[l] = "out" /\ pin \in [Leds -> {0, 1}]
  BY DEF Orderly, QueueSound, Threads, IInv, TypeOK
<1>1. ASSUME NEW m \in Leds, LedWrite(m) PROVE pin'[l] = pin[l]
  <2>1. m # l BY <1>0, <1>1, RunsAlone DEF LedWrite
  <2> QED BY <1>0, <1>1, <2>1 DEF LedWrite
<1>2. ASSUME NEW t, NEW next, Sleep(t, next) PROVE pin' = pin
  BY <1>2 DEF Sleep
<1>3. CASE \E m \in Leds : Led(m) BY <1>1, <1>2, <1>3 DEF Led, LedDelay
<1>4. CASE Net BY <1>2, <1>4 DEF Net, NetRound, NetDelay
<1>5. CASE Shell
  BY <1>5 DEF Shell, OpenInit, OpenStartup, CloseControl, CloseRemove, CloseTimer, CloseDetach
<1>6. CASE (\E t \in Threads : Timeout(t)) \/ MailRecv \/ Command \/ UNCHANGED vars
  BY <1>6 DEF Timeout, MailRecv, Command, vars
<1> QED BY <1>3, <1>4, <1>5, <1>6 DEF Next

\* A tick in the middle of rt_thread_detach (thread.c:347) puts the thread back in the
\* ready queue, and it goes on without its object.  This happens to no other thread: the
\* pin of a LED whose close command is never given moves only while the thread is open,
\* whatever becomes of the other LED.
THEOREM OnlyClosedGoOn ==
    Spec => [][\A l \in Leds \ Closed : ~listed[l] => pin'[l] = pin[l]]_vars
<1>1. IInv /\ Orderly /\ [Next]_vars =>
          [\A l \in Leds \ Closed : ~listed[l] => pin'[l] = pin[l]]_vars
  BY WritesListed
<1> QED BY <1>1, OrderlyHolds, PTL DEF Spec
=============================================================================
