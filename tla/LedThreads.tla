----------------------------- MODULE LedThreads -----------------------------
(***************************************************************************)
(* The static threads of main.c and the shell commands that open and close *)
(* them, over the thread states of the RT-Thread kernel: rt_thread_init,   *)
(* _startup, _detach, _sleep and _timeout, and the scheduler.              *)
(*                                                                         *)
(* A thread has a place in the object list, a state, a place in the ready  *)
(* queue of its priority and a timer.  The tick interrupt may come between *)
(* any two steps of rt_thread_detach, which takes no lock.  An RT_ASSERT   *)
(* that fails spins for ever: in the shell thread, with the scheduler      *)
(* locked, or with the interrupts off.                                     *)
(***************************************************************************)
EXTENDS Naturals

CONSTANT Closed     \* the LEDs whose close command may be given

Leds == {"led0", "led1"}

ASSUME ClosedAssumption == Closed \subseteq Leds

Threads == Leds \cup {"mail_deal", "usart_net"}

\* Mutant: the net thread is given a priority below that of the shell.
PrioNetLow(t) ==
    CASE t = "mail_deal" -> 13
      [] t = "shell"     -> 20
      [] t = "usart_net" -> 21
      [] t = "led1"      -> 22
      [] t = "led0"      -> 23

\* The lower the number, the higher the priority.
Prio(t) ==
    CASE t = "usart_net" -> 12
      [] t = "mail_deal" -> 13
      [] t = "shell"     -> 20
      [] t = "led1"      -> 22
      [] t = "led0"      -> 23

VARIABLES
    listed,     \* [Threads -> BOOLEAN]: type is Class_Thread, in the object list
    stat,       \* thread->stat
    queue,      \* "out" of or "in" the ready queue; "stuck": the queue refers to it
                \* and cannot lose it, since its own links were reset meanwhile
    timer,      \* is thread_timer running
    at,         \* what the thread does next
    pin,        \* [Leds -> {0, 1}]: level of the pin
    sh,         \* what the shell is doing: [step, thread]
    halt        \* "no", or how a failed RT_ASSERT spins: "spin", "locked", "masked"

kernelVars == <<listed, stat, queue, timer>>
vars == <<kernelVars, at, pin, sh, halt>>

Prompt == [step |-> "prompt", thread |-> "shell"]

Init ==
    /\ listed = [t \in Threads |-> FALSE]
    /\ stat = [t \in Threads |-> "init"]
    /\ queue = [t \in Threads |-> "out"]
    /\ timer = [t \in Threads |-> FALSE]
    /\ at = [t \in Threads |-> "begin"]
    /\ pin \in [Leds -> {1}]
    /\ sh = Prompt
    /\ halt = "no"

-----------------------------------------------------------------------------
(* The scheduler *)

Assert(how) == halt' = how

Ready(t) == IF t = "shell" THEN sh # Prompt ELSE queue[t] # "out"

\* The highest ready thread runs; a shell that spins is ready for ever.
CanRun(t) ==
    /\ halt = "no" \/ (halt = "spin" /\ t # "shell")
    /\ Ready(t)
    /\ \A u \in Threads \cup {"shell"} : Ready(u) => Prio(t) <= Prio(u)

\* rt_schedule_insert_thread and rt_schedule_remove_thread
Inserted(t) == IF queue[t] = "stuck" THEN "stuck" ELSE "in"
Removed(t) == IF queue[t] = "stuck" THEN "stuck" ELSE "out"

-----------------------------------------------------------------------------
(* The tick interrupt: rt_thread_timeout *)

\* Mutant: the thread is marked ready but not put in the queue.
TimeoutUnqueued(t) ==
    /\ timer[t] /\ halt # "masked"
    /\ stat[t] = "suspend" /\ listed[t]
    /\ timer' = [timer EXCEPT ![t] = FALSE]
    /\ stat' = [stat EXCEPT ![t] = "ready"]
    /\ UNCHANGED <<listed, queue, at, pin, sh, halt>>

Timeout(t) ==
    /\ timer[t] /\ halt # "masked"
    /\ timer' = [timer EXCEPT ![t] = FALSE]
    /\ IF stat[t] = "suspend" /\ listed[t]
         THEN /\ stat' = [stat EXCEPT ![t] = "ready"]
              /\ queue' = [queue EXCEPT ![t] = Inserted(t)]
              /\ UNCHANGED halt
         ELSE Assert("masked") /\ UNCHANGED <<stat, queue>>
    /\ UNCHANGED <<listed, at, pin, sh>>

-----------------------------------------------------------------------------
(* The threads *)

\* Mutant: rt_timer_start is forgotten.
SleepTimerless(t, next) ==
    /\ stat' = [stat EXCEPT ![t] = "suspend"]
    /\ queue' = [queue EXCEPT ![t] = Removed(t)]
    /\ at' = [at EXCEPT ![t] = next]
    /\ UNCHANGED <<listed, timer, pin, sh, halt>>

\* Mutant: rt_schedule_remove_thread is forgotten.
SleepQueued(t, next) ==
    IF listed[t]
      THEN /\ IF stat[t] = "ready" THEN stat' = [stat EXCEPT ![t] = "suspend"]
                                   ELSE UNCHANGED stat
           /\ timer' = [timer EXCEPT ![t] = TRUE]
           /\ at' = [at EXCEPT ![t] = next]
           /\ UNCHANGED <<listed, queue, pin, sh, halt>>
      ELSE Assert("masked") /\ UNCHANGED <<kernelVars, at, pin, sh>>

\* rt_thread_delay.  rt_thread_suspend refuses a thread that is not ready, and
\* rt_thread_sleep does not look.
Sleep(t, next) ==
    IF listed[t]
      THEN /\ IF stat[t] = "ready"
                THEN /\ stat' = [stat EXCEPT ![t] = "suspend"]
                     /\ queue' = [queue EXCEPT ![t] = Removed(t)]
                ELSE UNCHANGED <<stat, queue>>
           /\ timer' = [timer EXCEPT ![t] = TRUE]
           /\ at' = [at EXCEPT ![t] = next]
           /\ UNCHANGED <<listed, pin, sh, halt>>
      ELSE Assert("masked") /\ UNCHANGED <<kernelVars, at, pin, sh>>

\* led0_thread_entry, led1_thread_entry
LedWrite(l) ==
    /\ CanRun(l)
    /\ \/ at[l] = "begin" /\ pin' = [pin EXCEPT ![l] = 0]
            /\ at' = [at EXCEPT ![l] = "delay0"]
       \/ at[l] = "high" /\ pin' = [pin EXCEPT ![l] = 1]
            /\ at' = [at EXCEPT ![l] = "delay1"]
    /\ UNCHANGED <<kernelVars, sh, halt>>

LedDelay(l) ==
    /\ CanRun(l)
    /\ \/ at[l] = "delay0" /\ Sleep(l, "high")
       \/ at[l] = "delay1" /\ Sleep(l, "begin")

Led(l) == LedWrite(l) \/ LedDelay(l)

\* usart_net_thread_entry: a round of usart_net_run, then its delay
NetRound ==
    /\ CanRun("usart_net") /\ at["usart_net"] = "begin"
    /\ at' = [at EXCEPT !["usart_net"] = "delay"]
    /\ UNCHANGED <<kernelVars, pin, sh, halt>>

NetDelay ==
    /\ CanRun("usart_net") /\ at["usart_net"] = "delay"
    /\ Sleep("usart_net", "begin")

Net == NetRound \/ NetDelay

\* Mutant: rt_mb_recv is called with a timeout of zero.
MailRecvPolls ==
    /\ CanRun("mail_deal")
    /\ at' = [at EXCEPT !["mail_deal"] = IF @ = "begin" THEN "again" ELSE "begin"]
    /\ UNCHANGED <<kernelVars, pin, sh, halt>>

\* mail_deal_thread_entry: rt_mb_recv waits for ever, and nobody sends.
MailRecv ==
    /\ CanRun("mail_deal")
    /\ stat' = [stat EXCEPT !["mail_deal"] = "suspend"]
    /\ queue' = [queue EXCEPT !["mail_deal"] = Removed("mail_deal")]
    /\ UNCHANGED <<listed, timer, at, pin, sh, halt>>

-----------------------------------------------------------------------------
(* The commands of the shell *)

Command ==
    /\ sh = Prompt /\ halt = "no"
    /\ \/ \E t \in Threads : sh' = [step |-> "init", thread |-> t]
       \/ \E l \in Closed : sh' = [step |-> "control", thread |-> l]
    /\ UNCHANGED <<kernelVars, at, pin, halt>>

ShellAt(step) == CanRun("shell") /\ sh.step = step
Go(step) == sh' = [sh EXCEPT !.step = step]

\* led_open, usart_net_open, mail_deal_open: rt_thread_init.  rt_object_init holds
\* the scheduler lock while it looks for the object in the list.
OpenInit ==
    /\ ShellAt("init")
    /\ IF listed[sh.thread]
         THEN Assert("locked") /\ UNCHANGED <<kernelVars, at, sh>>
         ELSE /\ listed' = [listed EXCEPT ![sh.thread] = TRUE]
              /\ stat' = [stat EXCEPT ![sh.thread] = "init"]
              /\ queue' = [queue EXCEPT ![sh.thread] = IF @ = "out" THEN "out" ELSE "stuck"]
              /\ timer' = [timer EXCEPT ![sh.thread] = FALSE]
              /\ at' = [at EXCEPT ![sh.thread] = "begin"]
              /\ Go("startup")
              /\ UNCHANGED halt
    /\ UNCHANGED pin

\* rt_thread_control(RT_THREAD_CTRL_STARTUP): rt_thread_startup, rt_thread_resume
OpenStartup ==
    /\ ShellAt("startup")
    /\ stat' = [stat EXCEPT ![sh.thread] = "ready"]
    /\ queue' = [queue EXCEPT ![sh.thread] = Inserted(sh.thread)]
    /\ timer' = [timer EXCEPT ![sh.thread] = FALSE]
    /\ sh' = Prompt
    /\ UNCHANGED <<listed, at, pin, halt>>

\* Mutant: the test of rt_thread_detach for a thread that was never opened is lost.
CloseControlBlind ==
    /\ ShellAt("control")
    /\ Go("remove")
    /\ UNCHANGED <<kernelVars, at, pin, halt>>

\* led_close: rt_thread_control asserts that the thread is one, and in the case of
\* RT_THREAD_CTRL_CLOSE calls rt_thread_detach, the threads being static.
CloseCase == Go("remove")

CloseControl ==
    /\ ShellAt("control")
    /\ IF listed[sh.thread] THEN CloseCase /\ UNCHANGED halt
                            ELSE Assert("spin") /\ UNCHANGED sh
    /\ UNCHANGED <<kernelVars, at, pin>>

\* Mutant: the state is changed before the timer is stopped.
CloseRemoveEarly ==
    /\ ShellAt("remove")
    /\ queue' = [queue EXCEPT ![sh.thread] = Removed(sh.thread)]
    /\ stat' = [stat EXCEPT ![sh.thread] = "close"]
    /\ Go("timer")
    /\ UNCHANGED <<listed, timer, at, pin, halt>>

\* rt_thread_detach: rt_schedule_remove_thread,
CloseRemove ==
    /\ ShellAt("remove")
    /\ queue' = [queue EXCEPT ![sh.thread] = Removed(sh.thread)]
    /\ Go("timer")
    /\ UNCHANGED <<listed, stat, timer, at, pin, halt>>

\* rt_timer_detach,
CloseTimer ==
    /\ ShellAt("timer")
    /\ timer' = [timer EXCEPT ![sh.thread] = FALSE]
    /\ Go("detach")
    /\ UNCHANGED <<listed, stat, queue, at, pin, halt>>

\* and rt_object_detach
CloseDetach ==
    /\ ShellAt("detach")
    /\ stat' = [stat EXCEPT ![sh.thread] = "close"]
    /\ listed' = [listed EXCEPT ![sh.thread] = FALSE]
    /\ sh' = Prompt
    /\ UNCHANGED <<queue, timer, at, pin, halt>>

Shell ==
    \/ OpenInit \/ OpenStartup
    \/ CloseControl \/ CloseRemove \/ CloseTimer \/ CloseDetach

Next ==
    \/ \E t \in Threads : Timeout(t)
    \/ \E l \in Leds : Led(l)
    \/ Net \/ MailRecv
    \/ Command \/ Shell

\* The tick comes, and the thread that has the processor goes on.  Lower threads
\* are interrupted again and again, by the net thread and by new commands, but both
\* of these wait most of the time: a second per round, a person at the console.
Fairness ==
    /\ \A t \in Threads : WF_vars(Timeout(t))
    /\ \A l \in Leds : SF_vars(Led(l))
    /\ SF_vars(Net) /\ SF_vars(MailRecv) /\ SF_vars(Shell)

Spec == Init /\ [][Next]_vars /\ Fairness

-----------------------------------------------------------------------------
\* The type of the state.
TypeOK ==
    /\ listed \in [Threads -> BOOLEAN]
    /\ stat \in [Threads -> {"init", "ready", "suspend", "close"}]
    /\ queue \in [Threads -> {"out", "in", "stuck"}]
    /\ timer \in [Threads -> BOOLEAN]
    /\ pin \in [Leds -> {0, 1}]
    /\ halt \in {"no", "spin", "locked", "masked"}
    /\ sh = Prompt \/ sh \in [step : {"init", "startup"}, thread : Threads]
         \/ sh \in [step : {"control", "remove", "timer", "detach"}, thread : Closed]
    /\ sh.step \in {"startup", "remove", "timer", "detach"} => listed[sh.thread]

\* thread.c:840: the thread of a timer that expires is suspended and its object is
\* valid, also in the middle of rt_thread_detach and after the thread was opened
\* again.  Otherwise the machine stops inside the tick interrupt.
TimerSound == \A t \in Threads : timer[t] => listed[t] /\ stat[t] = "suspend"

\* No thread is lost: one that is ready is in the queue, but for the steps of
\* rt_thread_detach that have taken it out.
ReadyIsQueued ==
    \A t \in Threads : stat[t] = "ready" =>
        queue[t] # "out" \/ (sh.thread = t /\ sh.step \in {"timer", "detach"})

\* A queue refers to threads that may run: open ones that are ready, and of the others
\* only a LED that was closed, which the tick has put back in the middle of
\* rt_thread_detach.  The links of such a LED, and of no other thread, are lost when it
\* is opened again: rt_thread_init resets them under the queue.
QueueSound ==
    \A t \in Threads :
        /\ queue[t] = "in" => \/ listed[t] /\ stat[t] = "ready"
                              \/ t \in Closed /\ ~listed[t] /\ stat[t] = "close"
        /\ queue[t] = "stuck" => t \in Closed

\* What can stop the machine: opening a thread that is open (object.c:340, under the
\* scheduler lock), closing one that is not (thread.c:665, only the shell), and, with
\* the interrupts off, a LED that was closed and runs on into rt_thread_sleep
\* (thread.c:538).
HaltCauses ==
    /\ halt = "locked" => sh.step = "init" /\ listed[sh.thread]
    /\ halt = "spin" => sh.step = "control" /\ ~listed[sh.thread]
    /\ halt = "masked" => \E l \in Closed : ~listed[l] /\ queue[l] # "out"

\* A LED whose thread is open for good blinks, whatever is opened and closed beside
\* it, unless an assertion has stopped the shell or the machine, or the thread above
\* it can no longer leave the ready queue.
Blinks ==
    \A l \in Leds :
        <>[](listed[l] /\ halt = "no" /\ \A t \in Threads : queue[t] # "stuck")
            => []<>(pin[l] = 0) /\ []<>(pin[l] = 1)

\* main.c:90: closing a LED that is not open stops the shell in an assertion, but not
\* the net thread, whose priority is higher.
NetSurvives ==
    <>[](listed["usart_net"] /\ halt \in {"no", "spin"})
        => []<>(at["usart_net"] = "begin")

\* A command comes back to the prompt unless an assertion fails.
CommandReturns == sh # Prompt ~> sh = Prompt \/ halt # "no"

\* thread.c:327: "This function will detach a thread. The thread object will be
\* removed from thread queue and detached/deleted from system object management."
\* A thread that was closed does nothing any more.
ClosedIsStill ==
    [][\A l \in Leds : ~listed[l] /\ ~listed'[l] => pin'[l] = pin[l]]_vars
=============================================================================
