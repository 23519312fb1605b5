------------------------------ MODULE NetInit -------------------------------
(***************************************************************************)
(* usart_net_init (usart_net.c): the calls that configure the module, one  *)
(* after the other whatever the earlier ones returned, and the sum of what *)
(* they returned.  (usart_net_run has its call commented out; the module   *)
(* is then configured from a PC.)                                          *)
(***************************************************************************)
EXTENDS AtCmd

VARIABLES
    step,   \* the next call
    ret     \* the sum, an rt_uint8_t

initVars == <<step, ret>>

SetTo(x, v) == [fn |-> "set", x |-> x, v |-> v]
GetOf(x) == [fn |-> "get", x |-> x, v |-> << >>]
Perform(x) == [fn |-> "do", x |-> x, v |-> << >>]

Word(w) == << <<w>> >>

Script == <<
    GetOf("search"),    \* atk_ide01_init
    GetOf("search"), Perform("enter"),
    SetTo("echo", <<"ON">>), SetTo("moduname", Word("ATK-IDE01")),
    SetTo("uart", <<"115200", "1", "8", "NONE">>),
    SetTo("uartpacklen", <<50>>), SetTo("uartpacktime", <<50>>),
    SetTo("ethmod", <<"TCP_CLIENT">>), SetTo("dhcp", <<"OFF">>),
    SetTo("dns", Word("114.114.114.114")), SetTo("remoteip", Word("192.168.10.201")),
    SetTo("remoteport", Word("8080")), SetTo("staticip", Word("192.168.10.58")),
    GetOf("staticip"), Perform("update") >>

ASSUME ScriptAssumption == \A i \in DOMAIN Script : Script[i] \in Calls

Code == [EOK |-> 0, ERROR |-> 1, ETIMEOUT |-> 2, EINVAL |-> 3]

InitStart == Init /\ step = 1 /\ ret = 0

\* Mutant: the result of set_uartpacklen is assigned instead of added.
AddAssigned(res) == ret' = IF step = 8 THEN Code[res] ELSE (ret + Code[res]) % 256

Add(res) == ret' = (ret + Code[res]) % 256

\* What the last call returned is added and the next call is made.
NextCall ==
    /\ pc = "idle" /\ step \in DOMAIN Script
    /\ Call(Script[step])
    /\ Add(last.res) /\ step' = step + 1

\* Mutant: the loop that is commented out at usart_net.c:220-228 is back.
FinishSpins ==
    /\ pc = "idle" /\ step = Len(Script) + 1
    /\ ret + Code[last.res] = 0
    /\ Add(last.res) /\ step' = step + 1
    /\ UNCHANGED vars

\* The last result is added and the sum is looked at.
Finish ==
    /\ pc = "idle" /\ step = Len(Script) + 1
    /\ Add(last.res) /\ step' = step + 1
    /\ UNCHANGED vars

InitNext == NextCall \/ Finish \/ ((Step \/ World) /\ UNCHANGED initVars)

InitSpec ==
    /\ InitStart /\ [][InitNext]_<<vars, initVars>>
    /\ WF_<<vars, initVars>>(NextCall \/ Finish \/ (Step /\ UNCHANGED initVars))
    /\ WF_<<vars, initVars>>(Execute /\ UNCHANGED initVars)
    /\ WF_<<vars, initVars>>(Deliver /\ UNCHANGED initVars)

-----------------------------------------------------------------------------
Finished == step = Len(Script) + 2

\* usart_net.c:217 takes a sum of 0 for "configured": then every setting of the
\* script is in the module's flash, however the module answered on the way.
InitHonest ==
    Finished /\ ret = 0 =>
        \A i \in DOMAIN Script : Script[i].fn = "set" =>
            saved[Script[i].x] = ArgText(Script[i].x, Script[i].v)

\* usart_net_init returns, with a module that does not answer as well.
InitEnds == <>Finished
=============================================================================
