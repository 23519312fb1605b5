------------------------------- MODULE AtCmd --------------------------------
(***************************************************************************)
(* atk_net.c at work: atk_ide01_send_at_cmd, which empties the receive     *)
(* buffer, prints one command and polls for a frame that contains "OK",    *)
(* and the functions built on it.  All of them have one of three shapes:   *)
(* set a setting, get one, or have the module do something.                *)
(*                                                                         *)
(* The module at the other end of the UART is external.  It takes          *)
(* commands in order and answers each with one or two chunks, a chunk      *)
(* being what arrives between two idle lines; chunks that arrive without   *)
(* a restart in between pile up in the buffer.                             *)
(***************************************************************************)
EXTENDS AtApi, SequencesExt

CONSTANTS
    Calls,      \* the calls made: records with fn, x and v
    Start,      \* the module's settings at the start: [settings -> parameters]
    Layout,     \* how the module writes the answers that LineRead names
    Timeout,    \* ATK_IDE01_AT_TIMEOUT
    Timely,     \* every answer comes before the command that asked times out
    Lossy,      \* commands and answers can get lost on the UART
    Split,      \* may an answer come in two chunks?  a set of BOOLEANs
    MaxPending  \* bound on commands and chunks under way

Fns == {"set", "get", "do"}
Settings == DOMAIN Start

\* The settings that have a set function.
Settable ==
    ({"uart"} \cup DOMAIN Enum \cup DOMAIN Numeric \cup Verbatim \cup LineRead)
        \ {"netlksta", "linknum", "version"}

Layouts == {"plain", "blank", "quoted"}
BLANK == " "
QUOTE == "\""

ASSUME CallsAssumption == \A c \in Calls :
    /\ c.fn \in Fns
    /\ c.fn \in {"set", "get"} => c.x \in Settings
    /\ c.fn = "set" => c.x \in Settable
\* The arguments are what the prototypes of the set functions say: all but set_uart
\* have one, a text or a number.  A text behind '=' begins with neither blank nor quote
\* and a MAC has 17 characters.
ASSUME ArgsAssumption == \A c \in Calls : c.fn = "set" =>
    /\ c.x # "uart" => c.v = <<c.v[1]>>
    /\ c.x \in Verbatim \cup LineRead => c.v[1] \in Text
    /\ c.x \in LineRead => c.v[1] # << >> /\ c.v[1][1] \notin {BLANK, QUOTE}
    /\ c.x = "mac" => Len(c.v[1]) = 17
ASSUME StartAssumption == Start \in [Settings -> Seq(Text)]
ASSUME LayoutAssumption == Layout \in [LineRead -> Layouts]
ASSUME TimeoutAssumption == Timeout \in Nat \ {0}
ASSUME FlagsAssumption == Timely \in BOOLEAN /\ Lossy \in BOOLEAN /\ Split \in SUBSET BOOLEAN
ASSUME MaxPendingAssumption == MaxPending \in Nat \ {0}

VARIABLES
    rx,             \* the chunks in g_uart_rx_frame, [par, ok] each
    pc, call, todo, \* step of the caller, its call, the commands still to send
    timeout,        \* the count in atk_ide01_send_at_cmd
    last,           \* history: the call that returned last, and what it returned
    wire, back,     \* commands and chunks under way
    setting, saved, \* module: settings, and those kept in its flash
    atmode          \* module: it is in AT command mode

driver == <<rx, pc, call, todo, timeout, last>>
module == <<setting, saved, atmode>>
vars == <<driver, wire, back, module>>

NoCall == [fn |-> "do", x |-> "none", v |-> << >>]

Init ==
    /\ rx = << >> /\ pc = "idle" /\ call = NoCall /\ todo = << >> /\ timeout = 0
    /\ last = [call |-> NoCall, res |-> "EOK", heard |-> << >>, val |-> << >>]
    /\ wire = << >> /\ back = << >>
    /\ setting = Start /\ saved = Start /\ atmode \in BOOLEAN

-----------------------------------------------------------------------------
(* The functions of atk_net.c *)

Return(res, heard, val) ==
    /\ pc' = "idle" /\ todo' = << >> /\ timeout' = 0 /\ call' = NoCall
    /\ last' = [call |-> call, res |-> res, heard |-> heard, val |-> val]

Command(op, x, p) == [op |-> op, x |-> x, p |-> p]

\* The commands a call sends; atk_ide01_enter_at_mode sends two.
Commands(c) ==
    CASE c.fn = "set" -> <<Command("set", c.x, ArgText(c.x, c.v))>>
      [] c.fn = "get" -> <<Command("get", c.x, << >>)>>
      [] c.fn = "do" /\ c.x = "enter" ->
            <<Command("get", "search", << >>), Command("do", "enter", << >>)>>
      [] OTHER -> <<Command("do", c.x, << >>)>>

\* A function is called; a value it does not accept is EINVAL and sends nothing.
Call(c) ==
    /\ pc = "idle" /\ Len(wire) + Len(back) < MaxPending
    /\ IF c.fn = "set" /\ ~Accepts(c.x, c.v)
         THEN /\ last' = [call |-> c, res |-> "EINVAL", heard |-> << >>, val |-> << >>]
              /\ UNCHANGED <<pc, call, todo, timeout>>
         ELSE /\ pc' = "send" /\ call' = c /\ todo' = Commands(c)
              /\ UNCHANGED <<timeout, last>>
    /\ UNCHANGED <<rx, wire, back, module>>

\* atk_ide01_send_at_cmd: restart and print; a busy UART drops what is printed.
Send ==
    /\ pc = "send" /\ pc' = "wait"
    /\ rx' = << >> /\ timeout' = Timeout
    /\ \/ wire' = Append(wire, Head(todo))
       \/ Lossy /\ wire' = wire
    /\ UNCHANGED <<call, todo, last, back, module>>

\* Mutant: any frame will do.
AckedByAnyFrame == rx # << >>

Acked == \E i \in DOMAIN rx : rx[i].ok

\* The frame contains "OK": on with the next command, or to the end of the call.
Ack ==
    /\ pc = "wait" /\ Acked
    /\ IF Len(todo) > 1 THEN pc' = "send" ELSE pc' = "ready"
    /\ todo' = Tail(todo)
    /\ UNCHANGED <<rx, call, timeout, last, wire, back, module>>

\* Mutant: the loop ends one round late.
TickOneMore ==
    /\ pc = "wait" /\ ~Acked
    /\ Timely /\ timeout = 1 => wire = << >> /\ back = << >>
    /\ rx' = << >>
    /\ IF timeout >= 1
         THEN timeout' = timeout - 1 /\ UNCHANGED <<pc, call, todo, last>>
         ELSE Return("ERROR", << >>, << >>)
    /\ UNCHANGED <<wire, back, module>>

\* Mutant: the count does not go down.
TickForever ==
    /\ pc = "wait" /\ ~Acked
    /\ rx' = << >>
    /\ UNCHANGED <<pc, call, todo, timeout, last, wire, back, module>>

\* One round of the loop without "OK": a frame is dropped, the count goes down;
\* every function turns ETIMEOUT into ERROR.
Tick ==
    /\ pc = "wait" /\ ~Acked
    /\ Timely /\ timeout = 1 => wire = << >> /\ back = << >>
    /\ rx' = << >>
    /\ IF timeout > 1
         THEN timeout' = timeout - 1 /\ UNCHANGED <<pc, call, todo, last>>
         ELSE Return("ERROR", << >>, << >>)
    /\ UNCHANGED <<wire, back, module>>

\* The parameters of everything in the buffer, from its first '=' on.
ParamsOf(chunks) == FlattenSeq([i \in DOMAIN chunks |-> chunks[i].par])

SetDone ==
    /\ pc = "ready" /\ call.fn \in {"set", "do"}
    /\ Return("EOK", << >>, << >>)
    /\ UNCHANGED <<rx, wire, back, module>>

\* A get function fetches the frame again and takes its parameters apart.
GetDone ==
    /\ pc = "ready" /\ call.fn = "get"
    /\ LET p == ParamsOf(rx)
           val == Value(call.x, p)
       IN  Return(IF val = << >> THEN "ERROR" ELSE "EOK", p, val)
    /\ UNCHANGED <<rx, wire, back, module>>

-----------------------------------------------------------------------------
(* The module and the line (external) *)

Chunk(p, ok) == [par |-> p, ok |-> ok]

\* The answer to a get command for x: quoted parameters, but those of LineRead are
\* laid out in one of three ways.
Laid(layout, text) ==
    CASE layout = "plain" -> text
      [] layout = "blank" -> <<BLANK>> \o text
      [] layout = "quoted" -> <<QUOTE>> \o text \o <<QUOTE>>
Answer(x, p) ==
    IF x \in LineRead THEN [i \in DOMAIN p |-> Laid(Layout[x], p[i])] ELSE p

Apply(c) ==
    /\ setting' = CASE c.op = "set" -> [setting EXCEPT ![c.x] = c.p]
                    [] c.op = "do" /\ c.x = "reset" -> saved
                    [] OTHER -> setting
    /\ saved' = IF c.op = "do" /\ c.x = "update" THEN setting ELSE saved
    /\ atmode' = CASE c.op = "do" /\ c.x \in {"reset", "exit"} -> FALSE
                   [] c.op = "do" /\ c.x = "enter" -> TRUE
                   [] OTHER -> atmode

\* In AT mode a command is carried out or refused; in data mode all but the search
\* and AT_INTO go to the TCP server and nothing is answered.
Execute ==
    /\ wire # << >> /\ wire' = Tail(wire)
    /\ LET c == Head(wire)
           p == IF c.op = "get" THEN Answer(c.x, setting[c.x]) ELSE << >>
       IN  IF atmode \/ c.x \in {"search", "enter"}
             THEN \/ /\ Apply(c)
                     /\ \E split \in Split :
                          back' = back \o IF split /\ p # << >>
                                            THEN <<Chunk(p, FALSE), Chunk(<< >>, TRUE)>>
                                            ELSE <<Chunk(p, TRUE)>>
                  \/ /\ back' = Append(back, Chunk(<< >>, FALSE))
                     /\ UNCHANGED module
             ELSE UNCHANGED <<back, module>>
    /\ UNCHANGED driver

\* UartRx: what arrives is added to the buffer.
Deliver ==
    /\ back # << >> /\ back' = Tail(back)
    /\ rx' = Append(rx, Head(back))
    /\ UNCHANGED <<pc, call, todo, timeout, last, wire, module>>

Lose ==
    /\ Lossy /\ back # << >> /\ back' = Tail(back)
    /\ UNCHANGED <<driver, wire, module>>

Step == Send \/ Ack \/ Tick \/ SetDone \/ GetDone
World == Execute \/ Deliver \/ Lose

Next == Step \/ World \/ \E c \in Calls : Call(c)

\* The calling thread runs on, and the module and the line do not stop.
Spec == Init /\ [][Next]_vars /\ WF_vars(Step) /\ WF_vars(Execute) /\ WF_vars(Deliver)

-----------------------------------------------------------------------------
\* Every variable has its type; a call in progress has a command to send or wait for.
TypeOK ==
    /\ pc \in {"idle", "send", "wait", "ready"} /\ timeout \in 0..Timeout
    /\ pc # "idle" => call \in Calls
    /\ pc \in {"send", "wait"} => todo # << >>
    /\ pc = "wait" => timeout > 0
    /\ last.res \in {"EOK", "ERROR", "EINVAL"}
    /\ DOMAIN setting = Settings /\ DOMAIN saved = Settings /\ atmode \in BOOLEAN

\* "ATK_IDE01_EOK: set successfully" (atk_net.c:331 and all other set functions):
\* when a set function has returned EOK, the module has the setting.
SetHonest ==
    pc = "idle" /\ last.call.fn = "set" /\ last.res = "EOK" =>
        setting[last.call.x] = ArgText(last.call.x, last.call.v)

\* "ATK_IDE01_EOK: got successfully" (atk_net.c:292): the parameters that a get
\* function returns are those of the setting it was asked for, not of another
\* command's answer, and none of them is one that get_parameter did not find.
GetHonest ==
    pc = "idle" /\ last.call.fn = "get" /\ last.res = "EOK" =>
        last.heard = Answer(last.call.x, setting[last.call.x])

\* Where the two halves of atk_net.c agree: on all values but the baud rates 19200,
\* which get_uart does not know (atk_net.c:1452), and 128000, which set_uart spells
\* 120000 (atk_net.c:1639); on the texts read behind '=' if the module answers as the
\* get function expects, the MAC plainly and the others with a character before them.
Agree(x, v) ==
    CASE x = "uart" -> v[1] \notin {"19200", "128000"}
      [] x = "mac" -> Layout[x] = "plain"
      [] x \in {"remoteip", "moduname"} -> Layout[x] = "blank"
      [] OTHER -> TRUE

\* What a set function wrote and the module answers with, the get function of the
\* setting makes the same value of exactly where the two agree; of the two rates
\* it makes an error, never another rate.
Readable ==
    pc = "idle" /\ last.call.fn = "get" =>
        \A c \in Calls :
            c.fn = "set" /\ c.x = last.call.x /\ Accepts(c.x, c.v)
                /\ last.heard = Answer(c.x, ArgText(c.x, c.v)) =>
                    IF Agree(c.x, c.v)
                      THEN last.res = "EOK" /\ last.val = c.v
                      ELSE last.val # c.v /\ (c.x = "uart" => last.res = "ERROR")

\* Every call returns, with an answer or without one.
CallReturns == pc # "idle" ~> pc = "idle"
=============================================================================
