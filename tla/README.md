# Verification of the stm firmware

The repository is the firmware of an STM32F407 board on RT-Thread 3.1.5. An
ATK-IDE01 serial-to-Ethernet module hangs on USART3; a W25Q128 NOR flash on SPI1.
The firmware's own code is `applications/` and `cubemx/Src/usart.c`; the kernel,
the HAL and the board drivers are vendored.

This directory holds TLA+ modules that model that code, TLC configurations that
check them on small instances, and theorems proved with TLAPS.

## 1. Inventory

| component | state | operations | who else touches the state | what is hard |
|---|---|---|---|---|
| UART receive (`usart.c`, `HAL_UART_Receive`) | `g_uart_rx_frame` (buffer, `len`, `finsh`), USART3 flags, `huart3.Lock` | `USART3_IRQHandler`, `rx_restart`, `rx_get_frame`, `rx_get_frame_len` | net thread, shell thread, the interrupt, and the transmit path through the lock | bit-field stores are read-modify-writes; the handler's DR read fails while a thread holds the lock, and the interrupt then repeats |
| UART transmit (`usart.c`, `HAL_UART_Transmit_DMA`, `HAL_DMA_Start_IT`) | `g_uart_tx_buf`, `gState`, both locks, the DMA stream | `uart_printf`, `DMA1_Stream3_IRQHandler` | two threads, the stream | one buffer formatted while the stream reads it; the half-transfer interrupt marks everything ready; all results are ignored |
| network thread (`usart_net.c`) | where it is in its loop | heartbeat, upload, `json_deal_cmd`, delay | shares the UART with the msh command `led` | a frame that arrives while one is parsed; two messages in one round |
| SPI flash (`spi_flash.c`) | the chip, `W25QXX_BUFFER`, two nested loops | `W25QXX_Write`, `_NoCheck`, `_Page`, `_Erase_Sector`, `_Read` | one thread (`SPI_op`) | page and sector boundaries, erase before program, WEL and busy, a reset between erase and rewrite |
| AT interface (`atk_net.c`) | the module's settings; none of its own beyond the receive buffer | 50 get/set/do functions over `send_at_cmd` | the module, through an unreliable UART | late, split, refused and lost answers; two hand-kept tables per enumeration |
| module configuration (`usart_net_init`) | the sum of results | 16 calls | as above | it goes on after a failure and only looks at the sum |
| JSON parser (`json_deal/jsmn.c`, `jsmn_util.c`) | token array, parser position | `jsmn_parse`, item functions | `json_deal_cmd` | token limit, unmatched brackets, parent links |
| LED threads and mailbox (`main.c`) over the kernel (`thread.c`, `object.c`, `scheduler.c`, `timer.c`) | control block of each thread: object list, state, ready queue, timer; the pins | `led_open`, `led_close`, `usart_net_open`, `mail_deal_open`, the thread functions | the shell, the tick interrupt | opening twice, closing what is not open, a tick in the middle of `rt_thread_detach`, a control block used again |
| watchdog (`iwdg.c`) | hardware counter | `idle_hook` | - | the hook is never registered |

Interaction. Threads: net (priority 12), mail_deal (13), shell (20), led1 (22),
led0 (23); a lower number preempts a higher one. The USART3 and DMA1_Stream3
interrupts have the same NVIC priority: neither preempts the other, both preempt
every thread. `huart3.Lock` is the one lock that receive and transmit share, and
`__HAL_LOCK` does not wait: it returns `HAL_BUSY`.

## 2. Modules

| module | models | role |
|---|---|---|
| `UartRx` | receive half of `usart.c` | component |
| `UartTx` | transmit half of `usart.c` with the HAL functions it calls | component |
| `NetLink` | `usart_net_run` and `led` over both halves | composition, refines `UartRx` and `UartTx` |
| `FlashStore` | what `W25QXX_Write` promises | abstract specification |
| `SpiFlash` | `spi_flash.c` and the chip | component, refines `FlashStore` |
| `AtApi` | conversions of `atk_net.c` | operators |
| `AtCmd` | `send_at_cmd` and the functions built on it, the module, the line | component |
| `NetInit` | `usart_net_init` | composition over `AtCmd` |
| `Jsmn` | `jsmn.c` | component |
| `JsmnUtil` | item functions of `jsmn_util.c` | operators on the tokens of `Jsmn` |
| `JsonDeal` | `json_deal_cmd` | composition over `Jsmn` and `JsmnUtil` |
| `LedThreads` | the static threads of `main.c` and the kernel functions they use | component |
| `UartRxProofs`, `UartTxProofs`, `JsmnProofs`, `LedThreadsProofs` | | theorems about the component |
| `SpiFlashProofs`, `SpiStoreProofs` | | theorems about the flash driver; the second module builds on the first and has the contents and the refinement |
| `AtCmdProofs` | | theorems about the AT interface and `usart_net_init` |
| `NetLinkProofs` | | the refinement of `UartRx` and `UartTx` by `NetLink` |
| `MC*` | | values of the constants for TLC |

Operators whose comment starts with "Mutant" are deliberate defects of the definition
after them. They are used by no specification; substituted for that definition
they show that a property notices the defect.

### UartRx

A byte is its arrival number. The peripheral is external: a byte that completes
while RXNE is set raises ORE; reading SR and DR clears RXNE, ORE and IDLE
together. `USART3_IRQHandler` is four steps (entry and its three `if`s) because
the line moves while it runs; no thread does. `Receive` is `HAL_UART_Receive` of
one byte with RXNE already set: with the handle locked it returns `HAL_BUSY`
and the uninitialised `tmp`, here any cell value, is appended. `sta.len = 0` and
`sta.finsh = 0` are a load and a store each of the halfword that holds both.
`Lock`/`Unlock` stand for the part of `HAL_UART_Transmit_DMA` that this module
sees. `Prompt` says whether the line can outrun the handler; at 115200 baud
(87 us per byte) the handler is not outrun, and the safety run does without
that assumption.

### UartTx

A message is a name with a length, its k-th character a pair. `rt_vsprintf` stores
one character per step, the stream reads one per step. Every test and assignment
of `HAL_UART_Transmit_DMA` and `HAL_DMA_Start_IT` that another thread or the
interrupt can see is a step. `__HAL_LOCK` is two of them, for either handle: a test
(`TestLock`, `TestDmaLock`) and a store (`StoreLock`, `StoreDmaLock`), with
preemption in between. What makes the lock section exclusive all the same is that
the threads have different priorities (`PriorityAssumption`): a thread that comes in between runs
until it is out of the section. A stream that runs ignores a new count (the
reference manual's rule for NDTR); enabling a stopped one starts it again.

### NetLink

Variables of both halves, sharing `locked`, plus the program point of each
thread (`ctl`). `CanRun` is RT-Thread's fixed-priority preemption: the shell
runs only while the net thread sleeps. `json_deal_cmd` is one of its two visible
outcomes: the error frame answered with `TX_DISCONNECT`, or a frame parsed and printed
on the console. `NetWake` uses that the delay of one second is longer than any
transfer (2 kB take 178 ms). `RxView` maps a thread inside the lock section of
the transmit path to the step "hold" of `UartRx`.

### SpiFlash and FlashStore

A byte is its set of 1 bits: erasing gives all bits, programming intersects. The
chip is external: WEL, one job at a time, page programs that wrap inside the page,
commands ignored while busy or not enabled. Addresses are taken modulo
`AddrSpace` (2^32) by the driver, modulo its size by the chip. `Reset` may come
at any step; what the chip was doing may leave any contents in the page or
sector concerned. `FlashStore` has a memory, the write under way and whether the last one
was cut short; a write that returns must be exactly `Written`, a write that was cut
short may differ only in `Touched` sectors. The mapping takes `before`, the contents at the
last return or reset, for the abstract memory.

Not modelled of `spi_flash.c`: chip erase, power down, wake-up, ID and status
register writes, which are not on the write path.

### AtApi, AtCmd, NetInit

The roughly fifty functions of `atk_net.c` have three shapes (set, get, do) and a
conversion; the conversions are the tables of `AtApi`. An answer is a sequence of
chunks, a chunk being what arrives between two idle lines, with its quoted
parameters and whether it contains "OK". `send_at_cmd` empties the buffer, prints,
and polls: a frame without "OK" is dropped, the count goes down. A get function
reads the frame a second time after `send_at_cmd` returned, so a chunk may have
been added meanwhile. The module is external, modelled from the commands sent to it:
a command is carried out or refused in AT mode; in data mode all but the
search and `AT_INTO` are passed to the TCP server.
A parameter that `get_parameter` does not find is reported as found with
uninitialised index and length: `JUNK`.

A text is a sequence of characters, and of words where the spelling does not matter. Numbers are printed
(`Decimal`) and read (`Atoi`) digit by digit. The get functions of mac, remoteip and
moduname (`LineRead`) do not look for quotes: `FromLine` takes 17 characters behind '=' for the MAC and, for the other two, the
line from its second character on. How the module lays out these three answers cannot be seen in
the repository, so `Layout` is a constant: the bare text, a blank before it, or quotes around it.
`Agree` says where set and get functions agree; `Readable` says that a value set is read back exactly there.
`get_moduname_len` and
`get_clouddomain_len` return the length of the same texts and are not kept apart.

`NetInit` runs the 16 calls of `usart_net_init` in order and sums the results in
8 bits. `usart_net_run` has the call to it commented out; it is the only user of
the set functions in the repository.

### Jsmn, JsmnUtil, JsonDeal

A character is the class the code tells apart; positions and token indices count from 0
as in the code. Every `case` of the `switch` of `jsmn_parse` is an action, or several where it
returns early; the loop over parents of a closing bracket, and the loops of
`jsmn_parse_string` and `jsmn_parse_primitive`, take one step per round. On failure the latter
two put `pos` back. The tokens are an uninitialised array (`Junk` is any token): a cell counts
only once `AddToken` has filled it. The build defines `JSMN_PARENT_LINKS` and not `JSMN_STRICT`, so
every unquoted text is a primitive. `JSMN_ERROR_PART` is returned for a token still open.

The item functions walk the array; `JsmnUtil` states what they return (the first
matching child, the n-th child) as sets of distances. `JsonDeal` runs `json_deal_cmd` as it
stands: error frame, parse, object test, three items in order, three values through the one
buffer `json_age`, whose copy function's result is ignored. The keys `age`,
`email`, `name` are one character each.

`ValueIsNext` is what `JSMN_GetValueStringBuffered` relies on without looking at the parent;
`ArrayItems` ties two numbers together that are computed at different times (the size counted
while parsing, the children found by their links); `Nested` says that the links always lead
a closing bracket to the innermost open one. `ShownAreMembers` follows a field through parser, item functions
and buffer: what is shown is the value linked to the first member of the name in the outermost object, or, where
that member has not one value, what the buffer held before. All of them are about any text, JSON or not.

### LedThreads

Per thread: `listed` (type and place in the object list), `stat`, `queue`, `timer` and where
the thread function is. `rt_thread_detach` takes no lock, so its three parts are three steps and the tick
(`Timeout`) may come between them; `rt_thread_sleep` and the scheduler's own functions
run with interrupts off and are one step. `CanRun` is `rt_schedule`: the highest ready thread runs.
A failed `RT_ASSERT` spins in `rt_assert_handler`; `halt` says what it still holds:
nothing (`spin`, only threads below the shell are cut off), the scheduler lock of `rt_object_init` (`locked`),
or the interrupts (`masked`). `queue = "stuck"` is a thread whose links were
initialised again while the ready list still pointed at it: removing such an entry
leaves the list as it is. `rt_mb_recv` waits for ever since the only sender,
`usart_net_commend_parsing`, has no caller. `QueueSound` says which threads the ready queue can refer to, and that only a LED that
was closed can be stuck in it; `HaltCauses` says which assertions can fail, and in which states. `Closed` bounds the LEDs whose close command is
given.

## 3. Runs

| run | instance | distinct states | shows |
|---|---|---|---|
| `uart_rx` | 2 threads, 3 cells, 2 bytes, unrestricted line | 906 306 | `TypeOK` (len and every stale copy index the buffer), `Terminated` |
| `uart_tx` | 2 threads, texts of 2 and 3 characters, 4 cells | 331 750 | `TypeOK`, `LockExclusive`, `BusyHasOwner`, `BusyEnds` |
| `net_link` | 2 cells, 1 byte, 1 led command, error frames or not | 178 604 | refinement of both halves, `HeartbeatForever`, `StormEnds`, `FrameReported` |
| `net_link_disconnect` | no led command | - | violation: disconnect notice mixed into the heartbeat |
| `net_link_unread` | 2 bytes | - | violation: bytes discarded unread |
| `spi_flash` | 2 sectors of 2 pages of 2 one-bit bytes, all contents, all addresses of a space twice the chip, lengths 0 to 6 | 398 336 | `TypeOK`, `PageFits`, `ProgramsErased`, `CommandsAccepted`, `ImplementsStore`, `WriteReturns` |
| `at_cmd` | 33 calls, all shapes and kinds of setting, the two odd rates, refused values, one answer of each layout but quotes, timeout 2, 3 messages under way, loss, refusal, split answers | 513 829 | `SetHonest`, `GetHonest`, `Readable`, `CallReturns` when answers are in time |
| `at_cmd_late` | answers may be late | - | violation: a late OK answers the next command |
| `json_deal` | all texts of up to 4 (after an opening bracket 5) of the 8 characters that steer the parser, 156 frames, one frame damaged at every place, escapes, full token array of 12 | 127 806 | `TypeOK`, `Nested`, `ValueIsNext`, `AcceptedIsComplete`, `ArrayItems`, `ShownAreMembers`, `FieldsShown`, `Returns` |
| `led_threads` | all four threads, led1 may be closed and opened again | 24 569 | `TypeOK`, `TimerSound`, `ReadyIsQueued`, `QueueSound`, `HaltCauses`, `Blinks`, `NetSurvives`, `CommandReturns` |
| `led_threads_closed` | as above | - | violation: a closed LED thread runs again |
| `net_init` | whole script, answers may be late or refused | 417 235 | `InitHonest`, `InitEnds` |

Why the bounds are enough. The races of the UART need one interrupt between two steps of
one thread, or one preemption of one thread by another: two threads and
two or three cells reach all of them, wrap-around of the buffer included (the
repeated interrupt appends many bytes for one on the line). The flash instance
has writes inside a page, ending exactly at a page and at a sector, over a
page, over a sector, over the end of the chip, and empty ones. For the AT
interface two calls and the answer of an earlier one are the longest dependency; most values set are
those the module starts with, since `Readable` compares what a get function heard with what the set function would
have written, and the two rates are new ones. All other rates, numbers and layouts are covered by `ReadsBack`.
`NetInit` has the real script; six of its settings start out configured, which
keeps the number of combinations down and is what a second start of the
board finds.

The JSON texts are exhaustive up to five characters, where every
pair of brackets, colons and commas in every wrong order occurs; the theorems cover all lengths.
Frames have the three fields in every order with a member between them whose inner
members have the same names. In `led_threads` the LED that is closed has the higher
priority of the two, so the other one shows what closing does to it; with both LEDs
closable the instance has 135 009 states and passes too, and the theorems cover it.

Deadlock is checked in all runs but `net_init`, which ends, and `led_threads`, where a failed
assertion with the interrupts off is the end.

Fairness. Interrupts that are pending run, the DMA stream and the flash chip
make progress, an active line becomes idle: hardware. A thread in a call gets
the processor again and again: strong fairness, because interrupts and the
higher thread take it away repeatedly; justified by the net thread's
`rt_thread_delay` in every round and by the shell's blocking read. The calling
thread of `AtCmd` runs (weak fairness), and the module and the line do not
stop, which matters only for the bound on messages under way and, in `at_cmd`, for the
assumption that answers are in time. No fairness is put on losing a message, on new commands or
on resets. `json_deal_cmd` waits for nothing (weak fairness of its steps). In `LedThreads` a timer that
runs expires, and a thread that has work gets the processor again and again (strong
fairness): those above it sleep a second per round or wait for a person.

## 4. Theorems

The invariance proofs have one shape: Init => IInv, IInv /\ [Next]_vars => IInv', IInv => the
property, one step per action. The refinement proofs add, from the same invariant, that every
step is a step or a stutter of the abstract specification. The inductive invariants were checked
with TLC on the instances of section 3 before they were proved.

- `UartRxProofs`: `TypeCorrect`, `AlwaysTerminated`, for every set of threads, any
  priorities, every buffer of at least two cells, any number of bytes, any line.
  `TypeOK /\ Terminated` is inductive. `TypeOK` is not a mere typing: that a stale `len`
  written back by `restart` still indexes the buffer is why a torn bit-field store cannot
  lead out of it, and `Append` keeps the last cell free because `len` never exceeds
  `BufSize - 1`.
- `UartTxProofs`: `TypeCorrect`, `MutualExclusion`, `NeverOrphaned`, for every set of
  threads of different priorities, all texts shorter than the buffer. The inductive
  invariant adds `FormatOK` (the character counter is inside the text),
  `CountOK` (the stream's count covers its position) and `StoreOK` (while a thread is between
  the test and the store of the lock, only a thread above it can be in the section) to the three properties; a thread that stores
  then finds the section empty, since it could not run otherwise (`StoreFindsFree`). With two threads of equal priority, which the
  assumption excludes, `LockExclusive` fails after 18 steps; `BusyHasOwner` needs
  `LockExclusive`, because only the lock keeps a second thread from the steps that start
  the stream, while the interrupt can mark it ready at any of them.
- `SpiFlashProofs`: `NoPageWrap`, `NoIgnoredCommand`, for every page size, sector
  size a multiple of it, chip size, address space a multiple of that, and all texts. `PageLoopOK` is
  the heart: the part written next ends at the latest with its page, and exactly with it when
  more follows; so the next part starts on a page boundary, also after the address wrapped.
  `ChipOK` says the chip is busy only where the driver waits.
- `SpiStoreProofs`: `FlashTypes`, `OnlyErasedProgrammed` and `FlashImplementsStore` (`SpiFlash` refines
  `FlashStore`), from the same constants and for every initial contents. The invariant says what the
  memory is at every step of a write, in terms of `before` and the number of bytes done: `Old` (the bytes
  of the earlier sectors replaced), `Blank` (`Old` with the current sector erased), `Rest` (what is to be
  after this sector, with the part not yet programmed erased). `SectorLoopOK` places the two loops,
  `EraseOK` ties `W25QXX_BUFFER` to the sector it was read from, `ProgramOK` says that the memory is `Rest` from
  the next cell on. That a page program only meets erased cells, and that the last one gives exactly
  `Written`, follow; a reset is covered because every intermediate memory differs from `before` in
  touched sectors only. The arithmetic (an address modulo the address space, then modulo the chip; sectors
  and pages divide the chip) is in lemmas of its own. `WriteBounded` follows from the same invariant: `WriteLeft` is
  a sum over what is left of the text and of the sector, and both loops go on only after at least one byte. `LengthAssumption` is needed: a text longer than the
  chip would run over its own beginning; `NumByteToWrite` has 16 bits, the chip 16 MB.
- `NetLinkProofs`: `LinkImplementsTx`, `LinkImplementsRx`. `LinkInv` says that no thread is inside a
  call of both halves and that the net thread sleeps only with its calls returned, so that a step in one half finds
  the thread idle in the other. The step from preemption in `NetLink` to preemption in the halves is `MayRun`: a thread
  that may run there may run here. For the receive half, taking and giving back the lock in
  `HAL_UART_Transmit_DMA` are the steps `Lock` and `Unlock` of `UartRx`, all other transmit steps stutter.
  The refined specifications are the safety parts (Init and Next). `LinkTransmits` and `LinkReceives` instantiate
  `UartTxProofs` and `UartRxProofs` under the mapping and carry `LockExclusive`, `BusyHasOwner` and `Terminated` over to
  the composition; the assumptions of the halves are then obligations about the threads and messages of `NetLink`.
  `HeartbeatWhole` is `WholeMessages`, which `net_link_disconnect` refutes, under the two hypotheses that the module sends no error frame
  (`ErrFrames = {FALSE}`) and that no led command is typed (`MaxCmds = 0`). Both are needed: either the disconnect notice or the command's reply is
  enough to mix two messages. `HeartInv` says that only the net thread prints, that between two of its rounds the stream has finished, and
  that what it has put on the line is a beginning of the heartbeat.
- `AtCmdProofs`: `AtTypes`, `SetsHonest`, `GetsHonest`, `ReadsBack`, `InitSucceeds`, for every set of calls, every
  timeout and any bound on messages under way. `CallInv` holds whatever is late, lost or refused: only commands
  of accepted calls are on the wire, and `todo` ends with the call's own command.
  `SetsHonest` and `GetsHonest` have the hypothesis `Timely`, without which they are false
  (`at_cmd_late`); their invariant `Steady` lists what can be under way for the one command that is
  waited for (the command; a refusal; the answer in one or two chunks, or what losses left of it) and says
  that nothing is left over when the caller goes on. `InitSucceeds` needs no such hypothesis: as long as no call of
  the script has failed, no answer can be late, so `ScriptInv` carries the part of `Steady` it needs
  under the condition that the sum and the last result are still 0; a sum of at most 16 codes of at most 3
  cannot wrap around in 8 bits. `CallBounded` needs only `CallInv`: `CallLeft` counts the commands still to send and
  the rounds still to wait, every step of the caller lowers it and no step of the module or the line changes it.
  `ReadsBack` has no hypothesis: it goes through all kinds of settings and says for each what the get function makes of
  what the set function wrote (`RoundTrip`). `NumberRead` is the part about numbers, `Atoi` of `Decimal` for all 16 bits;
  `UartRead` the part about `set_uart` and `get_uart`, the two rates included, which give an error and never another
  rate; `LineReadBack` the part about the three lines and their layouts.
- `JsmnProofs`: `ParserStaysInArray`, `TokensNest`, `ValueBehindKey`, `CountIsTrue`, `ArrayItemsFound`, `MembersShown`,
  `FlatFieldsShown`, `DealBounded`, for every set of
  texts, every length of the token array and any contents of it. The parser's links are moved by colons and
  commas in texts that are not JSON at all, so the invariant says where they can be: `Placed` (tokens in use
  lie before `pos`, only containers are open), `Links` (no parent link of a later token, nor `toksuper`, nor
  the loop over parents leads past an open token) and `Adjacent` (whatever is a parent, or is `toksuper` and
  not the last token, has its first child right behind it).
  `Nested` follows for a closing bracket because the first open token on the way up is the last open one. `ArrayItemsFound` adds `Counted` (the size of a token is the number of its children) and needs
  that the n-th smallest distance, as `JSMN_GetArrayItem` counts, takes every child once (`NthAll`).
  `MembersShown` adds `DealInv`: the items kept are what `JSMN_GetObjectItem` finds for the first fields, the texts shown are
  their values, each copied over what `json_age` held before.
  `FlatFieldsShown` has the hypothesis that every frame is flat (`FlatFrame`): one object whose members are strings without escapes or
  primitives, with blanks anywhere between, in any order and number that the token array suffices for, the values of the frame being
  those of the first member of each name. This is the shape of what the server is expected to send: `json_deal_cmd` asks for three
  values and copies only strings and primitives. Then `FlatInv` says where the parser is in such a text (in front of the object, in a name, at its
  colon, in or behind a value, in the loop over parents, behind the object) and that the tokens so far are the object and two
  for each member, at the places of the text; no induction over the text is needed, because the places are given and the induction is the
  one over steps. It is satisfied, for instance, by all frames of `json_deal` without a nested member.
  `DealBounded` has the measure `Left`: a position of the text is worth more steps than there are tokens, the loop over parents goes to
  smaller indices, and a primitive ends behind its start.
- `LedThreadsProofs`: `TypeCorrect`, `TickNeverAsserts`, `NoThreadLost`, `QueuesSound`, `HaltsExplained`, `OnlyClosedGoOn`, whichever LEDs
  are closed and opened, in any order. The invariant adds `Started` (a listed thread in the queue was started), `Stray` (only LEDs can be
  queued without having been started) and `Stopped` (the last step of `rt_thread_detach` finds the timer stopped).
  It rests on priorities: no LED thread runs while a command is under way. The last three delimit the
  disagreement of `led_threads_closed`: a thread that no command closes is in the ready queue only while it is in its object's list and
  ready, so its links are never lost and its pin moves only while it is open; and the machine stops with the interrupts off only in a
  closed LED that is still queued. Opening a thread twice still stops every thread (`halt = "locked"`), and `HaltCauses` says so.

Assumptions are those named in the modules, which TLC evaluates on the runs: sizes are positive
and multiples of one another, texts fit the transmit buffer and the chip, `Above` relates threads to
threads and no two of the printing threads share a priority (`PriorityAssumption`), the arguments of calls are what the prototypes say (`ArgsAssumption`: a MAC has
17 characters, a text read behind '=' is not empty and does not begin with a blank or a quote), the module's settings are texts
(`StartAssumption`), its three lines have one of the layouts (`LayoutAssumption`), the calls of the script are among the calls
(`ScriptAssumption`).

Only model-checked: all liveness properties, which are out of the prover's reach
(`BusyEnds`, `HeartbeatForever`, `StormEnds`, `FrameReported`, `WriteReturns`, `CallReturns`, `Returns`, `Blinks`,
`NetSurvives`, `CommandReturns`, `InitEnds`). For three of them the safety part is proved: `WriteBounded`, `CallBounded` and
`DealBounded` say that the steps run out; that the next one is always possible, and taken, is left to TLC.
And `FieldsShown` for frames with nested members or escapes: that such a frame of any depth is shown as
its values would be an induction over the grammar of frames.

## 5. Disagreements found

1. `usart_net.c:29`: the disconnect notice overwrites the heartbeat being sent and is itself
   dropped or mixed in (`net_link_disconnect`).
2. `usart_net.c:177`: what arrives while a frame is handled is discarded (`net_link_unread`).
3. `atk_net.c:168`: "OK" is not tied to a command (`at_cmd_late`).
4. `thread.c:349`: a tick between the steps of `rt_thread_detach` queues the closed thread again; it
   runs, and the machine stops in `rt_thread_sleep` (line 538; `led_threads_closed`). When it is opened again
   before it runs, its links are initialised under the ready queue and it never leaves it (`queue = "stuck"`, `QueueSound`).

Seen in the models, without a run of their own:

- `usart.c:263`: `get_frame` indexes with a `len` that the handler may have moved on; its terminator
  then replaces a byte (`UartRx`: `Append` between `ReadIndex` and `Terminate`). The restart that follows drops the
  whole window anyway (disagreement 2), so no property separates this byte.
- `usart.c:212`: a reception is noticed by the idle flag, which a read of DR clears; `FrameReported` holds because the line
  does not outrun the handler (`Prompt`).
- `usart.c:163`: the handler does not look which interrupt of the stream it serves, and marks the
  handle ready at half transfer, so that a running stream is configured again (`UartTx`: `DmaIsr`).
  `BusyHasOwner` and `BusyEnds` show that the link survives it.
- `atk_net.c:1452` and `:1639`: 19200 is missing from `get_uart`; 128000 is sent as 120000. `Readable` and `ReadsBack` say
  that these two, and no others, are not read back, and that `get_uart` then returns an error.
- `atk_net.c:838` and `:1294`: `get_remoteip` and `get_moduname` begin two characters behind '='. A bare answer loses its first
  character, one in quotes keeps the closing quote (`Agree`: only an answer with one character before the text is read as it was set).
- `jsmn.c:201`: a closing bracket with nothing open is accepted when a colon has moved `toksuper` back,
  as in `{}:}` (`Jsmn`: `ClosePassedOver`).
- `usart_net.c:78`: a field that has not exactly one value is shown with the text of the field before
  it, or with whatever was on the stack (`JsonDeal`: `DealShow`).
- `main.c:102`: opening an open LED stops every thread, since `rt_object_init` asserts with the
  scheduler locked (`LedThreads`: `OpenInit`, `HaltCauses`). Closing a LED leaves its pin as it is.

Seen and not modelled: `README.md:5` of the repository says the watchdog is served in the
idle hook, and no code registers `idle_hook`; `json_deal_cmd` puts 5 kB of tokens on a
1 kB stack.

## 6. Not modelled, and the plan

Not modelled for good: start-up and register configuration (straight-line code), the
RT-Thread kernel and the HAL outside the functions above (vendored), console output,
stack depth, `commend_parsing`, `JSMN_GetString` and `JSMN_GetValueString` (no caller). The
repository consists almost entirely of vendored code (HAL, CMSIS, RT-Thread and its components);
the models cover the firmware's own logic and those vendored functions that take part in it.

Done, in the order of importance: the UART driver, the loop that uses it, the flash driver,
the AT interface and the configuration script, the JSON parser and its user, the threads; theorems
for every safety invariant that a run checks (`FieldsShown` for flat frames) and for the three refinements, bounds
on the steps of the three functions that loop over their input, and the conditions under which two of the disagreements do not arise.

Next, in this order:

1. `AtkParam`: the character loop of `get_parameter` with its 8-bit index.
2. Proofs: `FieldsShown` for nested frames, along the same places with one list of them for each depth.
