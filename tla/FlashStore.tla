----------------------------- MODULE FlashStore -----------------------------
(***************************************************************************)
(* What W25QXX_Write (applications/spi_flash/spi_flash.c) promises: a      *)
(* write replaces the cells it names and no other ones.  A reset in the    *)
(* middle of it may cost the sectors that it touches, and only those.      *)
(***************************************************************************)
EXTENDS Integers, Sequences

CONSTANTS
    SectorSize, Sectors,    \* size and number of the erase sectors
    AddrSpace,              \* 2^32: addresses are uint32_t
    Byte,                   \* contents of a cell
    Data                    \* the texts that are written

Cells == 0..Sectors*SectorSize-1
Addr == 0..AddrSpace-1

\* The chip decodes only the address bits it has.
Cell(a) == a % (Sectors*SectorSize)

\* The memory m with data written from address a on.
Written(m, a, data) ==
    [c \in Cells |-> IF \E i \in 1..Len(data) : Cell(a + i - 1) = c
                       THEN data[CHOOSE i \in 1..Len(data) : Cell(a + i - 1) = c]
                       ELSE m[c]]

SectorOf(c) == c \div SectorSize
Touched(a, data) ==
    {c \in Cells : \E i \in 1..Len(data) : SectorOf(Cell(a + i - 1)) = SectorOf(c)}

VARIABLES
    store,      \* the contents of the flash
    op,         \* the write under way: << >> or <<address, data>>
    lost        \* the last write was cut short by a reset

storeVars == <<store, op, lost>>

StoreInit == store \in [Cells -> Byte] /\ op = << >> /\ lost = FALSE

Begin(a, data) ==
    /\ op = << >> /\ op' = <<a, data>> /\ lost' = FALSE
    /\ UNCHANGED store

Commit ==
    /\ op # << >> /\ op' = << >> /\ lost' = FALSE
    /\ store' = Written(store, op[1], op[2])

Crash ==
    /\ op # << >> /\ op' = << >> /\ lost' = TRUE
    /\ store' \in [Cells -> Byte]
    /\ \A c \in Cells \ Touched(op[1], op[2]) : store'[c] = store[c]

StoreNext ==
    \/ Commit \/ Crash
    \/ \E a \in Addr, data \in Data : Begin(a, data)

StoreSpec == StoreInit /\ [][StoreNext]_storeVars
=============================================================================
