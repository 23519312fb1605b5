------------------------------ MODULE SpiFlash ------------------------------
(***************************************************************************)
(* applications/spi_flash/spi_flash.c on a NOR flash chip of the W25Q      *)
(* family: W25QXX_Write with its sector loop (read, check, erase, merge),  *)
(* W25QXX_Write_NoCheck with its page loop, W25QXX_Write_Page,             *)
(* W25QXX_Erase_Sector and W25QXX_Read.  A byte is the set of its 1 bits:  *)
(* erasing sets all bits, programming can only clear them, and a page      *)
(* program wraps around inside its page.  The processor may be reset, or   *)
(* lose power, between any two steps and while the chip is busy.           *)
(***************************************************************************)
EXTENDS Integers, Sequences

CONSTANTS
    PageSize, SectorSize, Sectors,  \* 256, 4096 and the number of sectors
    AddrSpace,                      \* 2^32: addresses are uint32_t
    Bits,                           \* the bits of a byte
    Data,                           \* the texts that are written
    InitialContents                 \* contents the flash may start with

ASSUME PageSizeAssumption == PageSize \in Nat \ {0}
ASSUME SectorSizeAssumption ==
    SectorSize \in Nat /\ \E q \in 1..SectorSize : SectorSize = q * PageSize
ASSUME SectorsAssumption == Sectors \in Nat \ {0}
ASSUME AddrSpaceAssumption ==
    AddrSpace \in Nat /\ \E q \in 1..AddrSpace : AddrSpace = q * (Sectors * SectorSize)
ASSUME DataAssumption == Data \subseteq Seq(SUBSET Bits)
\* NumByteToWrite is a uint16_t and the smallest chip of the family has 1 MB: no
\* text goes around the chip and over its own start.
ASSUME LengthAssumption == \A data \in Data : Len(data) <= Sectors*SectorSize

Byte == SUBSET Bits
ERASED == Bits      \* 0xFF
Cells == 0..Sectors*SectorSize-1
Addr == 0..AddrSpace-1
Cell(a) == a % (Sectors*SectorSize)

ASSUME ContentsAssumption == InitialContents \subseteq [Cells -> Byte]

VARIABLES
    mem, wel,       \* chip: contents, write enable latch
    job,            \* chip: << >> or <<zone, result>> of what it is busy with
    pc,             \* next step of the driver
    op,             \* arguments of W25QXX_Write
    before, lost,   \* history: contents before it; a reset cut the last write short
    waddr, left, src, secpos, secoff, secremain,    \* locals of W25QXX_Write
    BUFFER,         \* W25QXX_BUFFER, one sector
    pbuf, paddr, pleft, pageremain      \* locals of W25QXX_Write_NoCheck

chip == <<mem, wel, job>>
writeVars == <<op, before, lost>>
secVars == <<waddr, left, src, secpos, secoff, secremain>>
pageVars == <<pbuf, paddr, pleft, pageremain>>
vars == <<chip, pc, writeVars, secVars, BUFFER, pageVars>>

Least(x, y) == IF x <= y THEN x ELSE y

Zeros == [i \in 0..SectorSize-1 |-> {}]

Init ==
    /\ mem \in InitialContents /\ wel = FALSE /\ job = << >>
    /\ pc = "idle" /\ op = << >> /\ before = mem /\ lost = FALSE
    /\ waddr = 0 /\ left = 0 /\ src = 0
    /\ secpos = 0 /\ secoff = 0 /\ secremain = 0
    /\ BUFFER = Zeros
    /\ pbuf = << >> /\ paddr = 0 /\ pleft = 0 /\ pageremain = 0

\* The driver is between two calls again; its locals, and W25QXX_BUFFER, which
\* the next write fills before it uses it, are dead.
Idle ==
    /\ pc' = "idle" /\ op' = << >> /\ before' = mem'
    /\ waddr' = 0 /\ left' = 0 /\ src' = 0
    /\ secpos' = 0 /\ secoff' = 0 /\ secremain' = 0
    /\ BUFFER' = Zeros
    /\ pbuf' = << >> /\ paddr' = 0 /\ pleft' = 0 /\ pageremain' = 0

-----------------------------------------------------------------------------
(* The chip (external) *)

busy == job # << >>

\* Write Enable; ignored while the chip is busy.
WriteEnable == wel' = (wel \/ ~busy)

\* A program or erase command; ignored unless enabled and idle.
Command(zone, result) ==
    job' = IF wel /\ ~busy THEN <<zone, result>> ELSE job

ChipDone ==
    /\ busy
    /\ mem' = job[2] /\ job' = << >> /\ wel' = FALSE
    /\ UNCHANGED <<pc, writeVars, secVars, BUFFER, pageVars>>

PageOf(a) == Cell(a) - (Cell(a) % PageSize)

\* Page Program: byte i of data goes to its place modulo the page, bits are cleared.
Programmed(a, data) ==
    [c \in Cells |->
        IF \E i \in 1..Len(data) : PageOf(a) + ((a + i - 1) % PageSize) = c
          THEN mem[c] \cap data[CHOOSE i \in 1..Len(data) :
                                    PageOf(a) + ((a + i - 1) % PageSize) = c]
          ELSE mem[c]]

PageZone(a) == PageOf(a)..PageOf(a) + PageSize - 1

SectorZone(s) == {c \in Cells : c \div SectorSize = Cell(s * SectorSize) \div SectorSize}

-----------------------------------------------------------------------------
(* W25QXX_Write *)

Write(a, data) ==
    /\ pc = "idle" /\ pc' = "read"
    /\ op' = <<a, data>> /\ before' = before /\ lost' = FALSE
    /\ waddr' = a /\ left' = Len(data) /\ src' = 0
    /\ secpos' = a \div SectorSize /\ secoff' = a % SectorSize
    /\ secremain' = Least(Len(data), SectorSize - (a % SectorSize))
    /\ UNCHANGED <<chip, BUFFER, pageVars>>

\* W25QXX_Read of the whole sector
ReadSector ==
    /\ pc = "read" /\ pc' = "check"
    /\ BUFFER' = [i \in 0..SectorSize-1 |-> mem[Cell(secpos * SectorSize + i)]]
    /\ UNCHANGED <<chip, writeVars, secVars, pageVars>>

\* Mutant: the first page is taken to start at a.
NoCheckWholePage(buf, a) ==
    /\ pc' = "page"
    /\ pbuf' = buf /\ paddr' = a /\ pleft' = Len(buf)
    /\ pageremain' = Least(Len(buf), PageSize)

\* W25QXX_Write_NoCheck(buf, a, len): the page loop starts
NoCheck(buf, a) ==
    /\ pc' = "page"
    /\ pbuf' = buf /\ paddr' = a /\ pleft' = Len(buf)
    /\ pageremain' = Least(Len(buf), PageSize - (a % PageSize))

\* Mutant: the last byte is not looked at.
DirtyButLast == \E i \in 0..secremain-2 : BUFFER[secoff + i] # ERASED

Dirty == \E i \in 0..secremain-1 : BUFFER[secoff + i] # ERASED

CheckErased ==
    /\ pc = "check"
    /\ IF Dirty
         THEN pc' = "erase" /\ UNCHANGED pageVars
         ELSE NoCheck(SubSeq(op[2], src + 1, src + secremain), waddr)
    /\ UNCHANGED <<chip, writeVars, secVars, BUFFER>>

\* W25QXX_Erase_Sector: W25QXX_Write_Enable, W25QXX_Wait_Busy, the command, ...
EraseEnable ==
    /\ pc = "erase" /\ pc' = "erase_cmd"
    /\ WriteEnable
    /\ UNCHANGED <<mem, job, writeVars, secVars, BUFFER, pageVars>>

EraseCommand ==
    /\ pc = "erase_cmd" /\ ~busy /\ pc' = "merge"
    /\ Command(SectorZone(secpos),
               [c \in Cells |-> IF c \in SectorZone(secpos) THEN ERASED ELSE mem[c]])
    /\ UNCHANGED <<mem, wel, writeVars, secVars, BUFFER, pageVars>>

\* Mutant: pBuffer is not advanced from sector to sector.
MergeFromStart ==
    /\ pc = "merge" /\ ~busy
    /\ BUFFER' = [i \in 0..SectorSize-1 |->
                    IF i \in secoff..secoff+secremain-1
                      THEN op[2][i - secoff + 1] ELSE BUFFER[i]]
    /\ NoCheck([i \in 1..SectorSize |-> BUFFER'[i-1]], (secpos * SectorSize) % AddrSpace)
    /\ UNCHANGED <<chip, writeVars, secVars>>

\* ... W25QXX_Wait_Busy; the new bytes are copied over the old ones and the whole
\* sector goes to W25QXX_Write_NoCheck.
Merge ==
    /\ pc = "merge" /\ ~busy
    /\ BUFFER' = [i \in 0..SectorSize-1 |->
                    IF i \in secoff..secoff+secremain-1
                      THEN op[2][src + i - secoff + 1] ELSE BUFFER[i]]
    /\ NoCheck([i \in 1..SectorSize |-> BUFFER'[i-1]], (secpos * SectorSize) % AddrSpace)
    /\ UNCHANGED <<chip, writeVars, secVars>>

\* Mutant: W25QXX_Write_Page does not set the write enable latch.
PageEnableForgotten ==
    /\ pc = "page" /\ pc' = "page_cmd"
    /\ UNCHANGED <<chip, writeVars, secVars, BUFFER, pageVars>>

\* W25QXX_Write_Page: W25QXX_Write_Enable, the command with its data, ...
PageEnable ==
    /\ pc = "page" /\ pc' = "page_cmd"
    /\ WriteEnable
    /\ UNCHANGED <<mem, job, writeVars, secVars, BUFFER, pageVars>>

PageCommand ==
    /\ pc = "page_cmd" /\ pc' = "page_wait"
    /\ IF pageremain = 0 THEN job' = job    \* the chip ignores an empty program
         ELSE Command(PageZone(paddr), Programmed(paddr, SubSeq(pbuf, 1, pageremain)))
    /\ UNCHANGED <<mem, wel, writeVars, secVars, BUFFER, pageVars>>

\* The two ways on from a page.
PageLoop ==
    /\ IF pleft = pageremain
         THEN pc' = "next" /\ UNCHANGED pageVars
         ELSE /\ pc' = "page"
              /\ pbuf' = SubSeq(pbuf, pageremain + 1, Len(pbuf))
              /\ paddr' = (paddr + pageremain) % AddrSpace
              /\ pleft' = pleft - pageremain
              /\ pageremain' = Least(pleft - pageremain, PageSize)
    /\ UNCHANGED <<chip, writeVars, secVars, BUFFER>>

\* ... W25QXX_Wait_Busy; then the next page, or the end of the page loop.
PageNext == pc = "page_wait" /\ ~busy /\ PageLoop

\* Mutant: the offset in the first sector is kept for the next one.
SectorNextSameOffset ==
    /\ pc = "next" /\ UNCHANGED chip
    /\ IF left = secremain
         THEN Idle /\ lost' = FALSE
         ELSE /\ pc' = "read" /\ UNCHANGED writeVars
              /\ waddr' = (waddr + secremain) % AddrSpace
              /\ left' = left - secremain /\ src' = src + secremain
              /\ secpos' = secpos + 1 /\ secoff' = secoff
              /\ secremain' = Least(left - secremain, SectorSize)
              /\ UNCHANGED <<BUFFER, pageVars>>

\* Mutant: nothing is counted down, and the loop repeats its sector.
SectorNextAgain ==
    /\ pc = "next" /\ UNCHANGED chip
    /\ IF left = secremain
         THEN Idle /\ lost' = FALSE
         ELSE pc' = "read" /\ UNCHANGED <<writeVars, secVars, BUFFER, pageVars>>

\* The end of the sector loop: return, or go on with the next sector.
SectorNext ==
    /\ pc = "next" /\ UNCHANGED chip
    /\ IF left = secremain
         THEN Idle /\ lost' = FALSE
         ELSE /\ pc' = "read" /\ UNCHANGED writeVars
              /\ waddr' = (waddr + secremain) % AddrSpace
              /\ left' = left - secremain /\ src' = src + secremain
              /\ secpos' = secpos + 1 /\ secoff' = 0
              /\ secremain' = Least(left - secremain, SectorSize)
              /\ UNCHANGED <<BUFFER, pageVars>>

\* Reset or power loss.  What the chip was busy with may be left half done; it is
\* idle again before the shell accepts a command (an erase takes 0.4 s at most).
Reset ==
    /\ mem' \in IF busy THEN {[c \in Cells |-> IF c \in job[1] THEN part[c] ELSE mem[c]] :
                                part \in [job[1] -> Byte]}
                        ELSE {mem}
    /\ wel' = FALSE /\ job' = << >>
    /\ Idle /\ lost' = (lost \/ op # << >>)

Step ==
    \/ ReadSector \/ CheckErased \/ EraseEnable \/ EraseCommand \/ Merge
    \/ PageEnable \/ PageCommand \/ PageNext \/ SectorNext

Next ==
    \/ ChipDone \/ Step \/ Reset
    \/ \E a \in Addr, data \in Data : Write(a, data)

\* The chip finishes what it does and the thread goes on.
Spec == Init /\ [][Next]_vars /\ WF_vars(ChipDone) /\ WF_vars(Step)

-----------------------------------------------------------------------------
\* Every variable has its type, and the loops stay inside the sector buffer.
TypeOK ==
    /\ mem \in [Cells -> Byte] /\ before \in [Cells -> Byte]
    /\ wel \in BOOLEAN /\ lost \in BOOLEAN
    /\ busy => job[1] \subseteq Cells /\ job[2] \in [Cells -> Byte]
    /\ pc \in {"idle", "read", "check", "erase", "erase_cmd", "merge", "page",
               "page_cmd", "page_wait", "next"}
    /\ BUFFER \in [0..SectorSize-1 -> Byte]
    /\ secoff \in 0..SectorSize-1 /\ secremain \in 0..SectorSize-secoff
    /\ pageremain \in 0..PageSize /\ waddr \in Addr /\ paddr \in Addr

\* The driver keeps the promise of FlashStore: when W25QXX_Write returns, exactly
\* the cells it was given have changed, whatever sectors were erased and written
\* back on the way; after a reset only the sectors of that write can differ.
Store == INSTANCE FlashStore WITH store <- before
ImplementsStore == Store!StoreSpec

\* spi_flash.c:172: a page program never runs over the end of its page, where the
\* chip would wrap around and destroy the bytes at the start of the page.
PageFits == pc = "page_cmd" => (paddr % PageSize) + pageremain <= PageSize

\* spi_flash.c:192: W25QXX_Write_NoCheck is only given cells that are erased.
ProgramsErased ==
    pc = "page_cmd" => \A i \in 0..pageremain-1 : mem[Cell(paddr + i)] = ERASED

\* No command is sent that the chip ignores: WEL is set and the chip is idle.
CommandsAccepted == pc \in {"erase_cmd", "page_cmd"} => wel /\ ~busy

\* W25QXX_Write returns: both loops count down to exactly zero.
WriteReturns == pc # "idle" ~> pc = "idle"
=============================================================================
