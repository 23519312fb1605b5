--------------------------- MODULE SpiFlashProofs ---------------------------
(* Proofs about SpiFlash for every page size, sector size, chip size and    *)
(* text: no page program wraps around in its page, and no command is sent   *)
(* that the chip would ignore.                                              *)
EXTENDS SpiFlash, TLAPS

-----------------------------------------------------------------------------
(* Division with remainder *)

\* The quotient and the remainder of a natural number.
LEMMA QuotientType ==
    ASSUME NEW a \in Nat, NEW p \in Nat \ {0}
    PROVE  a \div p \in Nat
<1>1. a \div p \in Int OBVIOUS
<1>2. a \div p >= 0 OBVIOUS
<1> QED BY <1>1, <1>2

LEMMA RemainderType ==
    ASSUME NEW a \in Nat, NEW p \in Nat \ {0}
    PROVE  a % p \in Nat /\ a % p < p
OBVIOUS

LEMMA Division ==
    ASSUME NEW a \in Nat, NEW p \in Nat \ {0}
    PROVE  a = p * (a \div p) + (a % p)
OBVIOUS

\* A multiple leaves no remainder.
LEMMA MultipleMod ==
    ASSUME NEW q \in Nat, NEW p \in Nat \ {0}
    PROVE  (p * q) % p = 0
OBVIOUS

\* Filling up the current page leads to the start of the next one.
LEMMA RoundUp ==
    ASSUME NEW a \in Nat, NEW p \in Nat \ {0}
    PROVE  (a + (p - (a % p))) % p = 0
<1>1. a % p \in Nat /\ a % p < p BY RemainderType
<1>2. a = p * (a \div p) + (a % p) BY Division
<1>3. a \div p \in Nat BY QuotientType
<1>4. a + (p - (a % p)) = p * ((a \div p) + 1)
  BY <1>1, <1>2, <1>3
<1>5. (a \div p) + 1 \in Nat BY <1>3
<1> QED BY <1>4, <1>5, MultipleMod

\* What is left of a multiple of p after multiples of p is one itself.
LEMMA MultipleRest ==
    ASSUME NEW p \in Nat \ {0}, NEW q \in Nat, NEW x \in Nat, NEW y \in Nat,
           NEW r \in Nat, p * x = (p * q) * y + r
    PROVE  r = p * (x - q * y) /\ x - q * y \in Nat
<1> DEFINE d == x - q * y
<1>1. q * y \in Int /\ d \in Int OBVIOUS
<1>2. p * d = p * x - p * (q * y) OBVIOUS
<1>3. p * (q * y) = (p * q) * y OBVIOUS
<1>4. p * x \in Int /\ p * d \in Int /\ (p * q) * y \in Int OBVIOUS
<1>5. r = p * d
  <2> HIDE DEF d
  <2> QED BY <1>2, <1>3, <1>4
<1>6. d >= 0
  <2> HIDE DEF d
  <2> QED BY <1>1, <1>5
<1> QED BY <1>1, <1>5, <1>6

\* Wrapping an address at a multiple of the page size keeps a page boundary.
LEMMA ModOfMultiple ==
    ASSUME NEW a \in Nat, NEW p \in Nat \ {0}, NEW q \in Nat \ {0}, a % p = 0
    PROVE  (a % (p * q)) % p = 0
<1> DEFINE m == p * q
<1>0. m \in Nat \ {0} OBVIOUS
<1>1. a = m * (a \div m) + (a % m) BY <1>0, Division
<1>2. a = p * (a \div p) BY Division
<1>3. PICK x \in Nat, y \in Nat, r \in Nat :
          x = a \div p /\ y = a \div m /\ r = a % m
  <2> HIDE DEF m
  <2>1. a \div p \in Nat BY QuotientType
  <2>2. a \div m \in Nat BY <1>0, QuotientType
  <2>3. a % m \in Nat BY <1>0, RemainderType
  <2> QED BY <2>1, <2>2, <2>3
<1>4. p * x = (p * q) * y + r BY <1>1, <1>2, <1>3
<1>5. r = p * (x - q * y) /\ x - q * y \in Nat BY <1>4, MultipleRest
<1>6. r % p = 0 BY <1>5, MultipleMod
<1> QED BY <1>3, <1>6

-----------------------------------------------------------------------------
(* The inductive invariant *)

\* The counters of both loops are natural numbers and the sector part of what is
\* left is not more than what is left.
CountersOK ==
    /\ waddr \in Nat /\ left \in Nat /\ src \in Nat /\ secpos \in Nat
    /\ secremain \in Nat /\ secremain <= left
    /\ paddr \in Nat /\ pleft \in Nat /\ pageremain \in Nat

\* In the page loop the part written next ends at the latest with its page, and
\* exactly with it when more is to follow: so the next part starts a page.
PageLoopOK ==
    pc \in {"page", "page_cmd", "page_wait"} =>
        /\ pageremain <= pleft
        /\ (paddr % PageSize) + pageremain <= PageSize
        /\ pageremain # pleft => (paddr % PageSize) + pageremain = PageSize

\* The chip is busy only where the driver waits for it, and WEL is set where a
\* command is sent.
ChipOK ==
    /\ busy => pc \in {"merge", "page_wait"}
    /\ pc \in {"erase_cmd", "page_cmd"} => wel

IInv == CountersOK /\ PageLoopOK /\ ChipOK

\* The sizes that the proofs use.
LEMMA Sizes ==
    /\ PageSize \in Nat \ {0} /\ SectorSize \in Nat \ {0}
    /\ \E m \in Nat \ {0} : AddrSpace = PageSize * m
<1>1. PageSize \in Nat \ {0} BY PageSizeAssumption
<1>2. PICK q \in 1..SectorSize : SectorSize = q * PageSize
  BY SectorSizeAssumption
<1>3. SectorSize \in Nat \ {0} BY <1>1, <1>2, SectorSizeAssumption
<1>4. PICK r \in 1..AddrSpace : AddrSpace = r * (Sectors * SectorSize)
  BY AddrSpaceAssumption
<1>5. r \in Nat \ {0} /\ q \in Nat \ {0} /\ Sectors \in Nat \ {0}
  BY <1>2, <1>4, SectorSizeAssumption, AddrSpaceAssumption, SectorsAssumption
<1>6. Sectors * q \in Nat \ {0} BY <1>5
<1>7. r * (Sectors * q) \in Nat \ {0} BY <1>5, <1>6
<1>8. Sectors * SectorSize = PageSize * (Sectors * q)
  BY <1>1, <1>2, <1>5
<1>9. r * (PageSize * (Sectors * q)) = PageSize * (r * (Sectors * q))
  BY <1>1, <1>5, <1>6
<1> QED BY <1>1, <1>3, <1>4, <1>7, <1>8, <1>9

\* The page loop starts with the rest of the first page or less.
LEMMA NoCheckOK ==
    ASSUME NEW buf, NEW a \in Nat, Len(buf) \in Nat, NoCheck(buf, a)
    PROVE  PageLoopOK' /\ paddr' \in Nat /\ pleft' \in Nat /\ pageremain' \in Nat
<1>1. a % PageSize \in Nat /\ a % PageSize < PageSize
  BY Sizes, RemainderType
<1> QED BY <1>1, Sizes DEF NoCheck, PageLoopOK, Least

\* The step to the next page starts at a page boundary.
LEMMA PageNextOK == IInv /\ PageNext => PageLoopOK' /\ CountersOK'
<1> SUFFICES ASSUME IInv, PageNext PROVE PageLoopOK' /\ CountersOK'
  OBVIOUS
<1>1. CASE pleft = pageremain
  BY <1>1 DEF PageNext, PageLoop, PageLoopOK, CountersOK, IInv, pageVars, secVars
<1>2. CASE pleft # pageremain
  <2>1. /\ pageremain < pleft
        /\ (paddr % PageSize) + pageremain = PageSize
        /\ paddr \in Nat /\ pleft \in Nat /\ pageremain \in Nat
    BY <1>2 DEF IInv, PageNext, PageLoop, PageLoopOK, CountersOK
  <2>2. paddr % PageSize \in Nat BY <2>1, Sizes, RemainderType
  <2>3. pageremain = PageSize - (paddr % PageSize) BY <2>1, <2>2, Sizes
  <2>4. (paddr + pageremain) % PageSize = 0 BY <2>1, <2>3, Sizes, RoundUp
  <2>5. PICK m \in Nat \ {0} : AddrSpace = PageSize * m BY Sizes
  <2>6. paddr + pageremain \in Nat BY <2>1
  <2>7. ((paddr + pageremain) % AddrSpace) % PageSize = 0
    BY <2>4, <2>5, <2>6, Sizes, ModOfMultiple
  <2>8. AddrSpace \in Nat \ {0} BY <2>5, Sizes
  <2>9. (paddr + pageremain) % AddrSpace \in Nat
    BY <2>6, <2>8, RemainderType
  <2>10. /\ paddr' = (paddr + pageremain) % AddrSpace
         /\ pleft' = pleft - pageremain
         /\ pageremain' = Least(pleft - pageremain, PageSize)
    BY <1>2 DEF PageNext, PageLoop
  <2>11. paddr' \in Nat /\ paddr' % PageSize = 0 BY <2>7, <2>9, <2>10
  <2>12. pleft' \in Nat /\ pageremain' \in Nat /\ pageremain' <= pleft'
         /\ pageremain' <= PageSize
         /\ (pageremain' # pleft' => pageremain' = PageSize)
    BY <2>1, <2>10, Sizes DEF Least
  <2>13. PageLoopOK'
    <3>1. (paddr' % PageSize) + pageremain' = pageremain'
      BY <2>11, <2>12
    <3> QED BY <2>12, <3>1 DEF PageLoopOK
  <2>14. CountersOK'
    BY <2>11, <2>12 DEF PageNext, PageLoop, CountersOK, IInv, secVars
  <2> QED BY <2>13, <2>14
<1> QED BY <1>1, <1>2

\* The other steps of the driver, the chip and a reset keep the counters.
LEMMA CountersNext == IInv /\ [Next]_vars => CountersOK'
<1> SUFFICES ASSUME IInv, [Next]_vars PROVE CountersOK'
  OBVIOUS
<1> USE DEF IInv, chip, secVars, pageVars
<1>1. CASE UNCHANGED vars
  BY <1>1 DEF vars, CountersOK
<1>2. CASE ChipDone \/ ReadSector \/ EraseEnable \/ EraseCommand \/ PageEnable
           \/ PageCommand
  BY <1>2 DEF ChipDone, ReadSector, EraseEnable, EraseCommand, PageEnable,
              PageCommand, CountersOK
<1>3. CASE CheckErased
  <2>1. CASE Dirty
    BY <1>3, <2>1 DEF CheckErased, CountersOK
  <2>2. CASE ~Dirty
    <3> DEFINE b == SubSeq(op[2], src + 1, src + secremain)
    <3>1. Len(b) \in Nat
      BY DEF CountersOK
    <3>2. NoCheck(b, waddr)
      BY <1>3, <2>2 DEF CheckErased
    <3>3. paddr' \in Nat /\ pleft' \in Nat /\ pageremain' \in Nat
      <4> HIDE DEF b
      <4> QED BY <3>1, <3>2, NoCheckOK DEF CountersOK
    <3> QED BY <1>3, <3>3 DEF CheckErased, CountersOK
  <2> QED BY <2>1, <2>2
<1>4. CASE Merge
  <2> DEFINE b == [i \in 1..SectorSize |-> BUFFER'[i-1]]
             a == (secpos * SectorSize) % AddrSpace
  <2>1. Len(b) \in Nat BY Sizes
  <2>2. a \in Nat
    <3>1. secpos * SectorSize \in Nat BY Sizes DEF CountersOK
    <3>2. AddrSpace \in Nat \ {0} BY Sizes
    <3> QED BY <3>1, <3>2, RemainderType
  <2>3. NoCheck(b, a) BY <1>4 DEF Merge
  <2>4. paddr' \in Nat /\ pleft' \in Nat /\ pageremain' \in Nat
    <3> HIDE DEF a, b
    <3> QED BY <2>1, <2>2, <2>3, NoCheckOK
  <2> QED BY <1>4, <2>4 DEF Merge, CountersOK
<1>5. CASE PageNext
  BY <1>5, PageNextOK
<1>6. CASE SectorNext
  <2>1. CASE left = secremain
    BY <1>6, <2>1 DEF SectorNext, Idle, CountersOK
  <2>2. CASE left # secremain
    <3>1. AddrSpace \in Nat \ {0} BY Sizes
    <3>2. (waddr + secremain) % AddrSpace \in Nat
      BY <3>1, RemainderType DEF CountersOK
    <3> QED BY <1>6, <2>2, <3>2, Sizes DEF SectorNext, CountersOK, Least
  <2> QED BY <2>1, <2>2
<1>7. CASE Reset
  BY <1>7 DEF Reset, Idle, CountersOK
<1>8. ASSUME NEW a \in Addr, NEW data \in Data, Write(a, data) PROVE CountersOK'
  <2>1. a \in Nat /\ Len(data) \in Nat
    BY DataAssumption, AddrSpaceAssumption DEF Addr
  <2>2. a \div SectorSize \in Nat BY <2>1, Sizes, QuotientType
  <2>3. a % SectorSize \in Nat /\ a % SectorSize < SectorSize
    BY <2>1, Sizes, RemainderType
  <2> QED BY <1>8, <2>1, <2>2, <2>3, Sizes DEF Write, CountersOK, Least
<1> QED BY <1>1, <1>2, <1>3, <1>4, <1>5, <1>6, <1>7, <1>8 DEF Next, Step

\* Every step keeps the page loop within its pages.
LEMMA PageLoopNext == IInv /\ [Next]_vars => PageLoopOK'
<1> SUFFICES ASSUME IInv, [Next]_vars PROVE PageLoopOK'
  OBVIOUS
<1> USE DEF IInv, pageVars
<1>1. CASE UNCHANGED vars
  BY <1>1 DEF vars, PageLoopOK
<1>2. CASE ChipDone \/ PageEnable \/ PageCommand
  BY <1>2 DEF ChipDone, PageEnable, PageCommand, PageLoopOK
<1>3. CASE ReadSector \/ EraseEnable \/ EraseCommand \/ SectorNext \/ Reset
           \/ \E a \in Addr, data \in Data : Write(a, data)
  BY <1>3 DEF ReadSector, EraseEnable, EraseCommand, SectorNext, Reset, Idle,
              Write, PageLoopOK
<1>4. CASE CheckErased
  <2>1. CASE Dirty
    BY <1>4, <2>1 DEF CheckErased, PageLoopOK
  <2>2. CASE ~Dirty
    <3> DEFINE b == SubSeq(op[2], src + 1, src + secremain)
    <3>1. Len(b) \in Nat
      BY DEF CountersOK
    <3>2. NoCheck(b, waddr)
      BY <1>4, <2>2 DEF CheckErased
    <3> HIDE DEF b
    <3> QED BY <3>1, <3>2, NoCheckOK DEF CountersOK
  <2> QED BY <2>1, <2>2
<1>5. CASE Merge
  <2> DEFINE b == [i \in 1..SectorSize |-> BUFFER'[i-1]]
             a == (secpos * SectorSize) % AddrSpace
  <2>1. Len(b) \in Nat BY Sizes
  <2>2. a \in Nat
    <3>1. secpos * SectorSize \in Nat BY Sizes DEF CountersOK
    <3>2. AddrSpace \in Nat \ {0} BY Sizes
    <3> QED BY <3>1, <3>2, RemainderType
  <2>3. NoCheck(b, a) BY <1>5 DEF Merge
  <2> HIDE DEF a, b
  <2> QED BY <2>1, <2>2, <2>3, NoCheckOK
<1>6. CASE PageNext
  BY <1>6, PageNextOK
<1> QED BY <1>1, <1>2, <1>3, <1>4, <1>5, <1>6 DEF Next, Step

\* Every step keeps the chip in step with the driver.
LEMMA ChipNext == IInv /\ [Next]_vars => ChipOK'
<1> SUFFICES ASSUME IInv, [Next]_vars PROVE ChipOK'
  OBVIOUS
<1> USE DEF IInv, ChipOK, busy, chip
<1>1. CASE UNCHANGED vars BY <1>1 DEF vars
<1>2. CASE ChipDone BY <1>2 DEF ChipDone
<1>3. CASE ReadSector BY <1>3 DEF ReadSector
<1>4. CASE CheckErased BY <1>4 DEF CheckErased, NoCheck
<1>5. CASE EraseEnable BY <1>5 DEF EraseEnable, WriteEnable
<1>6. CASE EraseCommand BY <1>6 DEF EraseCommand
<1>7. CASE Merge BY <1>7 DEF Merge, NoCheck
<1>8. CASE PageEnable BY <1>8 DEF PageEnable, WriteEnable
<1>9. CASE PageCommand BY <1>9 DEF PageCommand
<1>10. CASE PageNext BY <1>10 DEF PageNext, PageLoop
<1>11. CASE SectorNext BY <1>11 DEF SectorNext, Idle
<1>12. CASE Reset BY <1>12 DEF Reset, Idle
<1>13. CASE \E a \in Addr, data \in Data : Write(a, data)
  BY <1>13 DEF Write
<1> QED BY <1>1, <1>2, <1>3, <1>4, <1>5, <1>6, <1>7, <1>8, <1>9, <1>10, <1>11,
           <1>12, <1>13 DEF Next, Step

\* IInv holds initially.
LEMMA InitOK == Init => IInv
BY DEF Init, IInv, CountersOK, PageLoopOK, ChipOK, busy

\* W25QXX_Write_NoCheck never hands W25QXX_Write_Page a part that crosses a page
\* boundary (spi_flash.c:172), whatever the sizes, the address and the length.
THEOREM NoPageWrap == Spec => []PageFits
<1>1. Init => IInv BY InitOK
<1>2. IInv /\ [Next]_vars => IInv'
  BY CountersNext, PageLoopNext, ChipNext DEF IInv
<1>3. IInv => PageFits BY DEF IInv, PageLoopOK, PageFits
<1> QED BY <1>1, <1>2, <1>3, PTL DEF Spec

\* Every erase and program command finds WEL set and the chip idle, resets in the
\* middle of earlier writes included.
THEOREM NoIgnoredCommand == Spec => []CommandsAccepted
<1>1. Init => IInv BY InitOK
<1>2. IInv /\ [Next]_vars => IInv'
  BY CountersNext, PageLoopNext, ChipNext DEF IInv
<1>3. IInv => CommandsAccepted BY DEF IInv, ChipOK, CommandsAccepted
<1> QED BY <1>1, <1>2, <1>3, PTL DEF Spec
=============================================================================
