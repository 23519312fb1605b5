--------------------------- MODULE SpiStoreProofs ---------------------------
(* W25QXX_Write keeps the promise of FlashStore, for every page size, sector *)
(* size, chip size and text: the invariant that describes the contents of    *)
(* the flash at every step of the two loops, and the refinement that follows.*)
(* At the end a bound on the steps of the two loops.                         *)
EXTENDS SpiFlashProofs

-----------------------------------------------------------------------------
(* The contents of the flash while W25QXX_Write works *)

Size == Sectors * SectorSize

\* The memory m with the first k bytes of data written from address a on.
Partly(m, a, data, k) ==
    [c \in Cells |-> IF \E i \in 1..k : Cell(a + i - 1) = c
                       THEN data[CHOOSE i \in 1..k : Cell(a + i - 1) = c]
                       ELSE m[c]]

\* The memory m with the cells from lo up to hi erased.
Gap(m, lo, hi) == [c \in Cells |-> IF c \in lo..hi-1 THEN ERASED ELSE m[c]]

\* The first cell of sector number s.
Base(s) == SectorSize * (s % Sectors)

\* The contents before and after the part of the write in the current sector.
Old == Partly(before, op[1], op[2], src)
New == Partly(before, op[1], op[2], src + secremain)

\* The contents with the current sector erased.
Blank == Gap(Old, Base(secpos), Base(secpos) + SectorSize)

\* The contents when the page loop still has the cells from lo on to program.
Rest(lo) == Gap(New, lo, Cell(paddr) + pleft)

\* The types that no other part implies.
ValuesOK ==
    /\ before \in [Cells -> Byte] /\ mem \in [Cells -> Byte]
    /\ wel \in BOOLEAN /\ lost \in BOOLEAN
    /\ BUFFER \in [0..SectorSize-1 -> Byte]
    /\ busy => job[1] \subseteq Cells /\ job[2] \in [Cells -> Byte]
    /\ pc \in {"idle", "read", "check", "erase", "erase_cmd", "merge", "page",
               "page_cmd", "page_wait", "next"}
    /\ secoff \in 0..SectorSize-1 /\ secremain \in 0..SectorSize-secoff
    /\ pageremain \in 0..PageSize /\ waddr \in Addr /\ paddr \in Addr

\* Between two calls there is no operation and the flash holds what it promises.
IdleOK ==
    /\ pc = "idle" => op = << >> /\ mem = before
    /\ pc # "idle" => op # << >> /\ \E a \in Addr, data \in Data : op = <<a, data>>

\* The sector loop: where it is in the text, in the chip and in the sector.
SectorLoopOK ==
    pc # "idle" =>
        /\ src + left = Len(op[2])
        /\ waddr = (op[1] + src) % AddrSpace
        /\ op[1] + src = secpos * SectorSize + secoff
        /\ secremain = Least(left, SectorSize - secoff)

\* Up to the erase command the part before src is written, and W25QXX_BUFFER holds
\* the sector as it was; then the sector is blank.
EraseOK ==
    /\ pc \in {"read", "check", "erase", "erase_cmd"} => mem = Old
    /\ pc \in {"check", "erase", "erase_cmd", "merge"} =>
           BUFFER = [j \in 0..SectorSize-1 |-> Old[Base(secpos) + j]]
    /\ pc \in {"erase", "erase_cmd", "merge"} => secremain > 0
    /\ pc = "merge" =>
           /\ busy => mem = Old /\ job = <<SectorZone(secpos), Blank>>
           /\ ~busy => mem = Blank

\* In the page loop the cells still to be programmed are erased, pbuf holds their
\* new contents, and all others hold theirs.
ProgramOK ==
    /\ pc \in {"page", "page_cmd", "page_wait"} =>
        /\ Cell(paddr) >= Base(secpos)
        /\ Cell(paddr) + pleft <= Base(secpos) + SectorSize
        /\ pleft > 0 => secremain > 0
        /\ pbuf \in Seq(Byte) /\ Len(pbuf) = pleft
        /\ \A i \in 1..pleft : pbuf[i] = New[Cell(paddr) + i - 1]
    /\ pc \in {"page", "page_cmd"} => mem = Rest(Cell(paddr))
    /\ pc = "page_wait" =>
           /\ busy => /\ mem = Rest(Cell(paddr)) /\ pageremain > 0
                      /\ job = <<PageZone(paddr), Rest(Cell(paddr) + pageremain)>>
           /\ ~busy => mem = Rest(Cell(paddr) + pageremain)
    /\ pc = "next" => mem = New

StoreInv == ValuesOK /\ IdleOK /\ SectorLoopOK /\ EraseOK /\ ProgramOK

-----------------------------------------------------------------------------
(* Arithmetic of cells, sectors and pages *)

\* A quotient and a remainder determine each other.
LEMMA DivModUnique ==
    ASSUME NEW m \in Nat \ {0}, NEW q \in Nat, NEW r \in Nat, r < m
    PROVE  (m * q + r) % m = r /\ (m * q + r) \div m = q
<1> DEFINE x == m * q + r
<1>1. x \in Nat OBVIOUS
<1>2. x \div m \in Nat BY <1>1, QuotientType
<1>3. x % m \in Nat /\ x % m < m BY <1>1, RemainderType
<1>4. x = m * (x \div m) + (x % m) BY <1>1, Division
<1>5. PICK y \in Nat, z \in Nat : y = x \div m /\ z = x % m
  BY <1>2, <1>3
<1>6. m * q + r = m * y + z /\ z < m BY <1>3, <1>4, <1>5
<1>7. y = q
  <2> HIDE DEF x
  <2>1. CASE y > q
    <3>1. y = q + (y - q) /\ y - q >= 1 /\ y - q \in Nat BY <2>1
    <3>2. m * y = m * q + m * (y - q) OBVIOUS
    <3>3. m * (y - q) >= m BY <3>1
    <3> QED BY <1>6, <3>2, <3>3
  <2>2. CASE y < q
    <3>1. q = y + (q - y) /\ q - y >= 1 /\ q - y \in Nat BY <2>2
    <3>2. m * q = m * y + m * (q - y) OBVIOUS
    <3>3. m * (q - y) >= m BY <3>1
    <3> QED BY <1>6, <3>2, <3>3
  <2> QED BY <2>1, <2>2
<1>8. z = r
  <2> HIDE DEF x
  <2> QED BY <1>6, <1>7
<1> QED BY <1>5, <1>7, <1>8

\* The remainder does not see what is removed in multiples of a multiple.
LEMMA ModMod ==
    ASSUME NEW a \in Nat, NEW m \in Nat \ {0}, NEW q \in Nat \ {0}
    PROVE  (a % (m * q)) % m = a % m
<1> DEFINE n == m * q
<1>0. n \in Nat \ {0} OBVIOUS
<1>1. PICK y \in Nat, z \in Nat : y = a \div n /\ z = a % n /\ a = n * y + z
  <2> HIDE DEF n
  <2>1. a \div n \in Nat BY <1>0, QuotientType
  <2>2. a % n \in Nat BY <1>0, RemainderType
  <2>3. a = n * (a \div n) + (a % n) BY <1>0, Division
  <2> QED BY <2>1, <2>2, <2>3
<1>2. PICK u \in Nat, v \in Nat : u = z \div m /\ v = z % m /\ z = m * u + v /\ v < m
  <2>1. z \div m \in Nat BY QuotientType
  <2>2. z % m \in Nat /\ z % m < m BY RemainderType
  <2>3. z = m * (z \div m) + (z % m) BY Division
  <2> QED BY <2>1, <2>2, <2>3
<1>3. q * y \in Nat /\ (m * q) * y = m * (q * y) OBVIOUS
<1>4. q * y + u \in Nat /\ m * (q * y + u) = m * (q * y) + m * u OBVIOUS
<1>5. a = m * (q * y + u) + v BY <1>1, <1>2, <1>3, <1>4
<1>6. a % m = v BY <1>2, <1>4, <1>5, DivModUnique
<1> QED BY <1>1, <1>2, <1>6

\* The sizes of the chip: cells, pages per sector, turns of the address space.
LEMMA ChipSizes ==
    /\ PageSize \in Nat \ {0} /\ SectorSize \in Nat \ {0} /\ Sectors \in Nat \ {0}
    /\ Size \in Nat \ {0} /\ AddrSpace \in Nat \ {0}
    /\ \E q \in Nat \ {0} : SectorSize = PageSize * q
    /\ \E q \in Nat \ {0} : Size = PageSize * q
    /\ \E q \in Nat \ {0} : AddrSpace = Size * q
    /\ Size = SectorSize * Sectors
<1>1. PageSize \in Nat \ {0} BY PageSizeAssumption
<1>2. PICK q \in 1..SectorSize : SectorSize = q * PageSize
  BY SectorSizeAssumption
<1>3. SectorSize \in Nat \ {0} BY Sizes
<1>4. Sectors \in Nat \ {0} BY SectorsAssumption
<1>5. Size \in Nat \ {0} /\ Size = SectorSize * Sectors BY <1>3, <1>4 DEF Size
<1>6. PICK r \in 1..AddrSpace : AddrSpace = r * Size
  BY AddrSpaceAssumption DEF Size
<1>7. r \in Nat \ {0} /\ q \in Nat \ {0}
  BY <1>2, <1>3, <1>6, AddrSpaceAssumption
<1>8. AddrSpace = Size * r /\ AddrSpace \in Nat \ {0} BY <1>5, <1>6, <1>7
<1>9. SectorSize = PageSize * q BY <1>1, <1>2, <1>7
<1>10. q * Sectors \in Nat \ {0} /\ (PageSize * q) * Sectors = PageSize * (q * Sectors)
  BY <1>1, <1>4, <1>7
<1>11. Size = PageSize * (q * Sectors) BY <1>5, <1>9, <1>10
<1> QED BY <1>1, <1>3, <1>4, <1>5, <1>7, <1>8, <1>9, <1>10, <1>11

LEMMA SizeTypes ==
    /\ PageSize \in Nat \ {0} /\ SectorSize \in Nat \ {0} /\ Sectors \in Nat \ {0}
    /\ Size \in Nat \ {0} /\ AddrSpace \in Nat \ {0}
BY ChipSizes

\* Every address is in a cell, and the processor's wrap does not move it.
LEMMA CellType ==
    ASSUME NEW a \in Nat
    PROVE  Cell(a) \in Cells /\ Cell(a) \in Nat /\ Cell(a) < Size /\ Cell(a % AddrSpace) = Cell(a)
           /\ a % AddrSpace \in Addr /\ a % AddrSpace \in Nat
<1>1. Cell(a) = a % Size BY DEF Cell, Size
<1>2. a % Size \in Nat /\ a % Size < Size BY SizeTypes, RemainderType
<1>3. PICK q \in Nat \ {0} : AddrSpace = Size * q BY ChipSizes
<1>4. (a % AddrSpace) % Size = a % Size
  BY <1>3, SizeTypes, ModMod
<1>5. a % AddrSpace \in Nat /\ a % AddrSpace < AddrSpace BY SizeTypes, RemainderType
<1>6. Cell(a % AddrSpace) = (a % AddrSpace) % Size BY DEF Cell, Size
<1>7. Cells = 0..Size-1 BY DEF Cells, Size
<1>8. a % Size \in Cells BY <1>2, <1>7, SizeTypes
<1>9. a % AddrSpace \in Addr BY <1>5, SizeTypes DEF Addr
<1> QED BY <1>1, <1>2, <1>4, <1>5, <1>6, <1>8, <1>9, Zenon

\* The bytes of sector number s are next to each other, sectors beyond the last
\* one of the chip being the first ones again.
LEMMA SectorCells ==
    ASSUME NEW s \in Nat, NEW j \in Nat, j < SectorSize
    PROVE  /\ Cell(s * SectorSize + j) = SectorSize * (s % Sectors) + j
           /\ SectorSize * (s % Sectors) \in Nat
           /\ SectorSize * (s % Sectors) + SectorSize <= Size
<1>1. PICK y \in Nat, z \in Nat : y = s \div Sectors /\ z = s % Sectors
                                 /\ s = Sectors * y + z /\ z < Sectors
  <2>1. s \div Sectors \in Nat BY SizeTypes, QuotientType
  <2>2. s % Sectors \in Nat /\ s % Sectors < Sectors BY SizeTypes, RemainderType
  <2>3. s = Sectors * (s \div Sectors) + (s % Sectors) BY SizeTypes, Division
  <2> QED BY <2>1, <2>2, <2>3
<1>2. PICK d \in Nat : Sectors = z + 1 + d
  <2>1. Sectors - (z + 1) \in Nat BY <1>1, SizeTypes
  <2> QED BY <2>1, SizeTypes
<1>3. SectorSize * (z + 1 + d) = SectorSize * z + SectorSize + SectorSize * d
  BY SizeTypes
<1>4. SectorSize * z \in Nat /\ SectorSize * d \in Nat BY SizeTypes
<1>5. SectorSize * z + SectorSize <= Size BY <1>2, <1>3, <1>4, ChipSizes
<1>6. (Sectors * y + z) * SectorSize = (SectorSize * Sectors) * y + SectorSize * z
  BY SizeTypes
<1>7. s * SectorSize + j = Size * y + (SectorSize * z + j)
  BY <1>1, <1>4, <1>6, ChipSizes
<1>8. SectorSize * z + j \in Nat /\ SectorSize * z + j < Size
  BY <1>4, <1>5, SizeTypes
<1>9. (s * SectorSize + j) % Size = SectorSize * z + j
  <2> DEFINE r == SectorSize * z + j
  <2>1. r \in Nat /\ r < Size BY <1>8
  <2> HIDE DEF r
  <2>2. (Size * y + r) % Size = r BY <2>1, SizeTypes, DivModUnique
  <2> QED BY <1>7, <2>2 DEF r
<1> QED BY <1>1, <1>4, <1>5, <1>9 DEF Cell, Size

\* A number lies in the block that its quotient names.
LEMMA BlockOf ==
    ASSUME NEW m \in Nat \ {0}, NEW q \in Nat, NEW c \in Nat
    PROVE  c \div m = q <=> m * q <= c /\ c < m * q + m
<1>1. ASSUME c \div m = q PROVE m * q <= c /\ c < m * q + m
  <2>1. c % m \in Nat /\ c % m < m BY RemainderType
  <2>2. c = m * q + (c % m) BY <1>1, Division
  <2>3. m * q \in Nat OBVIOUS
  <2> QED BY <2>1, <2>2, <2>3
<1>2. ASSUME m * q <= c /\ c < m * q + m PROVE c \div m = q
  <2>1. m * q \in Nat OBVIOUS
  <2>2. PICK r \in Nat : r = c - m * q BY <1>2, <2>1
  <2>3. r < m BY <1>2, <2>1, <2>2
  <2>4. c = m * q + r BY <2>1, <2>2
  <2> QED BY <2>3, <2>4, DivModUnique
<1> QED BY <1>1, <1>2

\* What the chip erases for sector number s is one block of cells.
LEMMA SectorZoneIs ==
    ASSUME NEW s \in Nat
    PROVE  SectorZone(s) = SectorSize * (s % Sectors)..SectorSize * (s % Sectors) + SectorSize - 1
<1>1. PICK z \in Nat : z = s % Sectors
  BY SizeTypes, RemainderType
<1> DEFINE b == SectorSize * z
<1>2. b \in Nat BY SizeTypes
<1>3. PICK j \in Nat : j = 0 OBVIOUS
<1>4. Cell(s * SectorSize) = b /\ b + SectorSize <= Size
  <2>1. Cell(s * SectorSize + j) = b + j /\ b + SectorSize <= Size
    <3>1. j < SectorSize BY <1>3, SizeTypes
    <3>2. /\ Cell(s * SectorSize + j) = SectorSize * (s % Sectors) + j
          /\ SectorSize * (s % Sectors) + SectorSize <= Size
      BY <3>1, SectorCells
    <3> QED BY <1>1, <3>2
  <2>2. s * SectorSize + j = s * SectorSize BY <1>3, SizeTypes
  <2> HIDE DEF b
  <2> QED BY <1>2, <1>3, <2>1, <2>2
<1>5. b \div SectorSize = z
  <2>1. b = SectorSize * z + 0 BY <1>2
  <2> HIDE DEF b
  <2> QED BY <2>1, SizeTypes, DivModUnique
<1>6. ASSUME NEW c \in Cells PROVE c \div SectorSize = z <=> c \in b..b + SectorSize - 1
  <2>1. c \in Nat BY SizeTypes DEF Cells, Size
  <2>2. c \div SectorSize = z <=> SectorSize * z <= c /\ c < SectorSize * z + SectorSize
    BY <2>1, SizeTypes, BlockOf
  <2> HIDE DEF b
  <2> QED BY <1>2, <2>1, <2>2, SizeTypes DEF b
<1>7. b..b + SectorSize - 1 \subseteq Cells
  <2> HIDE DEF b
  <2> QED BY <1>2, <1>4, SizeTypes DEF Cells, Size
<1>8. SectorZone(s) = b..b + SectorSize - 1
  <2> HIDE DEF b
  <2> QED BY <1>4, <1>5, <1>6, <1>7 DEF SectorZone
<1> QED BY <1>1, <1>8

\* Cells follow each other like addresses up to the end of the chip.
LEMMA CellStep ==
    ASSUME NEW a \in Nat, NEW k \in Nat, Cell(a) + k < Size
    PROVE  Cell(a + k) = Cell(a) + k
<1>1. PICK y \in Nat, z \in Nat : y = a \div Size /\ z = a % Size /\ a = Size * y + z
  <2>1. a \div Size \in Nat BY SizeTypes, QuotientType
  <2>2. a % Size \in Nat BY SizeTypes, RemainderType
  <2>3. a = Size * (a \div Size) + (a % Size) BY SizeTypes, Division
  <2> QED BY <2>1, <2>2, <2>3
<1>2. Cell(a) = z BY <1>1 DEF Cell, Size
<1>3. PICK r \in Nat : r = z + k OBVIOUS
<1>4. Size * y \in Nat BY SizeTypes
<1>5. r < Size /\ a + k = Size * y + r BY <1>1, <1>2, <1>3, <1>4, SizeTypes
<1>6. (a + k) % Size = r
  <2>1. (Size * y + r) % Size = r BY <1>5, SizeTypes, DivModUnique
  <2> QED BY <1>5, <2>1
<1> QED BY <1>2, <1>3, <1>6 DEF Cell, Size

\* No two bytes of a text that fits on the chip share a cell.
LEMMA CellInjective ==
    ASSUME NEW a \in Nat, NEW i \in Nat, NEW k \in Nat, i <= k, k - i < Size,
           Cell(a + i) = Cell(a + k)
    PROVE  i = k
<1>1. PICK y \in Nat, z \in Nat : z = Cell(a + i) /\ a + i = Size * y + z
  <2>0. PICK x \in Nat : x = a + i OBVIOUS
  <2>1. x \div Size \in Nat BY SizeTypes, QuotientType
  <2>2. x % Size \in Nat BY SizeTypes, RemainderType
  <2>3. x = Size * (x \div Size) + (x % Size) BY SizeTypes, Division
  <2> QED BY <2>0, <2>1, <2>2, <2>3 DEF Cell, Size
<1>2. PICK v \in Nat, w \in Nat : w = Cell(a + k) /\ a + k = Size * v + w
  <2>0. PICK x \in Nat : x = a + k OBVIOUS
  <2>1. x \div Size \in Nat BY SizeTypes, QuotientType
  <2>2. x % Size \in Nat BY SizeTypes, RemainderType
  <2>3. x = Size * (x \div Size) + (x % Size) BY SizeTypes, Division
  <2> QED BY <2>0, <2>1, <2>2, <2>3 DEF Cell, Size
<1>3. Size * v - Size * y = k - i
  <2>1. Size * v \in Nat /\ Size * y \in Nat BY SizeTypes
  <2> QED BY <1>1, <1>2, <2>1
<1>4. CASE v = y BY <1>3, <1>4, SizeTypes
<1>5. CASE v > y
  <2>1. Size * v = Size * y + Size * (v - y) BY SizeTypes
  <2>2. Size * (v - y) >= Size BY <1>5, SizeTypes
  <2>3. Size * v \in Nat /\ Size * y \in Nat /\ Size * (v - y) \in Int BY SizeTypes
  <2> QED BY <1>3, <2>1, <2>2, <2>3, SizeTypes
<1>6. CASE v < y
  <2>1. Size * y = Size * v + Size * (y - v) BY SizeTypes
  <2>2. Size * (y - v) >= Size BY <1>6, SizeTypes
  <2>3. Size * v \in Nat /\ Size * y \in Nat /\ Size * (y - v) \in Int BY SizeTypes
  <2> QED BY <1>3, <2>1, <2>2, <2>3, SizeTypes
<1> QED BY <1>4, <1>5, <1>6

\* A page program that stays inside its page writes consecutive cells.
LEMMA PageCells ==
    ASSUME NEW a \in Nat, NEW i \in Nat, (a % PageSize) + i < PageSize
    PROVE  PageOf(a) + ((a + i) % PageSize) = Cell(a) + i
<1>1. PICK q \in Nat \ {0} : Size = PageSize * q BY ChipSizes
<1>2. (a % Size) % PageSize = a % PageSize BY <1>1, SizeTypes, ModMod
<1>3. PICK y \in Nat, z \in Nat : z = a % PageSize /\ a = PageSize * y + z
  <2>1. a \div PageSize \in Nat BY SizeTypes, QuotientType
  <2>2. a % PageSize \in Nat BY SizeTypes, RemainderType
  <2>3. a = PageSize * (a \div PageSize) + (a % PageSize) BY SizeTypes, Division
  <2> QED BY <2>1, <2>2, <2>3
<1>4. PICK r \in Nat : r = z + i OBVIOUS
<1>5. PageSize * y \in Nat BY SizeTypes
<1>6. r < PageSize /\ a + i = PageSize * y + r BY <1>3, <1>4, <1>5, SizeTypes
<1>7. (a + i) % PageSize = r
  <2>1. (PageSize * y + r) % PageSize = r BY <1>6, SizeTypes, DivModUnique
  <2> QED BY <1>6, <2>1
<1>8. PageOf(a) = Cell(a) - z BY <1>2, <1>3 DEF PageOf, Cell, Size
<1>9. Cell(a) \in Nat BY CellType
<1> QED BY <1>4, <1>7, <1>8, <1>9

\* The page of a cell lies in the sector of the cell.
LEMMA PageInSector ==
    ASSUME NEW a \in Nat, NEW t \in Nat,
           SectorSize * t <= Cell(a), Cell(a) < SectorSize * t + SectorSize
    PROVE  PageZone(a) \subseteq SectorSize * t..SectorSize * t + SectorSize - 1
<1>1. PICK q \in Nat \ {0} : SectorSize = PageSize * q BY ChipSizes
<1>2. PICK c \in Nat : c = Cell(a) BY CellType
<1>3. PICK y \in Nat, z \in Nat : z = c % PageSize /\ c = PageSize * y + z /\ z < PageSize
  <2>1. c \div PageSize \in Nat BY SizeTypes, QuotientType
  <2>2. c % PageSize \in Nat /\ c % PageSize < PageSize BY SizeTypes, RemainderType
  <2>3. c = PageSize * (c \div PageSize) + (c % PageSize) BY SizeTypes, Division
  <2> QED BY <2>1, <2>2, <2>3
<1>4. PICK w \in Nat : w = q * t OBVIOUS
<1>5. SectorSize * t = PageSize * w
  <2>1. (PageSize * q) * t = PageSize * (q * t) BY SizeTypes
  <2> QED BY <1>1, <1>4, <2>1
<1>6. PageSize * (w + q) = PageSize * w + SectorSize BY <1>1, SizeTypes
<1>7. y >= w
  <2>1. SUFFICES ASSUME y < w PROVE FALSE OBVIOUS
  <2>2. PageSize * (w - y) >= PageSize BY <2>1, SizeTypes
  <2>3. PageSize * w = PageSize * y + PageSize * (w - y) BY SizeTypes
  <2>4. PageSize * w \in Int /\ PageSize * y \in Int /\ PageSize * (w - y) \in Int
    BY SizeTypes
  <2> QED BY <1>2, <1>3, <1>5, <2>2, <2>3, <2>4, SizeTypes
<1>8. y + 1 <= w + q
  <2>1. SUFFICES ASSUME y >= w + q PROVE FALSE BY <1>1
  <2>2. PageSize * y >= PageSize * (w + q)
    <3>1. PageSize * (y - (w + q)) >= 0 BY <2>1, SizeTypes
    <3>2. PageSize * y = PageSize * (w + q) + PageSize * (y - (w + q)) BY SizeTypes
    <3>3. PageSize * y \in Int /\ PageSize * (w + q) \in Int
          /\ PageSize * (y - (w + q)) \in Int
      BY SizeTypes
    <3> QED BY <3>1, <3>2, <3>3
  <2>3. PageSize * y \in Int /\ PageSize * w \in Int BY SizeTypes
  <2> QED BY <1>2, <1>3, <1>5, <1>6, <2>2, <2>3, SizeTypes
<1>9. PageOf(a) = PageSize * y
  <2>1. PageSize * y \in Nat BY SizeTypes
  <2> QED BY <1>2, <1>3, <2>1 DEF PageOf
<1>10. PageSize * y >= PageSize * w
  <2>1. PageSize * (y - w) >= 0 BY <1>7, SizeTypes
  <2>2. PageSize * y = PageSize * w + PageSize * (y - w) BY SizeTypes
  <2>3. PageSize * y \in Int /\ PageSize * w \in Int /\ PageSize * (y - w) \in Int
    BY SizeTypes
  <2> QED BY <2>1, <2>2, <2>3
<1>11. PageSize * y + PageSize <= PageSize * (w + q)
  <2>1. PageSize * ((w + q) - (y + 1)) >= 0 BY <1>8, SizeTypes
  <2>2. PageSize * (w + q) = PageSize * y + PageSize + PageSize * ((w + q) - (y + 1))
    BY SizeTypes
  <2>3. PageSize * y \in Int /\ PageSize * (w + q) \in Int
        /\ PageSize * ((w + q) - (y + 1)) \in Int
    BY SizeTypes
  <2> QED BY <2>1, <2>2, <2>3, SizeTypes
<1>12. PageSize * y \in Int /\ PageSize * w \in Int BY SizeTypes
<1> QED BY <1>5, <1>6, <1>9, <1>10, <1>11, <1>12, SizeTypes DEF PageZone

-----------------------------------------------------------------------------
(* What the operators on the contents return *)

\* p is m with the first k bytes of data in their cells and all others as before.
IsPartly(p, m, a, data, k) ==
    /\ p \in [Cells -> Byte]
    /\ \A i \in 1..k : p[Cell(a + i - 1)] = data[i]
    /\ \A c \in Cells : (\A i \in 1..k : Cell(a + i - 1) # c) => p[c] = m[c]

\* This describes Partly when the text fits on the chip.
LEMMA PartlyIs ==
    ASSUME NEW m \in [Cells -> Byte], NEW a \in Nat, NEW data \in Seq(Byte),
           Len(data) <= Size, NEW k \in Nat, k <= Len(data)
    PROVE  IsPartly(Partly(m, a, data, k), m, a, data, k)
<1> DEFINE P == Partly(m, a, data, k)
           Hit(c, i) == Cell(a + i - 1) = c
           W(c) == CHOOSE i \in 1..k : Hit(c, i)
<1>1. P = [c \in Cells |-> IF \E i \in 1..k : Hit(c, i) THEN data[W(c)] ELSE m[c]]
  BY DEF Partly
<1>2. ASSUME NEW c \in Cells, \E i \in 1..k : Hit(c, i)
      PROVE  W(c) \in 1..k /\ Hit(c, W(c))
  BY <1>2
<1>3. \A i \in 1..k : data[i] \in Byte
  OBVIOUS
<1>4. ASSUME NEW i \in 1..k PROVE P[Cell(a + i - 1)] = data[i]
  <2>1. PICK n \in Nat : n = i - 1 OBVIOUS
  <2>2. Cell(a + i - 1) = Cell(a + n)
    <3>1. a + i - 1 = a + n BY <2>1
    <3> QED BY <3>1
  <2>3. PICK c \in Cells : c = Cell(a + n) BY CellType
  <2>4. Hit(c, i) BY <2>2, <2>3
  <2>5. W(c) \in 1..k /\ Hit(c, W(c)) BY <1>2, <2>4
  <2>6. PICK w \in 1..k : w = W(c) /\ Hit(c, w) BY <2>5
  <2>7. PICK v \in Nat : v = w - 1 OBVIOUS
  <2>8. Cell(a + v) = Cell(a + n)
    <3>1. a + w - 1 = a + v BY <2>7
    <3> QED BY <2>3, <2>6, <3>1
  <2>9. v = n
    <3>1. v < Size /\ n < Size BY <2>1, <2>7, SizeTypes
    <3>2. CASE v <= n
      <4>1. n - v < Size BY <3>1, SizeTypes
      <4> QED BY <2>8, <3>2, <4>1, CellInjective
    <3>3. CASE n <= v
      <4>1. v - n < Size BY <3>1, SizeTypes
      <4> QED BY <2>8, <3>3, <4>1, CellInjective
    <3> QED BY <3>2, <3>3
  <2>10. w = i BY <2>1, <2>7, <2>9
  <2>11. P[c] = data[W(c)]
    <3> HIDE DEF P, W, Hit
    <3> QED BY <1>1, <2>4
  <2> QED BY <2>2, <2>3, <2>6, <2>10, <2>11
<1>5. ASSUME NEW c \in Cells, \A i \in 1..k : Cell(a + i - 1) # c PROVE P[c] = m[c]
  <2> HIDE DEF P, W
  <2> QED BY <1>1, <1>5
<1>6. P \in [Cells -> Byte]
  <2>1. ASSUME NEW c \in Cells
        PROVE  (IF \E i \in 1..k : Hit(c, i) THEN data[W(c)] ELSE m[c]) \in Byte
    <3>1. CASE \E i \in 1..k : Hit(c, i)
      <4>1. W(c) \in 1..k BY <1>2, <3>1
      <4> HIDE DEF W, Hit
      <4> QED BY <1>3, <3>1, <4>1
    <3>2. CASE ~\E i \in 1..k : Hit(c, i)
      <4> HIDE DEF W, Hit
      <4> QED BY <3>2
    <3> QED BY <3>1, <3>2
  <2> HIDE DEF P, W, Hit
  <2> QED BY <1>1, <2>1
<1> HIDE DEF P
<1>7. IsPartly(P, m, a, data, k) BY <1>4, <1>5, <1>6 DEF IsPartly
<1> QED BY <1>7 DEF P

\* An erased stretch leaves the rest alone.
LEMMA GapIs ==
    ASSUME NEW m \in [Cells -> Byte], NEW lo \in Nat, NEW hi \in Nat
    PROVE  /\ Gap(m, lo, hi) \in [Cells -> Byte]
           /\ \A c \in Cells : c \in lo..hi-1 => Gap(m, lo, hi)[c] = ERASED
           /\ \A c \in Cells : c \notin lo..hi-1 => Gap(m, lo, hi)[c] = m[c]
BY DEF Gap, ERASED, Byte

-----------------------------------------------------------------------------
(* Where the sector loop is *)

\* The arguments of W25QXX_Write.
LEMMA Arguments ==
    ASSUME StoreInv, pc # "idle"
    PROVE  /\ op[1] \in Addr /\ op[1] \in Nat /\ op[2] \in Data /\ op[2] \in Seq(Byte)
           /\ Len(op[2]) \in Nat /\ Len(op[2]) <= Size /\ op = <<op[1], op[2]>>
<1>1. PICK a \in Addr, data \in Data : op = <<a, data>>
  BY DEF StoreInv, IdleOK
<1>2. a \in Nat BY SizeTypes DEF Addr
<1>3. data \in Seq(Byte) BY DataAssumption DEF Byte
<1>4. Len(data) <= Size BY LengthAssumption DEF Size
<1>5. Len(data) \in Nat BY <1>3
<1>6. op[1] = a /\ op[2] = data BY <1>1
<1> QED BY <1>1, <1>2, <1>3, <1>4, <1>5, <1>6

\* The current sector is a block of cells that holds the part of the text from src
\* on, at secoff.
LEMMA Place ==
    ASSUME IInv, StoreInv, pc # "idle"
    PROVE  /\ secpos \in Nat /\ secoff \in Nat /\ src \in Nat /\ left \in Nat
           /\ secremain \in Nat /\ secoff < SectorSize /\ secoff + secremain <= SectorSize
           /\ src + secremain <= Len(op[2])
           /\ Base(secpos) \in Nat /\ Base(secpos) + SectorSize <= Size
           /\ \A j \in 0..SectorSize-1 : Cell(secpos * SectorSize + j) = Base(secpos) + j
           /\ \A i \in 1..secremain : Cell(op[1] + (src + i) - 1) = Base(secpos) + secoff + i - 1
           /\ Cell(waddr) = Base(secpos) + secoff
<1>1. /\ secpos \in Nat /\ src \in Nat /\ left \in Nat /\ secremain \in Nat
      /\ secremain <= left
  BY DEF IInv, CountersOK
<1>2. /\ secoff \in Nat /\ secoff < SectorSize /\ secoff + secremain <= SectorSize
  BY SizeTypes DEF StoreInv, ValuesOK
<1>3. /\ src + left = Len(op[2]) /\ waddr = (op[1] + src) % AddrSpace
      /\ op[1] + src = secpos * SectorSize + secoff
  BY DEF StoreInv, SectorLoopOK
<1>4. src + secremain <= Len(op[2]) BY <1>1, <1>3
<1>5. ASSUME NEW j \in Nat, j < SectorSize
      PROVE  /\ Cell(secpos * SectorSize + j) = Base(secpos) + j
             /\ Base(secpos) \in Nat /\ Base(secpos) + SectorSize <= Size
  BY <1>1, <1>5, SectorCells DEF Base
<1>6. Base(secpos) \in Nat /\ Base(secpos) + SectorSize <= Size
  BY <1>2, <1>5
<1>7. op[1] \in Nat BY Arguments
<1>8. secpos * SectorSize \in Nat BY <1>1, SizeTypes
<1>9. ASSUME NEW i \in 1..secremain
      PROVE  Cell(op[1] + (src + i) - 1) = Base(secpos) + secoff + i - 1
  <2>1. PICK j \in Nat : j = secoff + i - 1 BY <1>1, <1>2
  <2>2. j < SectorSize BY <1>1, <1>2, <2>1, SizeTypes
  <2>3. op[1] + (src + i) - 1 = secpos * SectorSize + j
    <3>1. PICK b \in Nat : b = secpos * SectorSize BY <1>8
    <3>2. PICK a \in Nat : a = op[1] BY <1>7
    <3>3. a + src = b + secoff BY <1>3, <3>1, <3>2
    <3>4. a + (src + i) - 1 = b + j BY <1>1, <1>2, <2>1, <3>3
    <3> QED BY <3>1, <3>2, <3>4
  <2>4. Cell(secpos * SectorSize + j) = Base(secpos) + j BY <1>5, <2>2
  <2> QED BY <1>1, <1>2, <1>6, <2>1, <2>3, <2>4
<1>10. Cell(waddr) = Base(secpos) + secoff
  <2>1. op[1] + src \in Nat BY <1>1, <1>7
  <2>2. Cell(waddr) = Cell(op[1] + src) BY <1>3, <2>1, CellType
  <2> QED BY <1>2, <1>3, <1>5, <2>2
<1>11. \A j \in 0..SectorSize-1 : Cell(secpos * SectorSize + j) = Base(secpos) + j
  BY <1>5, SizeTypes
<1> QED BY <1>1, <1>2, <1>4, <1>6, <1>9, <1>10, <1>11

\* The two contents differ exactly in the part of this sector.
LEMMA OldNew ==
    ASSUME IInv, StoreInv, pc # "idle"
    PROVE  /\ Old \in [Cells -> Byte] /\ New \in [Cells -> Byte]
           /\ \A i \in 1..secremain :
                  New[Base(secpos) + secoff + i - 1] = op[2][src + i]
           /\ \A c \in Cells :
                  c \notin Base(secpos) + secoff..Base(secpos) + secoff + secremain - 1
                      => New[c] = Old[c]
<1>1. op[1] \in Nat /\ op[2] \in Seq(Byte) /\ Len(op[2]) \in Nat /\ Len(op[2]) <= Size
  BY Arguments
<1>0. PICK n \in Nat : n = src + secremain BY Place
<1>2. src \in Nat /\ secremain \in Nat /\ n <= Len(op[2]) /\ src <= Len(op[2])
  BY <1>0, <1>1, Place
<1>3. before \in [Cells -> Byte] BY DEF StoreInv, ValuesOK
<1>4. /\ Old \in [Cells -> Byte]
      /\ \A i \in 1..src : Old[Cell(op[1] + i - 1)] = op[2][i]
      /\ \A c \in Cells : (\A i \in 1..src : Cell(op[1] + i - 1) # c) => Old[c] = before[c]
  <2>1. PICK a \in Nat, data \in Seq(Byte) : a = op[1] /\ data = op[2] BY <1>1
  <2>2. Len(data) <= Size /\ src <= Len(data) BY <1>1, <1>2, <2>1
  <2>3. IsPartly(Partly(before, a, data, src), before, a, data, src)
    BY <1>2, <1>3, <2>2, PartlyIs
  <2> QED BY <2>1, <2>3, Zenon DEF Old, IsPartly
<1>5. /\ New \in [Cells -> Byte]
      /\ \A i \in 1..n : New[Cell(op[1] + i - 1)] = op[2][i]
      /\ \A c \in Cells : (\A i \in 1..n : Cell(op[1] + i - 1) # c) => New[c] = before[c]
  <2>1. PICK a \in Nat, data \in Seq(Byte) : a = op[1] /\ data = op[2] BY <1>1
  <2>2. Len(data) <= Size /\ n <= Len(data) BY <1>1, <1>2, <2>1
  <2>3. New = Partly(before, a, data, n) BY <1>0, <2>1 DEF New
  <2>4. IsPartly(Partly(before, a, data, n), before, a, data, n)
    BY <1>2, <1>3, <2>2, PartlyIs
  <2> QED BY <2>1, <2>3, <2>4, Zenon DEF IsPartly
<1>6. ASSUME NEW i \in 1..secremain
      PROVE  New[Base(secpos) + secoff + i - 1] = op[2][src + i]
  <2>1. Cell(op[1] + (src + i) - 1) = Base(secpos) + secoff + i - 1 BY Place
  <2>2. PICK k \in 1..n : k = src + i BY <1>0, <1>2
  <2>3. New[Cell(op[1] + k - 1)] = op[2][k] BY <1>5, <2>2
  <2> QED BY <2>1, <2>2, <2>3
<1>7. ASSUME NEW c \in Cells,
             c \notin Base(secpos) + secoff..Base(secpos) + secoff + secremain - 1
      PROVE  New[c] = Old[c]
  <2>1. CASE \E i \in 1..src : Cell(op[1] + i - 1) = c
    <3>1. PICK i \in 1..src : Cell(op[1] + i - 1) = c BY <2>1
    <3>2. i \in 1..n BY <1>0, <1>2
    <3> QED BY <1>4, <1>5, <3>1, <3>2
  <2>2. CASE \A i \in 1..src : Cell(op[1] + i - 1) # c
    <3>1. ASSUME NEW k \in 1..n PROVE Cell(op[1] + k - 1) # c
      <4>1. CASE k <= src BY <1>2, <2>2, <4>1
      <4>2. CASE k > src
        <5>1. PICK i \in 1..secremain : k = src + i
          <6>1. k - src \in 1..secremain BY <1>0, <1>2, <4>2
          <6> QED BY <1>2, <6>1
        <5>2. Cell(op[1] + (src + i) - 1) = Base(secpos) + secoff + i - 1 BY Place
        <5>3. Base(secpos) \in Nat /\ secoff \in Nat BY Place
        <5>4. Base(secpos) + secoff + i - 1 # c BY <1>2, <1>7, <5>3
        <5> QED BY <5>1, <5>2, <5>4
      <4> QED BY <1>2, <4>1, <4>2
    <3>2. New[c] = before[c]
      BY <1>5, <3>1
    <3>3. Old[c] = before[c] BY <1>4, <2>2
    <3> QED BY <3>2, <3>3
  <2> QED BY <2>1, <2>2
<1> QED BY <1>4, <1>5, <1>6, <1>7

-----------------------------------------------------------------------------
(* Every step keeps the invariant *)

\* A step that leaves the sector loop where it is.
LEMMA Frame ==
    ASSUME StoreInv, pc # "idle", pc' # "idle", UNCHANGED <<writeVars, secVars>>
    PROVE  /\ IdleOK' /\ SectorLoopOK'
           /\ Old' = Old /\ New' = New /\ Blank' = Blank
           /\ before' = before /\ lost' = lost /\ op' = op
           /\ waddr' = waddr /\ left' = left /\ src' = src /\ secpos' = secpos
           /\ secoff' = secoff /\ secremain' = secremain
<1>1. /\ op' = op /\ before' = before /\ lost' = lost
      /\ waddr' = waddr /\ left' = left /\ src' = src /\ secpos' = secpos
      /\ secoff' = secoff /\ secremain' = secremain
  BY DEF writeVars, secVars
<1>2. IdleOK' BY <1>1 DEF StoreInv, IdleOK
<1>3. SectorLoopOK' BY <1>1 DEF StoreInv, SectorLoopOK
<1>4. Old' = Old /\ New' = New BY <1>1 DEF Old, New
<1>5. Blank' = Blank BY <1>1, <1>4 DEF Blank
<1> QED BY <1>1, <1>2, <1>3, <1>4, <1>5

\* W25QXX_Read fills W25QXX_BUFFER with the sector.
LEMMA ReadSectorStep ==
    ASSUME IInv, StoreInv, ReadSector
    PROVE  StoreInv'
<1>1. /\ pc = "read" /\ pc' = "check"
      /\ BUFFER' = [i \in 0..SectorSize-1 |-> mem[Cell(secpos * SectorSize + i)]]
      /\ mem' = mem /\ wel' = wel /\ job' = job
      /\ UNCHANGED <<writeVars, secVars>>
      /\ paddr' = paddr /\ pageremain' = pageremain
  BY DEF ReadSector, chip, pageVars
<1>2. mem = Old BY <1>1 DEF StoreInv, EraseOK
<1>3. \A j \in 0..SectorSize-1 : Cell(secpos * SectorSize + j) = Base(secpos) + j
  BY <1>1, Place
<1>4. BUFFER' = [j \in 0..SectorSize-1 |-> Old[Base(secpos) + j]]
  BY <1>1, <1>2, <1>3
<1>5. BUFFER' \in [0..SectorSize-1 -> Byte]
  <2>1. ASSUME NEW j \in 0..SectorSize-1 PROVE mem[Cell(secpos * SectorSize + j)] \in Byte
    <3>0. secpos \in Nat BY <1>1, Place
    <3>1. secpos * SectorSize + j \in Nat BY <3>0, SizeTypes
    <3>2. Cell(secpos * SectorSize + j) \in Cells BY <3>1, CellType
    <3> QED BY <3>2 DEF StoreInv, ValuesOK
  <2> QED BY <1>1, <2>1
<1>6. IdleOK' /\ SectorLoopOK' /\ Old' = Old /\ secpos' = secpos /\ before' = before
      /\ lost' = lost /\ secoff' = secoff /\ secremain' = secremain /\ waddr' = waddr
  BY <1>1, Frame
<1>7. ValuesOK' BY <1>1, <1>5, <1>6 DEF StoreInv, ValuesOK, busy
<1>8. EraseOK' BY <1>1, <1>2, <1>4, <1>6 DEF EraseOK
<1>9. ProgramOK' BY <1>1 DEF ProgramOK
<1> QED BY <1>6, <1>7, <1>8, <1>9 DEF StoreInv

\* W25QXX_Write_Enable before the erase command changes no contents.
LEMMA EraseEnableStep ==
    ASSUME IInv, StoreInv, EraseEnable
    PROVE  StoreInv'
<1>1. /\ pc = "erase" /\ pc' = "erase_cmd" /\ wel' = (wel \/ ~busy)
      /\ mem' = mem /\ job' = job /\ BUFFER' = BUFFER
      /\ UNCHANGED <<writeVars, secVars>>
      /\ paddr' = paddr /\ pageremain' = pageremain
  BY DEF EraseEnable, WriteEnable, pageVars
<1>2. IdleOK' /\ SectorLoopOK' /\ Old' = Old /\ secpos' = secpos /\ before' = before
      /\ lost' = lost /\ secoff' = secoff /\ secremain' = secremain /\ waddr' = waddr
  BY <1>1, Frame
<1>3. wel' \in BOOLEAN BY <1>1
<1>4. ValuesOK' BY <1>1, <1>2, <1>3 DEF StoreInv, ValuesOK, busy
<1>5. EraseOK' BY <1>1, <1>2 DEF StoreInv, EraseOK
<1>6. ProgramOK' BY <1>1 DEF ProgramOK
<1> QED BY <1>2, <1>4, <1>5, <1>6 DEF StoreInv

\* The erase command starts, and leaves everything but the sector alone.
LEMMA EraseCommandStep ==
    ASSUME IInv, StoreInv, EraseCommand
    PROVE  StoreInv'
<1>1. /\ pc = "erase_cmd" /\ pc' = "merge" /\ ~busy
      /\ mem' = mem /\ wel' = wel /\ BUFFER' = BUFFER
      /\ UNCHANGED <<writeVars, secVars>>
      /\ paddr' = paddr /\ pageremain' = pageremain
  BY DEF EraseCommand, pageVars
<1>2. wel BY <1>1 DEF IInv, ChipOK
<1>3. job' = <<SectorZone(secpos),
               [c \in Cells |-> IF c \in SectorZone(secpos) THEN ERASED ELSE mem[c]]>>
  BY <1>1, <1>2 DEF EraseCommand, Command
<1>4. mem = Old BY <1>1 DEF StoreInv, EraseOK
<1>5. secpos \in Nat /\ Base(secpos) \in Nat /\ Base(secpos) + SectorSize <= Size
  BY <1>1, Place
<1>6. SectorZone(secpos) = Base(secpos)..Base(secpos) + SectorSize - 1
  BY <1>5, SectorZoneIs DEF Base
<1>7. job' = <<SectorZone(secpos), Blank>>
  <2>1. [c \in Cells |-> IF c \in SectorZone(secpos) THEN ERASED ELSE mem[c]] = Blank
    <3>1. Base(secpos) + SectorSize - 1 = (Base(secpos) + SectorSize) - 1
      BY <1>5, SizeTypes
    <3> QED BY <1>4, <1>6, <3>1, Zenon DEF Blank, Gap
  <2> QED BY <1>3, <2>1
<1>8. IdleOK' /\ SectorLoopOK' /\ Old' = Old /\ Blank' = Blank /\ secpos' = secpos
      /\ before' = before /\ lost' = lost /\ secoff' = secoff /\ secremain' = secremain
      /\ waddr' = waddr
  BY <1>1, Frame
<1>9. SectorZone(secpos) \subseteq Cells BY DEF SectorZone
<1>10. Blank \in [Cells -> Byte]
  <2>1. Old \in [Cells -> Byte] BY <1>1, OldNew
  <2>2. Base(secpos) + SectorSize \in Nat BY <1>5, SizeTypes
  <2> QED BY <1>5, <2>1, <2>2, GapIs DEF Blank
<1>11. job'[1] \subseteq Cells /\ job'[2] \in [Cells -> Byte] BY <1>7, <1>9, <1>10
<1>12. ValuesOK' BY <1>1, <1>8, <1>11 DEF StoreInv, ValuesOK
<1>13. busy' BY <1>7 DEF busy
<1>14. EraseOK' BY <1>1, <1>4, <1>7, <1>8, <1>13 DEF StoreInv, EraseOK
<1>15. ProgramOK' BY <1>1 DEF ProgramOK
<1> QED BY <1>8, <1>12, <1>14, <1>15 DEF StoreInv

\* The chip finishes an erase or a program.
LEMMA ChipDoneStep ==
    ASSUME IInv, StoreInv, ChipDone
    PROVE  StoreInv'
<1>1. /\ busy /\ mem' = job[2] /\ job' = << >> /\ wel' = FALSE /\ pc' = pc
      /\ UNCHANGED <<writeVars, secVars>> /\ BUFFER' = BUFFER
      /\ pbuf' = pbuf /\ paddr' = paddr /\ pleft' = pleft /\ pageremain' = pageremain
  BY DEF ChipDone, pageVars
<1>2. pc \in {"merge", "page_wait"} BY <1>1 DEF IInv, ChipOK
<1>3. IdleOK' /\ SectorLoopOK' /\ Old' = Old /\ New' = New /\ Blank' = Blank
      /\ secpos' = secpos /\ before' = before /\ lost' = lost /\ secoff' = secoff
      /\ secremain' = secremain /\ waddr' = waddr
  BY <1>1, <1>2, Frame
<1>4. mem' \in [Cells -> Byte] BY <1>1 DEF StoreInv, ValuesOK
<1>5. ~busy' BY <1>1 DEF busy
<1>6. ValuesOK' BY <1>1, <1>3, <1>4, <1>5 DEF StoreInv, ValuesOK
<1>7. CASE pc = "merge"
  <2>1. mem' = Blank BY <1>1, <1>7 DEF StoreInv, EraseOK
  <2>2. EraseOK' BY <1>1, <1>3, <1>5, <1>7, <2>1 DEF StoreInv, EraseOK
  <2>3. ProgramOK' BY <1>1, <1>7 DEF ProgramOK
  <2> QED BY <1>3, <1>6, <2>2, <2>3 DEF StoreInv
<1>8. CASE pc = "page_wait"
  <2>1. mem' = Rest(Cell(paddr) + pageremain) BY <1>1, <1>8 DEF StoreInv, ProgramOK
  <2>2. Rest(Cell(paddr) + pageremain)' = Rest(Cell(paddr) + pageremain)
    BY <1>1, <1>3 DEF Rest
  <2>3. ProgramOK' BY <1>1, <1>3, <1>5, <1>8, <2>1, <2>2 DEF StoreInv, ProgramOK
  <2>4. EraseOK' BY <1>1, <1>8 DEF EraseOK
  <2> QED BY <1>3, <1>6, <2>3, <2>4 DEF StoreInv
<1> QED BY <1>2, <1>7, <1>8

\* What the page loop starts with.
LEMMA NoCheckStart ==
    ASSUME NEW buf \in Seq(Byte), NEW a \in Addr, NoCheck(buf, a)
    PROVE  /\ pc' = "page" /\ pbuf' = buf /\ paddr' = a /\ paddr' \in Addr
           /\ pleft' = Len(buf) /\ pageremain' \in 0..PageSize
<1>1. a \in Nat BY SizeTypes DEF Addr
<1>2. a % PageSize \in Nat /\ a % PageSize < PageSize BY <1>1, SizeTypes, RemainderType
<1>3. Len(buf) \in Nat OBVIOUS
<1>4. PICK r \in Nat : r = a % PageSize /\ r < PageSize BY <1>2
<1>5. Least(Len(buf), PageSize - r) \in 0..PageSize BY <1>3, <1>4, SizeTypes DEF Least
<1> QED BY <1>4, <1>5 DEF NoCheck

\* A clean part of a sector is programmed as it is.
LEMMA CheckErasedStep ==
    ASSUME IInv, StoreInv, CheckErased
    PROVE  StoreInv'
<1>1. /\ pc = "check" /\ mem' = mem /\ wel' = wel /\ job' = job /\ BUFFER' = BUFFER
      /\ UNCHANGED <<writeVars, secVars>>
  BY DEF CheckErased, chip
<1>2. mem = Old /\ BUFFER = [j \in 0..SectorSize-1 |-> Old[Base(secpos) + j]]
  BY <1>1 DEF StoreInv, EraseOK
<1>3. /\ secoff \in Nat /\ secremain \in Nat /\ secoff + secremain <= SectorSize
      /\ src \in Nat /\ src + secremain <= Len(op[2])
      /\ Base(secpos) \in Nat /\ Base(secpos) + SectorSize <= Size
      /\ Cell(waddr) = Base(secpos) + secoff
  BY <1>1, Place
<1>4. CASE Dirty
  <2>1. pc' = "erase" /\ paddr' = paddr /\ pageremain' = pageremain
    BY <1>4 DEF CheckErased, pageVars
  <2>2. IdleOK' /\ SectorLoopOK' /\ Old' = Old /\ secpos' = secpos /\ before' = before
        /\ lost' = lost /\ secoff' = secoff /\ secremain' = secremain /\ waddr' = waddr
    BY <1>1, <2>1, Frame
  <2>3. secremain > 0 BY <1>3, <1>4 DEF Dirty
  <2>4. ValuesOK' BY <1>1, <2>1, <2>2 DEF StoreInv, ValuesOK, busy
  <2>5. EraseOK' BY <1>1, <1>2, <2>1, <2>2, <2>3 DEF EraseOK
  <2>6. ProgramOK' BY <2>1 DEF ProgramOK
  <2> QED BY <2>2, <2>4, <2>5, <2>6 DEF StoreInv
<1>5. CASE ~Dirty
  <2> DEFINE b == SubSeq(op[2], src + 1, src + secremain)
             lo == Base(secpos) + secoff
  <2>1. NoCheck(b, waddr) BY <1>5 DEF CheckErased
  <2>2. b \in Seq(Byte) /\ Len(b) = secremain
        /\ \A i \in 1..secremain : b[i] = op[2][src + i]
    <3>1. op[2] \in Seq(Byte) BY <1>1, Arguments
    <3>2. PICK data \in Seq(Byte) : data = op[2] BY <3>1
    <3>3. src + secremain <= Len(data) BY <1>3, <3>2
    <3>4. /\ SubSeq(data, src + 1, src + secremain) \in Seq(Byte)
          /\ Len(SubSeq(data, src + 1, src + secremain)) = secremain
          /\ \A i \in 1..secremain :
                 SubSeq(data, src + 1, src + secremain)[i] = data[src + i]
      BY <1>3, <3>3
    <3> QED BY <3>2, <3>4
  <2>3. waddr \in Addr BY DEF StoreInv, ValuesOK
  <2>4. /\ pc' = "page" /\ pbuf' = b /\ paddr' = waddr /\ paddr' \in Addr
        /\ pleft' = secremain /\ pageremain' \in 0..PageSize
    <3> HIDE DEF b
    <3> QED BY <2>1, <2>2, <2>3, NoCheckStart
  <2>5. IdleOK' /\ SectorLoopOK' /\ New' = New /\ secpos' = secpos /\ before' = before
        /\ lost' = lost /\ secoff' = secoff /\ secremain' = secremain /\ waddr' = waddr
    BY <1>1, <2>4, Frame
  <2>6. Cell(paddr') = lo BY <1>3, <2>4
  <2>7. Rest(Cell(paddr))' = Gap(New, lo, lo + secremain)
    BY <2>4, <2>5, <2>6, Zenon DEF Rest
  <2>8. mem = Gap(New, lo, lo + secremain)
    <3>1. Old \in [Cells -> Byte] /\ New \in [Cells -> Byte] BY <1>1, OldNew
    <3>2. PICK l \in Nat, h \in Nat : l = lo /\ h = lo + secremain BY <1>3
    <3>3. /\ Gap(New, l, h) \in [Cells -> Byte]
          /\ \A c \in Cells : c \in l..h-1 => Gap(New, l, h)[c] = ERASED
          /\ \A c \in Cells : c \notin l..h-1 => Gap(New, l, h)[c] = New[c]
      BY <3>1, GapIs
    <3>4. ASSUME NEW c \in Cells PROVE Old[c] = Gap(New, l, h)[c]
      <4>1. CASE c \in l..h-1
        <5>1. PICK i \in 0..secremain-1 : c = Base(secpos) + (secoff + i)
          <6>1. PICK base \in Nat : base = Base(secpos) BY <1>3
          <6>2. c \in Int /\ c >= base + secoff /\ c <= base + secoff + secremain - 1
            BY <1>3, <3>2, <4>1, <6>1
          <6>3. c - (base + secoff) \in 0..secremain-1 BY <1>3, <6>1, <6>2
          <6>4. c = base + (secoff + (c - (base + secoff))) BY <1>3, <6>1, <6>2
          <6> QED BY <6>1, <6>3, <6>4
        <5>2. secoff + i \in 0..SectorSize-1 BY <1>3, SizeTypes
        <5>3. BUFFER[secoff + i] = Old[c] BY <1>2, <5>1, <5>2
        <5>4. BUFFER[secoff + i] = ERASED BY <1>5 DEF Dirty
        <5> QED BY <3>3, <4>1, <5>3, <5>4
      <4>2. CASE c \notin l..h-1
        <5>1. c \notin lo..lo + secremain - 1 BY <1>3, <3>2, <4>2
        <5>2. New[c] = Old[c] BY <1>1, <1>3, <5>1, OldNew
        <5> QED BY <3>3, <4>2, <5>2
      <4> QED BY <4>1, <4>2
    <3>5. Old = Gap(New, l, h) BY <3>1, <3>3, <3>4
    <3> QED BY <1>2, <3>2, <3>5
  <2>9. ValuesOK' BY <1>1, <2>4, <2>5 DEF StoreInv, ValuesOK, busy
  <2>10. EraseOK' BY <2>4 DEF EraseOK
  <2>11. \A i \in 1..secremain : b[i] = New[lo + i - 1]
    BY <1>1, <2>2, OldNew
  <2>12. ProgramOK'
    <3> HIDE DEF b, lo
    <3>1. lo >= Base(secpos) /\ lo + secremain <= Base(secpos) + SectorSize
      BY <1>3, SizeTypes DEF lo
    <3> QED BY <1>1, <2>2, <2>4, <2>5, <2>6, <2>7, <2>8, <2>11, <3>1 DEF ProgramOK
  <2> QED BY <2>5, <2>9, <2>10, <2>12 DEF StoreInv
<1> QED BY <1>4, <1>5

\* W25QXX_BUFFER with the new bytes holds the new contents of the sector.
LEMMA MergeStep ==
    ASSUME IInv, StoreInv, Merge
    PROVE  StoreInv'
<1> DEFINE b == [i \in 1..SectorSize |-> BUFFER'[i-1]]
           a == (secpos * SectorSize) % AddrSpace
           base == Base(secpos)
<1>1. /\ pc = "merge" /\ ~busy /\ mem' = mem /\ wel' = wel /\ job' = job
      /\ BUFFER' = [i \in 0..SectorSize-1 |->
                      IF i \in secoff..secoff+secremain-1
                        THEN op[2][src + i - secoff + 1] ELSE BUFFER[i]]
      /\ NoCheck(b, a)
      /\ UNCHANGED <<writeVars, secVars>>
  BY DEF Merge, chip
<1>2. mem = Blank /\ BUFFER = [j \in 0..SectorSize-1 |-> Old[base + j]] /\ secremain > 0
  BY <1>1 DEF StoreInv, EraseOK
<1>3. /\ secpos \in Nat /\ secoff \in Nat /\ secremain \in Nat
      /\ secoff + secremain <= SectorSize
      /\ src \in Nat /\ src + secremain <= Len(op[2])
      /\ base \in Nat /\ base + SectorSize <= Size
      /\ \A j \in 0..SectorSize-1 : Cell(secpos * SectorSize + j) = base + j
  BY <1>1, Place
<1>4. /\ Old \in [Cells -> Byte] /\ New \in [Cells -> Byte]
      /\ \A i \in 1..secremain : New[base + secoff + i - 1] = op[2][src + i]
      /\ \A c \in Cells : c \notin base + secoff..base + secoff + secremain - 1
             => New[c] = Old[c]
  BY <1>1, OldNew
<1>5. ASSUME NEW j \in 0..SectorSize-1
      PROVE  base + j \in Cells /\ BUFFER'[j] = New[base + j]
  <2>0. base + j \in Cells
    <3> HIDE DEF base
    <3> QED BY <1>3, SizeTypes DEF Cells, Size
  <2>1. CASE j \in secoff..secoff+secremain-1
    <3>1. PICK i \in 1..secremain : i = j - secoff + 1
      BY <1>3, <2>1
    <3>2. base + secoff + i - 1 = base + j /\ src + i = src + j - secoff + 1
      BY <1>3, <3>1
    <3>3. New[base + j] = op[2][src + j - secoff + 1]
      BY <1>4, <3>2
    <3> QED BY <1>1, <2>0, <2>1, <3>3
  <2>2. CASE j \notin secoff..secoff+secremain-1
    <3>1. base + j \notin base + secoff..base + secoff + secremain - 1
      BY <1>3, <2>2
    <3>2. New[base + j] = Old[base + j] BY <1>4, <2>0, <3>1
    <3> QED BY <1>1, <1>2, <2>0, <2>2, <3>2
  <2> QED BY <2>1, <2>2
<1>6. BUFFER' \in [0..SectorSize-1 -> Byte]
  <2>1. \A j \in 0..SectorSize-1 : BUFFER'[j] \in Byte
    BY <1>4, <1>5
  <2>2. BUFFER' = [i \in 0..SectorSize-1 |-> BUFFER'[i]]
    BY <1>1
  <2> QED BY <2>1, <2>2
<1>7. b \in Seq(Byte) /\ Len(b) = SectorSize
      /\ \A i \in 1..SectorSize : b[i] = New[base + i - 1]
  <2>1. ASSUME NEW i \in 1..SectorSize
        PROVE  BUFFER'[i-1] \in Byte /\ BUFFER'[i-1] = New[base + i - 1]
    <3>1. PICK j \in 0..SectorSize-1 : j = i - 1 BY SizeTypes
    <3>2. base + i - 1 = base + j BY <1>3, <3>1
    <3> QED BY <1>5, <1>6, <3>1, <3>2
  <2>2. b \in [1..SectorSize -> Byte] BY <2>1
  <2>3. b \in Seq(Byte) /\ Len(b) = SectorSize BY <2>2, SizeTypes
  <2>4. \A i \in 1..SectorSize : b[i] = New[base + i - 1] BY <2>1
  <2> QED BY <2>3, <2>4
<1>8. a \in Addr /\ Cell(a) = base
  <2>1. PICK x \in Nat : x = secpos * SectorSize BY <1>3, SizeTypes
  <2>2. a \in Addr /\ Cell(a) = Cell(x) BY <2>1, CellType
  <2>3. PICK j \in 0..SectorSize-1 : j = 0 BY SizeTypes
  <2>4. Cell(secpos * SectorSize + j) = base + j BY <1>3, <2>3
  <2>5. x + j = x /\ base + j = base BY <1>3, <2>3
  <2> QED BY <2>1, <2>2, <2>4, <2>5
<1> HIDE DEF a, b
<1>9. /\ pc' = "page" /\ pbuf' = b /\ paddr' = a /\ paddr' \in Addr
      /\ pleft' = SectorSize /\ pageremain' \in 0..PageSize
  BY <1>1, <1>7, <1>8, NoCheckStart
<1>10. IdleOK' /\ SectorLoopOK' /\ New' = New /\ secpos' = secpos /\ before' = before
       /\ lost' = lost /\ secoff' = secoff /\ secremain' = secremain /\ waddr' = waddr
  BY <1>1, <1>9, Frame
<1>11. Rest(Cell(paddr))' = Gap(New, base, base + SectorSize)
  BY <1>8, <1>9, <1>10, Zenon DEF Rest
<1>12. mem = Gap(New, base, base + SectorSize)
  <2>1. PICK l \in Nat, h \in Nat : l = base /\ h = base + SectorSize
    BY <1>3, SizeTypes
  <2>2. ASSUME NEW c \in Cells, c \notin l..h-1 PROVE Old[c] = New[c]
    <3>1. c \in Int BY SizeTypes DEF Cells, Size
    <3>2. c \notin base + secoff..base + secoff + secremain - 1
      <4> HIDE DEF base
      <4>1. c < base \/ c >= base + SectorSize BY <2>1, <2>2, <3>1, <1>3, SizeTypes
      <4> QED BY <1>3, <3>1, <4>1, SizeTypes
    <3> QED BY <1>4, <3>2
  <2>3. Gap(Old, l, h) = Gap(New, l, h) BY <2>2 DEF Gap
  <2> QED BY <1>2, <2>1, <2>3 DEF Blank
<1>13. ValuesOK' BY <1>1, <1>6, <1>9, <1>10 DEF StoreInv, ValuesOK, busy
<1>14. EraseOK' BY <1>9 DEF EraseOK
<1>15. ProgramOK'
  <2>1. base >= base /\ base + SectorSize <= base + SectorSize
    BY <1>3, SizeTypes
  <2> QED BY <1>1, <1>2, <1>7, <1>8, <1>9, <1>10, <1>11, <1>12, <2>1 DEF ProgramOK
<1> QED BY <1>10, <1>13, <1>14, <1>15 DEF StoreInv

\* W25QXX_Write_Enable before a page program changes no contents.
LEMMA PageEnableStep ==
    ASSUME IInv, StoreInv, PageEnable
    PROVE  StoreInv'
<1>1. /\ pc = "page" /\ pc' = "page_cmd" /\ wel' = (wel \/ ~busy)
      /\ mem' = mem /\ job' = job /\ BUFFER' = BUFFER
      /\ UNCHANGED <<writeVars, secVars>>
      /\ pbuf' = pbuf /\ paddr' = paddr /\ pleft' = pleft /\ pageremain' = pageremain
  BY DEF PageEnable, WriteEnable, pageVars
<1>2. IdleOK' /\ SectorLoopOK' /\ New' = New /\ secpos' = secpos /\ before' = before
      /\ lost' = lost /\ secoff' = secoff /\ secremain' = secremain /\ waddr' = waddr
  BY <1>1, Frame
<1>3. wel' \in BOOLEAN BY <1>1
<1>4. ValuesOK' BY <1>1, <1>2, <1>3 DEF StoreInv, ValuesOK, busy
<1>5. Rest(Cell(paddr))' = Rest(Cell(paddr)) BY <1>1, <1>2 DEF Rest
<1>6. EraseOK' BY <1>1 DEF EraseOK
<1>7. ProgramOK' BY <1>1, <1>2, <1>5 DEF StoreInv, ProgramOK
<1> QED BY <1>2, <1>4, <1>6, <1>7 DEF StoreInv

\* p is the memory m with data programmed into the cells from lo on.
IsProgrammed(p, m, lo, data) ==
    /\ p \in [Cells -> Byte]
    /\ \A i \in 1..Len(data) : lo + i - 1 \in Cells =>
           p[lo + i - 1] = m[lo + i - 1] \cap data[i]
    /\ \A c \in Cells : (c < lo \/ c >= lo + Len(data)) => p[c] = m[c]

\* This is what a page program that ends inside its page does.
LEMMA ProgrammedIs ==
    ASSUME NEW a \in Nat, NEW data \in Seq(Byte), mem \in [Cells -> Byte],
           (a % PageSize) + Len(data) <= PageSize
    PROVE  IsProgrammed(Programmed(a, data), mem, Cell(a), data)
<1> DEFINE n == Len(data)
           P == Programmed(a, data)
           Hit(c, i) == PageOf(a) + ((a + i - 1) % PageSize) = c
           W(c) == CHOOSE i \in 1..n : Hit(c, i)
<1>1. P = [c \in Cells |-> IF \E i \in 1..n : Hit(c, i) THEN mem[c] \cap data[W(c)]
                                                       ELSE mem[c]]
  BY DEF Programmed
<1>2. n \in Nat /\ Cell(a) \in Nat BY CellType
<1>3. a % PageSize \in Nat BY SizeTypes, RemainderType
<1>4. ASSUME NEW i \in 1..n PROVE PageOf(a) + ((a + i - 1) % PageSize) = Cell(a) + i - 1
  <2>1. PICK k \in Nat : k = i - 1 OBVIOUS
  <2>2. (a % PageSize) + k < PageSize
    <3>1. PICK r \in Nat : r = a % PageSize BY <1>3
    <3>2. r + Len(data) <= PageSize BY <3>1
    <3>3. r + k < PageSize BY <1>2, <2>1, <3>2, SizeTypes
    <3> QED BY <3>1, <3>3
  <2>3. PageOf(a) + ((a + k) % PageSize) = Cell(a) + k BY <2>2, PageCells
  <2>4. a + i - 1 = a + k /\ Cell(a) + i - 1 = Cell(a) + k BY <1>2, <2>1
  <2> QED BY <2>3, <2>4
<1>5. ASSUME NEW c \in Cells, NEW i \in 1..n PROVE Hit(c, i) <=> c = Cell(a) + i - 1
  BY <1>4
<1>6. ASSUME NEW i \in 1..n, Cell(a) + i - 1 \in Cells
      PROVE  P[Cell(a) + i - 1] = mem[Cell(a) + i - 1] \cap data[i]
  <2>1. PICK c \in Cells : c = Cell(a) + i - 1 BY <1>6
  <2>2. Hit(c, i) BY <1>5, <2>1
  <2>3. W(c) \in 1..n /\ Hit(c, W(c)) BY <2>2
  <2>4. PICK w \in 1..n : w = W(c) /\ Hit(c, w) BY <2>3
  <2>5. c = Cell(a) + w - 1 BY <1>5, <2>4
  <2>6. w = i BY <1>2, <2>1, <2>5
  <2>7. P[c] = mem[c] \cap data[W(c)]
    <3> HIDE DEF P, W, Hit
    <3> QED BY <1>1, <2>2
  <2> QED BY <2>1, <2>4, <2>6, <2>7
<1>7. ASSUME NEW c \in Cells, c < Cell(a) \/ c >= Cell(a) + n
      PROVE  P[c] = mem[c]
  <2>0. c \in Int BY SizeTypes DEF Cells, Size
  <2>1. ASSUME NEW i \in 1..n PROVE c # Cell(a) + i - 1
    BY <1>2, <1>7, <2>0
  <2>2. \A i \in 1..n : ~Hit(c, i) BY <1>5, <2>1
  <2> HIDE DEF P, W, Hit
  <2> QED BY <1>1, <2>2
<1>8. P \in [Cells -> Byte]
  <2>1. ASSUME NEW c \in Cells
        PROVE  (IF \E i \in 1..n : Hit(c, i) THEN mem[c] \cap data[W(c)] ELSE mem[c]) \in Byte
    <3>1. mem[c] \in Byte OBVIOUS
    <3> HIDE DEF W, Hit
    <3> QED BY <3>1 DEF Byte
  <2> HIDE DEF P, W, Hit
  <2> QED BY <1>1, <2>1
<1> HIDE DEF P
<1>9. IsProgrammed(P, mem, Cell(a), data) BY <1>6, <1>7, <1>8 DEF IsProgrammed
<1> QED BY <1>9 DEF P

\* A page program gives its cells their new contents: they are erased before it.
LEMMA PageCommandStep ==
    ASSUME IInv, StoreInv, PageCommand
    PROVE  StoreInv'
<1>1. /\ pc = "page_cmd" /\ pc' = "page_wait"
      /\ mem' = mem /\ wel' = wel /\ BUFFER' = BUFFER
      /\ UNCHANGED <<writeVars, secVars>>
      /\ pbuf' = pbuf /\ paddr' = paddr /\ pleft' = pleft /\ pageremain' = pageremain
  BY DEF PageCommand, pageVars
<1>2. ~busy /\ wel BY <1>1 DEF IInv, ChipOK
<1>3. /\ paddr \in Nat /\ pleft \in Nat /\ pageremain \in Nat /\ pageremain <= pleft
      /\ (paddr % PageSize) + pageremain <= PageSize
  BY <1>1 DEF IInv, CountersOK, PageLoopOK
<1>4. /\ Cell(paddr) >= Base(secpos) /\ Cell(paddr) + pleft <= Base(secpos) + SectorSize
      /\ (pleft > 0 => secremain > 0) /\ pbuf \in Seq(Byte) /\ Len(pbuf) = pleft
      /\ \A i \in 1..pleft : pbuf[i] = New[Cell(paddr) + i - 1]
      /\ mem = Rest(Cell(paddr)) /\ mem \in [Cells -> Byte]
  BY <1>1 DEF StoreInv, ProgramOK, ValuesOK
<1>5. IdleOK' /\ SectorLoopOK' /\ New' = New /\ secpos' = secpos /\ before' = before
      /\ lost' = lost /\ secoff' = secoff /\ secremain' = secremain /\ waddr' = waddr
  BY <1>1, Frame
<1>6. /\ Rest(Cell(paddr))' = Rest(Cell(paddr))
      /\ Rest(Cell(paddr) + pageremain)' = Rest(Cell(paddr) + pageremain)
  BY <1>1, <1>5 DEF Rest
<1>7. EraseOK' BY <1>1 DEF EraseOK
<1>8. CASE pageremain = 0
  <2>1. job' = job BY <1>8 DEF PageCommand
  <2>2. ~busy' BY <1>2, <2>1 DEF busy
  <2>3. ValuesOK' BY <1>1, <1>5, <2>2 DEF StoreInv, ValuesOK
  <2>4. Cell(paddr) + pageremain = Cell(paddr) BY <1>3, <1>8, CellType
  <2>5. mem' = Rest(Cell(paddr) + pageremain)' BY <1>1, <1>4, <1>6, <2>4
  <2>6. ProgramOK' BY <1>1, <1>4, <1>5, <2>2, <2>5 DEF ProgramOK
  <2> QED BY <1>5, <1>7, <2>3, <2>6 DEF StoreInv
<1>9. CASE pageremain # 0
  <2> DEFINE data == SubSeq(pbuf, 1, pageremain)
  <2>1. job' = <<PageZone(paddr), Programmed(paddr, data)>>
    BY <1>2, <1>9 DEF PageCommand, Command
  <2>2. data \in Seq(Byte) /\ Len(data) = pageremain
        /\ \A i \in 1..pageremain : data[i] = pbuf[i]
    BY <1>3, <1>4
  <2>3. PICK lo \in Nat : lo = Cell(paddr) /\ lo < Size BY <1>3, CellType
  <2>4. PICK base \in Nat : base = Base(secpos) /\ base + SectorSize <= Size
    BY <1>1, Place
  <2>5. lo + pleft <= Size /\ lo >= base /\ lo + pleft <= base + SectorSize
    BY <1>3, <1>4, <2>3, <2>4, SizeTypes
  <2>6. New \in [Cells -> Byte] BY <1>1, OldNew
  <2> DEFINE mid == lo + pageremain
             hi == lo + pleft
  <2>7. mid \in Nat /\ hi \in Nat /\ lo <= mid /\ mid <= hi BY <1>3, <2>3
  <2>8. mem = Gap(New, lo, hi) /\ Rest(Cell(paddr) + pageremain) = Gap(New, mid, hi)
    BY <1>4, <2>3 DEF Rest
  <2>9. ASSUME NEW c \in Cells
        PROVE  /\ c \in lo..hi-1 => mem[c] = ERASED
               /\ c \notin lo..hi-1 => mem[c] = New[c]
               /\ c \in mid..hi-1 => Gap(New, mid, hi)[c] = ERASED
               /\ c \notin mid..hi-1 => Gap(New, mid, hi)[c] = New[c]
    <3> HIDE DEF mid, hi
    <3> QED BY <2>3, <2>6, <2>7, <2>8, GapIs
  <2>10. /\ Programmed(paddr, data) \in [Cells -> Byte]
         /\ \A i \in 1..pageremain : lo + i - 1 \in Cells =>
                Programmed(paddr, data)[lo + i - 1] = mem[lo + i - 1] \cap data[i]
         /\ \A c \in Cells : (c < lo \/ c >= lo + pageremain) =>
                Programmed(paddr, data)[c] = mem[c]
    <3> HIDE DEF data
    <3>1. IsProgrammed(Programmed(paddr, data), mem, Cell(paddr), data)
      BY <1>3, <1>4, <2>2, ProgrammedIs
    <3> QED BY <2>2, <2>3, <3>1 DEF IsProgrammed
  <2>11. ASSUME NEW c \in Cells PROVE Programmed(paddr, data)[c] = Gap(New, mid, hi)[c]
    <3>0. c \in Int BY SizeTypes DEF Cells, Size
    <3> HIDE DEF data
    <3>1. CASE c >= lo /\ c < mid
      <4>1. PICK i \in 1..pageremain : c = lo + i - 1
        <5>1. c - lo + 1 \in 1..pageremain BY <1>3, <3>0, <3>1
        <5>2. c = lo + (c - lo + 1) - 1 BY <3>0
        <5> QED BY <5>1, <5>2
      <4>2. i \in 1..pleft BY <1>3
      <4>3. data[i] = New[c] BY <1>4, <2>2, <2>3, <4>1, <4>2
      <4>4. c \in lo..hi-1 /\ c \notin mid..hi-1 BY <2>7, <3>0, <3>1
      <4>5. Programmed(paddr, data)[c] = mem[c] \cap data[i] BY <2>10, <4>1
      <4>6. New[c] \subseteq ERASED BY <2>6 DEF Byte, ERASED
      <4>7. mem[c] = ERASED /\ Gap(New, mid, hi)[c] = New[c] BY <2>9, <4>4
      <4> QED BY <4>3, <4>5, <4>6, <4>7
    <3>2. CASE c < lo \/ c >= mid
      <4>1. Programmed(paddr, data)[c] = mem[c] BY <2>10, <3>2
      <4>2. c \in lo..hi-1 <=> c \in mid..hi-1 BY <2>3, <2>7, <3>0, <3>2
      <4> QED BY <2>9, <4>1, <4>2
    <3> QED BY <2>3, <2>7, <3>0, <3>1, <3>2
  <2>12. Gap(New, mid, hi) \in [Cells -> Byte] BY <2>6, <2>7, GapIs
  <2>13. Programmed(paddr, data) = Gap(New, mid, hi)
    <3> HIDE DEF data, mid, hi
    <3> QED BY <2>10, <2>11, <2>12
  <2>14. job' = <<PageZone(paddr), Rest(Cell(paddr) + pageremain)>>
    BY <2>1, <2>8, <2>13
  <2>15. PageZone(paddr) \subseteq Cells
    <3>1. PICK z \in Nat : z = secpos % Sectors
      <4>1. secpos \in Nat BY <1>1, Place
      <4> QED BY <4>1, SizeTypes, RemainderType
    <3>2. base = SectorSize * z BY <2>4, <3>1 DEF Base
    <3>3. base <= Cell(paddr) /\ Cell(paddr) < base + SectorSize
      BY <1>3, <1>9, <2>3, <2>5, SizeTypes
    <3>4. PageZone(paddr) \subseteq base..base + SectorSize - 1
      BY <1>3, <3>2, <3>3, PageInSector
    <3>5. base..base + SectorSize - 1 \subseteq Cells
      BY <2>4, SizeTypes DEF Cells, Size
    <3> QED BY <3>4, <3>5
  <2>16. busy' BY <2>14 DEF busy
  <2>17. job'[1] \subseteq Cells /\ job'[2] \in [Cells -> Byte]
    BY <2>8, <2>12, <2>14, <2>15
  <2>18. ValuesOK' BY <1>1, <1>5, <2>17 DEF StoreInv, ValuesOK
  <2>19. pageremain > 0 BY <1>3, <1>9
  <2>20. ProgramOK'
    BY <1>1, <1>4, <1>5, <1>6, <2>14, <2>16, <2>19 DEF ProgramOK
  <2> QED BY <1>5, <1>7, <2>18, <2>20 DEF StoreInv
<1> QED BY <1>8, <1>9

\* The page loop goes on behind the part that was programmed, or ends when the
\* sector is complete.
LEMMA PageNextStep ==
    ASSUME IInv, StoreInv, PageNext
    PROVE  StoreInv'
<1>1. /\ pc = "page_wait" /\ ~busy /\ mem' = mem /\ wel' = wel /\ job' = job
      /\ BUFFER' = BUFFER /\ UNCHANGED <<writeVars, secVars>>
  BY DEF PageNext, PageLoop, chip
<1>2. /\ paddr \in Nat /\ pleft \in Nat /\ pageremain \in Nat /\ pageremain <= pleft
  BY <1>1 DEF IInv, CountersOK, PageLoopOK
<1>3. /\ Cell(paddr) >= Base(secpos) /\ Cell(paddr) + pleft <= Base(secpos) + SectorSize
      /\ (pleft > 0 => secremain > 0) /\ pbuf \in Seq(Byte) /\ Len(pbuf) = pleft
      /\ \A i \in 1..pleft : pbuf[i] = New[Cell(paddr) + i - 1]
      /\ mem = Rest(Cell(paddr) + pageremain)
  BY <1>1 DEF StoreInv, ProgramOK
<1>4. PICK lo \in Nat : lo = Cell(paddr) BY <1>2, CellType
<1>5. PICK base \in Nat : base = Base(secpos) /\ base + SectorSize <= Size
  BY <1>1, Place
<1>6. New \in [Cells -> Byte] BY <1>1, OldNew
<1>7. CASE pleft = pageremain
  <2>1. pc' = "next" /\ paddr' = paddr /\ pageremain' = pageremain
    BY <1>7 DEF PageNext, PageLoop, pageVars
  <2>2. IdleOK' /\ SectorLoopOK' /\ New' = New /\ before' = before
        /\ lost' = lost /\ secoff' = secoff /\ secremain' = secremain /\ waddr' = waddr
    BY <1>1, <2>1, Frame
  <2>3. mem = New
    <3>1. PICK h \in Nat : h = lo + pleft BY <1>2, <1>4
    <3>2. mem = Gap(New, h, h) BY <1>3, <1>4, <1>7, <3>1 DEF Rest
    <3>3. \A c \in Cells : c \notin h..h-1 BY <3>1
    <3>4. /\ Gap(New, h, h) \in [Cells -> Byte]
          /\ \A c \in Cells : Gap(New, h, h)[c] = New[c]
      BY <1>6, <3>3, GapIs
    <3> QED BY <1>6, <3>2, <3>4
  <2>4. ValuesOK' BY <1>1, <2>1, <2>2 DEF StoreInv, ValuesOK, busy
  <2>5. EraseOK' BY <2>1 DEF EraseOK
  <2>6. ProgramOK' BY <1>1, <2>1, <2>2, <2>3 DEF ProgramOK
  <2> QED BY <2>2, <2>4, <2>5, <2>6 DEF StoreInv
<1>8. CASE pleft # pageremain
  <2>1. /\ pc' = "page" /\ pbuf' = SubSeq(pbuf, pageremain + 1, Len(pbuf))
        /\ paddr' = (paddr + pageremain) % AddrSpace
        /\ pleft' = pleft - pageremain
        /\ pageremain' = Least(pleft - pageremain, PageSize)
    BY <1>8 DEF PageNext, PageLoop
  <2>2. IdleOK' /\ SectorLoopOK' /\ New' = New /\ secpos' = secpos /\ before' = before
        /\ lost' = lost /\ secoff' = secoff /\ secremain' = secremain /\ waddr' = waddr
    BY <1>1, <2>1, Frame
  <2>3. lo + pageremain < Size /\ lo >= base /\ lo + pleft <= base + SectorSize
    BY <1>2, <1>3, <1>4, <1>5, <1>8, SizeTypes
  <2>4. Cell(paddr') = lo + pageremain /\ paddr' \in Addr
    <3>1. PICK x \in Nat : x = paddr + pageremain BY <1>2
    <3>2. Cell(x % AddrSpace) = Cell(x) /\ x % AddrSpace \in Addr BY CellType
    <3>3. Cell(paddr) + pageremain < Size BY <1>4, <2>3
    <3>4. Cell(paddr + pageremain) = Cell(paddr) + pageremain BY <1>2, <3>3, CellStep
    <3> QED BY <1>4, <2>1, <3>1, <3>2, <3>4
  <2>5. pageremain' \in 0..PageSize /\ pleft' \in Nat
    BY <1>2, <2>1, SizeTypes DEF Least
  <2>6. /\ pbuf' \in Seq(Byte) /\ Len(pbuf') = pleft'
        /\ \A i \in 1..pleft' : pbuf'[i] = pbuf[pageremain + i]
    <3>1. PICK b \in Seq(Byte) : b = pbuf BY <1>3
    <3>2. PICK m \in Nat : m = pleft - pageremain /\ Len(b) = pageremain + m
      BY <1>2, <1>3, <3>1
    <3>3. /\ SubSeq(b, pageremain + 1, Len(b)) \in Seq(Byte)
          /\ Len(SubSeq(b, pageremain + 1, Len(b))) = m
          /\ \A i \in 1..m : SubSeq(b, pageremain + 1, Len(b))[i] = b[pageremain + i]
      BY <1>2, <3>2
    <3> QED BY <2>1, <3>1, <3>2, <3>3
  <2>7. \A i \in 1..pleft' : pbuf'[i] = New[Cell(paddr') + i - 1]
    <3>1. ASSUME NEW i \in 1..pleft' PROVE pbuf'[i] = New[Cell(paddr') + i - 1]
      <4>1. PICK k \in 1..pleft : k = pageremain + i BY <1>2, <2>1
      <4>2. pbuf[k] = New[Cell(paddr) + k - 1] BY <1>3
      <4>3. Cell(paddr) + k - 1 = Cell(paddr') + i - 1 BY <1>2, <1>4, <2>4, <4>1
      <4> QED BY <2>6, <4>1, <4>2, <4>3
    <3> QED BY <3>1
  <2>8. mem' = Rest(Cell(paddr))'
    <3>1. lo + pleft = Cell(paddr') + pleft' BY <1>2, <2>1, <2>4
    <3>2. mem = Gap(New, lo + pageremain, lo + pleft) BY <1>3, <1>4 DEF Rest
    <3>3. mem = Gap(New, Cell(paddr'), Cell(paddr') + pleft')
      BY <2>4, <3>1, <3>2, Zenon
    <3> QED BY <1>1, <2>2, <3>3, Zenon DEF Rest
  <2>9. ValuesOK' BY <1>1, <2>1, <2>2, <2>4, <2>5 DEF StoreInv, ValuesOK, busy
  <2>10. EraseOK' BY <2>1 DEF EraseOK
  <2>11. Cell(paddr') >= base /\ Cell(paddr') + pleft' <= base + SectorSize
    BY <1>2, <2>1, <2>3, <2>4, SizeTypes
  <2>12. pleft' > 0 => secremain > 0 BY <1>2, <1>3, <2>1
  <2>13. ProgramOK'
    BY <1>5, <2>1, <2>2, <2>6, <2>7, <2>8, <2>11, <2>12 DEF ProgramOK
  <2> QED BY <2>2, <2>9, <2>10, <2>13 DEF StoreInv
<1> QED BY <1>7, <1>8

\* The driver is between two calls again.
LEMMA IdleStep ==
    ASSUME Idle, mem' \in [Cells -> Byte], wel' \in BOOLEAN, lost' \in BOOLEAN, ~busy'
    PROVE  StoreInv'
<1>1. /\ pc' = "idle" /\ op' = << >> /\ before' = mem' /\ waddr' = 0 /\ secoff' = 0
      /\ secremain' = 0 /\ BUFFER' = Zeros /\ paddr' = 0 /\ pageremain' = 0
  BY DEF Idle
<1>2. Zeros \in [0..SectorSize-1 -> Byte] BY DEF Zeros, Byte
<1>3. 0 \in Addr /\ 0 \in 0..SectorSize-1 /\ 0 \in 0..SectorSize-0 /\ 0 \in 0..PageSize
  BY SizeTypes DEF Addr
<1>4. ValuesOK' BY <1>1, <1>2, <1>3 DEF ValuesOK
<1>5. IdleOK' BY <1>1 DEF IdleOK
<1>6. SectorLoopOK' /\ EraseOK' /\ ProgramOK'
  BY <1>1 DEF SectorLoopOK, EraseOK, ProgramOK
<1> QED BY <1>4, <1>5, <1>6 DEF StoreInv

\* Adding after a wrap is adding before it.
LEMMA ModAdd ==
    ASSUME NEW x \in Nat, NEW k \in Nat, NEW m \in Nat \ {0}
    PROVE  ((x % m) + k) % m = (x + k) % m
<1>1. PICK y \in Nat, z \in Nat : z = x % m /\ x = m * y + z
  <2>1. x \div m \in Nat BY QuotientType
  <2>2. x % m \in Nat BY RemainderType
  <2>3. x = m * (x \div m) + (x % m) BY Division
  <2> QED BY <2>1, <2>2, <2>3
<1>2. PICK w \in Nat : w = z + k OBVIOUS
<1>3. PICK u \in Nat, v \in Nat : v = w % m /\ w = m * u + v /\ v < m
  <2>1. w \div m \in Nat BY QuotientType
  <2>2. w % m \in Nat /\ w % m < m BY RemainderType
  <2>3. w = m * (w \div m) + (w % m) BY Division
  <2> QED BY <2>1, <2>2, <2>3
<1>4. y + u \in Nat /\ m * (y + u) = m * y + m * u /\ m * y \in Nat /\ m * u \in Nat
  OBVIOUS
<1>5. x + k = m * (y + u) + v BY <1>1, <1>2, <1>3, <1>4
<1>6. (m * (y + u) + v) % m = v BY <1>3, <1>4, DivModUnique
<1> QED BY <1>1, <1>2, <1>3, <1>5, <1>6

\* The sector loop goes on with the next sector, or returns.
LEMMA SectorNextStep ==
    ASSUME IInv, StoreInv, SectorNext
    PROVE  StoreInv'
<1>1. pc = "next" /\ mem' = mem /\ wel' = wel /\ job' = job
  BY DEF SectorNext, chip
<1>2. mem = New /\ ~busy /\ mem \in [Cells -> Byte] /\ wel \in BOOLEAN
  BY <1>1 DEF StoreInv, ProgramOK, IInv, ChipOK, ValuesOK
<1>3. CASE left = secremain
  <2>1. Idle /\ lost' = FALSE BY <1>3 DEF SectorNext
  <2>2. ~busy' BY <1>1, <1>2 DEF busy
  <2> QED BY <1>1, <1>2, <2>1, <2>2, IdleStep
<1>4. CASE left # secremain
  <2>1. /\ pc' = "read" /\ op' = op /\ before' = before /\ lost' = lost
        /\ waddr' = (waddr + secremain) % AddrSpace
        /\ left' = left - secremain /\ src' = src + secremain
        /\ secpos' = secpos + 1 /\ secoff' = 0
        /\ secremain' = Least(left - secremain, SectorSize)
        /\ BUFFER' = BUFFER /\ paddr' = paddr /\ pageremain' = pageremain
    BY <1>4 DEF SectorNext, writeVars, pageVars
  <2>2. /\ secpos \in Nat /\ secoff \in Nat /\ src \in Nat /\ left \in Nat
        /\ secremain \in Nat
    BY <1>1, Place
  <2>3. /\ src + left = Len(op[2]) /\ waddr = (op[1] + src) % AddrSpace
        /\ op[1] + src = secpos * SectorSize + secoff
        /\ secremain = Least(left, SectorSize - secoff)
    BY <1>1 DEF StoreInv, SectorLoopOK
  <2>4. secoff + secremain = SectorSize /\ secremain < left
    BY <1>4, <2>2, <2>3, SizeTypes DEF Least
  <2>5. PICK a \in Nat : a = op[1] BY <1>1, Arguments
  <2>6. waddr' = (a + src') % AddrSpace /\ waddr' \in Addr
    <3>1. PICK x \in Nat : x = a + src BY <2>2, <2>5
    <3>2. ((x % AddrSpace) + secremain) % AddrSpace = (x + secremain) % AddrSpace
      BY <2>2, SizeTypes, ModAdd
    <3>3. PICK y \in Nat : y = x + secremain BY <2>2
    <3>4. y % AddrSpace \in Addr BY CellType
    <3>5. y = a + src' BY <2>1, <2>2, <3>1, <3>3
    <3>6. waddr' = ((x % AddrSpace) + secremain) % AddrSpace BY <2>1, <2>3, <2>5, <3>1
    <3> QED BY <3>2, <3>3, <3>4, <3>5, <3>6
  <2>7. a + src' = secpos' * SectorSize + secoff'
    <3>1. PICK b \in Nat : b = secpos * SectorSize BY <2>2, SizeTypes
    <3>2. (secpos + 1) * SectorSize = b + SectorSize BY <2>2, <3>1, SizeTypes
    <3>3. a + src = b + secoff BY <2>3, <2>5, <3>1
    <3>4. a + (src + secremain) = b + SectorSize BY <2>2, <2>4, <3>3, SizeTypes
    <3>5. (b + SectorSize) + 0 = b + SectorSize BY SizeTypes
    <3> QED BY <2>1, <3>2, <3>4, <3>5
  <2>8. src' + left' = Len(op'[2]) BY <2>1, <2>2, <2>3
  <2>9. secremain' = Least(left', SectorSize - secoff')
        /\ secremain' \in 0..SectorSize-secoff' /\ secoff' \in 0..SectorSize-1
    BY <2>1, <2>2, <2>4, SizeTypes DEF Least
  <2>10. SectorLoopOK' BY <2>1, <2>5, <2>6, <2>7, <2>8, <2>9 DEF SectorLoopOK
  <2>11. IdleOK' BY <1>1, <2>1 DEF StoreInv, IdleOK
  <2>12. ValuesOK' BY <1>1, <2>1, <2>6, <2>9 DEF StoreInv, ValuesOK, busy
  <2>13. Old' = New BY <2>1 DEF Old, New
  <2>14. EraseOK' BY <1>1, <1>2, <2>1, <2>13 DEF EraseOK
  <2>15. ProgramOK' BY <2>1 DEF ProgramOK
  <2> QED BY <2>10, <2>11, <2>12, <2>14, <2>15 DEF StoreInv
<1> QED BY <1>3, <1>4

\* A reset may leave the zone of the job half done, nothing more.
LEMMA ResetMem ==
    ASSUME StoreInv, Reset
    PROVE  /\ mem' \in [Cells -> Byte]
           /\ ~busy => mem' = mem
           /\ busy => \A c \in Cells \ job[1] : mem'[c] = mem[c]
<1>1. mem \in [Cells -> Byte] /\ (busy => job[1] \subseteq Cells)
  BY DEF StoreInv, ValuesOK
<1>2. CASE busy
  <2>1. PICK part \in [job[1] -> Byte] :
            mem' = [c \in Cells |-> IF c \in job[1] THEN part[c] ELSE mem[c]]
    BY <1>2 DEF Reset
  <2> QED BY <1>1, <1>2, <2>1
<1>3. CASE ~busy BY <1>1, <1>3 DEF Reset
<1> QED BY <1>2, <1>3

LEMMA ResetStep ==
    ASSUME StoreInv, Reset
    PROVE  StoreInv'
<1>1. mem' \in [Cells -> Byte] BY ResetMem
<1>2. Idle /\ wel' = FALSE /\ job' = << >> /\ lost' = (lost \/ op # << >>)
  BY DEF Reset
<1>3. lost' \in BOOLEAN /\ wel' \in BOOLEAN BY <1>2
<1>4. ~busy' BY <1>2 DEF busy
<1> QED BY <1>1, <1>2, <1>3, <1>4, IdleStep

\* W25QXX_Write starts with nothing written.
LEMMA WriteStep ==
    ASSUME IInv, StoreInv, NEW a \in Addr, NEW data \in Data, Write(a, data)
    PROVE  StoreInv'
<1>1. /\ pc = "idle" /\ pc' = "read" /\ op' = <<a, data>> /\ before' = before
      /\ lost' = FALSE /\ waddr' = a /\ left' = Len(data) /\ src' = 0
      /\ secpos' = a \div SectorSize /\ secoff' = a % SectorSize
      /\ secremain' = Least(Len(data), SectorSize - (a % SectorSize))
      /\ mem' = mem /\ wel' = wel /\ job' = job /\ BUFFER' = BUFFER
      /\ paddr' = paddr /\ pageremain' = pageremain
  BY DEF Write, chip, pageVars
<1>2. mem = before BY <1>1 DEF StoreInv, IdleOK
<1>3. a \in Nat /\ a < AddrSpace BY SizeTypes DEF Addr
<1>4. Len(data) \in Nat BY DataAssumption
<1>5. PICK q \in Nat, r \in Nat : q = a \div SectorSize /\ r = a % SectorSize
                                 /\ a = SectorSize * q + r /\ r < SectorSize
  <2>1. a \div SectorSize \in Nat BY <1>3, SizeTypes, QuotientType
  <2>2. a % SectorSize \in Nat /\ a % SectorSize < SectorSize
    BY <1>3, SizeTypes, RemainderType
  <2>3. a = SectorSize * (a \div SectorSize) + (a % SectorSize)
    BY <1>3, SizeTypes, Division
  <2> QED BY <2>1, <2>2, <2>3
<1>6. a % AddrSpace = a
  <2>1. PICK z \in Nat : z = 0 OBVIOUS
  <2>2. (AddrSpace * z + a) % AddrSpace = a BY <1>3, SizeTypes, DivModUnique
  <2>3. AddrSpace * z + a = a BY <1>3, <2>1, SizeTypes
  <2> QED BY <2>2, <2>3
<1>7. op'[1] = a /\ op'[2] = data BY <1>1
<1>8. SectorLoopOK'
  <2>1. a + src' = a BY <1>1, <1>3
  <2>2. q * SectorSize = SectorSize * q BY <1>5, SizeTypes
  <2>3. a = secpos' * SectorSize + secoff' BY <1>1, <1>5, <2>2
  <2>4. src' + left' = Len(data) BY <1>1, <1>4
  <2>5. waddr' = (a + src') % AddrSpace BY <1>1, <1>6, <2>1
  <2>6. secremain' = Least(left', SectorSize - secoff') BY <1>1
  <2> QED BY <1>7, <2>1, <2>3, <2>4, <2>5, <2>6 DEF SectorLoopOK
<1>9. IdleOK'
  <2>1. op' # << >> BY <1>1
  <2> QED BY <1>1, <2>1 DEF IdleOK
<1>10. secoff' \in 0..SectorSize-1 /\ secremain' \in 0..SectorSize-secoff'
  BY <1>1, <1>4, <1>5, SizeTypes DEF Least
<1>11. ValuesOK' BY <1>1, <1>10 DEF StoreInv, ValuesOK, busy
<1>12. Old' = before
  <2>1. before \in [Cells -> Byte] BY DEF StoreInv, ValuesOK
  <2>2. Partly(before, a, data, 0) = before BY <2>1 DEF Partly
  <2> QED BY <1>1, <1>7, <2>2 DEF Old
<1>13. EraseOK' BY <1>1, <1>2, <1>12 DEF EraseOK
<1>14. ProgramOK' BY <1>1 DEF ProgramOK
<1> QED BY <1>8, <1>9, <1>11, <1>13, <1>14 DEF StoreInv

LEMMA ContentsInit == Init => StoreInv
<1> SUFFICES ASSUME Init PROVE StoreInv OBVIOUS
<1>1. /\ mem \in [Cells -> Byte] /\ wel = FALSE /\ job = << >> /\ pc = "idle"
      /\ op = << >> /\ before = mem /\ lost = FALSE /\ waddr = 0 /\ secoff = 0
      /\ secremain = 0 /\ BUFFER = Zeros /\ paddr = 0 /\ pageremain = 0
  BY ContentsAssumption DEF Init
<1>2. Zeros \in [0..SectorSize-1 -> Byte] BY DEF Zeros, Byte
<1>3. 0 \in Addr /\ 0 \in 0..SectorSize-1 /\ 0 \in 0..SectorSize-0 /\ 0 \in 0..PageSize
  BY SizeTypes DEF Addr
<1>4. ~busy BY <1>1 DEF busy
<1>5. ValuesOK BY <1>1, <1>2, <1>3, <1>4 DEF ValuesOK
<1>6. IdleOK BY <1>1 DEF IdleOK
<1>7. SectorLoopOK /\ EraseOK /\ ProgramOK
  BY <1>1 DEF SectorLoopOK, EraseOK, ProgramOK
<1> QED BY <1>5, <1>6, <1>7 DEF StoreInv

\* Nothing moves: the invariant stays.
LEMMA StutterStep ==
    ASSUME StoreInv, UNCHANGED vars
    PROVE  StoreInv'
<1>1. /\ mem' = mem /\ wel' = wel /\ job' = job /\ pc' = pc /\ op' = op
      /\ before' = before /\ lost' = lost /\ waddr' = waddr /\ left' = left
      /\ src' = src /\ secpos' = secpos /\ secoff' = secoff /\ secremain' = secremain
      /\ BUFFER' = BUFFER /\ pbuf' = pbuf /\ paddr' = paddr /\ pleft' = pleft
      /\ pageremain' = pageremain
  BY DEF vars, chip, writeVars, secVars, pageVars
<1>2. ValuesOK' BY <1>1 DEF StoreInv, ValuesOK, busy
<1>3. IdleOK' BY <1>1 DEF StoreInv, IdleOK
<1>4. SectorLoopOK' BY <1>1 DEF StoreInv, SectorLoopOK
<1>5. Old' = Old /\ New' = New BY <1>1 DEF Old, New
<1>6. Blank' = Blank BY <1>1, <1>5 DEF Blank
<1>7. EraseOK' BY <1>1, <1>5, <1>6 DEF StoreInv, EraseOK, busy
<1>8. /\ Rest(Cell(paddr))' = Rest(Cell(paddr))
      /\ Rest(Cell(paddr) + pageremain)' = Rest(Cell(paddr) + pageremain)
  BY <1>1, <1>5 DEF Rest
<1>9. ProgramOK' BY <1>1, <1>5, <1>8 DEF StoreInv, ProgramOK, busy
<1> QED BY <1>2, <1>3, <1>4, <1>7, <1>9 DEF StoreInv

LEMMA ContentsNext == IInv /\ StoreInv /\ [Next]_vars => StoreInv'
<1> SUFFICES ASSUME IInv, StoreInv, [Next]_vars PROVE StoreInv'
  OBVIOUS
<1>1. CASE UNCHANGED vars BY <1>1, StutterStep
<1>2. CASE ChipDone BY <1>2, ChipDoneStep
<1>3. CASE ReadSector BY <1>3, ReadSectorStep
<1>4. CASE CheckErased BY <1>4, CheckErasedStep
<1>5. CASE EraseEnable BY <1>5, EraseEnableStep
<1>6. CASE EraseCommand BY <1>6, EraseCommandStep
<1>7. CASE Merge BY <1>7, MergeStep
<1>8. CASE PageEnable BY <1>8, PageEnableStep
<1>9. CASE PageCommand BY <1>9, PageCommandStep
<1>10. CASE PageNext BY <1>10, PageNextStep
<1>11. CASE SectorNext BY <1>11, SectorNextStep
<1>12. CASE Reset BY <1>12, ResetStep
<1>13. ASSUME NEW a \in Addr, NEW data \in Data, Write(a, data) PROVE StoreInv'
  BY <1>13, WriteStep
<1> QED BY <1>1, <1>2, <1>3, <1>4, <1>5, <1>6, <1>7, <1>8, <1>9, <1>10, <1>11, <1>12,
           <1>13 DEF Next, Step

\* Both invariants hold in every behaviour.
LEMMA Invariants == Spec => [](IInv /\ StoreInv)
<1>1. Init => IInv /\ StoreInv BY InitOK, ContentsInit
<1>2. IInv /\ StoreInv /\ [Next]_vars => (IInv /\ StoreInv)'
  BY CountersNext, PageLoopNext, ChipNext, ContentsNext DEF IInv
<1> QED BY <1>1, <1>2, PTL DEF Spec

-----------------------------------------------------------------------------
(* The theorems *)

\* Every variable of the driver and the chip has its type, and the loops stay
\* inside W25QXX_BUFFER and inside a page, whatever the sizes and the text.
THEOREM FlashTypes == Spec => []TypeOK
<1>1. IInv /\ StoreInv => TypeOK BY DEF StoreInv, ValuesOK, TypeOK
<1> QED BY <1>1, Invariants, PTL

\* spi_flash.c:192: W25QXX_Write_NoCheck "must" be given erased cells, and is: no
\* page program ever meets a bit that an earlier one has cleared.
THEOREM OnlyErasedProgrammed == Spec => []ProgramsErased
<1>1. IInv /\ StoreInv => ProgramsErased
  <2> SUFFICES ASSUME IInv, StoreInv, pc = "page_cmd", NEW i \in 0..pageremain-1
               PROVE  mem[Cell(paddr + i)] = ERASED
    BY DEF ProgramsErased
  <2>1. /\ paddr \in Nat /\ pleft \in Nat /\ pageremain \in Nat /\ pageremain <= pleft
    BY DEF IInv, CountersOK, PageLoopOK
  <2>2. PICK lo \in Nat : lo = Cell(paddr) BY <2>1, CellType
  <2>3. PICK base \in Nat : base = Base(secpos) /\ base + SectorSize <= Size
    BY Place
  <2>4. lo + pleft <= base + SectorSize /\ mem = Rest(Cell(paddr))
    BY <2>2, <2>3 DEF StoreInv, ProgramOK
  <2>5. i \in Nat /\ lo + i < Size /\ i < pleft BY <2>1, <2>2, <2>3, <2>4, SizeTypes
  <2>6. Cell(paddr + i) = lo + i BY <2>1, <2>2, <2>5, CellStep
  <2>7. PICK hi \in Nat : hi = lo + pleft BY <2>1
  <2>8. mem = Gap(New, lo, hi) BY <2>2, <2>4, <2>7 DEF Rest
  <2>9. lo + i \in Cells /\ lo + i \in lo..hi-1
    BY <2>1, <2>5, <2>7, SizeTypes DEF Cells, Size
  <2>10. New \in [Cells -> Byte] BY OldNew
  <2>11. \A c \in Cells : c \in lo..hi-1 => Gap(New, lo, hi)[c] = ERASED
    BY <2>10, GapIs
  <2>12. Gap(New, lo, hi)[lo + i] = ERASED BY <2>9, <2>11
  <2> QED BY <2>6, <2>8, <2>12
<1> QED BY <1>1, Invariants, PTL

\* At every step of a write, the sectors that it does not touch are as before, and
\* the chip is not working on them.
LEMMA Untouched ==
    ASSUME IInv, StoreInv, pc # "idle", NEW c \in Cells \ Store!Touched(op[1], op[2])
    PROVE  mem[c] = before[c] /\ (busy => c \notin job[1])
<1>0. c \in Cells /\ c \in Nat BY SizeTypes DEF Cells, Size
<1>1. \A i \in 1..Len(op[2]) : Cell(op[1] + i - 1) \div SectorSize # c \div SectorSize
  BY DEF Store!Touched, Store!SectorOf, Store!Cell, Store!Cells, Cell, Cells
<1>2. /\ secpos \in Nat /\ secoff \in Nat /\ src \in Nat /\ secremain \in Nat
      /\ secoff < SectorSize /\ src + secremain <= Len(op[2])
      /\ \A i \in 1..secremain : Cell(op[1] + (src + i) - 1) = Base(secpos) + secoff + i - 1
  BY Place
<1>3. PICK base \in Nat : base = Base(secpos) /\ base + SectorSize <= Size BY Place
<1>4. op[1] \in Nat /\ op[2] \in Seq(Byte) /\ Len(op[2]) \in Nat /\ Len(op[2]) <= Size
  BY Arguments
<1>5. Old[c] = before[c] /\ New[c] = before[c]
  <2>1. \A i \in 1..Len(op[2]) : Cell(op[1] + i - 1) # c BY <1>1
  <2>2. before \in [Cells -> Byte] BY DEF StoreInv, ValuesOK
  <2>3. PICK a \in Nat, data \in Seq(Byte) : a = op[1] /\ data = op[2] BY <1>4
  <2>4. PICK n \in Nat : n = src + secremain BY <1>2
  <2>5. Len(data) <= Size /\ n <= Len(data) /\ src <= Len(data) /\ Len(data) \in Nat
    BY <1>2, <1>4, <2>3, <2>4
  <2>6. IsPartly(Partly(before, a, data, n), before, a, data, n)
    BY <2>2, <2>5, PartlyIs
  <2>7. IsPartly(Partly(before, a, data, src), before, a, data, src)
    BY <1>2, <2>2, <2>5, PartlyIs
  <2>8. Old = Partly(before, a, data, src) /\ New = Partly(before, a, data, n)
    BY <2>3, <2>4 DEF Old, New
  <2>9. (\A i \in 1..src : Cell(a + i - 1) # c) /\ (\A i \in 1..n : Cell(a + i - 1) # c)
    <3>1. \A i \in 1..Len(data) : Cell(a + i - 1) # c BY <2>1, <2>3
    <3>2. \A i \in 1..src : i \in 1..Len(data) BY <1>2, <2>5
    <3>3. \A i \in 1..n : i \in 1..Len(data) BY <2>5
    <3> QED BY <3>1, <3>2, <3>3
  <2> QED BY <1>0, <2>6, <2>7, <2>8, <2>9 DEF IsPartly
<1>6. ASSUME secremain > 0 PROVE c < base \/ c >= base + SectorSize
  <2>1. PICK i \in 1..secremain : i = 1 BY <1>2, <1>6
  <2>2. Cell(op[1] + (src + i) - 1) = base + secoff + i - 1 BY <1>2, <1>3
  <2>3. PICK k \in 1..Len(op[2]) : k = src + i BY <1>2, <1>4
  <2>4. PICK d \in Nat : d = base + secoff BY <1>2
  <2>5. base + secoff + i - 1 = d BY <1>2, <2>1, <2>4
  <2>6. d \div SectorSize # c \div SectorSize BY <1>1, <2>2, <2>3, <2>5
  <2>7. PICK z \in Nat : base = SectorSize * z
    <3>1. secpos % Sectors \in Nat BY <1>2, SizeTypes, RemainderType
    <3> QED BY <1>3, <3>1 DEF Base
  <2>8. d >= base /\ d < base + SectorSize BY <1>2, <2>4, SizeTypes
  <2>9. d \div SectorSize = z BY <2>7, <2>8, SizeTypes, BlockOf
  <2>10. c \div SectorSize # z BY <2>6, <2>9
  <2>11. c \div SectorSize = z <=> SectorSize * z <= c /\ c < SectorSize * z + SectorSize
    BY <1>0, SizeTypes, BlockOf
  <2>12. ~(base <= c /\ c < base + SectorSize) BY <2>7, <2>10, <2>11
  <2> QED BY <1>0, <2>12, SizeTypes
<1>7. CASE pc \in {"read", "check", "erase", "erase_cmd"}
  BY <1>5, <1>7 DEF StoreInv, EraseOK, IInv, ChipOK
<1>8. CASE pc = "merge"
  <2>1. c < base \/ c >= base + SectorSize BY <1>6, <1>8 DEF StoreInv, EraseOK
  <2>2. CASE busy
    <3>1. mem = Old /\ job[1] = SectorZone(secpos)
      BY <1>8, <2>2 DEF StoreInv, EraseOK
    <3>2. SectorZone(secpos) = base..base + SectorSize - 1
      BY <1>2, <1>3, SectorZoneIs DEF Base
    <3>3. c \notin base..base + SectorSize - 1 BY <1>0, <2>1, SizeTypes
    <3> QED BY <1>5, <3>1, <3>2, <3>3
  <2>3. CASE ~busy
    <3>1. mem = Blank BY <1>8, <2>3 DEF StoreInv, EraseOK
    <3>2. PICK h \in Nat : h = base + SectorSize BY SizeTypes
    <3>3. mem = Gap(Old, base, h) BY <1>3, <3>1, <3>2 DEF Blank
    <3>4. c \notin base..h-1 BY <1>0, <2>1, <3>2, SizeTypes
    <3>5. mem[c] = Old[c] BY <1>0, <3>3, <3>4, Zenon DEF Gap
    <3> QED BY <1>5, <2>3, <3>5
  <2> QED BY <2>2, <2>3
<1>9. CASE pc \in {"page", "page_cmd", "page_wait"}
  <2>1. /\ paddr \in Nat /\ pleft \in Nat /\ pageremain \in Nat /\ pageremain <= pleft
    BY <1>9 DEF IInv, CountersOK, PageLoopOK
  <2>2. PICK lo \in Nat : lo = Cell(paddr) BY <2>1, CellType
  <2>3. /\ lo >= base /\ lo + pleft <= base + SectorSize /\ (pleft > 0 => secremain > 0)
    BY <1>3, <1>9, <2>2 DEF StoreInv, ProgramOK
  <2>4. PICK hi \in Nat : hi = lo + pleft BY <2>1
  <2>5. ASSUME NEW l \in Nat, l >= lo PROVE Gap(New, l, hi)[c] = before[c]
    <3>1. c \notin l..hi-1
      <4>1. CASE pleft = 0 BY <1>0, <2>2, <2>4, <2>5, <4>1
      <4>2. CASE pleft > 0
        <5>1. c < base \/ c >= base + SectorSize BY <1>6, <2>3, <4>2
        <5> QED BY <1>0, <2>1, <2>2, <2>3, <2>4, <2>5, <5>1, SizeTypes
      <4> QED BY <2>1, <4>1, <4>2
    <3> QED BY <1>0, <1>5, <3>1, Zenon DEF Gap
  <2>6. PICK m \in Nat : m = lo + pageremain /\ m >= lo BY <2>1
  <2>7. Rest(Cell(paddr)) = Gap(New, lo, hi)
        /\ Rest(Cell(paddr) + pageremain) = Gap(New, m, hi)
    BY <2>2, <2>4, <2>6 DEF Rest
  <2>8. mem = Gap(New, lo, hi) \/ mem = Gap(New, m, hi)
    BY <1>9, <2>7 DEF StoreInv, ProgramOK
  <2>9. mem[c] = before[c]
    <3>1. lo >= lo OBVIOUS
    <3> QED BY <2>5, <2>6, <2>8, <3>1
  <2>10. ASSUME busy PROVE c \notin job[1]
    <3>1. pc = "page_wait" BY <1>9, <2>10 DEF IInv, ChipOK
    <3>2. job[1] = PageZone(paddr) /\ pageremain > 0
      BY <2>10, <3>1 DEF StoreInv, ProgramOK
    <3>3. pleft > 0 /\ secremain > 0 BY <2>1, <2>3, <3>2
    <3>4. PICK z \in Nat : base = SectorSize * z
      <4>1. secpos % Sectors \in Nat BY <1>2, SizeTypes, RemainderType
      <4> QED BY <1>3, <4>1 DEF Base
    <3>5. base <= Cell(paddr) /\ Cell(paddr) < base + SectorSize
      BY <2>1, <2>2, <2>3, <3>3, SizeTypes
    <3>6. PageZone(paddr) \subseteq base..base + SectorSize - 1
      BY <2>1, <3>4, <3>5, PageInSector
    <3>7. c < base \/ c >= base + SectorSize BY <1>6, <3>3
    <3>8. c \notin base..base + SectorSize - 1 BY <1>0, <3>7, SizeTypes
    <3> QED BY <3>2, <3>6, <3>8
  <2> QED BY <2>9, <2>10
<1>10. CASE pc = "next"
  BY <1>5, <1>10 DEF StoreInv, ProgramOK, IInv, ChipOK
<1> QED BY <1>7, <1>8, <1>9, <1>10 DEF StoreInv, ValuesOK

\* Every step of the driver and the chip is a step of FlashStore, or invisible to it.
LEMMA StoreSteps ==
    ASSUME IInv, StoreInv, [Next]_vars
    PROVE  [Store!StoreNext]_(Store!storeVars)
<1>1. CASE UNCHANGED writeVars
  BY <1>1 DEF writeVars, Store!storeVars
<1>2. CASE SectorNext
  <2>1. CASE left = secremain
    <3>1. /\ pc = "next" /\ mem' = mem /\ op' = << >> /\ before' = mem' /\ lost' = FALSE
      BY <1>2, <2>1 DEF SectorNext, Idle, chip
    <3>2. op # << >> BY <3>1 DEF StoreInv, IdleOK
    <3>3. mem = New BY <3>1 DEF StoreInv, ProgramOK
    <3>4. src + secremain = Len(op[2]) BY <2>1, <3>1 DEF StoreInv, SectorLoopOK
    <3>5. New = Store!Written(before, op[1], op[2])
      BY <3>4 DEF New, Partly, Store!Written, Store!Cell, Store!Cells, Cell, Cells
    <3>6. Store!Commit BY <3>1, <3>2, <3>3, <3>5 DEF Store!Commit
    <3> QED BY <3>6 DEF Store!StoreNext
  <2>2. CASE left # secremain
    BY <1>1, <1>2, <2>2 DEF SectorNext
  <2> QED BY <2>1, <2>2
<1>3. CASE Reset
  <2>1. /\ op' = << >> /\ before' = mem' /\ lost' = (lost \/ op # << >>)
        /\ mem' \in [Cells -> Byte]
    BY <1>3, ResetMem DEF Reset, Idle
  <2>2. CASE pc = "idle"
    <3>1. op = << >> /\ mem = before /\ ~busy /\ lost \in BOOLEAN
      BY <2>2 DEF StoreInv, IdleOK, ValuesOK, IInv, ChipOK
    <3>2. mem' = mem BY <1>3, <3>1, ResetMem
    <3>3. lost' = lost BY <2>1, <3>1
    <3> QED BY <2>1, <3>1, <3>2, <3>3 DEF Store!storeVars
  <2>3. CASE pc # "idle"
    <3>1. op # << >> BY <2>3 DEF StoreInv, IdleOK
    <3>2. lost' = TRUE BY <2>1, <3>1
    <3>3. ASSUME NEW c \in Cells \ Store!Touched(op[1], op[2]) PROVE before'[c] = before[c]
      <4>1. mem[c] = before[c] /\ (busy => c \notin job[1]) BY <2>3, Untouched
      <4>2. mem'[c] = mem[c] BY <1>3, <4>1, ResetMem
      <4> QED BY <2>1, <4>1, <4>2
    <3>4. Store!Crash
      <4>1. Store!Cells = Cells BY DEF Store!Cells, Cells
      <4> QED BY <2>1, <3>1, <3>2, <3>3, <4>1 DEF Store!Crash
    <3> QED BY <3>4 DEF Store!StoreNext
  <2> QED BY <2>2, <2>3
<1>4. ASSUME NEW a \in Addr, NEW data \in Data, Write(a, data)
      PROVE  Store!StoreNext
  <2>1. pc = "idle" /\ op' = <<a, data>> /\ before' = before /\ lost' = FALSE
    BY <1>4 DEF Write
  <2>2. op = << >> BY <2>1 DEF StoreInv, IdleOK
  <2>3. Store!Begin(a, data) BY <2>1, <2>2 DEF Store!Begin
  <2>4. a \in Store!Addr BY DEF Store!Addr, Addr
  <2> QED BY <2>3, <2>4 DEF Store!StoreNext
<1>5. CASE UNCHANGED vars BY <1>1, <1>5 DEF vars
<1>6. CASE ChipDone BY <1>1, <1>6 DEF ChipDone
<1>7. CASE ReadSector BY <1>1, <1>7 DEF ReadSector
<1>8. CASE CheckErased BY <1>1, <1>8 DEF CheckErased
<1>9. CASE EraseEnable BY <1>1, <1>9 DEF EraseEnable
<1>10. CASE EraseCommand BY <1>1, <1>10 DEF EraseCommand
<1>11. CASE Merge BY <1>1, <1>11 DEF Merge
<1>12. CASE PageEnable BY <1>1, <1>12 DEF PageEnable
<1>13. CASE PageCommand BY <1>1, <1>13 DEF PageCommand
<1>14. CASE PageNext BY <1>1, <1>14 DEF PageNext, PageLoop
<1> QED BY <1>2, <1>3, <1>4, <1>5, <1>6, <1>7, <1>8, <1>9, <1>10, <1>11, <1>12, <1>13,
           <1>14 DEF Next, Step

\* W25QXX_Write implements FlashStore: a write that returns has replaced exactly the
\* cells it was given, although whole sectors were erased and written back; a write
\* cut short by a reset has cost at most the sectors it touches.
THEOREM FlashImplementsStore == Spec => ImplementsStore
<1>1. Init => Store!StoreInit
  <2> SUFFICES ASSUME Init PROVE Store!StoreInit OBVIOUS
  <2>1. before \in [Cells -> Byte] BY ContentsInit DEF StoreInv, ValuesOK
  <2> QED BY <2>1 DEF Init, Store!StoreInit, Store!Cells, Cells
<1>2. (IInv /\ StoreInv) /\ [Next]_vars => [Store!StoreNext]_(Store!storeVars)
  BY StoreSteps
<1>3. Init /\ [][Next]_vars /\ [](IInv /\ StoreInv) => Store!StoreSpec
  BY <1>1, <1>2, PTL DEF Store!StoreSpec
<1> QED BY <1>3, Invariants, PTL DEF Spec, ImplementsStore

-----------------------------------------------------------------------------
(* W25QXX_Write ends *)

\* The steps of the driver before the end of the sector: three for a page, and a page
\* has at least one byte.
SectorLeft ==
    CASE pc = "read"      -> 3 * SectorSize + 9
      [] pc = "check"     -> 3 * SectorSize + 8
      [] pc = "erase"     -> 3 * SectorSize + 7
      [] pc = "erase_cmd" -> 3 * SectorSize + 6
      [] pc = "merge"     -> 3 * SectorSize + 5
      [] pc = "page"      -> 3 * pleft + 4
      [] pc = "page_cmd"  -> 3 * pleft + 3
      [] pc = "page_wait" -> 3 * pleft + 2
      [] OTHER            -> 1

\* ... and before the end of W25QXX_Write.
WriteLeft == IF pc = "idle" THEN 0 ELSE (3 * SectorSize + 9) * left + SectorLeft

\* A sector that has at least one byte is worth all its steps.
LEMMA LessLeft ==
    ASSUME NEW w \in Nat, NEW l \in Nat, NEW k \in Nat, k < l
    PROVE  w * k \in Nat /\ w * l \in Nat /\ w * k + w <= w * l
<1> DEFINE d == l - k - 1
<1>1. d \in Nat /\ l = k + 1 + d OBVIOUS
<1>2. w * d \in Nat /\ w * k \in Nat /\ w * l \in Nat BY <1>1
<1>3. w * l = w * k + w + w * d BY <1>1
<1> QED BY <1>2, <1>3

\* Before the end of a sector there is always a step.
LEMMA SectorLeftNat ==
    ASSUME IInv PROVE SectorLeft \in Nat /\ SectorLeft > 0
<1>1. SectorSize \in Nat /\ pleft \in Nat BY Sizes DEF IInv, CountersOK
<1>2. SectorLeft \in {3 * SectorSize + 9, 3 * SectorSize + 8, 3 * SectorSize + 7,
                      3 * SectorSize + 6, 3 * SectorSize + 5, 3 * pleft + 4, 3 * pleft + 3,
                      3 * pleft + 2, 1}
  BY DEF SectorLeft
<1> QED BY <1>1, <1>2

\* A step inside a sector.
LEMMA InSector ==
    ASSUME IInv, IInv', pc # "idle", pc' # "idle", left' = left, SectorLeft' < SectorLeft
    PROVE  WriteLeft \in Nat /\ WriteLeft' \in 0..WriteLeft - 1
<1> DEFINE p == (3 * SectorSize + 9) * left
<1>1. SectorLeft \in Nat /\ SectorLeft' \in Nat
  <2>1. (IInv => SectorLeft \in Nat)' BY SectorLeftNat, PTL
  <2> QED BY <2>1, SectorLeftNat
<1>2. p \in Nat
  <2>1. SectorSize \in Nat /\ left \in Nat BY Sizes DEF IInv, CountersOK
  <2> QED BY <2>1
<1>3. WriteLeft = p + SectorLeft /\ WriteLeft' = p + SectorLeft' BY DEF WriteLeft
<1> HIDE DEF p
<1> DEFINE x == SectorLeft y == SectorLeft'
<1>4. x \in Nat /\ y \in Nat /\ y < x /\ WriteLeft = p + x /\ WriteLeft' = p + y
  BY <1>1, <1>3, Zenon
<1> HIDE DEF x, y
<1>5. WriteLeft \in Nat BY <1>2, <1>4
<1> QED BY <1>2, <1>4, <1>5

\* One case for each step of the driver.
LEMMA WriteFalls ==
    ASSUME IInv, IInv', StoreInv, StoreInv', Step
    PROVE  WriteLeft \in Nat /\ WriteLeft' \in 0..WriteLeft - 1
<1>1. SectorSize \in Nat \ {0} /\ PageSize \in Nat \ {0} BY Sizes
<1>2. left \in Nat /\ pleft \in Nat /\ pleft' \in Nat /\ secremain \in Nat /\ secremain <= left
      /\ pageremain \in Nat
  BY DEF IInv, CountersOK
<1>3. ASSUME pc' = "page" PROVE pleft' <= SectorSize
  <2>1. /\ Cell(paddr') >= Base(secpos') /\ Cell(paddr') + pleft' <= Base(secpos') + SectorSize
    BY <1>3 DEF StoreInv, ProgramOK, Cell, Base
  <2>2. paddr' \in Nat /\ secpos' \in Nat BY DEF IInv, CountersOK
  <2>3. Cell(paddr') \in Nat BY <2>2, CellType
  <2>4. 0 \in Nat /\ 0 < SectorSize BY <1>1
  <2>5. Base(secpos') \in Nat BY <2>2, <2>4, SectorCells DEF Base
  <2> QED BY <1>1, <1>2, <2>1, <2>3, <2>5
<1>4. CASE ReadSector
  <2>1. pc = "read" /\ pc' = "check" /\ left' = left BY <1>4 DEF ReadSector, secVars
  <2>2. SectorLeft = 3 * SectorSize + 9 /\ SectorLeft' = 3 * SectorSize + 8 BY <2>1 DEF SectorLeft
  <2>3. SectorLeft' < SectorLeft BY <1>1, <2>2
  <2> QED BY <2>1, <2>3, InSector
<1>5. CASE CheckErased
  <2>1. pc = "check" /\ pc' \in {"erase", "page"} /\ left' = left
    BY <1>5 DEF CheckErased, NoCheck, secVars
  <2>2. SectorLeft = 3 * SectorSize + 8 BY <2>1 DEF SectorLeft
  <2>3. CASE pc' = "erase"
    <3>1. SectorLeft' = 3 * SectorSize + 7 BY <2>3 DEF SectorLeft
    <3>2. SectorLeft' < SectorLeft BY <1>1, <2>2, <3>1
    <3> QED BY <2>1, <3>2, InSector
  <2>4. CASE pc' = "page"
    <3>1. SectorLeft' = 3 * pleft' + 4 BY <2>4 DEF SectorLeft
    <3>2. SectorLeft' < SectorLeft
      <4> DEFINE y == pleft'
      <4>1. y \in Nat /\ y <= SectorSize /\ SectorLeft' = 3 * y + 4
        BY <1>2, <1>3, <2>4, <3>1, Zenon
      <4> HIDE DEF y
      <4> QED BY <1>1, <2>2, <4>1
    <3> QED BY <2>1, <3>2, InSector
  <2> QED BY <2>1, <2>3, <2>4
<1>6. CASE EraseEnable
  <2>1. pc = "erase" /\ pc' = "erase_cmd" /\ left' = left BY <1>6 DEF EraseEnable, secVars
  <2>2. SectorLeft = 3 * SectorSize + 7 /\ SectorLeft' = 3 * SectorSize + 6 BY <2>1 DEF SectorLeft
  <2>3. SectorLeft' < SectorLeft BY <1>1, <2>2
  <2> QED BY <2>1, <2>3, InSector
<1>7. CASE EraseCommand
  <2>1. pc = "erase_cmd" /\ pc' = "merge" /\ left' = left BY <1>7 DEF EraseCommand, secVars
  <2>2. SectorLeft = 3 * SectorSize + 6 /\ SectorLeft' = 3 * SectorSize + 5 BY <2>1 DEF SectorLeft
  <2>3. SectorLeft' < SectorLeft BY <1>1, <2>2
  <2> QED BY <2>1, <2>3, InSector
<1>8. CASE Merge
  <2>1. pc = "merge" /\ pc' = "page" /\ left' = left BY <1>8 DEF Merge, NoCheck, secVars
  <2>2. SectorLeft = 3 * SectorSize + 5 /\ SectorLeft' = 3 * pleft' + 4 BY <2>1 DEF SectorLeft
  <2>3. SectorLeft' < SectorLeft
    <3> DEFINE y == pleft'
    <3>1. y \in Nat /\ y <= SectorSize /\ SectorLeft' = 3 * y + 4
      BY <1>2, <1>3, <2>1, <2>2, Zenon
    <3> HIDE DEF y
    <3> QED BY <1>1, <2>2, <3>1
  <2> QED BY <2>1, <2>3, InSector
<1>9. CASE PageEnable
  <2>1. pc = "page" /\ pc' = "page_cmd" /\ left' = left /\ pleft' = pleft
    BY <1>9 DEF PageEnable, secVars, pageVars
  <2>2. SectorLeft = 3 * pleft + 4 /\ SectorLeft' = 3 * pleft + 3 BY <2>1 DEF SectorLeft
  <2>3. SectorLeft' < SectorLeft BY <1>2, <2>2
  <2> QED BY <2>1, <2>3, InSector
<1>10. CASE PageCommand
  <2>1. pc = "page_cmd" /\ pc' = "page_wait" /\ left' = left /\ pleft' = pleft
    BY <1>10 DEF PageCommand, secVars, pageVars
  <2>2. SectorLeft = 3 * pleft + 3 /\ SectorLeft' = 3 * pleft + 2 BY <2>1 DEF SectorLeft
  <2>3. SectorLeft' < SectorLeft BY <1>2, <2>2
  <2> QED BY <2>1, <2>3, InSector
<1>11. CASE PageNext
  <2>1. pc = "page_wait" /\ left' = left BY <1>11 DEF PageNext, PageLoop, secVars
  <2>2. SectorLeft = 3 * pleft + 2 BY <2>1 DEF SectorLeft
  <2>3. CASE pleft = pageremain
    <3>1. pc' = "next" BY <1>11, <2>3 DEF PageNext, PageLoop
    <3>2. SectorLeft' = 1 BY <3>1 DEF SectorLeft
    <3>3. SectorLeft' < SectorLeft BY <1>2, <2>2, <3>2
    <3> QED BY <2>1, <3>1, <3>3, InSector
  <2>4. CASE pleft # pageremain
    <3>1. pc' = "page" /\ pleft' = pleft - pageremain BY <1>11, <2>4 DEF PageNext, PageLoop
    <3>2. pageremain > 0
      <4>1. (paddr % PageSize) + pageremain = PageSize BY <2>1, <2>4 DEF IInv, PageLoopOK
      <4>2. paddr \in Nat BY DEF IInv, CountersOK
      <4>3. paddr % PageSize \in Nat /\ paddr % PageSize < PageSize BY <1>1, <4>2, RemainderType
      <4> QED BY <1>1, <1>2, <4>1, <4>3
    <3>3. SectorLeft' = 3 * pleft' + 4 BY <3>1 DEF SectorLeft
    <3>4. SectorLeft' < SectorLeft BY <1>2, <2>2, <3>1, <3>2, <3>3
    <3> QED BY <2>1, <3>1, <3>4, InSector
  <2> QED BY <2>3, <2>4
<1>12. CASE SectorNext
  <2> DEFINE w == 3 * SectorSize + 9
  <2>1. pc = "next" BY <1>12 DEF SectorNext
  <2>2. SectorLeft = 1 /\ WriteLeft = w * left + SectorLeft BY <2>1 DEF SectorLeft, WriteLeft
  <2>3. w \in Nat /\ w * left \in Nat BY <1>1, <1>2
  <2>4. CASE left = secremain
    <3>1. pc' = "idle" BY <1>12, <2>4 DEF SectorNext, Idle
    <3>2. WriteLeft' = 0 BY <3>1 DEF WriteLeft
    <3> HIDE DEF w
    <3> QED BY <1>2, <2>2, <2>3, <3>2
  <2>5. CASE left # secremain
    <3>1. pc' = "read" /\ left' = left - secremain BY <1>12, <2>5 DEF SectorNext
    <3>2. secremain > 0
      <4>1. secremain = Least(left, SectorSize - secoff) BY <2>1 DEF StoreInv, SectorLoopOK
      <4>2. secoff \in 0..SectorSize - 1 BY DEF StoreInv, ValuesOK
      <4> QED BY <1>1, <1>2, <2>5, <4>1, <4>2 DEF Least
    <3>3. WriteLeft' = w * left' + w BY <3>1 DEF WriteLeft, SectorLeft
    <3>4. left' \in Nat /\ left' < left BY <1>2, <3>1, <3>2
    <3> HIDE DEF w
    <3>5. w * left' \in Nat /\ w * left' + w <= w * left BY <1>2, <2>3, <3>4, LessLeft
    <3> QED BY <1>2, <2>2, <2>3, <3>3, <3>5
  <2> QED BY <2>4, <2>5
<1> QED BY <1>4, <1>5, <1>6, <1>7, <1>8, <1>9, <1>10, <1>11, <1>12 DEF Step

\* W25QXX_Write takes boundedly many steps for every text and place: each step of its two
\* loops, over page, sector and chip ends, lowers what is left, and what the chip does
\* leaves it alone.  Neither loop can miss the zero at which it stops.
THEOREM WriteBounded ==
    Spec => [][/\ Step => WriteLeft' \in 0..WriteLeft - 1
               /\ ChipDone => WriteLeft' = WriteLeft]_vars
<1>1. ChipDone => WriteLeft' = WriteLeft
  BY DEF ChipDone, secVars, pageVars, WriteLeft, SectorLeft
<1>2. IInv /\ IInv' /\ StoreInv /\ StoreInv' /\ [Next]_vars =>
          [/\ Step => WriteLeft' \in 0..WriteLeft - 1
           /\ ChipDone => WriteLeft' = WriteLeft]_vars
  BY <1>1, WriteFalls
<1> QED BY <1>2, Invariants, PTL DEF Spec
=============================================================================
