----------------------------- MODULE QspiProofs -----------------------------
(***************************************************************************)
(* Copies out of the QSPI keep the promise of FlashCopy for every size of  *)
(* bank, chip and transfer, on every board that the driver serves.         *)
(***************************************************************************)
EXTENDS QspiCopy, TLAPS

(***************************************************************************)
(* Division with remainder.                                                *)
(***************************************************************************)
LEMMA DivMod ==
  ASSUME NEW x \in Nat, NEW d \in Nat \ {0}
  PROVE  /\ x \div d \in Nat /\ (x % d) \in Nat
         /\ (x % d) < d
         /\ x = d * (x \div d) + (x % d)
  OBVIOUS

\* A remainder below the divisor is the remainder.
LEMMA ModUnique ==
  ASSUME NEW d \in Nat \ {0}, NEW q \in Nat, NEW r \in Nat, r < d
  PROVE  (d * q + r) % d = r
<1>. DEFINE x == d * q + r
<1>1. d * q \in Nat
  BY SMT
<1>2. x \in Nat
  BY <1>1
<1>3. /\ x \div d \in Nat /\ (x % d) \in Nat /\ (x % d) < d
      /\ x = d * (x \div d) + (x % d)
  BY <1>2, DivMod
<1>4. PICK p \in Nat, s \in Nat : p = x \div d /\ s = (x % d)
  BY <1>3
<1>5. d * q + r = d * p + s
  BY <1>3, <1>4
<1>. HIDE DEF x
<1>6. q = p
  <2>1. d * (q - p) = s - r
    BY <1>5
  <2>2. CASE q - p >= 1
    <3>1. d * (q - p) >= d
      BY <2>2
    <3>. QED
      BY <2>1, <3>1, <1>3, <1>4
  <2>3. CASE p - q >= 1
    <3>1. d * (p - q) >= d
      BY <2>3
    <3>2. d * (p - q) = r - s
      BY <2>1
    <3>. QED
      BY <3>1, <3>2
  <2>. QED
    BY <2>2, <2>3
<1>. QED
  BY <1>4, <1>5, <1>6 DEF x

\* Two addresses round down to the same border exactly when none lies between.
LEMMA CutFacts ==
  ASSUME NEW o \in Nat, NEW w \in Nat, NEW m \in Nat \ {0}
  PROVE  /\ o - (o % m) = (o + w) - ((o + w) % m) => (o % m) + w < m
         /\ o - (o % m) # (o + w) - ((o + w) % m) => (o % m) + w >= m
<1>1. /\ o \div m \in Nat /\ (o % m) \in Nat /\ (o % m) < m
      /\ o = m * (o \div m) + (o % m)
  BY DivMod
<1>2. ((o + w) % m) \in Nat /\ ((o + w) % m) < m
  BY DivMod
<1>3. ASSUME (o % m) + w < m
      PROVE  ((o + w) % m) = (o % m) + w
  <2>1. ((m * (o \div m) + ((o % m) + w)) % m) = (o % m) + w
    <3>1. (o % m) + w \in Nat
      BY <1>1
    <3>. QED
      BY <1>1, <1>3, <3>1, ModUnique, Zenon
  <2>2. o + w = m * (o \div m) + ((o % m) + w)
    BY <1>1
  <2>. QED
    BY <2>1, <2>2
<1>. QED
  BY <1>1, <1>2, <1>3

\* A remainder doubles with its operands.
LEMMA ScaleMod ==
  ASSUME NEW a \in Nat, NEW m \in Nat \ {0}
  PROVE  (2 * a) % (2 * m) = 2 * (a % m)
<1>1. /\ a \div m \in Nat /\ (a % m) \in Nat /\ (a % m) < m
      /\ a = m * (a \div m) + (a % m)
  BY DivMod
<1>2. ((2 * m) * (a \div m) + 2 * (a % m)) % (2 * m) = 2 * (a % m)
  <2>1. /\ 2 * m \in Nat \ {0} /\ 2 * (a % m) \in Nat
        /\ 2 * (a % m) < 2 * m
    BY <1>1
  <2>. QED
    BY <1>1, <2>1, ModUnique, Zenon
<1>3. 2 * a = (2 * m) * (a \div m) + 2 * (a % m)
  BY <1>1
<1>. QED
  BY <1>2, <1>3

-----------------------------------------------------------------------------
(***************************************************************************)
(* What is known of the board.                                             *)
(***************************************************************************)
LEMMA BoardFacts ==
  ASSUME board \in Boards
  PROVE  /\ board.mode \in Mode /\ board.make \in Make
         /\ board.chip \in Nat \ {0}
         /\ board.wide \in BOOLEAN /\ board.quad \in BOOLEAN
         /\ board.faults \in SUBSET {"fail", "lost"}
<1>1. board \in Board
  BY QspiSizes
<1>. QED
  BY <1>1 DEF Board

\* A unit of the copy is one unit of a chip, or half of one in parallel flashes.
LEMMA StrideFacts ==
  /\ Stride \in {1, 2}
  /\ BankSizeOne \in Nat \ {0}
  /\ BankSize \in Nat \ {0}
  /\ BankSize = BankSizeOne * Stride
<1>1. Stride \in {1, 2} /\ BankSizeOne \in Nat \ {0}
  BY QspiSizes DEF Stride, BankSizeOne
<1>2. CASE Stride = 1
  BY <1>1, <1>2 DEF BankSize
<1>3. CASE Stride = 2
  BY <1>1, <1>3 DEF BankSize
<1>. QED
  BY <1>1, <1>2, <1>3

\* A read that stays inside a window of a whole number of them stays inside all.
LEMMA BorderFacts ==
  ASSUME NEW a \in Nat, NEW m \in Nat, NEW w \in Nat \ {0}, NEW t \in Nat,
         a < m, (m % w) = 0, (a % w) + t <= w
  PROVE  a + t <= m
<1>1. PICK p \in Nat, r \in Nat : r = (a % w) /\ r < w /\ a = w * p + r
  <2>1. /\ a \div w \in Nat /\ (a % w) \in Nat /\ (a % w) < w
        /\ a = w * (a \div w) + (a % w)
    BY DivMod
  <2>. QED
    BY <2>1
<1>2. PICK n \in Nat : m = w * n
  <2>1. m \div w \in Nat /\ m = w * (m \div w) + (m % w)
    BY DivMod
  <2>. QED
    BY <2>1
<1>3. w * p < w * n
  BY <1>1, <1>2
<1>4. p < n
  <2>1. CASE p >= n
    <3>1. w * p >= w * n
      BY <2>1
    <3>. QED
      BY <1>3, <3>1
  <2>. QED
    BY <2>1
<1>5. w * (p + 1) <= w * n
  BY <1>4
<1>6. w * (p + 1) = w * p + w
  OBVIOUS
<1>7. w * p \in Nat /\ w * n \in Nat
  OBVIOUS
<1>. QED
  BY <1>1, <1>2, <1>5, <1>6, <1>7

\* A remainder scales with the stride.
LEMMA ScaleStride ==
  ASSUME NEW a \in Nat, NEW m \in Nat \ {0}
  PROVE  (a * Stride) % (m * Stride) = (a % m) * Stride
<1>1. (a % m) \in Nat
  BY DivMod
<1>2. CASE Stride = 1
  <2>1. a * 1 = a /\ m * 1 = m /\ (a % m) * 1 = (a % m)
    BY <1>1
  <2>. QED
    BY <1>2, <2>1
<1>3. CASE Stride = 2
  <2>1. a * 2 = 2 * a /\ m * 2 = 2 * m /\ (a % m) * 2 = 2 * (a % m)
    BY <1>1
  <2>. QED
    BY <1>3, <2>1, ScaleMod
<1>. QED
  BY <1>2, <1>3 DEF Stride

(***************************************************************************)
(* The chips and the address in them.                                      *)
(***************************************************************************)
LEMMA AddressFacts ==
  ASSUME QspiTypeOK
  PROVE  /\ GetQspiAddr.cs \in {{0}, {1}, Chips}
         /\ GetQspiAddr.addr \in Nat
         /\ board.mode = "SINGLE" =>
              GetQspiAddr.cs = {0} /\ GetQspiAddr.addr = SrcAddress
         /\ board.mode = "STACKED" /\ SrcAddress >= board.chip =>
              GetQspiAddr.cs = {1} /\ GetQspiAddr.addr = SrcAddress - board.chip
         /\ board.mode = "STACKED" /\ ~(SrcAddress >= board.chip) =>
              GetQspiAddr.cs = {0} /\ GetQspiAddr.addr = SrcAddress
         /\ board.mode = "PARALLEL" =>
              GetQspiAddr.cs = Chips /\ GetQspiAddr.addr = SrcAddress \div 2
<1>1. /\ board.mode \in Mode /\ board.chip \in Nat \ {0} /\ SrcAddress \in Nat
  BY BoardFacts DEF QspiTypeOK
<1>2. SrcAddress \div 2 \in Nat
  BY <1>1
<1>3. CASE board.mode = "SINGLE"
  BY <1>1, <1>3 DEF GetQspiAddr
<1>4. CASE board.mode = "STACKED"
  BY <1>1, <1>4 DEF GetQspiAddr
<1>5. CASE board.mode = "PARALLEL"
  BY <1>1, <1>2, <1>5 DEF GetQspiAddr
<1>. QED
  BY <1>1, <1>3, <1>4, <1>5 DEF Mode

(***************************************************************************)
(* What a turn of the loop wants to read lies in what is left to copy.     *)
(***************************************************************************)
LEMMA WantedFacts ==
  ASSUME QspiTypeOK, RemainingBytes > 0
  PROVE  Wanted \in 1 .. RemainingBytes
<1>1. /\ RemainingBytes \in Nat /\ DMA_DATA_TRAN_SIZE \in Nat \ {0}
      /\ SIXTY_FOUR_BYTE \in Nat \ {0}
      /\ UnalignedBytes \in 0 .. (SIXTY_FOUR_BYTE - 1)
  BY QspiSizes DEF QspiTypeOK
<1>2. AtMostDma \in 1 .. RemainingBytes
  BY <1>1 DEF AtMostDma
<1>3. ToAlignment \in 1 .. RemainingBytes
  BY <1>1, <1>2 DEF ToAlignment
<1>. QED
  BY <1>2, <1>3 DEF Wanted

(***************************************************************************)
(* A cut leaves at least one unit, never lengthens a transfer and ends it  *)
(* at the border.                                                          *)
(***************************************************************************)
LEMMA CutLength ==
  ASSUME QspiTypeOK, RemainingBytes > 0,
         NEW q, q.addr \in Nat
  PROVE  /\ TransferBytes(q) \in 1 .. Wanted
         /\ CutsAtBank =>
              ((q.addr * Stride) % BankSize) + TransferBytes(q) <= BankSize
         /\ ~CutsAtBank => TransferBytes(q) = Wanted
<1>. DEFINE o == q.addr * Stride
            r == o % BankSize
            e == (o + Wanted) % BankSize
<1>1. /\ Wanted \in Nat \ {0} /\ BankSize \in Nat \ {0} /\ Stride \in {1, 2}
  BY WantedFacts, StrideFacts DEF QspiTypeOK
<1>2. o \in Nat
  BY <1>1
<1>. HIDE DEF o
<1>3. r \in Nat /\ r < BankSize
  BY <1>1, <1>2, DivMod
<1>4. e \in Nat /\ e < BankSize
  <2>1. o + Wanted \in Nat
    BY <1>1, <1>2
  <2>. QED
    BY <1>1, <2>1, DivMod
<1>5. /\ o - r = (o + Wanted) - e => r + Wanted < BankSize
      /\ o - r # (o + Wanted) - e => r + Wanted >= BankSize
  BY <1>1, <1>2, CutFacts
<1>6. TransferBytes(q) =
        IF CutsAtBank /\ o - r # (o + Wanted) - e
        THEN (o - r) + BankSize - o ELSE Wanted
  BY DEF TransferBytes, MaskBank, o
<1>. HIDE DEF r, e
<1>7. /\ TransferBytes(q) \in 1 .. Wanted
      /\ CutsAtBank => r + TransferBytes(q) <= BankSize
      /\ ~CutsAtBank => TransferBytes(q) = Wanted
  <2>1. CASE CutsAtBank /\ o - r # (o + Wanted) - e
    <3>1. TransferBytes(q) = BankSize - r
      BY <1>1, <1>2, <1>3, <1>6, <2>1
    <3>. QED
      BY <1>1, <1>3, <1>5, <2>1, <3>1
  <2>2. CASE ~(CutsAtBank /\ o - r # (o + Wanted) - e)
    BY <1>1, <1>2, <1>3, <1>4, <1>5, <1>6, <2>2
  <2>. QED
    BY <2>1, <2>2
<1>. QED
  BY <1>7 DEF r, o

-----------------------------------------------------------------------------
(***************************************************************************)
(* What a read delivers is a number.                                       *)
(***************************************************************************)
LEMMA DataTypes ==
  ASSUME QspiTypeOK,
         NEW q, q.addr \in Nat, q.cs \in {{0}, {1}, Chips},
         NEW b \in [Chips -> Nat], NEW k \in Int
  PROVE  FlashData(q, b, k) \in Int
<1>. DEFINE d == CHOOSE c \in q.cs : TRUE
            a == ChipAddress(q, b, d)
<1>1. /\ board.chip \in Nat \ {0} /\ Junk \in Int /\ Stride \in {1, 2}
      /\ BANKSIZE \in Nat /\ (q.addr % BANKSIZE) \in Nat
  BY BoardFacts, QspiSizes, StrideFacts, DivMod DEF QspiTypeOK, Junk
<1>2. d \in Chips
  <2>1. q.cs # {} /\ q.cs \subseteq Chips
    BY DEF Chips
  <2>. QED
    BY <2>1
<1>. HIDE DEF d
<1>3. a \in Nat
  <2>1. b[d] \in Nat
    BY <1>2
  <2>2. b[d] * BANKSIZE \in Nat
    BY <1>1, <2>1
  <2>. QED
    BY <1>1, <2>2 DEF ChipAddress
<1>. HIDE DEF a
<1>4. FlashData(q, b, k) =
        IF ReadsAt(q, b, a) /\ InOneWindow(q, k) /\ a * Stride + k < board.chip * Stride
        THEN a * Stride + k + (IF q.cs = {1} THEN board.chip ELSE 0)
        ELSE Junk
  BY DEF FlashData, a, d
<1>5. a * Stride \in Int
  BY <1>1, <1>3
<1>. QED
  BY <1>1, <1>4, <1>5

(***************************************************************************)
(* Memory holds numbers after a turn of the loop, failed or not.           *)
(***************************************************************************)
LEMMA MemTypes ==
  ASSUME QspiTypeOK,
         NEW q, q.addr \in Nat, q.cs \in {{0}, {1}, Chips},
         NEW b \in [Chips -> Nat]
  PROVE  /\ MemAfter(q, b) \in [Cells -> Int]
         /\ MemAfterFailure(q) \in [Cells -> Int]
<1>1. /\ mem \in [Cells -> Int] /\ Junk \in Int
      /\ DestAddress \in Nat /\ Cells \subseteq Nat
  BY QspiSizes DEF QspiTypeOK, Junk
<1>2. \A k \in Int : FlashData(q, b, k) \in Int
  BY DataTypes
<1>3. \A c \in Cells : c - DestAddress \in Int
  BY <1>1
<1>. QED
  BY <1>1, <1>2, <1>3 DEF MemAfter, MemAfterFailure

(***************************************************************************)
(* The bank registers hold numbers.                                        *)
(***************************************************************************)
LEMMA BankTypes ==
  ASSUME QspiTypeOK,
         NEW q, q.addr \in Nat, NEW b \in BanksAfter(q)
  PROVE  b \in [Chips -> Nat]
<1>1. BankSel(q) \in Nat
  BY QspiSizes, DivMod DEF BankSel
<1>. QED
  BY <1>1 DEF BanksAfter, QspiTypeOK

(***************************************************************************)
(* Every step keeps the types.                                             *)
(***************************************************************************)
LEMMA NextTypes == QspiTypeOK /\ [Next]_vars => QspiTypeOK'
<1>. SUFFICES ASSUME QspiTypeOK, [Next]_vars
              PROVE  QspiTypeOK'
  OBVIOUS
<1>. DEFINE q == GetQspiAddr
<1>1. CASE QspiInit
  <2>1. QspiFlashSize' \in Nat
    BY <1>1, BoardFacts DEF QspiInit, QspiTypeOK
  <2>2. fourByte' \subseteq Chips
    BY <1>1 DEF QspiInit, MacronixEnable4B, QspiTypeOK, Chips
  <2>. QED
    BY <1>1, <2>1, <2>2 DEF QspiInit, QspiTypeOK, loopVars
<1>2. ASSUME NEW a \in Calls, Copy(a.src, a.dest, a.len)
      PROVE  QspiTypeOK'
  <2>1. a.src \in Nat /\ a.dest \in Nat /\ a.len \in Nat
    BY CallsAreWords DEF Word
  <2>2. (a.dest % SIXTY_FOUR_BYTE) \in 0 .. (SIXTY_FOUR_BYTE - 1)
    BY <2>1, QspiSizes, DivMod
  <2>3. Old \in Int
    BY DEF Old
  <2>. QED
    BY <1>2, <2>1, <2>2, <2>3 DEF Copy, QspiTypeOK
<1>3. CASE Transfer
  <2>1. PICK b \in BanksAfter(q) :
          /\ bank' = b
          /\ \/ /\ mem' = MemAfter(q, b)
                /\ UnalignedBytes' = 0
                /\ RemainingBytes' = RemainingBytes - TransferBytes(q)
                /\ DestAddress' = DestAddress + TransferBytes(q)
                /\ SrcAddress' = SrcAddress + TransferBytes(q)
                /\ UNCHANGED pc
             \/ /\ pc' = "ERROR"
                /\ mem' \in {mem, MemAfterFailure(q)}
                /\ UNCHANGED loopVars
    BY <1>3, Zenon DEF Transfer
  <2>2. RemainingBytes > 0
    BY <1>3 DEF Transfer
  <2>3. q.addr \in Nat /\ q.cs \in {{0}, {1}, Chips}
    BY AddressFacts
  <2>4. TransferBytes(q) \in 1 .. RemainingBytes
    <3>1. TransferBytes(q) \in 1 .. Wanted
      BY <2>2, <2>3, CutLength, Zenon
    <3>2. Wanted \in 1 .. RemainingBytes
      BY <2>2, WantedFacts
    <3>3. RemainingBytes \in Nat
      BY DEF QspiTypeOK
    <3>. QED
      BY ONLY <3>1, <3>2, <3>3
  <2>5. b \in [Chips -> Nat]
    BY <2>3, BankTypes
  <2>6. mem' \in [Cells -> Int]
    BY <2>1, <2>3, <2>5, MemTypes DEF QspiTypeOK
  <2>7. UNCHANGED <<board, QspiFlashSize, fourByte, call>>
    BY <1>3 DEF Transfer
  <2>8. /\ pc' \in {"CLOSED", "IDLE", "COPY", "OK", "ERROR"}
        /\ SrcAddress' \in Nat /\ DestAddress' \in Nat
        /\ RemainingBytes' \in 0 .. call.len
        /\ UnalignedBytes' \in 0 .. (SIXTY_FOUR_BYTE - 1)
    <3>1. 0 \in 0 .. (SIXTY_FOUR_BYTE - 1)
      BY QspiSizes
    <3>. HIDE DEF q
    <3>. QED
      BY <2>1, <2>4, <3>1 DEF QspiTypeOK, loopVars
  <2>. QED
    BY <2>1, <2>5, <2>6, <2>7, <2>8 DEF QspiTypeOK
<1>4. CASE CopyEnds
  BY <1>4 DEF CopyEnds, QspiTypeOK, loopVars
<1>5. CASE UNCHANGED vars
  BY <1>5 DEF vars, QspiTypeOK, loopVars
<1>. QED
  BY <1>1, <1>2, <1>3, <1>4, <1>5 DEF Next

(***************************************************************************)
(* The driver starts with these types.                                     *)
(***************************************************************************)
LEMMA InitTypes == Init => QspiTypeOK
<1>. SUFFICES ASSUME Init
              PROVE  QspiTypeOK
  OBVIOUS
<1>1. board.chip - 1 \in Nat
  BY BoardFacts DEF Init
<1>2. bank \in [Chips -> Nat]
  <2>1. (board.chip - 1) \div BANKSIZE \in Nat
    BY <1>1, QspiSizes, DivMod
  <2>. QED
    BY <2>1 DEF Init
<1>3. fourByte \subseteq Chips
  BY DEF Init
<1>. QED
  BY <1>2, <1>3, QspiSizes DEF Init, QspiTypeOK, NoCall, Old

(***************************************************************************)
(* The driver keeps its types, and the loop stays inside what was asked    *)
(* for (XFsbl_Qspi24Copy, XFsbl_Qspi32Copy).                               *)
(***************************************************************************)
THEOREM QspiTypeCorrect == Spec => []QspiTypeOK
  BY InitTypes, NextTypes, PTL DEF Spec

-----------------------------------------------------------------------------
(***************************************************************************)
(* What the copy loop maintains: the flash's size is known, what is left   *)
(* ends where the call ends, in parallel flashes every read begins at a    *)
(* byte pair, the chips of a board that can be served expect four address  *)
(* bytes, and what lies before the place the loop has come to is copied.   *)
(***************************************************************************)
SizeKnown ==
  pc # "CLOSED" =>
    QspiFlashSize = IF board.mode = "SINGLE" THEN board.chip ELSE 2 * board.chip
LoopInv ==
  pc = "COPY" =>
    /\ call.src + call.len <= QspiFlashSize
    /\ SrcAddress + RemainingBytes = call.src + call.len
    /\ DestAddress + RemainingBytes = call.dest + call.len
EvenInv ==
  pc = "COPY" /\ board.mode = "PARALLEL" =>
    (SrcAddress % 2) = 0 /\ (RemainingBytes % 2) = 0 /\ (UnalignedBytes % 2) = 0
FourByteInv ==
  pc # "CLOSED" /\ NeedsFourByteMode /\ board.quad =>
    IF board.mode = "SINGLE" THEN 0 \in fourByte ELSE Chips \subseteq fourByte
CopiedInv ==
  pc = "COPY" =>
    \A c \in Cells :
      call.dest <= c /\ c < DestAddress => mem[c] = call.src + (c - call.dest)
CopyInv ==
  /\ QspiTypeOK /\ Supported(board)
  /\ SizeKnown /\ LoopInv /\ EvenInv /\ FourByteInv /\ CopiedInv

(***************************************************************************)
(* A read begins inside its chip, and the address in the chips leads back  *)
(* to the address in the flash.                                            *)
(***************************************************************************)
LEMMA ChipFacts ==
  ASSUME CopyInv, pc = "COPY", RemainingBytes > 0
  PROVE  /\ GetQspiAddr.addr \in Nat /\ GetQspiAddr.addr < board.chip
         /\ GetQspiAddr.addr * Stride + (IF GetQspiAddr.cs = {1} THEN board.chip ELSE 0)
              = SrcAddress
         /\ board.mode # "STACKED" =>
              /\ GetQspiAddr.cs # {1}
              /\ SrcAddress + RemainingBytes <= board.chip * Stride
<1>1. /\ board.mode \in Mode /\ board.chip \in Nat \ {0} /\ SrcAddress \in Nat
      /\ RemainingBytes \in Nat /\ call.src \in Nat /\ call.len \in Nat
  BY BoardFacts DEF CopyInv, QspiTypeOK
<1>2. /\ QspiFlashSize = IF board.mode = "SINGLE" THEN board.chip ELSE 2 * board.chip
      /\ SrcAddress + RemainingBytes <= QspiFlashSize
  BY <1>1 DEF CopyInv, SizeKnown, LoopInv
<1>3. QspiTypeOK
  BY DEF CopyInv
<1>. DEFINE q == GetQspiAddr
<1>4. CASE board.mode = "SINGLE"
  <2>1. q.cs = {0} /\ q.addr = SrcAddress /\ Stride = 1
    BY <1>3, <1>4, AddressFacts DEF Stride
  <2>2. {0} # {1}
    OBVIOUS
  <2>. HIDE DEF q
  <2>3. q.addr \in Nat /\ q.addr < board.chip
    BY <1>1, <1>2, <1>4, <2>1
  <2>4. q.addr * Stride = SrcAddress /\ board.chip * Stride = board.chip
    BY <1>1, <2>1
  <2>5. SrcAddress + RemainingBytes <= board.chip
    BY <1>2, <1>4
  <2>. QED
    BY <1>1, <1>4, <2>1, <2>2, <2>3, <2>4, <2>5 DEF q
<1>5. CASE board.mode = "STACKED"
  <2>1. /\ Stride = 1
        /\ \/ q.cs = {1} /\ q.addr = SrcAddress - board.chip /\ SrcAddress >= board.chip
           \/ q.cs = {0} /\ q.addr = SrcAddress /\ ~(SrcAddress >= board.chip)
    BY <1>3, <1>5, AddressFacts DEF Stride
  <2>2. {0} # {1}
    OBVIOUS
  <2>. HIDE DEF q
  <2>3. q.addr \in Nat /\ q.addr < board.chip
    BY <1>1, <1>2, <1>5, <2>1
  <2>4. q.addr * Stride = q.addr
    BY <2>1, <2>3
  <2>5. q.addr * Stride + (IF q.cs = {1} THEN board.chip ELSE 0) = SrcAddress
    <3>1. CASE q.cs = {1}
      BY <1>1, <2>1, <2>2, <2>4, <3>1
    <3>2. CASE q.cs # {1}
      BY <1>1, <2>1, <2>2, <2>4, <3>2
    <3>. QED
      BY <3>1, <3>2
  <2>. QED
    BY <1>5, <2>3, <2>5 DEF q
<1>6. CASE board.mode = "PARALLEL"
  <2>1. q.cs = Chips /\ q.addr = SrcAddress \div 2 /\ Stride = 2
    BY <1>3, <1>6, AddressFacts DEF Stride
  <2>2. Chips # {1}
    BY DEF Chips
  <2>3. (SrcAddress % 2) = 0
    BY <1>6 DEF CopyInv, EvenInv
  <2>4. SrcAddress = 2 * (SrcAddress \div 2) /\ SrcAddress \div 2 \in Nat
    BY <1>1, <2>3
  <2>. HIDE DEF q
  <2>5. q.addr \in Nat /\ q.addr < board.chip
    BY <1>1, <1>2, <1>6, <2>1, <2>4
  <2>6. q.addr * Stride = SrcAddress /\ board.chip * Stride = 2 * board.chip
    BY <1>1, <2>1, <2>4
  <2>7. SrcAddress + RemainingBytes <= 2 * board.chip
    BY <1>2, <1>6
  <2>. QED
    BY <1>1, <1>6, <2>1, <2>2, <2>5, <2>6, <2>7 DEF q
<1>. QED
  BY <1>1, <1>4, <1>5, <1>6 DEF Mode

(***************************************************************************)
(* The chips stand at the bank of the address, so a read begins at it.     *)
(***************************************************************************)
LEMMA BankFacts ==
  ASSUME CopyInv, pc = "COPY", RemainingBytes > 0,
         NEW b \in BanksAfter(GetQspiAddr), BankVerified(GetQspiAddr, b),
         NEW c \in GetQspiAddr.cs
  PROVE  ChipAddress(GetQspiAddr, b, c) = GetQspiAddr.addr
<1>. DEFINE q == GetQspiAddr
<1>1. /\ QspiTypeOK /\ q.addr \in Nat /\ q.cs \subseteq Chips /\ board.mode \in Mode
      /\ board.chip \in Nat \ {0} /\ BANKSIZE \in Nat \ {0}
      /\ QspiFlashSize = IF board.mode = "SINGLE" THEN board.chip ELSE 2 * board.chip
  BY AddressFacts, BoardFacts, QspiSizes DEF CopyInv, SizeKnown, QspiTypeOK, Chips
<1>2. CASE board.wide \/ board.chip <= BANKSIZE
  BY <1>2 DEF ChipAddress
<1>3. CASE ~board.wide /\ board.chip > BANKSIZE
  <2>1. SelectsBank
    <3>1. CASE board.mode = "PARALLEL"
      <4>1. Stride = 2
        BY <3>1 DEF Stride
      <4>2. BANKSIZE * Stride = 2 * BANKSIZE
        BY <4>1, <1>1
      <4>. QED
        BY <1>1, <1>3, <3>1, <4>2 DEF SelectsBank
    <3>2. CASE board.mode # "PARALLEL"
      <4>1. Stride = 1
        BY <3>2 DEF Stride
      <4>2. BANKSIZE * Stride = BANKSIZE
        BY <4>1, <1>1
      <4>. QED
        BY <1>1, <1>3, <3>2, <4>2 DEF SelectsBank
    <3>. QED
      BY <3>1, <3>2
  <2>2. /\ board.make \in {"MICRON", "MACRONIX", "SPANSION"}
        /\ "lost" \in board.faults => board.make = "SPANSION"
    BY <1>3 DEF CopyInv, Supported
  <2>3. b[c] = BankSel(q)
    <3>1. CASE board.make = "SPANSION"
      BY <2>1, <3>1 DEF BankVerified
    <3>2. CASE board.make # "SPANSION"
      <4>1. "lost" \notin board.faults
        BY <2>2, <3>2
      <4>2. b = [x \in Chips |-> IF x \in q.cs THEN BankSel(q) ELSE bank[x]]
        BY <2>1, <2>2, <4>1 DEF BanksAfter
      <4>. QED
        BY <1>1, <4>2
    <3>. QED
      BY <3>1, <3>2
  <2>4. q.addr = BANKSIZE * (q.addr \div BANKSIZE) + (q.addr % BANKSIZE)
    BY <1>1, DivMod
  <2>5. ChipAddress(q, b, c) = (q.addr \div BANKSIZE) * BANKSIZE + (q.addr % BANKSIZE)
    <3>1. ~(board.wide \/ board.chip <= BANKSIZE)
      BY <1>1, <1>3
    <3>. QED
      BY <2>3, <3>1 DEF ChipAddress, BankSel
  <2>6. (q.addr \div BANKSIZE) * BANKSIZE = BANKSIZE * (q.addr \div BANKSIZE)
    <3>1. q.addr \div BANKSIZE \in Nat
      BY <1>1, DivMod
    <3>. QED
      BY <1>1, <3>1
  <2>. QED
    BY <2>4, <2>5, <2>6
<1>. QED
  BY <1>1, <1>2, <1>3

(***************************************************************************)
(* A transfer ends before the border of the bank, the die and the chip it  *)
(* begins in.                                                              *)
(***************************************************************************)
LEMMA WindowFacts ==
  ASSUME CopyInv, pc = "COPY", RemainingBytes > 0,
         NEW k \in Nat, k < TransferBytes(GetQspiAddr)
  PROVE  /\ InOneWindow(GetQspiAddr, k)
         /\ GetQspiAddr.addr * Stride + k < board.chip * Stride
<1>. DEFINE q == GetQspiAddr
            t == TransferBytes(q)
<1>1. /\ QspiTypeOK /\ board.mode \in Mode /\ board.chip \in Nat \ {0}
      /\ board.wide \in BOOLEAN /\ SrcAddress \in Nat /\ RemainingBytes \in Nat
      /\ BANKSIZE \in Nat \ {0} /\ BANKSIZE_64MB \in Nat \ {0}
  BY BoardFacts, QspiSizes DEF CopyInv, QspiTypeOK
<1>2. /\ q.addr \in Nat /\ q.addr < board.chip /\ Stride \in {1, 2}
      /\ q.addr * Stride + (IF q.cs = {1} THEN board.chip ELSE 0) = SrcAddress
      /\ board.mode # "STACKED" =>
           q.cs # {1} /\ SrcAddress + RemainingBytes <= board.chip * Stride
  BY ChipFacts, StrideFacts
<1>3. /\ t \in 1 .. RemainingBytes
      /\ CutsAtBank => ((q.addr * Stride) % BankSize) + t <= BankSize
  <2>1. /\ t \in 1 .. Wanted
        /\ CutsAtBank => ((q.addr * Stride) % BankSize) + t <= BankSize
    BY <1>1, <1>2, CutLength, Zenon
  <2>2. Wanted \in 1 .. RemainingBytes
    BY <1>1, WantedFacts
  <2>. QED
    BY <1>1, <2>1, <2>2
<1>. HIDE DEF q, t
<1>4. board.mode # "STACKED" => q.addr * Stride + k < board.chip * Stride
  <2>. SUFFICES ASSUME board.mode # "STACKED"
                PROVE  q.addr * Stride + k < board.chip * Stride
    OBVIOUS
  <2>1. q.addr * Stride \in Nat /\ board.chip * Stride \in Nat
    BY <1>1, <1>2
  <2>2. q.addr * Stride = SrcAddress
    BY <1>2, <2>1
  <2>3. k < t
    BY DEF q, t
  <2>. QED
    BY <1>1, <1>2, <1>3, <2>1, <2>2, <2>3
<1>5. CASE CutsAtBank
  <2>1. Window = BankSizeOne /\ Window \in Nat \ {0}
    BY <1>1, <1>5 DEF Window, BankSizeOne, CutsAtBank
  <2>2. (q.addr % Window) * Stride + t <= Window * Stride
    BY <1>2, <1>3, <1>5, <2>1, ScaleStride DEF BankSize
  <2>3. (q.addr % Window) * Stride \in Nat /\ Window * Stride \in Nat
    BY <1>2, <2>1, DivMod
  <2>4. InOneWindow(q, k)
    <3>1. k < t
      BY DEF q, t
    <3>. QED
      BY <1>3, <2>2, <2>3, <3>1 DEF InOneWindow
  <2>5. board.mode = "STACKED" => q.addr * Stride + k < board.chip * Stride
    <3>. SUFFICES ASSUME board.mode = "STACKED"
                  PROVE  q.addr * Stride + k < board.chip * Stride
      OBVIOUS
    <3>1. Stride = 1
      BY DEF Stride
    <3>2. (board.chip % Window) = 0
      <4>1. CASE board.wide
        <5>1. board.chip = FLASH_SIZE_2G
          BY <4>1 DEF CopyInv, Supported
        <5>2. Window = BANKSIZE_64MB
          BY <2>1, <4>1 DEF BankSizeOne
        <5>. QED
          BY <5>1, <5>2, QspiSizes
      <4>2. CASE ~board.wide
        <5>1. /\ board.chip >= BANKSIZE
              /\ board.chip > BANKSIZE => (board.chip % BANKSIZE) = 0
          BY <4>2 DEF CopyInv, Supported
        <5>2. Window = BANKSIZE
          BY <4>2 DEF Window
        <5>3. (BANKSIZE % BANKSIZE) = 0
          BY <1>1
        <5>. QED
          BY <1>1, <5>1, <5>2, <5>3
      <4>. QED
        BY <4>1, <4>2
    <3>3. (q.addr % Window) \in Nat /\ (q.addr % Window) + t <= Window
      <4>1. (q.addr % Window) \in Nat
        BY <1>2, <2>1, DivMod
      <4>2. (q.addr % Window) * Stride = (q.addr % Window) /\ Window * Stride = Window
        BY <2>1, <3>1, <4>1
      <4>. QED
        BY <2>2, <4>1, <4>2
    <3>4. q.addr + t <= board.chip
      <4>1. t \in Nat
        BY <1>3
      <4>. QED
        BY <1>1, <1>2, <2>1, <3>2, <3>3, <4>1, BorderFacts
    <3>5. k < t /\ q.addr * Stride = q.addr /\ board.chip * Stride = board.chip
      BY <1>1, <1>2, <3>1 DEF q, t
    <3>. QED
      BY <1>1, <1>2, <1>3, <3>4, <3>5
  <2>. QED
    BY <1>4, <2>4, <2>5 DEF q
<1>6. CASE ~CutsAtBank
  <2>1. board.wide /\ ~MultiDie
    BY <1>6 DEF CutsAtBank
  <2>2. board.mode # "STACKED"
    BY <2>1 DEF CopyInv, Supported, MultiDie
  <2>3. Window = board.chip
    BY <2>1 DEF Window
  <2>4. (q.addr % board.chip) = q.addr
    BY <1>1, <1>2
  <2>. QED
    BY <1>4, <2>2, <2>3, <2>4 DEF InOneWindow, q
<1>. QED
  BY <1>5, <1>6

(***************************************************************************)
(* What a turn of the loop reads are the bytes it wants.                   *)
(***************************************************************************)
LEMMA ReadsRight ==
  ASSUME CopyInv, pc = "COPY", RemainingBytes > 0,
         NEW b \in BanksAfter(GetQspiAddr), BankVerified(GetQspiAddr, b),
         NEW k \in Nat, k < TransferBytes(GetQspiAddr)
  PROVE  FlashData(GetQspiAddr, b, k) = SrcAddress + k
<1>. DEFINE q == GetQspiAddr
            d == CHOOSE c \in q.cs : TRUE
            a == ChipAddress(q, b, d)
<1>1. /\ QspiTypeOK /\ q.addr \in Nat /\ q.cs \in {{0}, {1}, Chips} /\ Stride \in {1, 2}
      /\ board.chip \in Nat \ {0} /\ board.mode \in Mode /\ SrcAddress \in Nat
      /\ q.addr * Stride + (IF q.cs = {1} THEN board.chip ELSE 0) = SrcAddress
  BY ChipFacts, AddressFacts, StrideFacts, BoardFacts DEF CopyInv, QspiTypeOK
<1>2. \A c \in q.cs : ChipAddress(q, b, c) = q.addr
  BY BankFacts
<1>3. d \in q.cs
  <2>1. q.cs # {}
    BY <1>1 DEF Chips
  <2>. QED
    BY <2>1
<1>4. a = q.addr
  BY <1>2, <1>3
<1>5. NeedsFourByteMode /\ board.quad => q.cs \subseteq fourByte
  <2>1. CASE board.mode = "SINGLE"
    <3>1. q.cs = {0}
      BY <1>1, <2>1, AddressFacts
    <3>. QED
      BY <2>1, <3>1 DEF CopyInv, FourByteInv
  <2>2. CASE board.mode # "SINGLE"
    BY <1>1, <2>2 DEF CopyInv, FourByteInv, Chips
  <2>. QED
    BY <2>1, <2>2
<1>6. ReadsAt(q, b, a)
  BY <1>2, <1>4, <1>5 DEF ReadsAt
<1>7. InOneWindow(q, k) /\ q.addr * Stride + k < board.chip * Stride
  BY WindowFacts
<1>8. FlashData(q, b, k) =
        IF ReadsAt(q, b, a) /\ InOneWindow(q, k) /\ a * Stride + k < board.chip * Stride
        THEN a * Stride + k + (IF q.cs = {1} THEN board.chip ELSE 0)
        ELSE Junk
  BY DEF FlashData
<1>9. q.addr * Stride \in Nat
  BY <1>1
<1>. HIDE DEF q, a, d
<1>10. FlashData(q, b, k) = q.addr * Stride + k + (IF q.cs = {1} THEN board.chip ELSE 0)
  BY <1>4, <1>6, <1>7, <1>8
<1>11. FlashData(q, b, k) = SrcAddress + k
  <2>1. CASE q.cs = {1}
    BY <1>1, <1>9, <1>10, <2>1
  <2>2. CASE q.cs # {1}
    BY <1>1, <1>9, <1>10, <2>2
  <2>. QED
    BY <2>1, <2>2
<1>. QED
  BY <1>11 DEF q

-----------------------------------------------------------------------------
\* A remainder of even numbers is even.
LEMMA EvenMod ==
  ASSUME NEW x \in Nat, NEW m \in Nat \ {0}, (x % 2) = 0, (m % 2) = 0
  PROVE  ((x % m) % 2) = 0
<1>1. PICK a \in Nat : x = 2 * a
  BY x = 2 * (x \div 2)
<1>2. PICK h \in Nat \ {0} : m = 2 * h
  BY m = 2 * (m \div 2)
<1>3. (x % m) = 2 * (a % h)
  BY <1>1, <1>2, ScaleMod
<1>4. (a % h) \in Nat
  BY DivMod
<1>. QED
  BY <1>3, <1>4

(***************************************************************************)
(* In parallel flashes a transfer has an even length.                      *)
(***************************************************************************)
LEMMA TransferEven ==
  ASSUME CopyInv, pc = "COPY", RemainingBytes > 0, board.mode = "PARALLEL"
  PROVE  (TransferBytes(GetQspiAddr) % 2) = 0
<1>. DEFINE q == GetQspiAddr
            o == q.addr * Stride
<1>1. /\ QspiTypeOK /\ (RemainingBytes % 2) = 0 /\ (UnalignedBytes % 2) = 0
      /\ RemainingBytes \in Nat /\ UnalignedBytes \in 0 .. (SIXTY_FOUR_BYTE - 1)
      /\ SIXTY_FOUR_BYTE \in Nat /\ DMA_DATA_TRAN_SIZE \in Nat
      /\ (SIXTY_FOUR_BYTE % 2) = 0 /\ (DMA_DATA_TRAN_SIZE % 2) = 0
  BY QspiSizes DEF CopyInv, EvenInv, QspiTypeOK
<1>2. (Wanted % 2) = 0
  <2>1. (AtMostDma % 2) = 0 /\ AtMostDma \in Nat
    BY <1>1 DEF AtMostDma
  <2>2. ((SIXTY_FOUR_BYTE - UnalignedBytes) % 2) = 0
    BY <1>1
  <2>. QED
    BY <2>1, <2>2 DEF Wanted, ToAlignment
<1>3. Stride = 2 /\ BankSizeOne \in Nat \ {0} /\ BankSize = BankSizeOne * Stride
      /\ q.addr \in Nat
  BY <1>1, StrideFacts, AddressFacts DEF Stride
<1>4. (o % BankSize) = (q.addr % BankSizeOne) * 2
  BY <1>3, ScaleStride
<1>5. (q.addr % BankSizeOne) \in Nat
  BY <1>3, DivMod
<1>6. o = 2 * q.addr /\ BankSize = 2 * BankSizeOne
  BY <1>3
<1>7. \/ TransferBytes(q) = Wanted
      \/ TransferBytes(q) = o - (o % BankSize) + BankSize - o
  BY DEF TransferBytes, MaskBank
<1>. HIDE DEF q, o
<1>8. o - (o % BankSize) + BankSize - o = 2 * (BankSizeOne - (q.addr % BankSizeOne))
  BY <1>3, <1>4, <1>5, <1>6
<1>9. ((2 * (BankSizeOne - (q.addr % BankSizeOne))) % 2) = 0
  BY <1>3, <1>5
<1>10. (TransferBytes(q) % 2) = 0
  BY <1>2, <1>7, <1>8, <1>9
<1>. QED
  BY <1>10 DEF q

(***************************************************************************)
(* What a turn of the loop writes lies in what is left to copy.            *)
(***************************************************************************)
LEMMA WrittenFacts ==
  ASSUME QspiTypeOK, RemainingBytes > 0
  PROVE  /\ TransferBytes(GetQspiAddr) \in 1 .. RemainingBytes
         /\ Written(GetQspiAddr) \in TransferBytes(GetQspiAddr) .. RemainingBytes
<1>1. GetQspiAddr.addr \in Nat
  BY AddressFacts
<1>2. TransferBytes(GetQspiAddr) \in 1 .. Wanted
  BY <1>1, CutLength, Zenon
<1>3. Wanted \in 1 .. RemainingBytes /\ RemainingBytes \in Nat
  BY WantedFacts DEF QspiTypeOK
<1>. QED
  BY <1>2, <1>3 DEF Written

(***************************************************************************)
(* The disjuncts of a turn of the loop.                                    *)
(***************************************************************************)
Good(q, b) ==
  /\ BankVerified(q, b)
  /\ mem' = MemAfter(q, b)
  /\ UnalignedBytes' = 0
  /\ RemainingBytes' = RemainingBytes - TransferBytes(q)
  /\ DestAddress' = DestAddress + TransferBytes(q)
  /\ SrcAddress' = SrcAddress + TransferBytes(q)
  /\ pc' = pc
Bad(q, b) ==
  /\ pc' = "ERROR"
  /\ mem' \in {mem, MemAfterFailure(q)}
  /\ board.faults # {}

\* A turn of the loop is a good one, or one that a fault of the device ends.
LEMMA TransferSplits ==
  ASSUME QspiTypeOK, Transfer
  PROVE  /\ pc = "COPY" /\ RemainingBytes > 0
         /\ UNCHANGED <<board, QspiFlashSize, fourByte, call>>
         /\ \E b \in BanksAfter(GetQspiAddr) :
              Good(GetQspiAddr, b) \/ Bad(GetQspiAddr, b)
<1>1. PICK b \in BanksAfter(GetQspiAddr) :
        \/ Good(GetQspiAddr, b)
        \/ /\ ~BankVerified(GetQspiAddr, b)
           /\ pc' = "ERROR" /\ mem' = mem
        \/ /\ Fails
           /\ pc' = "ERROR" /\ mem' \in {mem, MemAfterFailure(GetQspiAddr)}
  BY Zenon DEF Transfer, Good
<1>2. ASSUME ~BankVerified(GetQspiAddr, b)
      PROVE  "lost" \in board.faults
  <2>1. SelectsBank /\ board.make = "SPANSION"
    BY <1>2 DEF BankVerified
  <2>2. PICK c \in GetQspiAddr.cs : b[c] # BankSel(GetQspiAddr)
    BY <1>2 DEF BankVerified
  <2>3. c \in Chips
    BY AddressFacts DEF Chips
  <2>4. b # [x \in Chips |-> IF x \in GetQspiAddr.cs THEN BankSel(GetQspiAddr) ELSE bank[x]]
    BY <2>2, <2>3
  <2>. QED
    BY <2>1, <2>4 DEF BanksAfter
<1>3. Good(GetQspiAddr, b) \/ Bad(GetQspiAddr, b)
  BY <1>1, <1>2 DEF Bad, Fails
<1>. QED
  BY <1>3 DEF Transfer

(***************************************************************************)
(* The loop invariant holds after a call is accepted ...                   *)
(***************************************************************************)
LEMMA CopyKeepsInv ==
  ASSUME CopyInv, NEW x \in Calls, Copy(x.src, x.dest, x.len)
  PROVE  SizeKnown' /\ LoopInv' /\ EvenInv' /\ FourByteInv' /\ CopiedInv'
<1>1. /\ x.src \in Nat /\ x.dest \in Nat /\ x.len \in Nat
      /\ (x.src % 2) = 0 /\ (x.dest % 2) = 0 /\ (x.len % 2) = 0
  BY CallsAreWords DEF Word
<1>2. /\ pc \in {"IDLE", "OK", "ERROR"}
      /\ UNCHANGED <<board, QspiFlashSize, bank, fourByte>>
      /\ call' = [src |-> x.src, dest |-> x.dest, len |-> x.len]
      /\ SrcAddress' = x.src /\ DestAddress' = x.dest /\ RemainingBytes' = x.len
      /\ UnalignedBytes' = (x.dest % SIXTY_FOUR_BYTE)
      /\ pc' = IF x.src + x.len > QspiFlashSize THEN "ERROR" ELSE "COPY"
  BY DEF Copy
<1>3. SizeKnown'
  BY <1>2 DEF CopyInv, SizeKnown
<1>4. LoopInv'
  <2>1. QspiFlashSize \in Nat
    BY DEF CopyInv, QspiTypeOK
  <2>. QED
    BY <1>1, <1>2, <2>1 DEF LoopInv
<1>5. EvenInv'
  <2>1. ((x.dest % SIXTY_FOUR_BYTE) % 2) = 0
    BY <1>1, QspiSizes, EvenMod
  <2>. QED
    BY <1>1, <1>2, <2>1 DEF EvenInv
<1>6. FourByteInv'
  BY <1>2 DEF CopyInv, FourByteInv, NeedsFourByteMode
<1>7. CopiedInv'
  <2>1. \A c \in Cells : ~(x.dest <= c /\ c < x.dest)
    BY <1>1, QspiSizes
  <2>. QED
    BY <1>2, <2>1 DEF CopiedInv
<1>. QED
  BY <1>3, <1>4, <1>5, <1>6, <1>7

(***************************************************************************)
(* ... and after each turn.                                                *)
(***************************************************************************)
LEMMA TransferKeepsInv ==
  ASSUME CopyInv, Transfer
  PROVE  SizeKnown' /\ LoopInv' /\ EvenInv' /\ FourByteInv' /\ CopiedInv'
<1>. DEFINE q == GetQspiAddr
            t == TransferBytes(q)
<1>1. QspiTypeOK
  BY DEF CopyInv
<1>2. /\ pc = "COPY" /\ RemainingBytes > 0
      /\ UNCHANGED <<board, QspiFlashSize, fourByte, call>>
  BY <1>1, TransferSplits
<1>3. PICK b \in BanksAfter(q) : Good(q, b) \/ Bad(q, b)
  BY <1>1, TransferSplits
<1>4. SizeKnown' /\ FourByteInv'
  <2>1. pc' # "CLOSED"
    BY <1>2, <1>3 DEF Good, Bad
  <2>. QED
    BY <1>2, <2>1 DEF CopyInv, SizeKnown, FourByteInv, NeedsFourByteMode
<1>5. CASE Bad(q, b)
  BY <1>4, <1>5 DEF Bad, LoopInv, EvenInv, CopiedInv
<1>6. CASE Good(q, b)
  <2>1. /\ t \in 1 .. RemainingBytes
        /\ Written(q) \in t .. RemainingBytes
    BY <1>1, <1>2, WrittenFacts
  <2>2. /\ RemainingBytes \in Nat /\ SrcAddress \in Nat /\ DestAddress \in Nat
        /\ call.src \in Nat /\ call.dest \in Nat /\ call.len \in Nat
        /\ RemainingBytes <= call.len /\ QspiFlashSize \in Nat
    BY <1>1 DEF QspiTypeOK
  <2>3. /\ call.src + call.len <= QspiFlashSize
        /\ SrcAddress + RemainingBytes = call.src + call.len
        /\ DestAddress + RemainingBytes = call.dest + call.len
    BY <1>2 DEF CopyInv, LoopInv
  <2>4. /\ mem' = MemAfter(q, b) /\ UnalignedBytes' = 0
        /\ RemainingBytes' = RemainingBytes - t
        /\ DestAddress' = DestAddress + t
        /\ SrcAddress' = SrcAddress + t
        /\ BankVerified(q, b)
    BY <1>6 DEF Good
  <2>5. board.mode = "PARALLEL" => (t % 2) = 0
    BY <1>2, TransferEven
  <2>6. \A k \in Nat : k < t => FlashData(q, b, k) = SrcAddress + k
    BY <1>2, <2>4, ReadsRight
  <2>. HIDE DEF t
  <2>7. LoopInv'
    BY <1>2, <2>1, <2>2, <2>3, <2>4 DEF LoopInv
  <2>8. EvenInv'
    <3>. SUFFICES ASSUME board.mode = "PARALLEL"
                  PROVE  ((SrcAddress + t) % 2) = 0 /\ ((RemainingBytes - t) % 2) = 0
      BY <1>2, <2>4 DEF EvenInv
    <3>1. (SrcAddress % 2) = 0 /\ (RemainingBytes % 2) = 0 /\ (t % 2) = 0 /\ t \in Nat
      BY <1>2, <2>1, <2>2, <2>5 DEF CopyInv, EvenInv
    <3>. QED
      BY ONLY <2>2, <3>1
  <2>9. CopiedInv'
    <3>. SUFFICES ASSUME NEW c \in Cells, call.dest <= c, c < DestAddress + t
                  PROVE  mem'[c] = call.src + (c - call.dest)
      BY <1>2, <2>4 DEF CopiedInv
    <3>1. c \in Nat
      BY QspiSizes
    <3>2. CASE c < DestAddress
      <4>1. mem'[c] = mem[c]
        BY <2>4, <3>2 DEF MemAfter
      <4>. QED
        BY <1>2, <3>2, <4>1 DEF CopyInv, CopiedInv
    <3>3. CASE ~(c < DestAddress)
      <4>1. c - DestAddress \in Nat /\ c - DestAddress < t
        BY <2>1, <2>2, <3>1, <3>3
      <4>2. ~(c >= DestAddress + Written(q))
        BY <2>1, <2>2, <3>1, <4>1
      <4>3. mem'[c] = FlashData(q, b, c - DestAddress)
        BY <2>4, <3>3, <4>1, <4>2 DEF MemAfter, t
      <4>4. FlashData(q, b, c - DestAddress) = SrcAddress + (c - DestAddress)
        BY <2>6, <4>1
      <4>. QED
        BY <2>2, <2>3, <3>1, <4>3, <4>4
    <3>. QED
      BY <3>2, <3>3
  <2>. QED
    BY <1>4, <2>7, <2>8, <2>9
<1>. QED
  BY <1>3, <1>5, <1>6

(***************************************************************************)
(* Every step keeps the loop invariant.                                    *)
(***************************************************************************)
LEMMA NextKeepsInv == CopyInv /\ [Next]_vars => CopyInv'
<1>. SUFFICES ASSUME CopyInv, [Next]_vars
              PROVE  CopyInv'
  OBVIOUS
<1>1. QspiTypeOK'
  BY NextTypes DEF CopyInv
<1>2. board' = board
  BY DEF Next, QspiInit, Copy, Transfer, CopyEnds, vars
<1>3. Supported(board')
  BY <1>2 DEF CopyInv
<1>4. CASE QspiInit
  <2>1. pc' = "IDLE" /\ UNCHANGED board
    BY <1>4 DEF QspiInit
  <2>2. SizeKnown'
    BY <1>4 DEF QspiInit, SizeKnown
  <2>3. FourByteInv'
    <3>. SUFFICES ASSUME NeedsFourByteMode, board.quad
                  PROVE  IF board.mode = "SINGLE" THEN 0 \in fourByte'
                                                  ELSE Chips \subseteq fourByte'
      BY <2>1 DEF FourByteInv, NeedsFourByteMode
    <3>1. fourByte' \in MacronixEnable4B
      BY <1>4 DEF QspiInit
    <3>2. Fails => board.mode = "SINGLE"
      BY DEF CopyInv, Supported, NeedsFourByteMode, Fails
    <3>. QED
      BY <3>1, <3>2 DEF MacronixEnable4B
  <2>. QED
    BY <1>1, <1>3, <2>1, <2>2, <2>3 DEF CopyInv, LoopInv, EvenInv, CopiedInv
<1>5. ASSUME NEW x \in Calls, Copy(x.src, x.dest, x.len)
      PROVE  CopyInv'
  BY <1>1, <1>3, <1>5, CopyKeepsInv DEF CopyInv
<1>6. CASE Transfer
  BY <1>1, <1>3, <1>6, TransferKeepsInv DEF CopyInv
<1>7. CASE CopyEnds
  <2>1. pc' = "OK" /\ pc = "COPY" /\ UNCHANGED <<board, QspiFlashSize, fourByte>>
    BY <1>7 DEF CopyEnds
  <2>. QED
    BY <1>1, <1>3, <2>1
    DEF CopyInv, SizeKnown, LoopInv, EvenInv, CopiedInv, FourByteInv, NeedsFourByteMode
<1>8. CASE UNCHANGED vars
  BY <1>1, <1>3, <1>8
  DEF CopyInv, SizeKnown, LoopInv, EvenInv, CopiedInv, FourByteInv, NeedsFourByteMode,
      vars, loopVars
<1>. QED
  BY <1>4, <1>5, <1>6, <1>7, <1>8 DEF Next

-----------------------------------------------------------------------------
(***************************************************************************)
(* What is left to copy lies in what was asked for.                        *)
(***************************************************************************)
LEMMA LeftIsAsked ==
  ASSUME CopyInv, pc = "COPY", NEW n \in 0 .. RemainingBytes,
         NEW c \in Cells, c \notin DeviceCopy!Asked
  PROVE  c < DestAddress \/ c >= DestAddress + n
<1>1. /\ DestAddress + RemainingBytes = call.dest + call.len
      /\ RemainingBytes <= call.len
      /\ RemainingBytes \in Nat /\ DestAddress \in Nat
      /\ call.dest \in Nat /\ call.len \in Nat
  BY DEF CopyInv, LoopInv, QspiTypeOK
<1>2. c \in Nat
  BY QspiSizes
<1>. QED
  BY <1>1, <1>2 DEF DeviceCopy!Asked

(***************************************************************************)
(* A turn of the loop fills a part of what was asked for, or is refused by *)
(* a device that has a fault.                                              *)
(***************************************************************************)
LEMMA TransferPromised ==
  ASSUME CopyInv, Transfer
  PROVE  DeviceCopy!Fill \/ DeviceCopy!Refuse
<1>. DEFINE q == GetQspiAddr
<1>1. QspiTypeOK /\ mem \in [Cells -> Int]
  BY DEF CopyInv, QspiTypeOK
<1>2. /\ pc = "COPY" /\ RemainingBytes > 0
      /\ UNCHANGED <<board, QspiFlashSize, fourByte, call>>
  BY <1>1, TransferSplits
<1>3. PICK b \in BanksAfter(q) : Good(q, b) \/ Bad(q, b)
  BY <1>1, TransferSplits
<1>4. TransferBytes(q) \in 0 .. RemainingBytes /\ Written(q) \in 0 .. RemainingBytes
  BY <1>1, <1>2, WrittenFacts DEF QspiTypeOK
<1>5. \A c \in Cells : c \notin DeviceCopy!Asked =>
        /\ c < DestAddress \/ c >= DestAddress + TransferBytes(q)
        /\ c < DestAddress \/ c >= DestAddress + Written(q)
  BY <1>2, <1>4, LeftIsAsked
<1>. HIDE DEF q
<1>6. ASSUME mem' \in {mem, MemAfter(q, b), MemAfterFailure(q)}
      PROVE  mem' = [c \in Cells |-> IF c \in DeviceCopy!Asked THEN mem'[c] ELSE mem[c]]
  <2>1. CASE mem' = mem
    BY <1>1, <2>1
  <2>2. CASE mem' = MemAfter(q, b)
    BY <1>1, <1>5, <2>2 DEF MemAfter
  <2>3. CASE mem' = MemAfterFailure(q)
    BY <1>1, <1>5, <2>3 DEF MemAfterFailure
  <2>. QED
    BY <1>6, <2>1, <2>2, <2>3
<1>7. CASE Good(q, b)
  BY <1>2, <1>6, <1>7 DEF Good, DeviceCopy!Fill
<1>8. CASE Bad(q, b)
  BY <1>2, <1>6, <1>8 DEF Bad, DeviceCopy!Refuse
<1>. QED
  BY <1>3, <1>7, <1>8

(***************************************************************************)
(* When nothing is left to copy, everything is delivered.                  *)
(***************************************************************************)
LEMMA EndDelivers ==
  ASSUME CopyInv, CopyEnds
  PROVE  DeviceCopy!Succeed
<1>1. /\ pc = "COPY" /\ RemainingBytes = 0 /\ pc' = "OK"
      /\ UNCHANGED <<board, QspiFlashSize, call, mem>>
  BY DEF CopyEnds
<1>2. /\ DestAddress = call.dest + call.len
      /\ DestAddress \in Nat /\ call.dest \in Nat /\ call.len \in Nat
  BY <1>1 DEF CopyInv, LoopInv, QspiTypeOK
<1>3. DeviceCopy!Delivered
  BY <1>1, <1>2 DEF CopyInv, CopiedInv, DeviceCopy!Delivered, DeviceCopy!Asked
<1>. QED
  BY <1>1, <1>3 DEF DeviceCopy!Succeed

(***************************************************************************)
(* Every step is one of the promise, or changes nothing the promise is     *)
(* about.                                                                  *)
(***************************************************************************)
LEMMA CopyStepPromised ==
  CopyInv /\ [Next]_vars => [DeviceCopy!Next]_(DeviceCopy!vars)
<1>. SUFFICES ASSUME CopyInv, [Next]_vars
              PROVE  [DeviceCopy!Next]_(DeviceCopy!vars)
  OBVIOUS
<1>1. CASE QspiInit
  BY <1>1 DEF QspiInit, DeviceCopy!Next, DeviceCopy!Find
<1>2. ASSUME NEW x \in Calls, Copy(x.src, x.dest, x.len)
      PROVE  DeviceCopy!Ask
  <2>1. /\ pc \in {"IDLE", "OK", "ERROR"}
        /\ UNCHANGED <<board, QspiFlashSize>>
        /\ call' = [src |-> x.src, dest |-> x.dest, len |-> x.len]
        /\ mem' = [c \in Cells |-> Old]
        /\ pc' = IF x.src + x.len > QspiFlashSize THEN "ERROR" ELSE "COPY"
    BY <1>2 DEF Copy
  <2>. QED
    BY <2>1 DEF DeviceCopy!Ask
<1>3. CASE Transfer
  BY <1>3, TransferPromised DEF DeviceCopy!Next
<1>4. CASE CopyEnds
  BY <1>4, EndDelivers DEF DeviceCopy!Next
<1>5. CASE UNCHANGED vars
  BY <1>5 DEF vars, DeviceCopy!vars
<1>. QED
  BY <1>1, <1>2, <1>3, <1>4, <1>5 DEF Next, DeviceCopy!Next

(***************************************************************************)
(* On every board the driver can serve, of any sizes, makes and faults and *)
(* whatever banks were left selected, XFsbl_Qspi24Copy and                 *)
(* XFsbl_Qspi32Copy keep their promise: success means that exactly the     *)
(* bytes asked for are in place, nothing else is written, and only a       *)
(* device with a fault refuses a copy that lies in the flash.              *)
(***************************************************************************)
THEOREM CopiesKeepPromise ==
  ASSUME \A b \in Boards : Supported(b)
  PROVE  Spec => CopiesAsPromised
<1>1. Init => DeviceCopy!Init
  BY DEF Init, DeviceCopy!Init
<1>2. Init => CopyInv
  <2>. SUFFICES ASSUME Init
                PROVE  CopyInv
    OBVIOUS
  <2>1. board \in Boards /\ pc = "CLOSED"
    BY DEF Init
  <2>. QED
    BY <2>1, InitTypes DEF CopyInv, SizeKnown, LoopInv, EvenInv, FourByteInv, CopiedInv
<1>. QED
  BY <1>1, <1>2, NextKeepsInv, CopyStepPromised, PTL
  DEF Spec, CopiesAsPromised, DeviceCopy!Spec
=============================================================================
