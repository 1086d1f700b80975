------------------------------ MODULE QspiCopy ------------------------------
(***************************************************************************)
(* The QSPI boot device, xfsbl_qspi.c: one flash, two stacked ones (one    *)
(* behind the other) or two in parallel (every byte split between them),   *)
(* read with addresses of three bytes and a bank register, or of four      *)
(* bytes.  A copy is cut into transfers at the limit of the DMA, at the    *)
(* alignment of the destination and at the border of a bank or a die.      *)
(*                                                                         *)
(* Sizes are in units of two bytes; a unit of flash data is its address.   *)
(***************************************************************************)
EXTENDS Integers

CONSTANTS
  BANKSIZE,             \* what three address bytes reach in one chip
  BANKSIZE_64MB,        \* one die of a chip of several dies
  FLASH_SIZE_2G,        \* the chips that have several dies
  SIXTY_FOUR_BYTE,      \* alignment of a DMA destination
  DMA_DATA_TRAN_SIZE,   \* limit of a transfer
  Cells,                \* addresses of the memory copied to
  Boards,               \* the boards looked at
  Calls                 \* the copies asked for

Make == {"MICRON", "SPANSION", "WINBOND", "MACRONIX", "ISSI", "GIGADEVICE"}
Mode == {"SINGLE", "STACKED", "PARALLEL"}
Chips == {0, 1}

(***************************************************************************)
(* A board: how its flashes are connected, their make and the size of one, *)
(* four address bytes or three, a bus of four bits or less, and its        *)
(* faults: transfers may fail, a write of the bank register may get lost.  *)
(***************************************************************************)
Board ==
  [mode : Mode, make : Make, chip : Nat \ {0}, wide : BOOLEAN, quad : BOOLEAN,
   faults : SUBSET {"fail", "lost"}]

ASSUME QspiSizes ==
  /\ BANKSIZE \in Nat \ {0} /\ BANKSIZE_64MB \in Nat \ {0}
  /\ FLASH_SIZE_2G \in Nat \ {0}
  /\ FLASH_SIZE_2G > BANKSIZE_64MB /\ (FLASH_SIZE_2G % BANKSIZE_64MB) = 0
  /\ SIXTY_FOUR_BYTE \in Nat \ {0} /\ (SIXTY_FOUR_BYTE % 2) = 0
  /\ DMA_DATA_TRAN_SIZE \in Nat \ {0} /\ (DMA_DATA_TRAN_SIZE % 2) = 0
  /\ Cells \subseteq Nat /\ Boards \subseteq Board

(***************************************************************************)
(* Addresses and lengths are multiples of a word, and no call ends behind  *)
(* the last u32 address: the wrap of an address plus a length is left out. *)
(***************************************************************************)
Word == {n \in Nat : (n % 2) = 0}
ASSUME CallsAreWords == \A a \in Calls : a.src \in Word /\ a.dest \in Word /\ a.len \in Word

Old == -1
Junk == -2

VARIABLES
  board,           \* one of Boards
  pc,              \* "CLOSED", "IDLE", "COPY", "OK" or "ERROR"
  QspiFlashSize,
  bank,            \* bank register of each chip
  fourByte,        \* Macronix chips that expect addresses of four bytes
  call,            \* what was asked for
  SrcAddress, DestAddress, RemainingBytes, UnalignedBytes,
  mem              \* the memory copied to

loopVars == <<SrcAddress, DestAddress, RemainingBytes, UnalignedBytes>>
vars == <<board, pc, QspiFlashSize, bank, fourByte, call, loopVars, mem>>

MultiDie == board.make \in {"WINBOND", "MICRON"} /\ board.chip = FLASH_SIZE_2G
Stride == IF board.mode = "PARALLEL" THEN 2 ELSE 1
NeedsFourByteMode == board.wide /\ board.make = "MACRONIX"
Fails == "fail" \in board.faults
NoCall == [src |-> 0, dest |-> 0, len |-> 0]

-----------------------------------------------------------------------------
(***************************************************************************)
(* The registers of a chip keep over a reset what an earlier boot left.    *)
(***************************************************************************)
Init ==
  /\ board \in Boards
  /\ pc = "CLOSED" /\ QspiFlashSize = 0
  /\ bank \in [Chips -> 0 .. ((board.chip - 1) \div BANKSIZE)]
  /\ fourByte \in IF NeedsFourByteMode THEN SUBSET Chips ELSE {{}}
  /\ call = NoCall
  /\ SrcAddress = 0 /\ DestAddress = 0 /\ RemainingBytes = 0 /\ UnalignedBytes = 0
  /\ mem = [c \in Cells |-> Old]

(***************************************************************************)
(* XFsbl_Qspi24Init and XFsbl_Qspi32Init: the ID of the first chip gives   *)
(* the size.  Two chips of Macronix are told to expect four address bytes; *)
(* the status of the second one, or of both in parallel, is not looked at. *)
(***************************************************************************)
MacronixEnable4B ==
  IF ~NeedsFourByteMode THEN {fourByte}
  ELSE LET done == fourByte \cup (IF board.mode = "SINGLE" THEN {0} ELSE Chips) IN
       {done} \cup (IF ~Fails THEN {}
                    ELSE IF board.mode = "STACKED" THEN {fourByte \cup {0}}
                    ELSE IF board.mode = "PARALLEL" THEN {fourByte} ELSE {})

QspiInit ==
  /\ pc = "CLOSED"
  /\ pc' = "IDLE"
  /\ QspiFlashSize' = IF board.mode = "SINGLE" THEN board.chip ELSE 2 * board.chip
  /\ fourByte' \in MacronixEnable4B
  /\ UNCHANGED <<board, bank, call, loopVars, mem>>

(***************************************************************************)
(* A call of XFsbl_Qspi24Copy or XFsbl_Qspi32Copy.  What lies at its       *)
(* destination is Old.                                                     *)
(***************************************************************************)
Copy(s, d, n) ==
  /\ pc \in {"IDLE", "OK", "ERROR"}
  /\ call' = [src |-> s, dest |-> d, len |-> n]
  /\ mem' = [c \in Cells |-> Old]
  /\ SrcAddress' = s /\ DestAddress' = d /\ RemainingBytes' = n
  /\ UnalignedBytes' = (d % SIXTY_FOUR_BYTE)
  /\ pc' = IF s + n > QspiFlashSize THEN "ERROR" ELSE "COPY"
  /\ UNCHANGED <<board, QspiFlashSize, bank, fourByte>>

-----------------------------------------------------------------------------
(***************************************************************************)
(* XFsbl_GetQspiAddr: the chips that are selected and the address in each. *)
(***************************************************************************)
GetQspiAddr ==
  CASE board.mode = "SINGLE" -> [cs |-> {0}, addr |-> SrcAddress]
    [] board.mode = "STACKED" ->
         IF SrcAddress >= board.chip
         THEN [cs |-> {1}, addr |-> SrcAddress - board.chip]
         ELSE [cs |-> {0}, addr |-> SrcAddress]
    [] board.mode = "PARALLEL" -> [cs |-> Chips, addr |-> SrcAddress \div 2]

(***************************************************************************)
(* SendBankSelect, and when it is called at all: what the registers may    *)
(* hold after it, and whether it reports success.  Only Spansion's is read *)
(* back and compared; the makes that are not listed get no command.        *)
(***************************************************************************)
SelectsBank ==
  ~board.wide /\ QspiFlashSize > BANKSIZE * Stride
BankSel(q) == q.addr \div BANKSIZE
BanksAfter(q) ==
  IF SelectsBank /\ board.make \in {"MICRON", "MACRONIX", "SPANSION"}
  THEN {[c \in Chips |-> IF c \in q.cs THEN BankSel(q) ELSE bank[c]]}
         \cup (IF "lost" \in board.faults THEN {bank} ELSE {})
  ELSE {bank}
BankVerified(q, b) ==
  SelectsBank /\ board.make = "SPANSION" => \A c \in q.cs : b[c] = BankSel(q)

(***************************************************************************)
(* The length of a transfer: up to the limit of the DMA, for an unaligned  *)
(* destination up to the next aligned address, then up to the border of    *)
(* the bank or die.  Three mutants ignore what is left to copy, do not     *)
(* look at the border, and take what lies before it for what lies behind.  *)
(***************************************************************************)
AlwaysDma == DMA_DATA_TRAN_SIZE
AtMostDma ==
  IF RemainingBytes > DMA_DATA_TRAN_SIZE THEN DMA_DATA_TRAN_SIZE ELSE RemainingBytes
ToAlignment ==
  IF SIXTY_FOUR_BYTE - UnalignedBytes > AtMostDma THEN AtMostDma
  ELSE SIXTY_FOUR_BYTE - UnalignedBytes
Wanted == IF UnalignedBytes # 0 THEN ToAlignment ELSE AtMostDma
BankSizeOne == IF board.wide THEN BANKSIZE_64MB ELSE BANKSIZE
BankSize == BankSizeOne * Stride
MaskBank(a) == a - (a % BankSize)
CutsAtBank == board.wide => MultiDie
TransferUncut(q) == Wanted
TransferToMask(q) ==
  LET OrigAddr == q.addr * Stride IN
  IF CutsAtBank /\ MaskBank(OrigAddr) # MaskBank(OrigAddr + Wanted)
  THEN OrigAddr - MaskBank(OrigAddr) ELSE Wanted
TransferBytes(q) ==
  LET OrigAddr == q.addr * Stride IN
  IF CutsAtBank /\ MaskBank(OrigAddr) # MaskBank(OrigAddr + Wanted)
  THEN MaskBank(OrigAddr) + BankSize - OrigAddr ELSE Wanted

(***************************************************************************)
(* What the k-th unit of a read is, given the bank registers: the flash    *)
(* reads on inside a bank or a die only, and chips that expect another     *)
(* number of address bytes or stand at different banks deliver junk.       *)
(***************************************************************************)
Window ==
  IF ~board.wide THEN BANKSIZE ELSE IF MultiDie THEN BANKSIZE_64MB ELSE board.chip
ChipAddress(q, b, c) ==
  IF board.wide \/ board.chip <= BANKSIZE THEN q.addr
  ELSE b[c] * BANKSIZE + (q.addr % BANKSIZE)
ReadsAt(q, b, a) ==
  /\ \A c \in q.cs : ChipAddress(q, b, c) = a
  /\ NeedsFourByteMode /\ board.quad => q.cs \subseteq fourByte
InOneWindow(q, k) ==
  (q.addr % Window) * Stride + k < Window * Stride
FlashData(q, b, k) ==
  LET a == ChipAddress(q, b, CHOOSE c \in q.cs : TRUE) IN
  IF ReadsAt(q, b, a) /\ InOneWindow(q, k) /\ a * Stride + k < board.chip * Stride
  THEN a * Stride + k + (IF q.cs = {1} THEN board.chip ELSE 0)
  ELSE Junk

(***************************************************************************)
(* One turn of the copy loop.  For an unaligned destination the read goes  *)
(* to a buffer: XFsbl_Qspi24Copy then copies as much as it wanted to read, *)
(* even if the border of a bank cut that short, XFsbl_Qspi32Copy as much   *)
(* as it read.                                                             *)
(***************************************************************************)
Written(q) ==
  IF UnalignedBytes # 0 /\ ~board.wide THEN Wanted ELSE TransferBytes(q)
MemAfter(q, b) ==
  [c \in Cells |->
     IF c < DestAddress \/ c >= DestAddress + Written(q) THEN mem[c]
     ELSE IF c - DestAddress < TransferBytes(q) THEN FlashData(q, b, c - DestAddress)
     ELSE Junk]
MemAfterFailure(q) ==
  IF UnalignedBytes # 0 THEN mem
  ELSE [c \in Cells |->
          IF c < DestAddress \/ c >= DestAddress + TransferBytes(q) THEN mem[c] ELSE Junk]

Transfer ==
  LET q == GetQspiAddr IN
  /\ pc = "COPY" /\ RemainingBytes > 0
  /\ \E b \in BanksAfter(q) :
       /\ bank' = b
       /\ \/ /\ BankVerified(q, b)
             /\ mem' = MemAfter(q, b)
             /\ UnalignedBytes' = 0
             /\ RemainingBytes' = RemainingBytes - TransferBytes(q)
             /\ DestAddress' = DestAddress + TransferBytes(q)
             /\ SrcAddress' = SrcAddress + TransferBytes(q)
             /\ UNCHANGED pc
          \/ /\ ~BankVerified(q, b)
             /\ pc' = "ERROR"
             /\ UNCHANGED <<mem, loopVars>>
          \/ /\ Fails
             /\ pc' = "ERROR"
             /\ mem' \in {mem, MemAfterFailure(q)}
             /\ UNCHANGED loopVars
  /\ UNCHANGED <<board, QspiFlashSize, fourByte, call>>

CopyEnds ==
  /\ pc = "COPY" /\ RemainingBytes = 0
  /\ pc' = "OK"
  /\ UNCHANGED <<board, QspiFlashSize, bank, fourByte, call, loopVars, mem>>

-----------------------------------------------------------------------------
(***************************************************************************)
(* Callers ask for any part of the flash, and a little more, at any place  *)
(* of the memory.                                                          *)
(***************************************************************************)
Next ==
  \/ QspiInit
  \/ \E a \in Calls : Copy(a.src, a.dest, a.len)
  \/ Transfer
  \/ CopyEnds

Spec == Init /\ [][Next]_vars
FairSpec == Spec /\ WF_vars(Transfer \/ CopyEnds)

-----------------------------------------------------------------------------
(***************************************************************************)
(* Boards the driver can serve.  With four address bytes nothing cuts a    *)
(* transfer at the border between two stacked chips of one die each, and a *)
(* Macronix chip may be left with three address bytes unnoticed.  With     *)
(* three, the makes without a bank command reach their first bank only,    *)
(* the loss of a command goes unnoticed but for Spansion, and two stacked  *)
(* chips smaller than a bank are not told apart.                           *)
(***************************************************************************)
Supported(b) ==
  IF b.wide
  THEN /\ b.mode = "STACKED" =>
            b.make \in {"WINBOND", "MICRON"} /\ b.chip = FLASH_SIZE_2G
       /\ b.make = "MACRONIX" /\ b.quad /\ "fail" \in b.faults => b.mode = "SINGLE"
  ELSE /\ b.chip > BANKSIZE =>
            /\ (b.chip % BANKSIZE) = 0
            /\ b.make \in {"MICRON", "MACRONIX", "SPANSION"}
            /\ "lost" \in b.faults => b.make = "SPANSION"
       /\ b.mode = "STACKED" => b.chip >= BANKSIZE

(***************************************************************************)
(* The variables keep their types; the loop stays inside what was asked    *)
(* for.                                                                    *)
(***************************************************************************)
QspiTypeOK ==
  /\ board \in Boards
  /\ pc \in {"CLOSED", "IDLE", "COPY", "OK", "ERROR"}
  /\ QspiFlashSize \in Nat
  /\ bank \in [Chips -> Nat] /\ fourByte \subseteq Chips
  /\ call \in [src : Nat, dest : Nat, len : Nat]
  /\ SrcAddress \in Nat /\ DestAddress \in Nat
  /\ RemainingBytes \in 0 .. call.len
  /\ UnalignedBytes \in 0 .. (SIXTY_FOUR_BYTE - 1)
  /\ mem \in [Cells -> Int]

(***************************************************************************)
(* Whatever bank an earlier boot left selected, wherever banks, dies,      *)
(* chips and alignment cut a copy, a copy that reports success has read    *)
(* exactly the bytes asked for and no copy writes anywhere else; only a    *)
(* device with a fault refuses one that lies in the flash                  *)
(* (XFsbl_Qspi24Copy, XFsbl_Qspi32Copy).                                   *)
(***************************************************************************)
DeviceCopy == INSTANCE FlashCopy WITH
  size <- QspiFlashSize,
  frail <- board.faults # {},
  result <- IF pc \in {"CLOSED", "IDLE"} THEN "NONE" ELSE IF pc = "COPY" THEN "BUSY" ELSE pc
CopiesAsPromised == DeviceCopy!Spec

(***************************************************************************)
(* The copy loop comes to its end: no cut makes a transfer of no bytes     *)
(* (XFsbl_Qspi24Copy, XFsbl_Qspi32Copy).                                   *)
(***************************************************************************)
CopiesReturn == pc = "COPY" ~> pc # "COPY"
=============================================================================
