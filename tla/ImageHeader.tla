---------------------------- MODULE ImageHeader ----------------------------
(***************************************************************************)
(* The boot image as the FSBL reads it (xfsbl_image_header.c): the image   *)
(* header table, the partition headers, and the checks that decide whether *)
(* a header may be acted upon.                                             *)
(*                                                                         *)
(* Addresses are abstracted to the windows that the code tells apart.  Two *)
(* different windows never overlap, so a partition placed in one leaves    *)
(* the others alone.  Lengths are counted in words.  What a checksum, a    *)
(* signature or a GCM tag would say about the payload is the field         *)
(* "intact": the payload in flash is the one the image tool wrote.         *)
(***************************************************************************)
EXTENDS Integers, Sequences, FiniteSets, Authentication

(***************************************************************************)
(* Destination CPU codes, the attribute bits 11:8.                         *)
(***************************************************************************)
CPU_NONE == 0
CPU_A53_0 == 1
CPU_A53_3 == 4
CPU_R5_0 == 5
CPU_R5_1 == 6
CPU_R5_L == 7
CPU_PMU == 8
A53Cpus == CPU_A53_0 .. CPU_A53_3
R5Cpus == {CPU_R5_0, CPU_R5_1, CPU_R5_L}

(***************************************************************************)
(* Destination device codes, the attribute bits 6:4.                       *)
(***************************************************************************)
DEVICE_PS == 1
DEVICE_PL == 2
DEVICE_PMU == 3

(***************************************************************************)
(* The CPU the FSBL runs on: this build is for an A53 in AArch64 state.    *)
(***************************************************************************)
ProcessorID == CPU_A53_0

(***************************************************************************)
(* Reset reasons, and the bounds of the image header table.                *)
(***************************************************************************)
SYSTEM_RESET == 0
PS_ONLY_RESET == 1
MASTER_ONLY_RESET == 2
XIH_MIN_PARTITIONS == 1
XIH_MAX_PARTITIONS == 32
XIH_IHT_PPD_SAME == 0
XIH_IHT_PPD_USB == 8
XIH_IHT_PPD_SATA == 11
XFSBL_MAX_ENTRIES_FOR_ATF == 8

(***************************************************************************)
(* Address windows.  "ZERO" is the address 0, where the tightly coupled    *)
(* memory of an R5 starts and, for an A53, the DDR; "ATCM" and "BTCM" are  *)
(* the rest of the two windows of an R5's own memory; "HIVEC" is the high  *)
(* vector address in the OCM.                                              *)
(***************************************************************************)
TcmWindow == {"ZERO", "ATCM", "BTCM"}
PsDdr == TcmWindow \cup {"DDR_A", "DDR_B", "DDR_C", "DDR_D"}
Ocm == {"OCM", "HIVEC"}
Address == PsDdr \cup Ocm \cup {"PMU_RAM", "QSPI", "DUMMY_PL", "TEMP", "HOLE"}

(***************************************************************************)
(* A partition header, with the attribute word already taken apart.        *)
(*   sum     the header's own checksum is right                            *)
(*   owner   0 when the partition belongs to the FSBL                      *)
(*   cksum   the checksum type: 0 none, 3 SHA3                             *)
(*   hivec   the vector location bit; block  the secure bitstream block    *)
(*           size, 0 when absent                                           *)
(*   cert    the partition's certificate; of no account without rsa        *)
(***************************************************************************)
PartitionHeader ==
  [sum : BOOLEAN, owner : 0 .. 3, cpu : 0 .. 15, dev : 0 .. 7,
   unenc : Nat, enc : Nat, total : Nat,
   rsa : BOOLEAN, aes : BOOLEAN, cksum : 0 .. 7,
   load : Address, exec : Address, aa32 : BOOLEAN, hivec : BOOLEAN,
   block : Nat, intact : BOOLEAN, cert : Certificate]

(***************************************************************************)
(* A boot image.                                                           *)
(*   rsa     the boot header asks for authentication of the image          *)
(*   sha2    the boot header asks for SHA2                                 *)
(*   ac      the header tables carry an authentication certificate, cert   *)
(*   signed  its SPK made the signatures of boot header and header tables  *)
(*   sum     the image header table's checksum is right                    *)
(*   ppd     the device the partitions are on;  n  the number of them      *)
(***************************************************************************)
Image ==
  [rsa : BOOLEAN, sha2 : BOOLEAN, ac : BOOLEAN, cert : Certificate,
   signed : BOOLEAN, sum : BOOLEAN, ppd : Nat, n : Nat,
   ph : [0 .. (XIH_MAX_PARTITIONS - 1) -> PartitionHeader]]

(***************************************************************************)
(* XFsbl_ValidateImageHeaderTable and the way XFsbl_ReadImageHeader uses   *)
(* its answer: a table that names another device ends the read with        *)
(* success and no partition header is read.                                *)
(***************************************************************************)
ValidateImageHeaderTable(im) ==
  IF ~im.sum \/ im.ppd > XIH_IHT_PPD_SATA THEN "ERROR"
  ELSE IF im.ppd # XIH_IHT_PPD_SAME THEN "SECONDARY"
  ELSE IF im.n <= XIH_MIN_PARTITIONS \/ im.n > XIH_MAX_PARTITIONS THEN "ERROR"
  ELSE "SUCCESS"

(***************************************************************************)
(* A header with no destination CPU is for the CPU the FSBL runs on.       *)
(***************************************************************************)
DestinationCpu(h) == IF h.cpu = CPU_NONE THEN ProcessorID ELSE h.cpu

(***************************************************************************)
(* XFsbl_CheckValidMemoryAddress.                                          *)
(***************************************************************************)
CheckValidMemoryAddress(a, cpu, dev) ==
  \/ cpu = CPU_PMU /\ a = "PMU_RAM"
  \/ cpu \in R5Cpus /\ a \in TcmWindow
  \/ a \in PsDdr \cup {"TEMP"}
  \/ a \in Ocm
  \/ dev = DEVICE_PL /\ a = "DUMMY_PL"

(***************************************************************************)
(* An execute-in-place partition has no data to copy: it must be neither   *)
(* signed nor encrypted and must run from the linear QSPI window.          *)
(***************************************************************************)
IsXip(h) == h.unenc = 0
XipOK(h) == IsXip(h) => ~h.rsa /\ ~h.aes /\ h.exec = "QSPI"

(***************************************************************************)
(* The relations between the three lengths: encryption makes the encrypted *)
(* length exceed the plain one, a signature makes the total exceed it.     *)
(***************************************************************************)
LengthsOK(h) ==
  /\ IF h.aes THEN h.unenc < h.enc ELSE h.unenc = h.enc
  /\ IF h.rsa THEN h.enc < h.total ELSE h.enc = h.total

(***************************************************************************)
(* XFsbl_PartitionHeaderValidation with XFsbl_ValidatePartitionHeader:     *)
(* "SUCCESS", "NOT_OWNER" (skip the partition) or "ERROR".  The checks for *)
(* an FSBL that runs on an R5 cannot fail on the A53.                      *)
(***************************************************************************)
NotForThisReset(h, reset) == reset = MASTER_ONLY_RESET /\ h.cpu \notin A53Cpus

ValidatePartitionHeader(h, reset, encOnly) ==
  IF encOnly /\ ~h.aes THEN "ERROR"
  ELSE IF NotForThisReset(h, reset) THEN "NOT_OWNER"
  ELSE IF /\ XipOK(h)
          /\ LengthsOK(h)
          /\ CheckValidMemoryAddress(h.load, DestinationCpu(h), h.dev)
          /\ h.cksum \in {0, 3}
          /\ DestinationCpu(h) <= CPU_PMU
          /\ h.dev <= DEVICE_PMU
       THEN "SUCCESS"
  ELSE "ERROR"

HeaderStatus(h, reset, encOnly) ==
  IF ~h.sum THEN "ERROR"
  ELSE IF h.owner # 0 THEN "NOT_OWNER"
  ELSE ValidatePartitionHeader(h, reset, encOnly)

(***************************************************************************)
(* The entries handed to the ARM trusted firmware: the partitions after    *)
(* the first one that start an A53 application, the first eight of them.   *)
(* XFsbl_SetATFHandoffParameters takes the CPU from the raw attribute: any *)
(* code that is not A53-0, A53-1 or A53-2 is recorded as A53-3.            *)
(***************************************************************************)
IsAtfEntry(h) == h.exec # "ZERO" /\ DestinationCpu(h) \in A53Cpus
AtfEntriesBefore(im, p) == {q \in 2 .. (p - 1) : IsAtfEntry(im.ph[q])}
AtfFlagCpu(h) ==
  IF h.cpu \in CPU_A53_0 .. (CPU_A53_3 - 1) THEN h.cpu ELSE CPU_A53_3

ATFHandoffParams(im) ==
  {[part |-> p, cpu |-> AtfFlagCpu(im.ph[p])] :
     p \in {q \in 2 .. (im.n - 1) :
             /\ IsAtfEntry(im.ph[q])
             /\ Cardinality(AtfEntriesBefore(im, q)) < XFSBL_MAX_ENTRIES_FOR_ATF}}
=============================================================================
