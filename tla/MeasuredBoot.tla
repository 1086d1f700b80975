---------------------------- MODULE MeasuredBoot ----------------------------
(***************************************************************************)
(* What the FSBL measures and how it labels it: fsbl_measured_boot.c and   *)
(* Tpm_Measure_Pl of fsbl_measured_pl.c.  The log record of EventLog is    *)
(* extended with "partition", the counter that picks the label of the next *)
(* partition.                                                              *)
(***************************************************************************)
EXTENDS EventLog

(***************************************************************************)
(* What can be hashed: the ROM digest register, the FSBL's own memory, or  *)
(* the bytes of one partition of one image.  "form" tells apart bytes as   *)
(* they lie in flash, decrypted bytes, the ECC fill pattern, no bytes at   *)
(* all; for the FSBL's own memory, which holds its variables too, "form"   *)
(* is the reset reason kept in them.  "zeros" is what stands in an event   *)
(* for a digest that was never made: the buffer it should have gone to is  *)
(* cleared beforehand, and nobody looks at the status of the SHA3 driver.  *)
(***************************************************************************)
NoContent == [img |-> 0, part |-> 0, form |-> "none"]
RomCode == [img |-> 0, part |-> 0, form |-> "rom"]
EccPattern == [img |-> 0, part |-> 0, form |-> "ecc"]
NoDigest == [img |-> 0, part |-> 0, form |-> "zeros"]
Payload(i, p, f) == [img |-> i, part |-> p, form |-> f]
FsblMemory(i, reset) ==
  Payload(i, 0, CASE reset = 0 -> "fsbl_system"
                  [] reset = 1 -> "fsbl_ps_only"
                  [] OTHER -> "fsbl_master_only")

(***************************************************************************)
(* The initial values of log_ptr2 and partition, in the data section; the  *)
(* buffer itself is plain DDR.                                             *)
(***************************************************************************)
InitialLog == [buf |-> <<>>, ptr |-> 0, partition |-> 1]

Tpm_Measure_Rom(L) ==
  event_log_record(event_log_write_header(L, NoContent), "ROM", 0, RomCode)

(***************************************************************************)
(* Tpm_Measure_Fsbl hashes a fixed 250000 bytes from the load address in   *)
(* partition header 0: with the headers unread that address is 0 and the   *)
(* bytes are not the FSBL's.                                               *)
(***************************************************************************)
HashedFsbl(image, headersRead, reset) ==
  IF headersRead THEN FsblMemory(image, reset) ELSE NoContent
Tpm_Measure_Fsbl(L, hashed) == event_log_record(L, "FSBL", 1, hashed)

(***************************************************************************)
(* The label and the PCR by the value of the counter.                      *)
(***************************************************************************)
PartitionLabel == <<"BL31", "DTB", "UBOOT", "OPTEE">>
PartitionPcr == <<3, 5, 4, 3>>

(***************************************************************************)
(* Tpm_Measure_Partition: the first four calls record an event, the later  *)
(* ones compute a digest and drop it.  A mutant moves the counter first.   *)
(***************************************************************************)
MeasureUnderNextLabel(L, hashed) ==
  LET next == L.partition + 1 IN
    IF next \in DOMAIN PartitionLabel
    THEN [event_log_record(L, PartitionLabel[next], PartitionPcr[next], hashed)
            EXCEPT !.partition = next]
    ELSE L
Tpm_Measure_Partition(L, hashed) ==
  IF L.partition \in DOMAIN PartitionLabel
  THEN [event_log_record(L, PartitionLabel[L.partition],
                         PartitionPcr[L.partition], hashed)
          EXCEPT !.partition = @ + 1]
  ELSE L

(***************************************************************************)
(* Tpm_Measure_Pl after the bitstream went through.                        *)
(***************************************************************************)
Tpm_Measure_Pl(L, hashed) == event_log_record(L, "BITSTREAM", 2, hashed)
=============================================================================
