----------------------------- MODULE EventPrint -----------------------------
(***************************************************************************)
(* The reader of the event log, event_print.c.  Tpm_Measure_Partition      *)
(* prints the log when the last label is used: the readers take a pointer  *)
(* and a size and move both over one record, and the loop around them ends *)
(* only when the size has come down to exactly zero.                       *)
(***************************************************************************)
EXTENDS MeasuredBoot

CONSTANT FSBL_DEBUG_INFO   \* the build prints messages of this level

ASSUME PrintAssumption == FSBL_DEBUG_INFO \in BOOLEAN

(***************************************************************************)
(* Sizes of the packed structures of tcg.h that the readers step over.     *)
(***************************************************************************)
SizeofIdEventHeaders == 88
SizeofIdEventAlgorithmSize == 4
SizeofVendorInfoSize == 1
SizeofEvent2Header == 12
OffsetofDigest == 2
SHA384_DIGEST_SIZE == 48
OffsetofEvent == 4
SizeofStartupLocalityEvent == 17
HASH_ALG_COUNT == 1

(***************************************************************************)
(* What the fields of a record tell the reader: the size of the event data *)
(* behind the digests.                                                     *)
(***************************************************************************)
EventDataSize(event) ==
  IF event.name = "LOCALITY" THEN SizeofStartupLocalityEvent ELSE NameLen[event.name]

(***************************************************************************)
(* id_event_print and event2_print: by how much they move the pointer.  A  *)
(* mutant forgets the field that holds the size of the event data.         *)
(***************************************************************************)
id_event_print ==
  SizeofIdEventHeaders + HASH_ALG_COUNT * SizeofIdEventAlgorithmSize
    + SizeofVendorInfoSize
event2_print_short(event) ==
  SizeofEvent2Header + HASH_ALG_COUNT * (OffsetofDigest + SHA384_DIGEST_SIZE)
    + EventDataSize(event)
event2_print(event) ==
  SizeofEvent2Header + HASH_ALG_COUNT * (OffsetofDigest + SHA384_DIGEST_SIZE)
    + OffsetofEvent + EventDataSize(event)

(***************************************************************************)
(* The loop comes down to zero: each record is left where the next begins. *)
(* The digest is stepped over inside the arguments of a print macro, so    *)
(* without printing the reader loses its place and takes a part of a       *)
(* digest for a size.                                                      *)
(***************************************************************************)
StepsOver(event) == IF event.name = "SPEC_ID" THEN id_event_print ELSE event2_print(event)
ReadsToTheEnd(L) ==
  FSBL_DEBUG_INFO /\ \A k \in DOMAIN L.buf : StepsOver(L.buf[k]) = L.buf[k].size

(***************************************************************************)
(* The log is printed after the event with the last label.                 *)
(***************************************************************************)
PrintsLog(before, after) ==
  before.partition = Len(PartitionLabel) /\ after.partition > Len(PartitionLabel)
=============================================================================
