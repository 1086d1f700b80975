------------------------------ MODULE EventLog ------------------------------
(***************************************************************************)
(* The TCG event log of event_log.c: a buffer in DDR that the FSBL fills   *)
(* through one moving pointer, with no length stored anywhere.             *)
(*                                                                         *)
(* A log is a record: "ptr" is log_ptr2 as an offset from the start of the *)
(* buffer, "buf" the records that lie in the buffer, oldest first.  A      *)
(* record keeps the label, the PCR number, what was hashed and the number  *)
(* of bytes it takes.  The third field, "partition", is MeasuredBoot's.    *)
(***************************************************************************)
EXTENDS Integers, Sequences

(***************************************************************************)
(* The last byte of the buffer, as an offset: EVENT_LOG_END less           *)
(* EVENT_LOG_START.                                                        *)
(***************************************************************************)
EVENT_LOG_END == 4095

(***************************************************************************)
(* Sizes in bytes: the Spec ID event, the startup locality event, and the  *)
(* fixed part of every other event (pcr, type, digest count, algorithm,    *)
(* SHA-384 digest and the length of the name).                             *)
(***************************************************************************)
ID_EVENT_SIZE == 93
LOC_EVENT_SIZE == 83
EVENT2_HDR_SIZE == 66

(***************************************************************************)
(* strlen(name) + 1 of the labels the FSBL uses.                           *)
(***************************************************************************)
NameLen == [ROM |-> 4, FSBL |-> 5, BITSTREAM |-> 10, BL31 |-> 5,
            DTB |-> 17, UBOOT |-> 7, OPTEE |-> 7]
Label == DOMAIN NameLen

(***************************************************************************)
(* The records that lie below the write pointer.  Writing at the start of  *)
(* the buffer abandons whatever was there.                                 *)
(***************************************************************************)
Written(L) == IF L.ptr = 0 THEN <<>> ELSE L.buf

(***************************************************************************)
(* What every write does: put records at the pointer and move it.  There   *)
(* is no check that they fit.  The counter of MeasuredBoot stays.          *)
(***************************************************************************)
WriteAtPointer(L, events, bytes) ==
  [buf |-> Written(L) \o events, ptr |-> L.ptr + bytes, partition |-> L.partition]

(***************************************************************************)
(* event_log_record.                                                       *)
(***************************************************************************)
EventSize(label) == EVENT2_HDR_SIZE + NameLen[label]
event_log_record(L, label, pcr, hashed) ==
  WriteAtPointer(L, << [name |-> label, pcr |-> pcr, data |-> hashed,
                        size |-> EventSize(label)] >>, EventSize(label))

(***************************************************************************)
(* event_log_write_header: the Spec ID event and the startup locality      *)
(* event.                                                                  *)
(***************************************************************************)
event_log_write_header(L, nothing) ==
  WriteAtPointer(L,
    << [name |-> "SPEC_ID", pcr |-> 0, data |-> nothing, size |-> ID_EVENT_SIZE],
       [name |-> "LOCALITY", pcr |-> 0, data |-> nothing, size |-> LOC_EVENT_SIZE] >>,
    ID_EVENT_SIZE + LOC_EVENT_SIZE)
=============================================================================
