--------------------------- MODULE PartitionLoad ---------------------------
(***************************************************************************)
(* Stage 3 of the FSBL, xfsbl_partition_load.c: one pass over a partition, *)
(* from its header to its measurement.                                     *)
(***************************************************************************)
EXTENDS FsblState

loadUnchanged == <<PartitionNum, EarlyHandoff, CpuIndex, CpuIndexEarlyHandoff,
                   runEntry, dup, regVars, running, wdt, r5usage, atf, envVars>>

DestCpu == DestinationCpu(Hdr)
IsPl == Hdr.dev = DEVICE_PL
PartitionSlot == LoadSlot(DestCpu, Hdr.load)

(***************************************************************************)
(* XFsbl_PartitionLoad restarts the watchdog's count, then takes the       *)
(* header; a partition the FSBL does not own is passed over.  A mutant     *)
(* takes it for an error.                                                  *)
(***************************************************************************)
OnlyOwnPartitions(status) == IF status = "SUCCESS" THEN "COPY" ELSE "ERR"
NextAfterHeader(status) ==
  CASE status = "SUCCESS" -> "COPY"
    [] status = "NOT_OWNER" -> "NEXT"
    [] OTHER -> "ERR"

PartitionHeaderValidation ==
  /\ pc = "HEADER"
  /\ Goto(NextAfterHeader(HeaderStatus(Hdr, FsblInstance.reset, EfuseEncOnly)))
  /\ UNCHANGED <<loadUnchanged, FsblInstance, log, pl, pmu, mem>>

(***************************************************************************)
(* XFsbl_PartitionCopy up to the copy itself.  The certificate of a signed *)
(* partition is fetched apart, except for the PL, and its size taken off   *)
(* the length.                                                             *)
(***************************************************************************)
CopyLength == IF Hdr.rsa /\ ~IsPl THEN Hdr.total - AcWords ELSE Hdr.total

ConfigureMemory ==
  IF NeedsEccInit(DestCpu, Hdr.load)
  THEN /\ mem' = EccFill(DestCpu)
       /\ FsblInstance' = [FsblInstance EXCEPT !.ecc = TcmEccInitStatus(DestCpu)]
  ELSE UNCHANGED <<mem, FsblInstance>>

PartitionCopy ==
  /\ pc = "COPY"
  /\ \/ /\ IsXip(Hdr)
        /\ FsblInstance' = AddHandoff(Hdr)
        /\ Goto("CHECK")
        /\ UNCHANGED <<pmu, mem>>
     \/ /\ ~IsXip(Hdr) /\ IsPl /\ PsOnly
        /\ Goto("CHECK")
        /\ UNCHANGED <<FsblInstance, pmu, mem>>
     \/ /\ ~IsXip(Hdr) /\ ~(IsPl /\ PsOnly)
        /\ FitsTcm(DestCpu, Hdr.load, CopyLength)
        /\ ConfigureMemory
        /\ pmu' = IF DestCpu = CPU_PMU /\ Hdr.exec # "ZERO" THEN "ASKED" ELSE pmu
        /\ Goto("LOAD")
     \/ /\ ~IsXip(Hdr) /\ ~(IsPl /\ PsOnly)
        /\ ~FitsTcm(DestCpu, Hdr.load, CopyLength)
        /\ Fail
        /\ UNCHANGED <<FsblInstance, pmu, mem>>
     \/ /\ ~IsXip(Hdr) /\ (InTcm(DestCpu, Hdr.load) \/ (Hdr.rsa /\ ~IsPl))
        /\ Faulty
        /\ UNCHANGED <<FsblInstance, pmu, mem>>
  /\ UNCHANGED <<loadUnchanged, log, pl>>

(***************************************************************************)
(* The copy.  PMU firmware is only overwritten once the PMU sleeps, a wait *)
(* without a limit.  XFsbl_SdCopy ignores how many bytes f_read delivered: *)
(* a file that ends too soon leaves in memory what was there, with success.*)
(***************************************************************************)
DeviceCopy ==
  /\ pc = "LOAD"
  /\ DestCpu = CPU_PMU => pmu = "SLEEP"
  /\ \/ mem' = [mem EXCEPT ![PartitionSlot] = BytesIn(PartitionNum)] /\ Goto("CHECK")
     \/ "short" \in Faults /\ Goto("CHECK") /\ UNCHANGED mem
     \/ Faulty /\ UNCHANGED mem
  /\ UNCHANGED <<loadUnchanged, FsblInstance, log, pl, pmu>>

-----------------------------------------------------------------------------
(***************************************************************************)
(* XFsbl_PartitionValidation.  The whole length, the certificate included, *)
(* is compared with the TCM bank here.  A checksum, a signature or a GCM   *)
(* tag rejects bytes in memory that are not the intact payload; nothing    *)
(* else does.  The checksum is taken over the whole length, so over words  *)
(* that were never copied when the certificate was fetched apart.  Two     *)
(* mutants ignore the digest and the signature.                            *)
(***************************************************************************)
Protected == Hdr.cksum # 0 \/ Hdr.rsa \/ Hdr.aes
ChecksumIgnored == Hdr.cksum # 0 => CopyLength = Hdr.total
Intact ==
  Hdr.intact /\ (IsXip(Hdr) \/ mem[PartitionSlot] = BytesIn(PartitionNum))
ChecksumOK == Hdr.cksum # 0 => Intact /\ CopyLength = Hdr.total
SignatureIgnored == TRUE
SignatureOK ==
  Hdr.rsa => PartitionAuthentication(Hdr.cert, FsblInstance.ppk, Intact)
DecryptionOK == Hdr.aes => Intact
SecureBitstreamOK == Hdr.rsa => Hdr.block # 0 /\ ~CurImage.sha2
LoadFits == FitsTcm(DestCpu, Hdr.load, Hdr.total)
PartitionAccepted == LoadFits /\ ChecksumOK /\ SignatureOK /\ DecryptionOK
BitstreamAccepted == LoadFits /\ ChecksumOK /\ SignatureOK /\ SecureBitstreamOK

(***************************************************************************)
(* The part of it for everything but the PL: decryption is in place.       *)
(***************************************************************************)
PartitionValidation ==
  /\ pc = "CHECK" /\ ~IsPl
  /\ \/ /\ PartitionAccepted
        /\ mem' = IF Hdr.aes
                  THEN [mem EXCEPT ![PartitionSlot] =
                          Payload(FsblInstance.img, PartitionNum, "plain")]
                  ELSE mem
        /\ Goto("FINISH")
     \/ /\ ~PartitionAccepted
        /\ Fail
        /\ UNCHANGED mem
     \/ /\ Protected
        /\ Faulty
        /\ UNCHANGED mem
  /\ UNCHANGED <<loadUnchanged, FsblInstance, log, pl, pmu>>

(***************************************************************************)
(* The PL part.  XFsbl_PcapInit clears the PL before anything is checked;  *)
(* then the checksum, and for a signed bitstream XFsbl_SecPlPartition,     *)
(* which checks and loads block by block and records no event.             *)
(***************************************************************************)
PlValidation ==
  /\ pc = "CHECK" /\ IsPl
  /\ \/ /\ PsOnly
        /\ Goto("PMUFW")
        /\ UNCHANGED pl
     \/ /\ ~PsOnly /\ BitstreamAccepted
        /\ pl' = IF Hdr.rsa THEN Payload(FsblInstance.img, PartitionNum, "plain")
                 ELSE NoContent
        /\ Goto("PL")
     \/ /\ ~PsOnly /\ ~BitstreamAccepted
        /\ pl' = IF LoadFits THEN NoContent ELSE pl
        /\ Fail
     \/ /\ ~PsOnly
        /\ Faulty
        /\ pl' \in {pl, NoContent}
  /\ UNCHANGED <<loadUnchanged, FsblInstance, log, pmu, mem>>

(***************************************************************************)
(* An unsigned bitstream is loaded and measured by Tpm_Measure_Pl.  The    *)
(* digest is taken of the bytes that leave memory: of the ciphertext when  *)
(* the bitstream is encrypted.  A bad GCM tag clears the PL and records    *)
(* nothing; a plain bitstream cannot be refused.  A mutant records an      *)
(* event on the plain path only.                                           *)
(***************************************************************************)
Configure ==
  pl' = IF IsXip(Hdr) THEN NoContent
        ELSE IF Hdr.aes THEN Payload(FsblInstance.img, PartitionNum, "plain")
        ELSE mem[PartitionSlot]
EventForPl ==
  \E d \in Digests(IF IsXip(Hdr) THEN NoContent ELSE mem[PartitionSlot]) :
    log' = Tpm_Measure_Pl(log, d)
MeasurePlainPl == Configure /\ IF Hdr.aes THEN UNCHANGED log ELSE EventForPl
MeasurePl == Configure /\ EventForPl

(***************************************************************************)
(* XFsbl_PLWaitForDone may give up on the PL after it was measured.        *)
(***************************************************************************)
PlLoad ==
  /\ pc = "PL"
  /\ \/ /\ ~Hdr.rsa /\ DecryptionOK
        /\ MeasurePl
        /\ Goto("PMUFW") \/ Faulty
     \/ /\ ~Hdr.rsa /\ Hdr.aes
        /\ IF Intact THEN Refused ELSE Fail
        /\ pl' = NoContent
        /\ UNCHANGED log
     \/ /\ Hdr.rsa
        /\ Goto("PMUFW") \/ Faulty
        /\ UNCHANGED <<pl, log>>
  /\ UNCHANGED <<loadUnchanged, FsblInstance, pmu, mem>>

(***************************************************************************)
(* The end of XFsbl_PartitionValidation for everything but the PL: the     *)
(* handoff entry and the measurement of what lies at the load address; of  *)
(* no bytes at all for a partition that runs in place.  The measurement    *)
(* that uses the last label prints the log; a reader that loses its place  *)
(* stops by chance only.  What the SHA3 driver returns is lost: the event  *)
(* is recorded and the partition started all the same.  Two mutants        *)
(* measure the bytes as they lie in flash, and at the address that an R5   *)
(* would use.                                                              *)
(***************************************************************************)
BytesInFlash == BytesIn(PartitionNum)
BytesAtR5Address == mem[<<2, Hdr.load>>]
LoadedBytes == IF IsXip(Hdr) THEN NoContent ELSE mem[PartitionSlot]

MeasurePartition ==
  /\ pc = "FINISH"
  /\ FsblInstance' = IF DestCpu = CPU_PMU THEN FsblInstance ELSE AddHandoff(Hdr)
  /\ \/ /\ \E d \in Digests(LoadedBytes) : log' = Tpm_Measure_Partition(log, d)
        /\ \/ Goto("PMUFW")
           \/ PrintsLog(log, log') /\ ~ReadsToTheEnd(log') /\ Goto("HUNG")
     \/ ShaAsserts /\ UNCHANGED log
  /\ UNCHANGED <<loadUnchanged, pl, pmu, mem>>

-----------------------------------------------------------------------------
(***************************************************************************)
(* XFsbl_CheckPmuFw: after the last partition of the PMU firmware, wake    *)
(* the PMU and wait, without a limit, for its firmware to report.          *)
(***************************************************************************)
PmuFwLoadDone ==
  /\ Hdr.cpu = CPU_PMU
  /\ PartitionNum < LastPartition => PH(PartitionNum + 1).cpu # CPU_PMU

CheckPmuFw ==
  /\ pc = "PMUFW"
  /\ IF PmuFwLoadDone THEN pmu' = "WAKING" /\ Goto("FWWAIT")
     ELSE Goto("NEXT") /\ UNCHANGED pmu
  /\ UNCHANGED <<loadUnchanged, FsblInstance, log, pl, mem>>

WaitForPmuFw ==
  /\ pc = "FWWAIT" /\ pmu = "FW"
  /\ Goto("NEXT")
  /\ UNCHANGED <<loadUnchanged, FsblInstance, log, pl, pmu, mem>>

(***************************************************************************)
(* The PMU: it sleeps when asked, and runs its firmware when woken; a PMU  *)
(* that hangs does neither.                                                *)
(***************************************************************************)
PmuAnswers ==
  /\ pmu \in {"ASKED", "WAKING"}
  /\ pmu' = IF pmu = "ASKED" THEN "SLEEP" ELSE "FW"
  /\ UNCHANGED <<loadUnchanged, pc, FsblInstance, log, pl, mem>>

PmuDies ==
  /\ "hang" \in Faults /\ pmu \in {"ASKED", "WAKING"}
  /\ pmu' = "DEAD"
  /\ UNCHANGED <<loadUnchanged, pc, FsblInstance, log, pl, mem>>
=============================================================================
