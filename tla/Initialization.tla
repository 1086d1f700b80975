--------------------------- MODULE Initialization ---------------------------
(***************************************************************************)
(* Stages 1 and 2 of the FSBL, xfsbl_initialization.c: what a boot         *)
(* inherits from the one before it, the watchdog, the boot device and the  *)
(* header tables.                                                          *)
(***************************************************************************)
EXTENDS FsblState

(***************************************************************************)
(* XFsbl_GetResetReason.  The APU bit is the PMU firmware's, and is left   *)
(* alone.                                                                  *)
(***************************************************************************)
GetResetReason ==
  IF resetReg.psOnly THEN PS_ONLY_RESET
  ELSE IF resetReg.apu THEN MASTER_ONLY_RESET ELSE SYSTEM_RESET

(***************************************************************************)
(* The data section after XFsbl_GetResetReason: saved on a cold start,     *)
(* restored when the APU alone restarts.  The log buffer is not in it.     *)
(* Two mutants save the data and never restore it, and save a pointer that *)
(* has moved on.                                                           *)
(***************************************************************************)
RestoreNothing == [inst |-> FsblInstance, log |-> log]
RestoreData == [inst |-> dup.inst, log |-> [dup.log EXCEPT !.buf = log.buf]]
DataSection(reset) ==
  IF reset = MASTER_ONLY_RESET THEN RestoreData
  ELSE [inst |-> FsblInstance, log |-> log]
SaveMeasuredData(reset) ==
  dup' = IF reset = MASTER_ONLY_RESET THEN dup
         ELSE [inst |-> FsblInstance, log |-> Tpm_Measure_Rom(log)]
SaveData(reset) ==
  dup' = IF reset = MASTER_ONLY_RESET THEN dup
         ELSE [inst |-> FsblInstance, log |-> log]

(***************************************************************************)
(* XFsbl_ResetValidation: a watchdog reset of a boot that was still        *)
(* running is an error, and the watchdog's error bit is cleared.  A mutant *)
(* leaves no mark of the boot that starts.                                 *)
(***************************************************************************)
WdtResetSeen == resetReg.wdt /\ errorStatus = "RUNNING"
ResetValidationWithoutMark ==
  /\ resetReg' = [resetReg EXCEPT !.psOnly = FALSE, !.wdt = @ /\ ~WdtResetSeen]
  /\ UNCHANGED errorStatus
ResetValidation ==
  IF WdtResetSeen
  THEN /\ resetReg' = [resetReg EXCEPT !.psOnly = FALSE, !.wdt = FALSE]
       /\ UNCHANGED errorStatus
  ELSE /\ resetReg' = [resetReg EXCEPT !.psOnly = FALSE]
       /\ errorStatus' = "RUNNING"

(***************************************************************************)
(* XFsbl_Initialize.  The system, processor, memory and board set-up are   *)
(* one operation that may be refused or, where it polls for an isolation,  *)
(* a power island or a DMA channel, never answered, with no watchdog as    *)
(* yet; a restart of the APU alone skips it and the reset validation.      *)
(***************************************************************************)
Initialize ==
  LET reset == GetResetReason
      data == DataSection(reset) IN
  /\ pc = "STAGE1"
  /\ SaveData(reset)
  /\ FsblInstance' = [data.inst EXCEPT !.reset = reset]
  /\ \/ /\ reset # MASTER_ONLY_RESET
        /\ Refused \/ ("hang" \in Faults /\ Goto("INITHUNG"))
        /\ resetReg' = [resetReg EXCEPT !.psOnly = FALSE]
        /\ log' = data.log
        /\ UNCHANGED errorStatus
     \/ /\ reset # MASTER_ONLY_RESET
        /\ ResetValidation
        /\ log' = IF WdtResetSeen THEN data.log ELSE Tpm_Measure_Rom(data.log)
        /\ Goto(IF WdtResetSeen THEN "ERR" ELSE "PRIMARY")
     \/ /\ reset = MASTER_ONLY_RESET
        /\ log' = Tpm_Measure_Rom(data.log)
        /\ Goto("PRIMARY")
        /\ UNCHANGED <<resetReg, errorStatus>>
  /\ UNCHANGED <<PartitionNum, EarlyHandoff, CpuIndex, CpuIndexEarlyHandoff,
                 runEntry, multiboot, hwVars, envVars>>

-----------------------------------------------------------------------------
(***************************************************************************)
(* Stage 2.  XFsbl_PrimaryBootDeviceInit arms the watchdog (XFsbl_InitWdt) *)
(* for every mode that may read an image, then tries the device; USB is    *)
(* not in this build.  A mutant has the guard the wrong way round.         *)
(***************************************************************************)
InitWdtInverted == wdt' = (wdt \/ (BootMode \in {"FLASH", "USB"} /\ MasterOnly))
InitWdt == wdt' = (wdt \/ (BootMode \in {"FLASH", "USB"} /\ ~MasterOnly))

PrimaryBootDeviceInit ==
  /\ pc = "PRIMARY"
  /\ \/ /\ BootMode = "FLASH"
        /\ InitWdt
        /\ Goto("VALIDATE") \/ Faulty
        /\ UNCHANGED r5usage
     \/ /\ BootMode \in {"USB", "OTHER"}
        /\ InitWdt
        /\ Fail
        /\ UNCHANGED r5usage
     \/ /\ BootMode = "JTAG"
        /\ r5usage' = {CPU_R5_0, CPU_R5_1}
        /\ Goto("HANDOFF")
        /\ UNCHANGED wdt
     \/ /\ BootMode \in {"FLASH", "USB"} /\ ~MasterOnly
        /\ Refused
        /\ UNCHANGED <<wdt, r5usage>>
  /\ UNCHANGED <<PartitionNum, EarlyHandoff, CpuIndex, CpuIndexEarlyHandoff,
                 runEntry, dataVars, regVars, running, pl, pmu, mem, atf,
                 envVars>>

(***************************************************************************)
(* XFsbl_ValidateHeader.  The image is the one the multiboot register      *)
(* points at, or the one on the secondary device.                          *)
(***************************************************************************)
ImageToValidate == IF FsblInstance.sec = 0 THEN multiboot ELSE LastImage + 1
AuthRequired(im) == EfuseRsa \/ im.rsa
HeaderAccepted(im) ==
  /\ ~(EfuseRsa /\ im.rsa)
  /\ AuthRequired(im) => im.ac /\ BhAuthentication(im.cert, im.signed)
  /\ ValidateImageHeaderTable(im) # "ERROR"

(***************************************************************************)
(* The instance with the PPK that an authentication of the image's boot    *)
(* header keeps.                                                           *)
(***************************************************************************)
PpkIsKept(im) ==
  AuthRequired(im) /\ ~(EfuseRsa /\ im.rsa) /\ im.ac /\ PpkPasses(im.cert)
KeepPpk(im) ==
  IF PpkIsKept(im) THEN [FsblInstance EXCEPT !.ppk = im.cert.ppk] ELSE FsblInstance

(***************************************************************************)
(* The ATF handoff table when the headers below n are read: its number of  *)
(* entries is set with each entry, so without one it stays as it was.  A   *)
(* mutant adds to it.                                                      *)
(***************************************************************************)
AtfTableAdded(im, n) == atf \cup {e \in ATFHandoffParams(im) : e.part < n}
AtfTable(im, n) ==
  LET entries == {e \in ATFHandoffParams(im) : e.part < n} IN
  IF entries = {} THEN atf ELSE entries

(***************************************************************************)
(* XFsbl_ReadImageHeader.  When the tables are to come from a second       *)
(* device, the FSBL is measured all the same, and again with them.  A      *)
(* mutant measures it the first time only.                                 *)
(***************************************************************************)
TablesRead(im) == ValidateImageHeaderTable(im) = "SUCCESS"
MeasureFsblOnce(i) ==
  IF FsblInstance.sec # 0 THEN UNCHANGED log
  ELSE \E d \in Digests(HashedFsbl(i, TablesRead(Images[i]), FsblInstance.reset)) :
         log' = Tpm_Measure_Fsbl(log, d)
MeasureFsbl(i) ==
  \E d \in Digests(HashedFsbl(i, TablesRead(Images[i]), FsblInstance.reset)) :
    log' = Tpm_Measure_Fsbl(log, d)

ReadImageHeader(i) ==
  LET im == Images[i] IN
  /\ FsblInstance' = [KeepPpk(im) EXCEPT !.img = i, !.hdr = TablesRead(im)]
  /\ atf' = IF TablesRead(im) THEN AtfTable(im, im.n) ELSE atf

(***************************************************************************)
(* How many headers were read when reading failed: those of authenticated  *)
(* tables are in OCM already, where it does not fail.                      *)
(***************************************************************************)
HeadersRead(im) ==
  IF TablesRead(im) /\ ~AuthRequired(im) THEN 0 .. im.n ELSE {0}

(***************************************************************************)
(* main, at the end of stage 2: the R5 usage bits are cleared and the      *)
(* partitions are loaded from the first one after the FSBL.                *)
(***************************************************************************)
EnterStage3 ==
  /\ PartitionNum' = 1
  /\ r5usage' = {}
  /\ Goto("HEADER")

ValidateHeader ==
  /\ pc = "VALIDATE"
  /\ \/ /\ HeaderAccepted(Images[ImageToValidate])
        /\ ReadImageHeader(ImageToValidate)
        /\ MeasureFsbl(ImageToValidate)
        /\ IF FsblInstance.sec = 0
           THEN Goto("SECONDARY") /\ UNCHANGED <<PartitionNum, r5usage>>
           ELSE EnterStage3
     \/ /\ HeaderAccepted(Images[ImageToValidate])
        /\ ReadImageHeader(ImageToValidate)
        /\ ShaAsserts
        /\ UNCHANGED <<log, PartitionNum, r5usage>>
     \/ /\ ~HeaderAccepted(Images[ImageToValidate])
        /\ Fail
        /\ FsblInstance' = KeepPpk(Images[ImageToValidate])
        /\ UNCHANGED <<atf, log, PartitionNum, r5usage>>
     \/ /\ Faulty
        /\ FsblInstance' \in {FsblInstance, KeepPpk(Images[ImageToValidate])}
        /\ atf' \in {AtfTable(Images[ImageToValidate], n) :
                      n \in HeadersRead(Images[ImageToValidate])}
        /\ UNCHANGED <<log, PartitionNum, r5usage>>
  /\ UNCHANGED <<EarlyHandoff, CpuIndex, CpuIndexEarlyHandoff, runEntry, dup,
                 regVars, running, pl, pmu, wdt, mem, envVars>>

(***************************************************************************)
(* XFsbl_SecondaryBootDeviceInit: the header tables of the second device   *)
(* replace the first ones.  From USB on, the devices are not supported.    *)
(***************************************************************************)
SecondaryBootDeviceInit ==
  /\ pc = "SECONDARY"
  /\ \/ /\ CurImage.ppd = XIH_IHT_PPD_SAME
        /\ EnterStage3
        /\ UNCHANGED FsblInstance
     \/ /\ CurImage.ppd \in (XIH_IHT_PPD_SAME + 1) .. (XIH_IHT_PPD_USB - 1)
        /\ FsblInstance' = [FsblInstance EXCEPT !.sec = CurImage.ppd]
        /\ Goto("VALIDATE") \/ Faulty
        /\ UNCHANGED <<PartitionNum, r5usage>>
     \/ /\ CurImage.ppd >= XIH_IHT_PPD_USB
        /\ FsblInstance' = [FsblInstance EXCEPT !.sec = CurImage.ppd]
        /\ Fail
        /\ UNCHANGED <<PartitionNum, r5usage>>
  /\ UNCHANGED <<EarlyHandoff, CpuIndex, CpuIndexEarlyHandoff, runEntry, log,
                 dup, regVars, running, pl, pmu, wdt, mem, atf, envVars>>
=============================================================================
