-------------------------------- MODULE Fsbl --------------------------------
(***************************************************************************)
(* The whole boot loader: main(), its stages, the error path, and the      *)
(* resets that start it again.                                             *)
(***************************************************************************)
EXTENDS Initialization, PartitionLoad, Handoff

(***************************************************************************)
(* XFsbl_ErrorLockDown: with an image to fall back to, XFsbl_FallBack      *)
(* stops the watchdog, moves the multiboot register on and asks for a soft *)
(* reset, except after a restart of the APU alone, where it loops.  Two    *)
(* mutants move on by nothing, and by two.                                 *)
(***************************************************************************)
SameImage == multiboot
ImageAfterNext == multiboot + 2
NextImage == multiboot + 1

ErrorLockDown ==
  /\ pc = "ERR"
  /\ errorStatus' = "ERROR"
  /\ IF BootMode = "FLASH"
     THEN /\ StopWdt
          /\ multiboot' = NextImage
          /\ Goto(IF MasterOnly THEN "SPIN" ELSE "SOFTRESET")
     ELSE /\ Goto("NOHANDOFF")
          /\ UNCHANGED <<wdt, multiboot>>
  /\ UNCHANGED <<PartitionNum, EarlyHandoff, CpuIndex, CpuIndexEarlyHandoff,
                 runEntry, dataVars, resetReg, running, pl, pmu, r5usage, mem,
                 atf, envVars>>

-----------------------------------------------------------------------------
(***************************************************************************)
(* Resets.  main() starts again with its locals and the zeroed section     *)
(* fresh.  The boot ROM loads a new copy of the FSBL, data section         *)
(* included, unless only the APU restarts; it stops when the multiboot     *)
(* register points past the last image.  The memories keep their bytes,    *)
(* the ATF handoff parameters are in a section nobody initialises.  The    *)
(* events of the boot before are left out once a new copy of the pointer   *)
(* is back at the start of the buffer: what lies behind it is never read.  *)
(***************************************************************************)
MainRestarts ==
  /\ PartitionNum' = 0 /\ EarlyHandoff' = FALSE
  /\ CpuIndex' = 0 /\ CpuIndexEarlyHandoff' = 0 /\ runEntry' = 0
  /\ UNCHANGED <<multiboot, errorStatus, r5usage, mem, atf>>

RomLoadsFsbl ==
  /\ MainRestarts
  /\ Goto(IF multiboot > LastImage THEN "ROMSTOP" ELSE "STAGE1")
  /\ FsblInstance' = InitialInstance
  /\ log' = InitialLog
  /\ running' = [c \in Core |-> NoContent]
  /\ pmu' = "ROM" /\ wdt' = FALSE
  /\ UNCHANGED dup

SystemReset ==
  /\ RomLoadsFsbl
  /\ pl' = NoContent

SoftReset ==
  /\ pc = "SOFTRESET"
  /\ SystemReset
  /\ UNCHANGED <<resetReg, envVars>>

(***************************************************************************)
(* The watchdog resets the system when the FSBL waits without end, and,    *)
(* with "late" among the faults, at any time.                              *)
(***************************************************************************)
Waiting ==
  \/ pc \in {"INITHUNG", "HUNG", "NOHANDOFF"}
  \/ pc = "LOAD" /\ DestCpu = CPU_PMU /\ pmu \notin {"ASKED", "SLEEP"}
  \/ pc = "FWWAIT" /\ pmu = "DEAD"

WdtExpire ==
  /\ wdt /\ (Waiting \/ "late" \in Faults)
  /\ SystemReset
  /\ resetReg' = [resetReg EXCEPT !.wdt = TRUE]
  /\ UNCHANGED envVars

(***************************************************************************)
(* What the software that was started may ask for: a system reset, a reset *)
(* of the PS alone, or, through the PMU firmware, of the APU alone.        *)
(***************************************************************************)
MayRestart ==
  /\ pc = "DONE" /\ restarts < MaxRestarts
  /\ restarts' = restarts + 1
  /\ UNCHANGED BootMode

SoftwareReset ==
  /\ MayRestart
  /\ SystemReset
  /\ resetReg' = [resetReg EXCEPT !.apu = FALSE]

PsOnlyReset ==
  /\ MayRestart
  /\ RomLoadsFsbl
  /\ resetReg' = [resetReg EXCEPT !.apu = FALSE, !.psOnly = TRUE]
  /\ UNCHANGED pl

ApuOnlyReset ==
  /\ MayRestart
  /\ pmu = "FW"
  /\ MainRestarts
  /\ Goto("STAGE1")
  /\ resetReg' = [resetReg EXCEPT !.apu = TRUE]
  /\ running' = [c \in Core |-> IF c \in A53Cpus THEN NoContent ELSE running[c]]
  /\ UNCHANGED <<dataVars, pl, pmu, wdt>>

-----------------------------------------------------------------------------
FsblStep ==
  \/ Initialize
  \/ PrimaryBootDeviceInit \/ ValidateHeader \/ SecondaryBootDeviceInit
  \/ PartitionHeaderValidation \/ PartitionCopy \/ DeviceCopy
  \/ PartitionValidation \/ PlValidation \/ PlLoad \/ MeasurePartition
  \/ CheckPmuFw \/ WaitForPmuFw \/ NextPartition
  \/ HandoffBegin \/ SkipEntry \/ ReleaseCpu \/ OwnEntry \/ HandoffExit
  \/ ErrorLockDown

Reset == SoftReset \/ WdtExpire \/ SoftwareReset \/ PsOnlyReset \/ ApuOnlyReset

Next == FsblStep \/ PmuAnswers \/ PmuDies \/ Reset

Spec == Init /\ [][Next]_vars

(***************************************************************************)
(* The processor executes, the PMU answers unless it died, a pending reset *)
(* happens and a watchdog that is left alone expires.  Nothing makes the   *)
(* started software ask for a reset.                                       *)
(***************************************************************************)
FairSpec ==
  /\ Spec
  /\ WF_vars(FsblStep) /\ WF_vars(PmuAnswers) /\ WF_vars(SoftReset)
  /\ WF_vars(WdtExpire)
=============================================================================
