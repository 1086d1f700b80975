------------------------------ MODULE Handoff ------------------------------
(***************************************************************************)
(* Between the partitions and after the last one: the R5 usage bits, early *)
(* handoff, and stage 4, which starts the other CPUs one after the other   *)
(* and leaves through the entry of the running one (xfsbl_handoff.c and    *)
(* the stage 3 and 4 cases of main).                                       *)
(***************************************************************************)
EXTENDS FsblState

handoffUnchanged == <<FsblInstance, log, dup, multiboot, resetReg, pl, pmu,
                      mem, atf, envVars>>

(***************************************************************************)
(* XFsbl_MarkUsedRPUCores takes the CPU from the header alone, so it also  *)
(* marks for a partition that was passed over.  Two mutants leave those    *)
(* out, and R5-1.                                                          *)
(***************************************************************************)
UsedLoadedCores(h) ==
  IF NotForThisReset(h, FsblInstance.reset) THEN {} ELSE Cores(h.cpu) \cap {CPU_R5_0, CPU_R5_1}
UsedFirstCore(h) == IF h.cpu \in {CPU_R5_0, CPU_R5_L} THEN {CPU_R5_0} ELSE {}
UsedRPUCores(h) ==
  CASE h.cpu \in {CPU_R5_0, CPU_R5_L} -> {CPU_R5_0}
    [] h.cpu = CPU_R5_1 -> {CPU_R5_1}
    [] OTHER -> {}

(***************************************************************************)
(* XFsbl_CheckEarlyHandoff: the last in a row of partitions for one R5.    *)
(* With no next partition the next CPU is 0.                               *)
(***************************************************************************)
CpuNeedsEarlyHandoff(cpu) == XFSBL_EARLY_HANDOFF /\ cpu \in R5Cpus
CheckEarlyHandoff ==
  /\ CpuNeedsEarlyHandoff(Hdr.cpu)
  /\ PartitionNum < LastPartition => PH(PartitionNum + 1).cpu # Hdr.cpu

(***************************************************************************)
(* main, after XFsbl_PartitionLoad succeeded.                              *)
(***************************************************************************)
NextPartition ==
  /\ pc = "NEXT"
  /\ r5usage' = r5usage \cup UsedRPUCores(Hdr)
  /\ \/ /\ PartitionNum < LastPartition /\ ~CheckEarlyHandoff
        /\ PartitionNum' = PartitionNum + 1
        /\ Goto("HEADER")
        /\ UNCHANGED EarlyHandoff
     \/ /\ PartitionNum < LastPartition /\ CheckEarlyHandoff
        /\ EarlyHandoff' = TRUE
        /\ Goto("HANDOFF")
        /\ UNCHANGED PartitionNum
     \/ /\ PartitionNum >= LastPartition
        /\ EarlyHandoff' = CheckEarlyHandoff
        /\ Goto("HANDOFF")
        /\ UNCHANGED PartitionNum
  /\ UNCHANGED <<handoffUnchanged, CpuIndex, CpuIndexEarlyHandoff, runEntry,
                 errorStatus, running, wdt>>

-----------------------------------------------------------------------------
(***************************************************************************)
(* XFsbl_Handoff up to its loop: power management and memory protection    *)
(* may be refused.  In JTAG mode the FSBL stops here.                      *)
(***************************************************************************)
HandoffBegin ==
  /\ pc = "HANDOFF"
  /\ runEntry' = 0
  /\ CpuIndex' = IF EarlyHandoff THEN CpuIndexEarlyHandoff ELSE 0
  /\ \/ /\ BootMode = "JTAG"
        /\ errorStatus' = "COMPLETED"
        /\ Goto("NOHANDOFF")
     \/ /\ BootMode # "JTAG"
        /\ Goto("CPU")
        /\ UNCHANGED errorStatus
     \/ /\ Faulty
        /\ UNCHANGED errorStatus
  /\ UNCHANGED <<handoffUnchanged, PartitionNum, EarlyHandoff,
                 CpuIndexEarlyHandoff, running, wdt, r5usage>>

(***************************************************************************)
(* The entry under the index, and whether this pass is for it.             *)
(***************************************************************************)
Entry == FsblInstance.handoff[CpuIndex + 1]
MoreEntries == CpuIndex < Len(FsblInstance.handoff)
Eligible ==
  \/ EarlyHandoff = CpuNeedsEarlyHandoff(Entry.cpu)
  \/ ~EarlyHandoff /\ Entry.cpu = ProcessorID

(***************************************************************************)
(* XFsbl_CheckSupportedCpu and XFsbl_SetCpuPwrSettings.                    *)
(***************************************************************************)
CheckSupportedCpu(cpu) == IsCG => cpu \notin 3 .. CPU_A53_3
Startable(cpu) == CheckSupportedCpu(cpu) /\ cpu \in A53Cpus \cup R5Cpus

(***************************************************************************)
(* XFsbl_UpdateResetVector: only an A53 in AArch64 state starts at the     *)
(* address of its entry.  A 32-bit CPU starts at the low or at the high    *)
(* vector, and which of them is taken from the header of the partition     *)
(* that was loaded last.  An R5 sees its own TCM at the low vector.        *)
(***************************************************************************)
Is32BitCpu(e) == e.cpu \in R5Cpus \/ e.aa32
StartSlot(e) ==
  IF ~Is32BitCpu(e) THEN <<2, e.exec>>
  ELSE IF Hdr.hivec THEN <<2, "HIVEC">>
  ELSE LoadSlot(e.cpu, "ZERO")
CodeAt(slot) ==
  IF slot[2] = "QSPI" THEN Payload(FsblInstance.img, 0, "flash") ELSE mem[slot]

(***************************************************************************)
(* What follows an entry: early handoff returns to main after one R5, the  *)
(* other passes go on.                                                     *)
(***************************************************************************)
AfterEntry ==
  IF EarlyHandoff /\ CpuNeedsEarlyHandoff(Entry.cpu)
  THEN IF PartitionNum < LastPartition
       THEN /\ CpuIndexEarlyHandoff' = CpuIndexEarlyHandoff + 1
            /\ PartitionNum' = PartitionNum + 1
            /\ Goto("HEADER")
            /\ UNCHANGED <<EarlyHandoff, CpuIndex>>
       ELSE /\ EarlyHandoff' = FALSE
            /\ Goto("HANDOFF")
            /\ UNCHANGED <<CpuIndexEarlyHandoff, PartitionNum, CpuIndex>>
  ELSE /\ CpuIndex' = CpuIndex + 1
       /\ CpuIndexEarlyHandoff' = CpuIndexEarlyHandoff + 1
       /\ UNCHANGED <<pc, EarlyHandoff, PartitionNum>>

SkipEntry ==
  /\ pc = "CPU" /\ MoreEntries /\ ~Eligible
  /\ AfterEntry
  /\ UNCHANGED <<handoffUnchanged, runEntry, errorStatus, running, wdt, r5usage>>

ReleaseCpu ==
  /\ pc = "CPU" /\ MoreEntries /\ Eligible /\ Entry.cpu # ProcessorID
  /\ \/ /\ Startable(Entry.cpu)
        /\ running' = [c \in Core |-> IF c \in Cores(Entry.cpu)
                                      THEN CodeAt(StartSlot(Entry)) ELSE running[c]]
        /\ AfterEntry
     \/ /\ IF Startable(Entry.cpu) THEN Faulty ELSE Fail
        /\ UNCHANGED <<running, EarlyHandoff, CpuIndex, CpuIndexEarlyHandoff,
                       PartitionNum>>
  /\ UNCHANGED <<handoffUnchanged, runEntry, errorStatus, wdt, r5usage>>

(***************************************************************************)
(* The running CPU's entry: a 32-bit application is refused.               *)
(***************************************************************************)
OwnEntry ==
  /\ pc = "CPU" /\ MoreEntries /\ Eligible /\ Entry.cpu = ProcessorID
  /\ runEntry' = CpuIndex + 1
  /\ IF Entry.aa32
     THEN Fail /\ UNCHANGED <<EarlyHandoff, CpuIndex, CpuIndexEarlyHandoff, PartitionNum>>
     ELSE AfterEntry
  /\ UNCHANGED <<handoffUnchanged, errorStatus, running, wdt, r5usage>>

(***************************************************************************)
(* The end: the watchdog is stopped and the FSBL jumps, or waits for an    *)
(* event when no entry was its own.                                        *)
(***************************************************************************)
StopWdt == wdt' = (wdt /\ MasterOnly)
HandoffExit ==
  /\ pc = "CPU" /\ ~MoreEntries
  /\ errorStatus' = "COMPLETED"
  /\ StopWdt
  /\ IF runEntry # 0
     THEN /\ running' = [running EXCEPT ![ProcessorID] =
                           CodeAt(<<2, FsblInstance.handoff[runEntry].exec>>)]
          /\ Goto("DONE")
     ELSE Goto("NOHANDOFF") /\ UNCHANGED running
  /\ UNCHANGED <<handoffUnchanged, PartitionNum, EarlyHandoff, CpuIndex,
                 CpuIndexEarlyHandoff, runEntry, r5usage>>
=============================================================================
