------------------------------ MODULE LogProofs ------------------------------
(***************************************************************************)
(* What the code relies on and never checks: the room in the event log,    *)
(* and that the log it adds to was begun in this boot.                     *)
(***************************************************************************)
EXTENDS FsblProofs

(***************************************************************************)
(* How far the log may have grown.  A boot records the ROM and its two     *)
(* header events, the FSBL once for each device the header tables are read *)
(* from, each label at most once and, for each partition passed, at most   *)
(* one bitstream.  The first three add up to 388 bytes; PartBytes[k] are   *)
(* those of the labels before the k-th.                                    *)
(*                                                                         *)
(* A boot starts with an empty log: the boot ROM loads the data section    *)
(* anew, and a restart of the APU alone, which does not, restores the copy *)
(* that was made before the first event.                                   *)
(***************************************************************************)
PartBytes == <<0, 71, 154, 227, 300>>
BeforeEvent == {"HEADER", "COPY", "LOAD", "CHECK", "PL", "FINISH"}
AfterEvent == {"PMUFW", "FWWAIT", "NEXT", "HANDOFF", "CPU"}

FreshData ==
  log.ptr = 0 /\ log.partition = 1 /\ FsblInstance.sec = 0
RestoredData == resetReg.apu /\ ~resetReg.psOnly

LogInv ==
  /\ dup.log.ptr = 0 /\ dup.log.partition = 1 /\ dup.inst.sec = 0
  /\ resetReg.psOnly => pc \in {"STAGE1", "ROMSTOP"}
  /\ pc = "STAGE1" => FreshData \/ RestoredData
  /\ pc = "PRIMARY" =>
       log.ptr <= 246 /\ log.partition = 1 /\ FsblInstance.sec = 0
  /\ pc = "VALIDATE" =>
       log.partition = 1 /\ log.ptr <= (IF FsblInstance.sec = 0 THEN 246 ELSE 317)
  /\ pc = "SECONDARY" => log.partition = 1 /\ log.ptr <= 317
  /\ pc \in BeforeEvent =>
       log.ptr <= 388 + PartBytes[log.partition] + 76 * (PartitionNum - 1)
  /\ pc \in AfterEvent =>
       log.ptr <= 388 + PartBytes[log.partition] + 76 * PartitionNum
  /\ log.ptr <= 3044

-----------------------------------------------------------------------------
(***************************************************************************)
(* What the measurements add.                                              *)
(***************************************************************************)
LEMMA PartBytesBound ==
  ASSUME NEW k \in 1 .. 5
  PROVE  PartBytes[k] \in 0 .. 300
BY DEF PartBytes

\* An event of a partition has a known size in the log.
LEMMA EventSizes ==
  /\ EventSize("ROM") = 70 /\ EventSize("FSBL") = 71 /\ EventSize("BITSTREAM") = 76
  /\ EventSize("BL31") = 71 /\ EventSize("DTB") = 83 /\ EventSize("UBOOT") = 73
  /\ EventSize("OPTEE") = 73
BY DEF EventSize, EVENT2_HDR_SIZE, NameLen

\* How far each measurement moves the pointer of the log.
LEMMA MeasureSizes ==
  ASSUME NEW L \in Log, NEW c
  PROVE  /\ Tpm_Measure_Rom(L).ptr = L.ptr + 246
         /\ Tpm_Measure_Rom(L).partition = L.partition
         /\ Tpm_Measure_Pl(L, c).ptr = L.ptr + 76
         /\ Tpm_Measure_Pl(L, c).partition = L.partition
         /\ Tpm_Measure_Fsbl(L, c).ptr = L.ptr + 71
         /\ Tpm_Measure_Fsbl(L, c).partition = L.partition
<1>1. L.ptr \in Nat
  BY DEF Log
<1>2. \A M, label, pcr, x :
        /\ event_log_record(M, label, pcr, x).ptr = M.ptr + EventSize(label)
        /\ event_log_record(M, label, pcr, x).partition = M.partition
  BY DEF event_log_record, WriteAtPointer
<1>3. /\ event_log_write_header(L, NoContent).ptr = L.ptr + 176
      /\ event_log_write_header(L, NoContent).partition = L.partition
  BY <1>1 DEF event_log_write_header, WriteAtPointer, ID_EVENT_SIZE, LOC_EVENT_SIZE
<1>4. /\ Tpm_Measure_Rom(L).ptr = L.ptr + 246
      /\ Tpm_Measure_Rom(L).partition = L.partition
  BY <1>1, <1>2, <1>3, EventSizes DEF Tpm_Measure_Rom
<1>5. /\ Tpm_Measure_Pl(L, c).ptr = L.ptr + 76
      /\ Tpm_Measure_Pl(L, c).partition = L.partition
  BY <1>2, EventSizes DEF Tpm_Measure_Pl
<1>6. /\ Tpm_Measure_Fsbl(L, c).ptr = L.ptr + 71
      /\ Tpm_Measure_Fsbl(L, c).partition = L.partition
  BY <1>2, EventSizes DEF Tpm_Measure_Fsbl
<1> QED
  BY <1>4, <1>5, <1>6

\* The pointer moves with the count of measured partitions.
LEMMA PartitionSize ==
  ASSUME NEW L \in Log, NEW c \in Content
  PROVE  LET M == Tpm_Measure_Partition(L, c) IN
         /\ M.partition \in 1 .. 5
         /\ M.ptr - PartBytes[M.partition] = L.ptr - PartBytes[L.partition]
<1> DEFINE M == Tpm_Measure_Partition(L, c)
<1>1. L.ptr \in Nat /\ L.partition \in 1 .. 5
  BY DEF Log
<1>2. ASSUME NEW k \in 1 .. 4, L.partition = k
      PROVE  M.partition = k + 1 /\ M.ptr = L.ptr + EventSize(PartitionLabel[k])
  <2> DEFINE N == event_log_record(L, PartitionLabel[k], PartitionPcr[k], c)
  <2>1. M = [N EXCEPT !.partition = @ + 1]
    BY <1>2 DEF Tpm_Measure_Partition, PartitionLabel
  <2>2. PartitionLabel[k] \in Label /\ PartitionPcr[k] \in Nat
    BY DEF PartitionLabel, PartitionPcr, Label, NameLen
  <2>3. N \in Log /\ N.partition = k /\ N.ptr = L.ptr + EventSize(PartitionLabel[k])
    BY <1>2, <2>2, RecordType
  <2> HIDE DEF N, M
  <2> QED
    BY <2>1, <2>3 DEF Log
<1>3. CASE L.partition = 5
  BY <1>1, <1>3 DEF Tpm_Measure_Partition, PartitionLabel
<1>4. CASE L.partition \in 1 .. 4
  BY <1>1, <1>2, <1>4, EventSizes DEF PartBytes, PartitionLabel
<1> QED
  BY <1>1, <1>3, <1>4

-----------------------------------------------------------------------------
(***************************************************************************)
(* The actions that record nothing and leave the FSBL's data alone: the    *)
(* bound of the place they lead to is not below that of the one they leave.*)
(***************************************************************************)
LEMMA QuietLogInv ==
  ASSUME TypeInv, LogInv, UNCHANGED <<log, dup, resetReg>>,
         pc \notin {"STAGE1", "ROMSTOP"},
         pc' \notin {"STAGE1", "PRIMARY", "VALIDATE", "SECONDARY"},
         pc' \in BeforeEvent =>
           \/ pc \in BeforeEvent /\ PartitionNum' = PartitionNum
           \/ pc \in AfterEvent /\ PartitionNum' = PartitionNum + 1,
         pc' \in AfterEvent =>
           pc \in BeforeEvent \cup AfterEvent /\ PartitionNum' = PartitionNum
  PROVE  LogInv'
<1>1. /\ log.partition \in 1 .. 5 /\ log.ptr \in Nat
      /\ PartitionNum \in 0 .. 31
  BY DEF TypeInv, TypeOK, Log, PartitionIndex, XIH_MAX_PARTITIONS
<1>2. PartBytes[log.partition] \in 0 .. 300
  BY <1>1, PartBytesBound
<1> QED
  BY <1>1, <1>2 DEF LogInv, BeforeEvent, AfterEvent

\* Steps that leave the log alone.
LEMMA QuietStepsLogInv ==
  ASSUME TypeInv, LogInv,
         \/ PartitionHeaderValidation \/ PartitionCopy \/ DeviceCopy
         \/ PartitionValidation \/ PlValidation \/ CheckPmuFw \/ WaitForPmuFw
         \/ NextPartition \/ HandoffBegin \/ SkipEntry \/ ReleaseCpu \/ OwnEntry
         \/ HandoffExit \/ ErrorLockDown
  PROVE  LogInv'
<1> USE DEF Faulty, Refused, Unanswered, Fail, Goto, BeforeEvent, AfterEvent
<1>1. CASE PartitionHeaderValidation
  BY <1>1, QuietLogInv DEF PartitionHeaderValidation, NextAfterHeader, loadUnchanged, regVars
<1>2. CASE PartitionCopy
  BY <1>2, QuietLogInv DEF PartitionCopy, loadUnchanged, regVars
<1>3. CASE DeviceCopy
  BY <1>3, QuietLogInv DEF DeviceCopy, loadUnchanged, regVars
<1>4. CASE PartitionValidation
  BY <1>4, QuietLogInv DEF PartitionValidation, loadUnchanged, regVars
<1>5. CASE PlValidation
  BY <1>5, QuietLogInv DEF PlValidation, loadUnchanged, regVars
<1>6. CASE CheckPmuFw \/ WaitForPmuFw
  BY <1>6, QuietLogInv DEF CheckPmuFw, WaitForPmuFw, loadUnchanged, regVars
<1>7. CASE NextPartition
  BY <1>7, QuietLogInv DEF NextPartition, handoffUnchanged
<1>8. CASE HandoffBegin
  BY <1>8, QuietLogInv DEF HandoffBegin, handoffUnchanged
<1>9. ASSUME AfterEntry, pc = "CPU"
      PROVE  \/ pc' = "HEADER" /\ PartitionNum' = PartitionNum + 1
             \/ pc' \in {"HANDOFF", "CPU"} /\ PartitionNum' = PartitionNum
  BY <1>9 DEF AfterEntry
<1>10. CASE SkipEntry
  BY <1>9, <1>10, QuietLogInv DEF SkipEntry, handoffUnchanged
<1>11. CASE ReleaseCpu
  BY <1>9, <1>11, QuietLogInv DEF ReleaseCpu, handoffUnchanged
<1>12. CASE OwnEntry
  BY <1>9, <1>12, QuietLogInv DEF OwnEntry, handoffUnchanged
<1>13. CASE HandoffExit
  BY <1>13, QuietLogInv DEF HandoffExit, handoffUnchanged
<1>14. CASE ErrorLockDown
  BY <1>14, QuietLogInv DEF ErrorLockDown, dataVars
<1> QED
  BY <1>1, <1>2, <1>3, <1>4, <1>5, <1>6, <1>7, <1>8, <1>10, <1>11, <1>12, <1>13, <1>14

(***************************************************************************)
(* The actions that record events.                                         *)
(***************************************************************************)
LEMMA InitializeLogInv ==
  ASSUME TypeInv, LogInv, Initialize
  PROVE  LogInv'
<1> DEFINE reset == GetResetReason
           data == DataSection(reset)
<1>1. pc = "STAGE1" /\ log \in Log /\ dup.log \in Log
  BY DEF Initialize, TypeInv, TypeOK
<1>2. CASE reset = MASTER_ONLY_RESET
  <2>1. /\ data.log.ptr = 0 /\ data.log.partition = 1 /\ data.inst.sec = 0
        /\ data.log \in Log /\ dup' = dup
    BY <1>1, <1>2 DEF Initialize, DataSection, RestoreData, SaveData, LogInv, Log
  <2>2. ~resetReg.psOnly
    BY <1>2 DEF GetResetReason, PS_ONLY_RESET, MASTER_ONLY_RESET
  <2>3. /\ log' = Tpm_Measure_Rom(data.log) /\ pc' = "PRIMARY"
        /\ UNCHANGED resetReg
    BY <1>2 DEF Initialize, Goto
  <2>4. FsblInstance' = [data.inst EXCEPT !.reset = reset]
    BY DEF Initialize
  <2>5. data.inst \in Instance
    BY <1>2 DEF DataSection, RestoreData, TypeInv, TypeOK
  <2>6. FsblInstance'.sec = 0
    BY <2>1, <2>4, <2>5 DEF Instance
  <2> HIDE DEF data
  <2>7. log'.ptr = 246 /\ log'.partition = 1
    BY <2>1, <2>3, MeasureSizes
  <2> QED
    BY <2>1, <2>2, <2>3, <2>6, <2>7 DEF LogInv, BeforeEvent, AfterEvent
<1>3. CASE reset # MASTER_ONLY_RESET
  <2>1. FreshData
    BY <1>1, <1>3 DEF LogInv, GetResetReason, RestoredData
  <2>2. data.log = log /\ data.inst = FsblInstance
    BY <1>3 DEF DataSection
  <2>3. dup' = [inst |-> FsblInstance, log |-> log]
    BY <1>3 DEF Initialize, SaveData
  <2>4. dup'.log.ptr = 0 /\ dup'.log.partition = 1 /\ dup'.inst.sec = 0
    BY <2>1, <2>3 DEF FreshData
  <2>5. resetReg' = [resetReg EXCEPT !.psOnly = FALSE] \/
        resetReg' = [resetReg EXCEPT !.psOnly = FALSE, !.wdt = FALSE]
    BY <1>3 DEF Initialize, ResetValidation
  <2>6. ~resetReg'.psOnly
    BY <2>5 DEF TypeInv, TypeOK
  <2>7. FsblInstance' = [FsblInstance EXCEPT !.reset = reset]
    BY <2>2 DEF Initialize
  <2>8. FsblInstance'.sec = 0
    BY <2>1, <2>7 DEF FreshData, TypeInv, TypeOK, Instance
  <2>9. log'.ptr \in {0, 246} /\ log'.partition = 1
    BY <1>1, <1>3, <2>1, <2>2, MeasureSizes DEF Initialize, FreshData
  <2>10. pc' \in {"ERR", "INITHUNG", "PRIMARY"}
    BY <1>3 DEF Initialize, Refused, Fail, Goto
  <2> QED
    BY <2>4, <2>6, <2>8, <2>9, <2>10 DEF LogInv, BeforeEvent, AfterEvent
<1> QED
  BY <1>2, <1>3

\* The boot device stages.
LEMMA BootDeviceLogInv ==
  ASSUME TypeInv, LogInv, PrimaryBootDeviceInit \/ SecondaryBootDeviceInit
  PROVE  LogInv'
<1> USE DEF Faulty, Refused, Unanswered, Fail, Goto
<1>1. log.ptr \in Nat /\ PartBytes[1] = 0
  BY DEF TypeInv, TypeOK, Log, PartBytes
<1>2. CASE PrimaryBootDeviceInit
  <2>1. /\ pc = "PRIMARY" /\ pc' \in {"VALIDATE", "ERR", "HUNG", "HANDOFF"}
        /\ UNCHANGED <<dup, log, resetReg, FsblInstance, PartitionNum>>
    BY <1>2 DEF PrimaryBootDeviceInit, dataVars, regVars
  <2>2. PartitionNum \in Nat
    BY DEF TypeInv, TypeOK, PartitionIndex, XIH_MAX_PARTITIONS
  <2> QED
    BY <1>1, <2>1, <2>2 DEF LogInv, BeforeEvent, AfterEvent
<1>3. CASE SecondaryBootDeviceInit
  <2>1. pc = "SECONDARY" /\ UNCHANGED <<log, dup, resetReg>>
    BY <1>3 DEF SecondaryBootDeviceInit, regVars
  <2>2. \/ pc' = "HEADER" /\ PartitionNum' = 1
        \/ pc' \in {"ERR", "HUNG"}
        \/ pc' = "VALIDATE" /\ FsblInstance'.sec # 0
    BY <1>3
       DEF SecondaryBootDeviceInit, EnterStage3, XIH_IHT_PPD_SAME, XIH_IHT_PPD_USB,
           TypeInv, TypeOK, Instance
  <2> QED
    BY <1>1, <2>1, <2>2 DEF LogInv, BeforeEvent, AfterEvent
<1> QED
  BY <1>2, <1>3

\* XFsbl_ValidateHeader bounds the number of partitions.
LEMMA ValidateHeaderLogInv ==
  ASSUME TypeInv, LogInv, ValidateHeader
  PROVE  LogInv'
<1> USE DEF Faulty, Refused, Unanswered, Fail, Goto
<1>1. log \in Log /\ log.ptr \in Nat /\ PartBytes[1] = 0
  BY DEF TypeInv, TypeOK, Log, PartBytes
<1>2. pc = "VALIDATE" /\ UNCHANGED <<dup, resetReg>>
  BY DEF ValidateHeader, regVars
<1>3. CASE MeasureFsbl(ImageToValidate)
  <2>1. log'.ptr = log.ptr + 71 /\ log'.partition = log.partition
    BY <1>1, <1>3, MeasureSizes DEF MeasureFsbl
  <2>2. \/ FsblInstance.sec = 0 /\ pc' = "SECONDARY"
        \/ FsblInstance.sec # 0 /\ pc' = "HEADER" /\ PartitionNum' = 1
        \/ pc' \in {"ERR", "HUNG"}
    BY DEF ValidateHeader, EnterStage3, ShaAsserts
  <2> QED
    BY <1>1, <1>2, <2>1, <2>2 DEF LogInv, BeforeEvent, AfterEvent
<1>4. CASE ~MeasureFsbl(ImageToValidate)
  <2>1. log' = log /\ pc' \in {"ERR", "HUNG"}
    BY <1>4 DEF ValidateHeader, ShaAsserts
  <2> QED
    BY <1>2, <2>1 DEF LogInv, BeforeEvent, AfterEvent
<1> QED
  BY <1>3, <1>4

\* Loading the PL records no more than its partition may.
LEMMA PlLoadLogInv ==
  ASSUME TypeInv, LogInv, PlLoad
  PROVE  LogInv'
<1> USE DEF Faulty, Refused, Unanswered, Fail, Goto
<1>1. /\ log \in Log /\ log.ptr \in Nat /\ log.partition \in 1 .. 5
      /\ PartitionNum \in 0 .. 31
  BY DEF TypeInv, TypeOK, Log, PartitionIndex, XIH_MAX_PARTITIONS
<1>2. PartBytes[log.partition] \in 0 .. 300
  BY <1>1, PartBytesBound
<1>3. /\ pc = "PL" /\ pc' \in {"PMUFW", "ERR", "HUNG"}
      /\ UNCHANGED <<dup, resetReg, PartitionNum>>
  BY DEF PlLoad, loadUnchanged, regVars
<1>4. /\ log'.ptr \in {log.ptr, log.ptr + 76}
      /\ log'.partition = log.partition
  <2>1. log' = log \/ \E c : log' = Tpm_Measure_Pl(log, c)
    BY DEF PlLoad, MeasurePl, EventForPl
  <2> QED
    BY <1>1, <2>1, MeasureSizes
<1>5. log.ptr <= 388 + PartBytes[log.partition] + 76 * (PartitionNum - 1)
  BY <1>3 DEF LogInv, BeforeEvent
<1>6. /\ log'.ptr <= 388 + PartBytes[log.partition] + 76 * PartitionNum
      /\ log'.ptr <= 3044
  BY ONLY <1>1, <1>2, <1>4, <1>5
<1> QED
  BY <1>3, <1>4, <1>6 DEF LogInv, BeforeEvent, AfterEvent

\* Measuring a partition records no more than its partition may.
LEMMA MeasureLogInv ==
  ASSUME TypeInv, LogInv, MeasurePartition
  PROVE  LogInv'
<1>1. /\ log \in Log /\ log.ptr \in Nat /\ log.partition \in 1 .. 5
      /\ PartitionNum \in 0 .. 31
  BY DEF TypeInv, TypeOK, Log, PartitionIndex, XIH_MAX_PARTITIONS
<1>2. /\ pc = "FINISH" /\ pc' \in {"PMUFW", "HUNG"}
      /\ UNCHANGED <<dup, resetReg, PartitionNum>>
      /\ log' = log \/ \E c \in Digests(LoadedBytes) : log' = Tpm_Measure_Partition(log, c)
  BY DEF MeasurePartition, ShaAsserts, loadUnchanged, regVars, Goto
<1>8. Digests(LoadedBytes) \subseteq Content
  BY BytesTypes, DigestTypes
<1>3. /\ log'.partition \in 1 .. 5
      /\ log'.ptr - PartBytes[log'.partition] = log.ptr - PartBytes[log.partition]
  BY <1>1, <1>2, <1>8, PartitionSize
<1>4. log' \in Log
  BY <1>1, <1>2, <1>8, MeasureTypes
<1>5. /\ log'.ptr \in Nat
      /\ PartBytes[log.partition] \in 0 .. 300 /\ PartBytes[log'.partition] \in 0 .. 300
  BY <1>1, <1>3, <1>4, PartBytesBound DEF Log
<1>6. log.ptr <= 388 + PartBytes[log.partition] + 76 * (PartitionNum - 1)
  BY <1>2 DEF LogInv, BeforeEvent
<1>7. log'.ptr <= 388 + PartBytes[log'.partition] + 76 * (PartitionNum - 1)
  <2> DEFINE a == PartBytes[log.partition]
             b == PartBytes[log'.partition]
             x == log.ptr
             y == log'.ptr
             k == PartitionNum
  <2>1. a \in Int /\ b \in Int /\ x \in Int /\ y \in Int /\ k \in Int
    BY <1>1, <1>5
  <2>2. y - b = x - a /\ x <= 388 + a + 76 * (k - 1)
    BY <1>3, <1>6
  <2> SUFFICES y <= 388 + b + 76 * (k - 1)
    OBVIOUS
  <2> HIDE DEF a, b, x, y, k
  <2> QED
    BY <2>1, <2>2
<1> QED
  BY <1>1, <1>2, <1>5, <1>7 DEF LogInv, BeforeEvent, AfterEvent

\* A load of the FSBL starts an empty log, an APU reset keeps it.
LEMMA ResetLogInv ==
  ASSUME TypeInv, LogInv, Reset
  PROVE  LogInv'
<1>1. CASE RomLoadsFsbl
  <2>1. /\ log'.ptr = 0 /\ log'.partition = 1 /\ FsblInstance'.sec = 0
        /\ dup' = dup /\ pc' \in {"STAGE1", "ROMSTOP"}
    BY <1>1 DEF RomLoadsFsbl, InitialLog, InitialInstance, Goto
  <2> QED
    BY <2>1 DEF LogInv, FreshData, BeforeEvent, AfterEvent
<1>2. CASE ApuOnlyReset
  <2>1. /\ pc = "DONE" /\ pc' = "STAGE1" /\ UNCHANGED <<log, dup>>
        /\ resetReg' = [resetReg EXCEPT !.apu = TRUE]
    BY <1>2 DEF ApuOnlyReset, MayRestart, Goto, dataVars
  <2>2. ~resetReg.psOnly
    BY <2>1 DEF LogInv
  <2>3. resetReg'.apu /\ ~resetReg'.psOnly
    BY <2>1, <2>2 DEF TypeInv, TypeOK
  <2> QED
    BY <2>1, <2>3 DEF LogInv, RestoredData, BeforeEvent, AfterEvent
<1> QED
  BY <1>1, <1>2
     DEF Reset, SoftReset, WdtExpire, SoftwareReset, PsOnlyReset, SystemReset

\* The PMU, and steps that change nothing.
LEMMA OtherLogInv ==
  ASSUME LogInv, PmuAnswers \/ PmuDies \/ UNCHANGED vars
  PROVE  LogInv'
<1>1. UNCHANGED <<pc, PartitionNum, log, dup, FsblInstance, resetReg>>
  BY DEF PmuAnswers, PmuDies, loadUnchanged, regVars, vars, mainVars, dataVars
<1> QED
  BY <1>1 DEF LogInv, FreshData, RestoredData

LEMMA InitLogInv == Init => LogInv
BY DEF Init, LogInv, FreshData, InitialLog, InitialInstance, BeforeEvent, AfterEvent

LEMMA LogInvStep == TypeInv /\ LogInv /\ [Next]_vars => LogInv'
BY QuietStepsLogInv, InitializeLogInv, BootDeviceLogInv, ValidateHeaderLogInv,
   PlLoadLogInv, MeasureLogInv, ResetLogInv, OtherLogInv
   DEF Next, FsblStep

(***************************************************************************)
(* The event log never runs past its buffer, whatever the images hold and  *)
(* however often the FSBL is restarted, although event_log_record does not *)
(* look: "There must be room for storing this new event".                  *)
(***************************************************************************)
THEOREM LogAlwaysFits == Spec => []LogFits
<1>1. Init => TypeInv /\ LogInv
  BY InitTypeInv, InitLogInv
<1>2. TypeInv /\ [Next]_vars => TypeInv'
  BY TypeInvStep
<1>3. TypeInv /\ LogInv /\ [Next]_vars => LogInv'
  BY LogInvStep
<1>4. TypeInv /\ LogInv => LogFits
  BY DEF TypeInv, TypeOK, Log, LogInv, LogFits, EVENT_LOG_END
<1> QED
  BY <1>1, <1>2, <1>3, <1>4, PTL DEF Spec

-----------------------------------------------------------------------------
(***************************************************************************)
(* The form of a log that was begun: a header and the ROM event at its     *)
(* start and nowhere else, each label below the counter once, and none     *)
(* from the counter on.                                                    *)
(***************************************************************************)
Labelled(L, label) == {k \in DOMAIN L.buf : L.buf[k].name = label}
Single(S) == \E k : S = {k}
Formed(L) ==
  /\ Len(L.buf) >= 3
  /\ Labelled(L, "SPEC_ID") = {1}
  /\ Labelled(L, "LOCALITY") = {2}
  /\ Labelled(L, "ROM") = {3}
  /\ \A i \in 1 .. 4 :
       /\ i < L.partition => Single(Labelled(L, PartitionLabel[i]))
       /\ i >= L.partition => Labelled(L, PartitionLabel[i]) = {}

(***************************************************************************)
(* A log is begun before anything else is recorded: from the end of stage  *)
(* 1 to the handoff the pointer is past the header.                        *)
(***************************************************************************)
Recording == {"PRIMARY", "VALIDATE", "SECONDARY"} \cup BeforeEvent \cup AfterEvent
FormInv ==
  /\ log.ptr # 0 => Formed(log)
  /\ pc \in Recording => log.ptr # 0

-----------------------------------------------------------------------------
(***************************************************************************)
(* event_log_record adds one event to its label.                           *)
(***************************************************************************)
LEMMA RecordLabels ==
  ASSUME NEW L \in Log, L.ptr # 0, NEW label \in Label, NEW pcr, NEW c
  PROVE  LET M == event_log_record(L, label, pcr, c) IN
         /\ Len(M.buf) = Len(L.buf) + 1
         /\ M.partition = L.partition /\ M.ptr \in Nat \ {0}
         /\ Labelled(M, label) = Labelled(L, label) \cup {Len(L.buf) + 1}
         /\ \A other : other # label => Labelled(M, other) = Labelled(L, other)
<1> DEFINE M == event_log_record(L, label, pcr, c)
           e == [name |-> label, pcr |-> pcr, data |-> c, size |-> EventSize(label)]
<1>1. L.buf \in Seq(Event) /\ L.ptr \in Nat
  BY DEF Log
<1>2. EventSize(label) \in Nat
  BY DEF EventSize, EVENT2_HDR_SIZE, NameLen, Label
<1>3. M.buf = L.buf \o << e >> /\ M.partition = L.partition /\ M.ptr = L.ptr + EventSize(label)
  BY DEF event_log_record, WriteAtPointer, Written
<1>4. e.name = label
  OBVIOUS
<1> HIDE DEF M, e
<1>5. /\ Len(M.buf) = Len(L.buf) + 1 /\ DOMAIN M.buf = 1 .. (Len(L.buf) + 1)
      /\ \A k \in 1 .. Len(L.buf) : M.buf[k] = L.buf[k]
      /\ M.buf[Len(L.buf) + 1] = e
  BY <1>1, <1>3
<1>6. DOMAIN L.buf = 1 .. Len(L.buf) /\ Len(L.buf) \in Nat
  BY <1>1
<1>7. Labelled(M, label) = Labelled(L, label) \cup {Len(L.buf) + 1}
  BY <1>4, <1>5, <1>6 DEF Labelled
<1>8. ASSUME NEW other, other # label
      PROVE  Labelled(M, other) = Labelled(L, other)
  BY <1>4, <1>5, <1>6, <1>8 DEF Labelled
<1>9. M.ptr \in Nat \ {0}
  BY <1>1, <1>2, <1>3
<1> QED
  BY <1>3, <1>5, <1>7, <1>8, <1>9 DEF M

(***************************************************************************)
(* Events of the FSBL and of a bitstream leave the form alone.             *)
(***************************************************************************)
LEMMA RecordForm ==
  ASSUME NEW L \in Log, L.ptr # 0, Formed(L), NEW label \in {"FSBL", "BITSTREAM"},
         NEW pcr, NEW c
  PROVE  /\ Formed(event_log_record(L, label, pcr, c))
         /\ event_log_record(L, label, pcr, c).ptr # 0
<1> DEFINE M == event_log_record(L, label, pcr, c)
<1>1. label \in Label
  BY DEF Label, NameLen
<1>2. /\ Len(M.buf) = Len(L.buf) + 1 /\ M.partition = L.partition /\ M.ptr # 0
      /\ \A other : other # label => Labelled(M, other) = Labelled(L, other)
  BY <1>1, RecordLabels
<1>3. Len(L.buf) \in Nat
  BY DEF Log
<1>4. \A i \in 1 .. 4 : PartitionLabel[i] # label
  BY DEF PartitionLabel
<1> HIDE DEF M
<1>5. \A i \in 1 .. 4 :
        Labelled(M, PartitionLabel[i]) = Labelled(L, PartitionLabel[i])
  BY <1>2, <1>4
<1>6. /\ Labelled(M, "SPEC_ID") = {1} /\ Labelled(M, "LOCALITY") = {2}
      /\ Labelled(M, "ROM") = {3}
  BY <1>2 DEF Formed
<1>7. Formed(M)
  BY <1>2, <1>3, <1>5, <1>6 DEF Formed
<1> QED
  BY <1>2, <1>7 DEF M

(***************************************************************************)
(* Tpm_Measure_Partition uses the label of its counter, and moves it.      *)
(***************************************************************************)
LEMMA PartitionForm ==
  ASSUME NEW L \in Log, L.ptr # 0, Formed(L), NEW c
  PROVE  Formed(Tpm_Measure_Partition(L, c)) /\ Tpm_Measure_Partition(L, c).ptr # 0
<1> DEFINE M == Tpm_Measure_Partition(L, c)
<1>1. L.partition \in 1 .. 5 /\ Len(L.buf) \in Nat
  BY DEF Log
<1>2. CASE L.partition = 5
  BY <1>2 DEF Tpm_Measure_Partition, PartitionLabel
<1>3. CASE L.partition \in 1 .. 4
  <2> DEFINE n == L.partition
             label == PartitionLabel[n]
             N == event_log_record(L, label, PartitionPcr[n], c)
  <2>1. M = [N EXCEPT !.partition = @ + 1]
    BY <1>3 DEF Tpm_Measure_Partition, PartitionLabel
  <2>2. label \in Label /\ label \notin {"SPEC_ID", "LOCALITY", "ROM"}
    BY <1>3 DEF PartitionLabel, Label, NameLen
  <2>3. \A i \in 1 .. 4 : i # n => PartitionLabel[i] # label
    BY <1>3 DEF PartitionLabel
  <2>4. /\ Len(N.buf) = Len(L.buf) + 1 /\ N.partition = n /\ N.ptr \in Nat \ {0}
        /\ Labelled(N, label) = Labelled(L, label) \cup {Len(L.buf) + 1}
        /\ \A other : other # label => Labelled(N, other) = Labelled(L, other)
    BY <2>2, RecordLabels
  <2>5. N = [buf |-> N.buf, ptr |-> N.ptr, partition |-> N.partition]
    BY DEF event_log_record, WriteAtPointer
  <2> HIDE DEF N, M, label
  <2>6. M.buf = N.buf /\ M.ptr = N.ptr /\ M.partition = n + 1
    BY <2>1, <2>4, <2>5
  <2>7. \A x : Labelled(M, x) = Labelled(N, x)
    BY <2>6 DEF Labelled
  <2>8. Labelled(L, label) = {}
    BY <1>1, <1>3 DEF Formed, label
  <2>9. Labelled(M, label) = {Len(L.buf) + 1} /\ Single(Labelled(M, label))
    BY <2>4, <2>7, <2>8 DEF Single
  <2>10. ASSUME NEW i \in 1 .. 4
         PROVE  /\ i < n + 1 => Single(Labelled(M, PartitionLabel[i]))
                /\ i >= n + 1 => Labelled(M, PartitionLabel[i]) = {}
    <3>1. CASE i = n
      <4>1. ~(i >= n + 1)
        BY <1>3, <3>1
      <4> QED
        BY <2>9, <3>1, <4>1 DEF label
    <3>2. CASE i # n
      <4>1. Labelled(M, PartitionLabel[i]) = Labelled(L, PartitionLabel[i])
        BY <2>3, <2>4, <2>7, <3>2
      <4>2. (i < n + 1 => i < n) /\ (i >= n + 1 => i >= n)
        BY <1>3, <3>2
      <4> QED
        BY <4>1, <4>2 DEF Formed
    <3> QED
      BY <3>1, <3>2
  <2>11. /\ Labelled(M, "SPEC_ID") = {1} /\ Labelled(M, "LOCALITY") = {2}
         /\ Labelled(M, "ROM") = {3} /\ Len(M.buf) >= 3
    BY <1>1, <2>2, <2>4, <2>6, <2>7 DEF Formed
  <2>12. Formed(M)
    BY <2>6, <2>10, <2>11 DEF Formed
  <2> QED
    BY <2>4, <2>6, <2>12 DEF M
<1> QED
  BY <1>1, <1>2, <1>3

(***************************************************************************)
(* Tpm_Measure_Rom begins a log where the pointer is at the start.         *)
(***************************************************************************)
LEMMA RomForm ==
  ASSUME NEW L \in Log, L.ptr = 0, L.partition = 1
  PROVE  Formed(Tpm_Measure_Rom(L)) /\ Tpm_Measure_Rom(L).ptr # 0
<1> DEFINE H == event_log_write_header(L, NoContent)
           M == Tpm_Measure_Rom(L)
           id == [name |-> "SPEC_ID", pcr |-> 0, data |-> NoContent,
                  size |-> ID_EVENT_SIZE]
           loc == [name |-> "LOCALITY", pcr |-> 0, data |-> NoContent,
                   size |-> LOC_EVENT_SIZE]
           rom == [name |-> "ROM", pcr |-> 0, data |-> RomCode,
                   size |-> EventSize("ROM")]
<1>1. H.buf = << >> \o << id, loc >> /\ H.partition = 1 /\ H.ptr = 176
  BY DEF event_log_write_header, WriteAtPointer, Written, ID_EVENT_SIZE, LOC_EVENT_SIZE
<1>2. M.buf = H.buf \o << rom >> /\ M.partition = H.partition
      /\ M.ptr = H.ptr + EventSize("ROM")
  BY <1>1 DEF Tpm_Measure_Rom, event_log_record, WriteAtPointer, Written
<1>3. id.name = "SPEC_ID" /\ loc.name = "LOCALITY" /\ rom.name = "ROM"
  OBVIOUS
<1> HIDE DEF H, M, id, loc, rom
<1>4. M.partition = 1 /\ M.ptr # 0
  BY <1>1, <1>2, EventSizes
<1>5. /\ Len(M.buf) = 3 /\ DOMAIN M.buf = 1 .. 3
      /\ M.buf[1] = id /\ M.buf[2] = loc /\ M.buf[3] = rom
  BY <1>1, <1>2
<1>6. \A i \in 1 .. 4 : PartitionLabel[i] \notin {"SPEC_ID", "LOCALITY", "ROM"}
  BY DEF PartitionLabel
<1>7. \A k \in DOMAIN M.buf : M.buf[k].name \in {"SPEC_ID", "LOCALITY", "ROM"}
  BY <1>3, <1>5
<1>8. \A i \in 1 .. 4 : Labelled(M, PartitionLabel[i]) = {}
  BY <1>6, <1>7 DEF Labelled
<1>9. /\ Labelled(M, "SPEC_ID") = {1} /\ Labelled(M, "LOCALITY") = {2}
      /\ Labelled(M, "ROM") = {3}
  BY <1>3, <1>5 DEF Labelled
<1> QED
  BY <1>4, <1>5, <1>8, <1>9 DEF Formed, M

-----------------------------------------------------------------------------
(***************************************************************************)
(* The actions that record nothing.                                        *)
(***************************************************************************)
LEMMA QuietFormInv ==
  ASSUME FormInv, log' = log, pc' \in Recording => pc \in Recording
  PROVE  FormInv'
<1>1. ASSUME Formed(log)
      PROVE  Formed(log)'
  <2>1. \A label : Labelled(log, label)' = Labelled(log, label)
    BY DEF Labelled
  <2>2. \A i \in 1 .. 4 : Single(Labelled(log, PartitionLabel[i]))
                         = Single(Labelled(log, PartitionLabel[i]))'
    BY DEF Labelled, Single, PartitionLabel
  <2> QED
    BY <1>1, <2>1, <2>2 DEF Formed, PartitionLabel
<1> QED
  BY <1>1 DEF FormInv

LEMMA QuietStepsFormInv ==
  ASSUME FormInv,
         \/ PrimaryBootDeviceInit \/ SecondaryBootDeviceInit
         \/ PartitionHeaderValidation \/ PartitionCopy \/ DeviceCopy
         \/ PartitionValidation \/ PlValidation \/ CheckPmuFw \/ WaitForPmuFw
         \/ NextPartition \/ HandoffBegin \/ SkipEntry \/ ReleaseCpu \/ OwnEntry
         \/ HandoffExit \/ ErrorLockDown \/ PmuAnswers \/ PmuDies
  PROVE  FormInv'
<1>1. log' = log
  BY DEF PrimaryBootDeviceInit, SecondaryBootDeviceInit, PartitionHeaderValidation,
         PartitionCopy, DeviceCopy, PartitionValidation, PlValidation, CheckPmuFw,
         WaitForPmuFw, NextPartition, HandoffBegin, SkipEntry, ReleaseCpu, OwnEntry,
         HandoffExit, ErrorLockDown, PmuAnswers, PmuDies, dataVars, handoffUnchanged
<1>2. pc' = pc \/ pc \in Recording \/ pc' \notin Recording
  BY DEF PrimaryBootDeviceInit, SecondaryBootDeviceInit, PartitionHeaderValidation,
         PartitionCopy, DeviceCopy, PartitionValidation, PlValidation, CheckPmuFw,
         WaitForPmuFw, NextPartition, HandoffBegin, SkipEntry, ReleaseCpu, OwnEntry,
         HandoffExit, ErrorLockDown, PmuAnswers, PmuDies, Goto, Recording, BeforeEvent,
         AfterEvent
<1> QED
  BY <1>1, <1>2, QuietFormInv

(***************************************************************************)
(* The actions that record.                                                *)
(***************************************************************************)
LEMMA InitializeFormInv ==
  ASSUME TypeInv, LogInv, FormInv, Initialize
  PROVE  FormInv'
<1> DEFINE data == DataSection(GetResetReason)
<1>1. log \in Log /\ dup.log \in Log /\ pc = "STAGE1"
  BY DEF Initialize, TypeInv, TypeOK
<1>2. data.log \in Log /\ data.log.ptr = 0 /\ data.log.partition = 1
  <2>1. CASE GetResetReason = MASTER_ONLY_RESET
    BY <1>1, <2>1 DEF DataSection, RestoreData, LogInv, Log
  <2>2. CASE GetResetReason # MASTER_ONLY_RESET
    BY <1>1, <2>2 DEF DataSection, LogInv, FreshData, RestoredData, GetResetReason
  <2> QED
    BY <2>1, <2>2
<1> HIDE DEF data
<1>3. \/ log' = Tpm_Measure_Rom(data.log)
      \/ log' = data.log /\ pc' \in {"ERR", "INITHUNG"}
  BY DEF Initialize, Refused, Fail, Goto, data
<1>4. CASE log' = Tpm_Measure_Rom(data.log)
  <2>1. Formed(log') /\ log'.ptr # 0
    BY <1>2, <1>4, RomForm
  <2>2. Formed(log)'
    BY <2>1 DEF Formed, Labelled, Single, PartitionLabel
  <2> QED
    BY <2>1, <2>2 DEF FormInv
<1>5. CASE log' = data.log /\ pc' \in {"ERR", "INITHUNG"}
  BY <1>2, <1>5 DEF FormInv, Recording, BeforeEvent, AfterEvent
<1> QED
  BY <1>3, <1>4, <1>5

LEMMA RecordFormInv ==
  ASSUME TypeInv, FormInv, ValidateHeader \/ PlLoad \/ MeasurePartition
  PROVE  FormInv'
<1>1. pc \in Recording
  BY DEF ValidateHeader, PlLoad, MeasurePartition, Recording, BeforeEvent
<1>2. log \in Log /\ log.ptr # 0 /\ Formed(log)
  BY <1>1 DEF TypeInv, TypeOK, FormInv
<1>3. \/ log' = log
      \/ \E c : log' = Tpm_Measure_Fsbl(log, c)
      \/ \E c : log' = Tpm_Measure_Pl(log, c)
      \/ \E c : log' = Tpm_Measure_Partition(log, c)
  BY DEF ValidateHeader, MeasureFsbl, PlLoad, MeasurePl, EventForPl,
         MeasurePartition
<1>4. Formed(log') /\ log'.ptr # 0
  BY <1>2, <1>3, RecordForm, PartitionForm DEF Tpm_Measure_Fsbl, Tpm_Measure_Pl
<1>5. Formed(log)'
  BY <1>4 DEF Formed, Labelled, Single, PartitionLabel
<1> QED
  BY <1>4, <1>5 DEF FormInv

(***************************************************************************)
(* A reset leads to stage 1, with the pointer at the start or, when the    *)
(* APU alone restarts, with the log as it is.                              *)
(***************************************************************************)
LEMMA ResetFormInv ==
  ASSUME FormInv, Reset
  PROVE  FormInv'
<1>1. CASE RomLoadsFsbl
  <2>1. log'.ptr = 0 /\ pc' \in {"STAGE1", "ROMSTOP"}
    BY <1>1 DEF RomLoadsFsbl, InitialLog, Goto
  <2> QED
    BY <2>1 DEF FormInv, Recording, BeforeEvent, AfterEvent
<1>2. CASE ApuOnlyReset
  BY <1>2, QuietFormInv
     DEF ApuOnlyReset, Goto, dataVars, Recording, BeforeEvent, AfterEvent
<1> QED
  BY <1>1, <1>2
     DEF Reset, SoftReset, WdtExpire, SoftwareReset, PsOnlyReset, SystemReset

LEMMA FormInvStep == TypeInv /\ LogInv /\ FormInv /\ [Next]_vars => FormInv'
<1>1. FormInv /\ UNCHANGED vars => FormInv'
  BY QuietFormInv DEF vars, mainVars, dataVars
<1> QED
  BY <1>1, QuietStepsFormInv, InitializeFormInv, RecordFormInv, ResetFormInv
     DEF Next, FsblStep

(***************************************************************************)
(* After any sequence of boots, resets and failures the log in memory has  *)
(* one header and one ROM event, at its start, and the counter that names  *)
(* the partitions agrees with the events (Tpm_Measure_Rom,                 *)
(* Tpm_Measure_Partition, XFsbl_RestoreData).                              *)
(***************************************************************************)
THEOREM LogKeepsItsForm == Spec => []LogWellFormed
<1>1. Init => TypeInv /\ LogInv /\ FormInv
  <2> SUFFICES ASSUME Init PROVE FormInv
    BY InitTypeInv, InitLogInv
  <2> QED
    BY DEF Init, FormInv, InitialLog, Recording, BeforeEvent, AfterEvent
<1>2. TypeInv /\ [Next]_vars => TypeInv'
  BY TypeInvStep
<1>3. TypeInv /\ LogInv /\ [Next]_vars => LogInv'
  BY LogInvStep
<1>4. TypeInv /\ LogInv /\ FormInv /\ [Next]_vars => FormInv'
  BY FormInvStep
<1>5. TypeInv /\ FormInv => LogWellFormed
  <2> SUFFICES ASSUME TypeInv, FormInv, log.ptr # 0 PROVE LogWellFormed
    BY DEF LogWellFormed, Started
  <2>1. Formed(log) /\ log.partition \in 1 .. 5
    BY DEF FormInv, TypeInv, TypeOK, Log
  <2>2. \A label : EventsNamed({label}) = Labelled(log, label)
    BY DEF EventsNamed, Labelled
  <2>3. ASSUME NEW i \in 1 .. 4
        PROVE  Cardinality(EventsNamed({PartitionLabel[i]})) =
                 (IF i < log.partition THEN 1 ELSE 0)
    <3>1. CASE i < log.partition
      <4>1. PICK k : Labelled(log, PartitionLabel[i]) = {k}
        BY <2>1, <3>1 DEF Formed, Single
      <4>2. Cardinality({k}) = 1
        BY FS_Singleton
      <4> QED
        BY <2>2, <3>1, <4>1, <4>2
    <3>2. CASE i >= log.partition
      <4>1. Labelled(log, PartitionLabel[i]) = {}
        BY <2>1, <3>2 DEF Formed
      <4>2. Cardinality({}) = 0
        BY FS_EmptySet
      <4>3. ~(i < log.partition)
        BY <2>1, <3>2
      <4> QED
        BY <2>2, <4>1, <4>2, <4>3
    <3> QED
      BY <2>1, <3>1, <3>2
  <2>4. DOMAIN PartitionLabel = 1 .. 4
    BY DEF PartitionLabel
  <2> QED
    BY <2>1, <2>2, <2>3, <2>4 DEF Formed, LogWellFormed
<1> QED
  BY <1>1, <1>2, <1>3, <1>4, <1>5, PTL DEF Spec

-----------------------------------------------------------------------------
(***************************************************************************)
(* Which event of the FSBL is the last one, and of what.  While the        *)
(* partitions are loaded it is of the memory that holds the headers in     *)
(* use, or of zeros: a table that names a second device leaves the headers *)
(* unread, and reading that device's records one event more.               *)
(***************************************************************************)
LastFsbl(L, c) ==
  \E k \in Labelled(L, "FSBL") :
     L.buf[k].data = c /\ \A j \in Labelled(L, "FSBL") : j <= k
Loading == {"SECONDARY", "DONE"} \cup BeforeEvent \cup AfterEvent
TablesInv ==
  BootMode = "FLASH" =>
    /\ pc \in {"HANDOFF", "CPU", "DONE"} => FsblInstance.hdr
    /\ pc \in Loading /\ FsblInstance.hdr =>
         \E d \in Digests(FsblMemory(FsblInstance.img, FsblInstance.reset)) :
           LastFsbl(log, d)

(***************************************************************************)
(* An event of the FSBL becomes the last one, any other leaves it the last *)
(* one (event_log_record).                                                 *)
(***************************************************************************)
LEMMA RecordLast ==
  ASSUME NEW L \in Log, L.ptr # 0, NEW label \in Label, NEW pcr, NEW c
  PROVE  LET M == event_log_record(L, label, pcr, c) IN
         /\ label = "FSBL" => LastFsbl(M, c)
         /\ label # "FSBL" => \A d : LastFsbl(L, d) => LastFsbl(M, d)
<1> DEFINE M == event_log_record(L, label, pcr, c)
           e == [name |-> label, pcr |-> pcr, data |-> c, size |-> EventSize(label)]
<1>1. L.buf \in Seq(Event) /\ L.ptr \in Nat
  BY DEF Log
<1>2. M.buf = L.buf \o << e >>
  BY DEF event_log_record, WriteAtPointer, Written
<1>3. e.data = c
  OBVIOUS
<1>4. /\ Labelled(M, label) = Labelled(L, label) \cup {Len(L.buf) + 1}
      /\ \A other : other # label => Labelled(M, other) = Labelled(L, other)
  BY RecordLabels
<1> HIDE DEF M, e
<1>5. /\ \A k \in 1 .. Len(L.buf) : M.buf[k] = L.buf[k]
      /\ M.buf[Len(L.buf) + 1] = e
  BY <1>1, <1>2
<1>6. \A k \in Labelled(L, "FSBL") : k \in 1 .. Len(L.buf)
  BY <1>1 DEF Labelled
<1>7. Len(L.buf) \in Nat
  BY <1>1
<1>8. ASSUME label = "FSBL"
      PROVE  LastFsbl(M, c)
  <2>1. Labelled(M, "FSBL") = Labelled(L, "FSBL") \cup {Len(L.buf) + 1}
    BY <1>4, <1>8
  <2>2. \A j \in Labelled(M, "FSBL") : j <= Len(L.buf) + 1
    BY <1>6, <1>7, <2>1
  <2> QED
    BY <1>3, <1>5, <2>1, <2>2 DEF LastFsbl
<1>9. ASSUME label # "FSBL", NEW d, LastFsbl(L, d)
      PROVE  LastFsbl(M, d)
  <2>1. Labelled(M, "FSBL") = Labelled(L, "FSBL")
    BY <1>4, <1>9
  <2> QED
    BY <1>5, <1>6, <1>9, <2>1 DEF LastFsbl
<1> QED
  BY <1>8, <1>9 DEF M

(***************************************************************************)
(* A measured partition leaves the last event of the FSBL the last one.    *)
(***************************************************************************)
LEMMA PartitionLast ==
  ASSUME NEW L \in Log, L.ptr # 0, NEW c, NEW d, LastFsbl(L, d)
  PROVE  LastFsbl(Tpm_Measure_Partition(L, c), d)
<1>1. CASE L.partition \notin DOMAIN PartitionLabel
  BY <1>1 DEF Tpm_Measure_Partition
<1>2. CASE L.partition \in DOMAIN PartitionLabel
  <2> DEFINE label == PartitionLabel[L.partition]
             N == event_log_record(L, label, PartitionPcr[L.partition], c)
  <2>1. Tpm_Measure_Partition(L, c) = [N EXCEPT !.partition = @ + 1]
    BY <1>2 DEF Tpm_Measure_Partition
  <2>2. label \in Label /\ label # "FSBL"
    BY <1>2 DEF PartitionLabel, Label, NameLen
  <2>3. LastFsbl(N, d)
    BY <2>2, RecordLast
  <2>4. N = [buf |-> N.buf, ptr |-> N.ptr, partition |-> N.partition]
    BY DEF event_log_record, WriteAtPointer
  <2> HIDE DEF N
  <2>5. Tpm_Measure_Partition(L, c).buf = N.buf
    BY <2>1, <2>4
  <2> QED
    BY <2>3, <2>5 DEF LastFsbl, Labelled
<1> QED
  BY <1>1, <1>2

(***************************************************************************)
(* The steps that neither record nor touch what the event must be of.      *)
(***************************************************************************)
LEMMA QuietTablesInv ==
  ASSUME TablesInv, log' = log, BootMode' = BootMode,
         FsblInstance'.img = FsblInstance.img,
         FsblInstance'.hdr = FsblInstance.hdr,
         FsblInstance'.reset = FsblInstance.reset,
         pc' \in Loading => pc \in Loading,
         pc' \in {"HANDOFF", "CPU", "DONE"} /\ BootMode = "FLASH" =>
           FsblInstance.hdr
  PROVE  TablesInv'
<1> DEFINE S == Digests(FsblMemory(FsblInstance.img, FsblInstance.reset))
<1>1. S' = S
  BY DEF FsblMemory, Digests, NoDigest
<1>2. ASSUME NEW d, LastFsbl(log, d)
      PROVE  LastFsbl(log, d)'
  BY <1>2 DEF LastFsbl, Labelled
<1>3. (\E d \in S : LastFsbl(log, d)) => (\E d \in S : LastFsbl(log, d))'
  BY <1>1, <1>2
<1> HIDE DEF S
<1> QED
  BY <1>3 DEF TablesInv, S

LEMMA AddHandoffKeeps ==
  ASSUME TypeOK, NEW h, FsblInstance' = AddHandoff(h)
  PROVE  /\ FsblInstance'.img = FsblInstance.img
         /\ FsblInstance'.hdr = FsblInstance.hdr
         /\ FsblInstance'.reset = FsblInstance.reset
BY DEF AddHandoff, AppendHandoff, TypeOK, Instance

\* The steps between the measurements.
LEMMA QuietStepsTablesInv ==
  ASSUME TypeInv, TablesInv,
         \/ PrimaryBootDeviceInit \/ SecondaryBootDeviceInit
         \/ PartitionHeaderValidation \/ PartitionCopy \/ DeviceCopy
         \/ PartitionValidation \/ PlValidation \/ CheckPmuFw \/ WaitForPmuFw
         \/ NextPartition \/ HandoffBegin \/ SkipEntry \/ ReleaseCpu \/ OwnEntry
         \/ HandoffExit \/ ErrorLockDown \/ PmuAnswers \/ PmuDies
  PROVE  TablesInv'
<1> USE DEF Faulty, Refused, Unanswered, Fail, Goto
<1>1. TypeOK
  BY DEF TypeInv
<1>2. log' = log /\ BootMode' = BootMode
  BY DEF PrimaryBootDeviceInit, SecondaryBootDeviceInit, PartitionHeaderValidation,
         PartitionCopy, DeviceCopy, PartitionValidation, PlValidation, CheckPmuFw,
         WaitForPmuFw, NextPartition, HandoffBegin, SkipEntry, ReleaseCpu, OwnEntry,
         HandoffExit, ErrorLockDown, PmuAnswers, PmuDies, dataVars, handoffUnchanged,
         loadUnchanged, envVars
<1>3. /\ FsblInstance'.img = FsblInstance.img
      /\ FsblInstance'.hdr = FsblInstance.hdr
      /\ FsblInstance'.reset = FsblInstance.reset
  <2>1. CASE PartitionCopy
    <3>1. \/ FsblInstance' = FsblInstance
          \/ FsblInstance' = AddHandoff(Hdr)
          \/ FsblInstance' = [FsblInstance EXCEPT !.ecc = TcmEccInitStatus(DestCpu)]
      BY <2>1 DEF PartitionCopy, ConfigureMemory
    <3> QED
      BY <1>1, <3>1, AddHandoffKeeps DEF TypeOK, Instance
  <2>2. CASE SecondaryBootDeviceInit
    BY <1>1, <2>2 DEF SecondaryBootDeviceInit, TypeOK, Instance
  <2>3. CASE ~PartitionCopy /\ ~SecondaryBootDeviceInit
    BY <2>3 DEF PrimaryBootDeviceInit, PartitionHeaderValidation, DeviceCopy,
         PartitionValidation, PlValidation, CheckPmuFw, WaitForPmuFw, NextPartition,
         HandoffBegin, SkipEntry, ReleaseCpu, OwnEntry, HandoffExit, ErrorLockDown,
         PmuAnswers, PmuDies, dataVars, handoffUnchanged
  <2> QED
    BY <2>1, <2>2, <2>3
<1>4. /\ pc' \in Loading => pc \in Loading \/ BootMode # "FLASH"
      /\ pc' \in {"HANDOFF", "CPU", "DONE"} /\ BootMode = "FLASH" =>
           pc \in {"HANDOFF", "CPU"} \cup LoadingPcs \/ UNCHANGED pc
  <2> USE DEF Loading, BeforeEvent, AfterEvent, LoadingPcs
  <2>1. CASE PrimaryBootDeviceInit \/ SecondaryBootDeviceInit
    BY <2>1 DEF PrimaryBootDeviceInit, SecondaryBootDeviceInit, EnterStage3
  <2>2. CASE \/ PartitionHeaderValidation \/ PartitionCopy \/ DeviceCopy
             \/ PartitionValidation \/ PlValidation \/ CheckPmuFw \/ WaitForPmuFw
    BY <2>2 DEF PartitionHeaderValidation, NextAfterHeader, PartitionCopy, DeviceCopy,
         PartitionValidation, PlValidation, CheckPmuFw, WaitForPmuFw
  <2>3. CASE NextPartition \/ HandoffBegin \/ HandoffExit
    BY <2>3 DEF NextPartition, HandoffBegin, HandoffExit
  <2>4. CASE SkipEntry \/ ReleaseCpu \/ OwnEntry
    BY <2>4 DEF SkipEntry, ReleaseCpu, OwnEntry, AfterEntry
  <2>5. CASE ErrorLockDown
    BY <2>5 DEF ErrorLockDown
  <2>6. CASE PmuAnswers \/ PmuDies
    BY <2>6 DEF PmuAnswers, PmuDies
  <2> QED
    BY <2>1, <2>2, <2>3, <2>4, <2>5, <2>6
<1>5. pc' \in {"HANDOFF", "CPU", "DONE"} /\ BootMode = "FLASH" => FsblInstance.hdr
  BY <1>4 DEF TablesInv, TypeInv, Flow
<1>6. CASE BootMode = "FLASH"
  BY <1>2, <1>3, <1>4, <1>5, <1>6, QuietTablesInv
<1>7. CASE BootMode # "FLASH"
  BY <1>2, <1>7 DEF TablesInv
<1> QED
  BY <1>6, <1>7

(***************************************************************************)
(* XFsbl_ValidateHeader measures the FSBL behind the headers it read.      *)
(***************************************************************************)
LEMMA ValidateHeaderTablesInv ==
  ASSUME TypeInv, FormInv, TablesInv, ValidateHeader
  PROVE  TablesInv'
<1> USE DEF Faulty, Refused, Unanswered, Fail, Goto
<1>1. log \in Log /\ log.ptr # 0 /\ TypeOK
  BY DEF TypeInv, TypeOK, FormInv, ValidateHeader, Recording
<1>2. CASE ReadImageHeader(ImageToValidate) /\ MeasureFsbl(ImageToValidate)
  <2> DEFINE i == ImageToValidate
             read == TablesRead(Images[i])
             S == Digests(HashedFsbl(i, read, FsblInstance.reset))
  <2>1. PICK d \in S : log' = Tpm_Measure_Fsbl(log, d)
    BY <1>2 DEF MeasureFsbl
  <2>2. /\ FsblInstance'.img = i /\ FsblInstance'.hdr = read
        /\ FsblInstance'.reset = FsblInstance.reset
    BY <1>1, <1>2 DEF ReadImageHeader, KeepPpk, TypeOK, Instance
  <2>3. pc' \notin {"HANDOFF", "CPU", "DONE"}
    BY DEF ValidateHeader, EnterStage3, ShaAsserts
  <2>4. "FSBL" \in Label
    BY DEF Label, NameLen
  <2> HIDE DEF read, i
  <2>5. LastFsbl(log', d)
    BY <1>1, <2>1, <2>4, RecordLast DEF Tpm_Measure_Fsbl
  <2>6. LastFsbl(log, d)'
    BY <2>5 DEF LastFsbl, Labelled
  <2>7. FsblInstance'.hdr =>
          d \in Digests(FsblMemory(FsblInstance.img, FsblInstance.reset))'
    BY <2>1, <2>2 DEF HashedFsbl, FsblMemory, Digests, NoDigest
  <2> QED
    BY <2>3, <2>6, <2>7 DEF TablesInv
<1>3. CASE ~(ReadImageHeader(ImageToValidate) /\ MeasureFsbl(ImageToValidate))
  BY <1>3 DEF ValidateHeader, ShaAsserts, TablesInv, Loading, BeforeEvent, AfterEvent
<1> QED
  BY <1>2, <1>3

LEMMA MeasureTablesInv ==
  ASSUME TypeInv, FormInv, TablesInv, PlLoad \/ MeasurePartition
  PROVE  TablesInv'
<1> USE DEF Faulty, Refused, Unanswered, Fail, Goto
<1> DEFINE S == Digests(FsblMemory(FsblInstance.img, FsblInstance.reset))
<1>1. /\ log \in Log /\ log.ptr # 0 /\ TypeOK
      /\ pc \in Loading /\ FsblInstance.hdr
  BY DEF TypeInv, TypeOK, Flow, FormInv, PlLoad, MeasurePartition, Recording,
         BeforeEvent, Loading, LoadingPcs
<1>2. /\ FsblInstance'.img = FsblInstance.img
      /\ FsblInstance'.hdr = FsblInstance.hdr
      /\ FsblInstance'.reset = FsblInstance.reset
  <2>1. FsblInstance' = FsblInstance \/ FsblInstance' = AddHandoff(Hdr)
    BY DEF PlLoad, MeasurePartition
  <2> QED
    BY <1>1, <2>1, AddHandoffKeeps
<1>3. S' = S
  BY <1>2 DEF FsblMemory, Digests, NoDigest
<1>4. BootMode' = BootMode /\ pc' \notin {"HANDOFF", "CPU", "DONE"}
  BY DEF PlLoad, MeasurePartition, ShaAsserts, loadUnchanged, envVars
<1>5. ASSUME NEW c, LastFsbl(log, c)
      PROVE  LastFsbl(log', c)
  <2>1. \/ log' = log
        \/ \E d : log' = event_log_record(log, "BITSTREAM", 2, d)
        \/ \E d : log' = Tpm_Measure_Partition(log, d)
    BY DEF PlLoad, MeasurePl, EventForPl, MeasurePartition, Tpm_Measure_Pl
  <2>2. "BITSTREAM" \in Label
    BY DEF Label, NameLen
  <2> QED
    BY <1>1, <1>5, <2>1, <2>2, RecordLast, PartitionLast
<1>6. ASSUME NEW c, LastFsbl(log, c)
      PROVE  LastFsbl(log, c)'
  BY <1>5, <1>6 DEF LastFsbl, Labelled
<1>7. (\E c \in S : LastFsbl(log, c)) => (\E c \in S : LastFsbl(log, c))'
  BY <1>3, <1>6
<1> HIDE DEF S
<1> QED
  BY <1>1, <1>2, <1>4, <1>7 DEF TablesInv, S

\* Stage 1 and the resets: nothing is loaded there.
LEMMA StartTablesInv ==
  ASSUME Initialize \/ Reset
  PROVE  TablesInv'
<1>1. pc' \notin Loading
  BY DEF Initialize, Refused, Fail, Goto, Reset, SoftReset, WdtExpire, SoftwareReset,
         PsOnlyReset, ApuOnlyReset, SystemReset, RomLoadsFsbl, Loading, BeforeEvent,
         AfterEvent
<1> QED
  BY <1>1 DEF TablesInv, Loading, AfterEvent

LEMMA TablesInvStep ==
  TypeInv /\ FormInv /\ TablesInv /\ [Next]_vars => TablesInv'
<1>1. TablesInv /\ UNCHANGED vars => TablesInv'
  BY QuietTablesInv DEF vars, mainVars, dataVars, envVars, TablesInv, Loading,
     BeforeEvent, AfterEvent
<1> QED
  BY <1>1, QuietStepsTablesInv, ValidateHeaderTablesInv, MeasureTablesInv,
     StartTablesInv DEF Next, FsblStep

(***************************************************************************)
(* Whatever device the headers come from, what they lead to is loaded and  *)
(* handed over to behind an event of the FSBL's memory that holds them, or *)
(* of zeros where the SHA3 engine may fail (XFsbl_ValidateHeader,          *)
(* Tpm_Measure_Fsbl, XFsbl_ShaDigest).                                     *)
(***************************************************************************)
THEOREM FsblIsMeasuredWithTables == Spec => []FsblMeasuredWithTables
<1>1. Init => TypeInv /\ LogInv /\ FormInv /\ TablesInv
  <2> SUFFICES ASSUME Init PROVE FormInv /\ TablesInv
    BY InitTypeInv, InitLogInv
  <2> QED
    BY DEF Init, FormInv, InitialLog, Recording, BeforeEvent, AfterEvent, TablesInv,
           Loading
<1>2. TypeInv /\ [Next]_vars => TypeInv'
  BY TypeInvStep
<1>3. TypeInv /\ LogInv /\ [Next]_vars => LogInv'
  BY LogInvStep
<1>4. TypeInv /\ LogInv /\ FormInv /\ [Next]_vars => FormInv'
  BY FormInvStep
<1>5. TypeInv /\ FormInv /\ TablesInv /\ [Next]_vars => TablesInv'
  BY TablesInvStep
<1>6. TypeInv /\ TablesInv => FsblMeasuredWithTables
  <2> SUFFICES ASSUME TypeInv, TablesInv, BootMode = "FLASH",
                      pc = "DONE" \/ (pc = "HEADER" /\ FsblInstance.hdr)
               PROVE  FsblMeasuredWithTables
    BY DEF FsblMeasuredWithTables
  <2> DEFINE S == EventsNamed({"FSBL"})
             D == Digests(FsblMemory(FsblInstance.img, FsblInstance.reset))
             Highest(k) == \A j \in S : j <= k
  <2>1. PICK c \in D : LastFsbl(log, c)
    BY DEF TablesInv, Loading, BeforeEvent
  <2>2. S = Labelled(log, "FSBL")
    BY DEF EventsNamed, Labelled
  <2>3. S \subseteq Nat
    BY DEF EventsNamed, TypeInv, TypeOK, Log
  <2> HIDE DEF S, D
  <2>4. PICK k \in S : log.buf[k].data = c /\ Highest(k)
    BY <2>1, <2>2 DEF LastFsbl
  <2>5. \A m \in S : Highest(m) => m = k
    BY <2>3, <2>4
  <2>6. (CHOOSE m \in S : Highest(m)) = k
    BY <2>4, <2>5
  <2> QED
    BY <2>1, <2>4, <2>6 DEF FsblMeasuredWithTables, LastOf, S, D
<1> QED
  BY <1>1, <1>2, <1>3, <1>4, <1>5, <1>6, PTL DEF Spec
=============================================================================
