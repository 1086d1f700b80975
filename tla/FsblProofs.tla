----------------------------- MODULE FsblProofs -----------------------------
(***************************************************************************)
(* Theorems about the boot loader, for every flash, eFUSE setting, build   *)
(* option, fault and number of restarts: the types, the ten entries of the *)
(* handoff list, which suffice, and the watchdog, which is armed wherever  *)
(* the boot loader may wait without end once stage 1 is over.              *)
(***************************************************************************)
EXTENDS FsblProperties, FiniteSetTheorems, TLAPS

(***************************************************************************)
(* What typing needs beside the types.  The partition number stays inside  *)
(* the header array because a partition is only looked at once its header  *)
(* was read, so once the number of partitions was checked; the multiboot   *)
(* register stays among the images because the boot ROM stops behind the   *)
(* last one.                                                               *)
(***************************************************************************)
LoadingPcs ==
  {"COPY", "LOAD", "CHECK", "PL", "FINISH", "PMUFW", "FWWAIT", "NEXT"}
HeadersOK(inst) == inst.hdr => Images[inst.img].n \in 2 .. XIH_MAX_PARTITIONS

Flow ==
  /\ HeadersOK(FsblInstance) /\ HeadersOK(dup.inst)
  /\ pc \in LoadingPcs => FsblInstance.hdr
  /\ EarlyHandoff /\ pc \in {"HANDOFF", "CPU"} => FsblInstance.hdr
  /\ pc \in {"STAGE1", "PRIMARY"} => ~EarlyHandoff
  /\ pc \notin {"SPIN", "SOFTRESET", "ROMSTOP"} => multiboot <= LastImage
  /\ pc = "CPU" => runEntry <= Len(FsblInstance.handoff)

TypeInv == TypeOK /\ Flow

-----------------------------------------------------------------------------
(***************************************************************************)
(* The helpers keep the types.                                             *)
(***************************************************************************)
LEMMA ContentTypes ==
  /\ NoContent \in Content /\ RomCode \in Content /\ EccPattern \in Content
  /\ NoDigest \in Content
  /\ \A i \in ImageIndex, p \in PartitionIndex, f \in Form : Payload(i, p, f) \in Content
  /\ \A i \in ImageIndex, r \in Nat : FsblMemory(i, r) \in Content
BY LastImageAssumption
   DEF NoContent, NoDigest, RomCode, EccPattern, Content, Payload, FsblMemory,
       ImageIndex, PartitionIndex, XIH_MAX_PARTITIONS, Form

\* What is recorded for a piece of content, and what the FSBL hashes of its
\* own, is content.
LEMMA DigestTypes ==
  /\ \A c \in Content : Digests(c) \subseteq Content
  /\ \A i \in ImageIndex, read \in BOOLEAN, r \in Nat : HashedFsbl(i, read, r) \in Content
BY ContentTypes DEF Digests, HashedFsbl

\* Each image set in flash is one.
LEMMA ImageTypes ==
  ASSUME NEW i \in ImageIndex
  PROVE  Images[i] \in Image
BY ImagesAssumption, LastImageAssumption DEF ImageIndex

\* The header of a partition of the current image is in type.
LEMMA HeaderTypes ==
  ASSUME TypeOK, NEW p \in PartitionIndex
  PROVE  PH(p) \in PartitionHeader
<1>1. ZeroHeader \in PartitionHeader
  BY DEF ZeroHeader, NoCertificate, Certificate, PartitionHeader, Address, PsDdr,
         TcmWindow
<1>2. CurImage \in Image
  BY ImageTypes DEF TypeOK, CurImage, Instance
<1>3. CurImage.ph[p] \in PartitionHeader
  BY <1>2 DEF Image, PartitionIndex
<1> QED
  BY <1>1, <1>3 DEF PH

\* The header of the current partition is in type.
LEMMA HdrType ==
  ASSUME TypeOK
  PROVE  Hdr \in PartitionHeader
BY HeaderTypes DEF Hdr, TypeOK

\* XFsbl_ValidatePartitionHeader finds a CPU of the device.
LEMMA DestinationCpuType ==
  ASSUME NEW h \in PartitionHeader
  PROVE  DestinationCpu(h) \in 0 .. 15
BY DEF DestinationCpu, PartitionHeader, ProcessorID, CPU_A53_0

\* XFsbl_CheckHandoffCpu and the entry it makes keep the type of the instance.
LEMMA AddHandoffType ==
  ASSUME TypeOK, NEW h \in PartitionHeader
  PROVE  /\ AddHandoff(h) \in Instance
         /\ AddHandoff(h).hdr = FsblInstance.hdr
         /\ AddHandoff(h).img = FsblInstance.img
<1>1. NewEntry(h) \in HandoffEntry
  BY DestinationCpuType DEF NewEntry, HandoffEntry, PartitionHeader
<1>2. FsblInstance \in Instance
  BY DEF TypeOK
<1>3. Append(FsblInstance.handoff, NewEntry(h)) \in Seq(HandoffEntry)
  BY <1>1, <1>2 DEF Instance
<1> QED
  BY <1>2, <1>3 DEF AddHandoff, AppendHandoff, Instance

\* Where a partition is loaded is a slot of memory.
LEMMA SlotTypes ==
  ASSUME NEW cpu, NEW a \in Address
  PROVE  LoadSlot(cpu, a) \in Slot
BY DEF LoadSlot, Slot, Address

\* A write keeps the type of the log.
LEMMA WriteType ==
  ASSUME NEW L \in Log, NEW events \in Seq(Event), NEW bytes \in Nat
  PROVE  WriteAtPointer(L, events, bytes) \in Log
<1>1. Written(L) \o events \in Seq(Event)
  BY DEF Written, Log
<1> QED
  BY <1>1 DEF WriteAtPointer, Log

\* event_log_record keeps the type of the log.
LEMMA RecordType ==
  ASSUME NEW L \in Log, NEW label \in Label, NEW pcr \in Nat, NEW c \in Content
  PROVE  /\ event_log_record(L, label, pcr, c) \in Log
         /\ event_log_record(L, label, pcr, c).partition = L.partition
         /\ event_log_record(L, label, pcr, c).ptr = L.ptr + EventSize(label)
         /\ EventSize(label) \in Nat
<1>1. EventSize(label) \in Nat /\ label \in Label2
  BY DEF NameLen, Label, Label2, EventSize, EVENT2_HDR_SIZE
<1> DEFINE e == [name |-> label, pcr |-> pcr, data |-> c, size |-> EventSize(label)]
<1>2. e \in Event
  BY <1>1 DEF Event
<1>3. event_log_record(L, label, pcr, c) = WriteAtPointer(L, << e >>, EventSize(label))
  BY DEF event_log_record
<1> HIDE DEF e
<1>4. << e >> \in Seq(Event)
  BY <1>2
<1>5. WriteAtPointer(L, << e >>, EventSize(label)) \in Log
  BY <1>1, <1>4, WriteType
<1> QED
  BY <1>1, <1>3, <1>5 DEF WriteAtPointer

\* Each measurement keeps the type of the log.
LEMMA MeasureTypes ==
  ASSUME NEW L \in Log, NEW c \in Content
  PROVE  /\ Tpm_Measure_Rom(L) \in Log
         /\ Tpm_Measure_Partition(L, c) \in Log
         /\ Tpm_Measure_Pl(L, c) \in Log
         /\ Tpm_Measure_Fsbl(L, c) \in Log
<1>1. event_log_write_header(L, NoContent) \in Log
  <2> DEFINE id == [name |-> "SPEC_ID", pcr |-> 0, data |-> NoContent,
                    size |-> ID_EVENT_SIZE]
             loc == [name |-> "LOCALITY", pcr |-> 0, data |-> NoContent,
                     size |-> LOC_EVENT_SIZE]
  <2>1. id \in Event /\ loc \in Event
    BY ContentTypes DEF Event, Label2, ID_EVENT_SIZE, LOC_EVENT_SIZE
  <2>2. << id, loc >> \in Seq(Event)
    BY <2>1
  <2> HIDE DEF id, loc
  <2>3. ID_EVENT_SIZE + LOC_EVENT_SIZE \in Nat
    BY DEF ID_EVENT_SIZE, LOC_EVENT_SIZE
  <2>4. WriteAtPointer(L, << id, loc >>, ID_EVENT_SIZE + LOC_EVENT_SIZE) \in Log
    BY <2>2, <2>3, WriteType, Zenon
  <2> QED
    BY <2>4 DEF event_log_write_header, id, loc
<1>2. "ROM" \in Label /\ "FSBL" \in Label /\ "BITSTREAM" \in Label
  BY DEF Label, NameLen
<1>3. Tpm_Measure_Rom(L) \in Log
  BY <1>1, <1>2, RecordType, ContentTypes DEF Tpm_Measure_Rom
<1>4. Tpm_Measure_Pl(L, c) \in Log
  BY <1>2, RecordType DEF Tpm_Measure_Pl
<1>5. Tpm_Measure_Fsbl(L, c) \in Log
  BY <1>2, RecordType DEF Tpm_Measure_Fsbl
<1>6. Tpm_Measure_Partition(L, c) \in Log
  <2>1. CASE L.partition \in 1 .. 4
    <3> DEFINE label == PartitionLabel[L.partition]
               pcr == PartitionPcr[L.partition]
    <3>1. label \in Label /\ pcr \in Nat
      BY <2>1 DEF PartitionLabel, PartitionPcr, Label, NameLen
    <3>2. event_log_record(L, label, pcr, c) \in Log
      BY <3>1, RecordType
    <3>3. event_log_record(L, label, pcr, c).partition = L.partition
      BY <3>1, RecordType
    <3>4. Tpm_Measure_Partition(L, c) =
            [event_log_record(L, label, pcr, c) EXCEPT !.partition = @ + 1]
      BY <2>1 DEF Tpm_Measure_Partition, PartitionLabel
    <3> HIDE DEF label, pcr
    <3> QED
      BY <2>1, <3>2, <3>3, <3>4 DEF Log
  <2>2. CASE L.partition = 5
    BY <2>2 DEF Tpm_Measure_Partition, PartitionLabel
  <2> QED
    BY <2>1, <2>2 DEF Log
<1> QED
  BY <1>3, <1>4, <1>5, <1>6

-----------------------------------------------------------------------------
(***************************************************************************)
(* Every action keeps the types.                                           *)
(***************************************************************************)
LEMMA InitTypeInv == Init => TypeInv
<1> SUFFICES ASSUME Init PROVE TypeInv
  OBVIOUS
<1>1. InitialInstance \in Instance
  BY LastImageAssumption DEF InitialInstance, Instance, SYSTEM_RESET, ImageIndex
<1>2. InitialLog \in Log
  BY DEF InitialLog, Log
<1>3. running \in [Core -> Content] /\ mem \in [Slot -> Content]
  BY ContentTypes DEF Init
<1>4. /\ dup \in [inst : Instance, log : Log]
      /\ resetReg \in [psOnly : BOOLEAN, apu : BOOLEAN, wdt : BOOLEAN]
  BY <1>1, <1>2 DEF Init
<1>5. /\ r5usage \subseteq {CPU_R5_0, CPU_R5_1}
      /\ atf \subseteq [part : PartitionIndex, cpu : A53Cpus]
  BY DEF Init
<1>6. /\ pc \in Pc /\ PartitionNum \in PartitionIndex
      /\ multiboot \in ImageIndex /\ restarts \in 0 .. MaxRestarts
      /\ CpuIndex \in Nat /\ CpuIndexEarlyHandoff \in Nat /\ runEntry \in Nat
  BY LastImageAssumption, RestartAssumption
     DEF Init, Pc, PartitionIndex, XIH_MAX_PARTITIONS, ImageIndex
<1>7. TypeOK
  BY <1>1, <1>2, <1>3, <1>4, <1>5, <1>6, ContentTypes DEF Init, TypeOK
<1>8. Flow
  BY LastImageAssumption
     DEF Init, Flow, HeadersOK, InitialInstance, LoadingPcs
<1> QED
  BY <1>7, <1>8 DEF TypeInv

\* XFsbl_Initialize keeps the types.
LEMMA InitializeTypeInv == TypeInv /\ Initialize => TypeInv'
<1> SUFFICES ASSUME TypeInv, Initialize PROVE TypeInv'
  OBVIOUS
<1> DEFINE reset == GetResetReason
           data == DataSection(reset)
<1>1. reset \in 0 .. 2
  BY DEF GetResetReason, SYSTEM_RESET, PS_ONLY_RESET, MASTER_ONLY_RESET
<1>2. /\ data.inst \in Instance /\ data.log \in Log
      /\ HeadersOK(data.inst)
  BY DEF DataSection, RestoreData, TypeInv, TypeOK, Flow, Log
<1>3. Tpm_Measure_Rom(data.log) \in Log
  BY <1>2, MeasureTypes, ContentTypes
<1> HIDE DEF reset, data
<1>4. FsblInstance' \in Instance /\ HeadersOK(FsblInstance')
  <2>1. FsblInstance' = [data.inst EXCEPT !.reset = reset]
    BY DEF Initialize, reset, data
  <2> QED
    BY <1>1, <1>2, <2>1
       DEF Instance, SYSTEM_RESET, PS_ONLY_RESET, MASTER_ONLY_RESET, HeadersOK
<1>5. log' \in Log
  BY <1>2, <1>3 DEF Initialize, reset, data
<1>6. dup' \in [inst : Instance, log : Log] /\ HeadersOK(dup'.inst)
  BY DEF Initialize, SaveData, TypeInv, TypeOK, Flow
<1>7. TypeOK'
  BY <1>4, <1>5, <1>6
     DEF TypeInv, TypeOK, Initialize, ResetValidation, Refused, Fail, Goto, Pc,
         hwVars, envVars
<1>8. Flow'
  BY <1>4, <1>6
     DEF TypeInv, Flow, HeadersOK, Initialize, Refused, Fail, Goto, LoadingPcs,
         hwVars, envVars
<1> QED
  BY <1>7, <1>8 DEF TypeInv

\* XFsbl_PrimaryBootDeviceInit keeps the types.
LEMMA PrimaryTypeInv == TypeInv /\ PrimaryBootDeviceInit => TypeInv'
<1> SUFFICES ASSUME TypeInv, PrimaryBootDeviceInit PROVE TypeInv'
  OBVIOUS
<1> USE DEF PrimaryBootDeviceInit, Faulty, Refused, Unanswered, Fail, Goto
<1>1. wdt' \in BOOLEAN
  BY Zenon DEF TypeInv, TypeOK, InitWdt
<1>2. pc' \in Pc
  BY DEF Pc
<1>3. r5usage' \subseteq {CPU_R5_0, CPU_R5_1}
  BY DEF TypeInv, TypeOK
<1>4. TypeOK'
  BY <1>1, <1>2, <1>3 DEF TypeInv, TypeOK, dataVars, regVars, envVars
<1>5. Flow'
  BY DEF TypeInv, Flow, HeadersOK, LoadingPcs, dataVars, regVars, envVars
<1> QED
  BY <1>4, <1>5 DEF TypeInv

\* Keeping the primary key changes nothing else of the instance.
LEMMA KeepPpkType ==
  ASSUME TypeOK, NEW im \in Image
  PROVE  \E k \in Nat : KeepPpk(im) = [FsblInstance EXCEPT !.ppk = k]
<1>1. im.cert.ppk \in Nat
  BY DEF Image, Certificate
<1>2. FsblInstance.ppk \in Nat /\ FsblInstance = [FsblInstance EXCEPT !.ppk = FsblInstance.ppk]
  BY DEF TypeOK, Instance
<1> QED
  BY <1>1, <1>2 DEF KeepPpk

\* The image whose header is validated is one.
LEMMA ImageToValidateType ==
  TypeOK => ImageToValidate \in ImageIndex /\ Images[ImageToValidate] \in Image
BY LastImageAssumption, ImageTypes DEF ImageToValidate, TypeOK, ImageIndex

\* XFsbl_ValidateHeader keeps the rest of the instance.
LEMMA ValidateHeaderKeeps ==
  ASSUME TypeOK, ValidateHeader
  PROVE  /\ FsblInstance'.handoff = FsblInstance.handoff
         /\ FsblInstance'.reset = FsblInstance.reset
         /\ FsblInstance'.sec = FsblInstance.sec
         /\ FsblInstance'.ecc = FsblInstance.ecc
<1> DEFINE im == Images[ImageToValidate]
<1>1. PICK k \in Nat : KeepPpk(im) = [FsblInstance EXCEPT !.ppk = k]
  BY KeepPpkType, ImageToValidateType
<1>2. CASE ReadImageHeader(ImageToValidate)
  BY <1>1, <1>2 DEF ReadImageHeader, TypeOK, Instance
<1>3. CASE FsblInstance' \in {FsblInstance, KeepPpk(im)}
  BY <1>1, <1>3 DEF TypeOK, Instance
<1> QED
  BY <1>2, <1>3 DEF ValidateHeader

\* XFsbl_ValidateHeader keeps the types.
LEMMA ValidateHeaderTypeInv == TypeInv /\ ValidateHeader => TypeInv'
<1> SUFFICES ASSUME TypeInv, ValidateHeader PROVE TypeInv'
  OBVIOUS
<1> DEFINE i == ImageToValidate
           im == Images[i]
           read == TablesRead(im)
<1>1. i \in ImageIndex /\ im \in Image
  BY ImageToValidateType DEF TypeInv
<1> HIDE DEF i
<1>0. PICK k \in Nat : KeepPpk(im) = [FsblInstance EXCEPT !.ppk = k]
  BY <1>1, KeepPpkType DEF TypeInv
<1>2. read => im.n \in 2 .. XIH_MAX_PARTITIONS
  BY <1>1 DEF TablesRead, ValidateImageHeaderTable, Image, XIH_MIN_PARTITIONS, XIH_MAX_PARTITIONS
<1>3. read \in BOOLEAN
  BY DEF TablesRead
<1>4. read => ATFHandoffParams(im) \subseteq [part : PartitionIndex, cpu : A53Cpus]
  <2> SUFFICES ASSUME read, NEW p \in 2 .. (im.n - 1)
               PROVE  [part |-> p, cpu |-> AtfFlagCpu(im.ph[p])]
                        \in [part : PartitionIndex, cpu : A53Cpus]
    BY DEF ATFHandoffParams
  <2>1. p \in PartitionIndex
    BY <1>2 DEF PartitionIndex, XIH_MAX_PARTITIONS
  <2>2. AtfFlagCpu(im.ph[p]) \in A53Cpus
    BY DEF AtfFlagCpu, A53Cpus, CPU_A53_0, CPU_A53_3
  <2> QED
    BY <2>1, <2>2
<1> DEFINE table(n) == AtfTable(im, n)
<1>12. ASSUME read, NEW n
       PROVE  table(n) \subseteq [part : PartitionIndex, cpu : A53Cpus]
  BY <1>4, <1>12 DEF AtfTable, TypeInv, TypeOK
<1>13. table(0) = atf
  <2>1. \A e \in ATFHandoffParams(im) : ~(e.part < 0)
    BY <1>1 DEF ATFHandoffParams, Image
  <2> QED
    BY <2>1 DEF AtfTable
<1> HIDE DEF table
<1>5. log' \in Log
  <2>1. log \in Log /\ FsblInstance.reset \in Nat
    BY DEF TypeInv, TypeOK, Instance, SYSTEM_RESET, PS_ONLY_RESET, MASTER_ONLY_RESET
  <2>2. CASE MeasureFsbl(i)
    BY <1>1, <1>3, <2>1, <2>2, MeasureTypes, DigestTypes DEF MeasureFsbl
  <2>3. CASE UNCHANGED log
    BY <2>1, <2>3
  <2> QED
    BY <2>2, <2>3 DEF ValidateHeader, i
<1>6. ASSUME ReadImageHeader(i)
      PROVE  /\ FsblInstance' \in Instance /\ HeadersOK(FsblInstance')
             /\ atf' \subseteq [part : PartitionIndex, cpu : A53Cpus]
  <2>1. FsblInstance' = [FsblInstance EXCEPT !.ppk = k, !.img = i, !.hdr = read]
    BY <1>0, <1>6 DEF ReadImageHeader, TypeInv, TypeOK, Instance
  <2>2. FsblInstance' \in Instance
    BY <1>0, <1>1, <1>3, <2>1 DEF TypeInv, TypeOK, Instance
  <2>3. HeadersOK(FsblInstance')
    BY <1>2, <2>1 DEF TypeInv, TypeOK, Instance, HeadersOK
  <2>4. atf' \subseteq [part : PartitionIndex, cpu : A53Cpus]
    BY <1>6, <1>12 DEF ReadImageHeader, TypeInv, TypeOK, table
  <2> QED
    BY <2>2, <2>3, <2>4
<1>7. ASSUME FsblInstance' \in {FsblInstance, KeepPpk(im)},
             atf' = atf \/ \E n \in HeadersRead(im) : atf' = AtfTable(im, n)
      PROVE  /\ FsblInstance' \in Instance /\ HeadersOK(FsblInstance')
             /\ atf' \subseteq [part : PartitionIndex, cpu : A53Cpus]
  <2>1. atf' \subseteq [part : PartitionIndex, cpu : A53Cpus]
    BY <1>7, <1>12, <1>13 DEF HeadersRead, TypeInv, TypeOK, table
  <2>2. FsblInstance \in Instance /\ HeadersOK(FsblInstance)
    BY <1>0 DEF TypeInv, TypeOK, Flow
  <2>3. KeepPpk(im) \in Instance /\ HeadersOK(KeepPpk(im))
    BY <1>0, <2>2 DEF Instance, HeadersOK
  <2> QED
    BY <1>7, <2>1, <2>2, <2>3
<1>8. /\ FsblInstance' \in Instance /\ HeadersOK(FsblInstance')
      /\ atf' \subseteq [part : PartitionIndex, cpu : A53Cpus]
  BY <1>6, <1>7 DEF ValidateHeader, i
<1> HIDE DEF im, read
<1>9. /\ pc' \in {"SECONDARY", "HEADER", "ERR", "HUNG"}
      /\ PartitionNum' \in PartitionIndex
      /\ r5usage' \subseteq {CPU_R5_0, CPU_R5_1}
  BY DEF ValidateHeader, EnterStage3, Faulty, Refused, Unanswered, Fail, Goto,
         ShaAsserts, TypeInv, TypeOK, PartitionIndex, XIH_MAX_PARTITIONS
<1>10. TypeOK'
  BY <1>5, <1>8, <1>9 DEF ValidateHeader, TypeInv, TypeOK, Pc, regVars, envVars
<1>11. Flow'
  BY <1>8, <1>9 DEF ValidateHeader, TypeInv, Flow, HeadersOK, LoadingPcs, regVars, envVars
<1> QED
  BY <1>10, <1>11 DEF TypeInv

\* XFsbl_SecondaryBootDeviceInit keeps the types.
LEMMA SecondaryTypeInv == TypeInv /\ SecondaryBootDeviceInit => TypeInv'
<1> SUFFICES ASSUME TypeInv, SecondaryBootDeviceInit PROVE TypeInv'
  OBVIOUS
<1>1. CurImage.ppd \in Nat
  BY ImageTypes DEF CurImage, TypeInv, TypeOK, Instance, Image
<1>2. FsblInstance' \in Instance /\ HeadersOK(FsblInstance')
  BY <1>1 DEF SecondaryBootDeviceInit, TypeInv, TypeOK, Flow, HeadersOK, Instance
<1>3. /\ pc' \in {"VALIDATE", "HEADER", "ERR", "HUNG"}
      /\ PartitionNum' \in PartitionIndex
      /\ r5usage' \subseteq {CPU_R5_0, CPU_R5_1}
  BY DEF SecondaryBootDeviceInit, EnterStage3, Faulty, Refused, Unanswered, Fail,
         Goto, TypeInv, TypeOK, PartitionIndex, XIH_MAX_PARTITIONS
<1>4. TypeOK'
  BY <1>2, <1>3 DEF SecondaryBootDeviceInit, TypeInv, TypeOK, Pc, regVars, envVars
<1>5. Flow'
  BY <1>2, <1>3
     DEF SecondaryBootDeviceInit, TypeInv, Flow, HeadersOK, LoadingPcs, regVars, envVars
<1> QED
  BY <1>4, <1>5 DEF TypeInv

(***************************************************************************)
(* What the actions of stage 3 have in common.                             *)
(***************************************************************************)
Pmu == {"ROM", "ASKED", "SLEEP", "WAKING", "FW", "DEAD"}

\* What the steps of a partition load have in common.
LEMMA LoadTypeInv ==
  ASSUME TypeInv, UNCHANGED loadUnchanged,
         pc \in LoadingPcs \cup {"HEADER"},
         pc' \in LoadingPcs \cup {"ERR", "HUNG"},
         pc' \in LoadingPcs => FsblInstance.hdr,
         FsblInstance' \in Instance,
         FsblInstance'.hdr = FsblInstance.hdr, FsblInstance'.img = FsblInstance.img,
         log' \in Log, pl' \in Content, pmu' \in Pmu, mem' \in [Slot -> Content]
  PROVE  TypeInv'
<1>1. TypeOK'
  BY DEF TypeInv, TypeOK, Pc, LoadingPcs, Pmu, loadUnchanged, regVars, envVars
<1>2. Flow'
  BY DEF TypeInv, Flow, HeadersOK, LoadingPcs, loadUnchanged, regVars
<1> QED
  BY <1>1, <1>2 DEF TypeInv

\* XFsbl_PartitionHeaderValidation keeps the types.
LEMMA PartitionHeaderTypeInv == TypeInv /\ PartitionHeaderValidation => TypeInv'
<1> SUFFICES ASSUME TypeInv, PartitionHeaderValidation PROVE TypeInv'
  OBVIOUS
<1> DEFINE status == HeaderStatus(Hdr, FsblInstance.reset, EfuseEncOnly)
<1>1. pc' = NextAfterHeader(status)
  BY DEF PartitionHeaderValidation, Goto
<1>2. pc' \in {"COPY", "NEXT", "ERR"}
  BY <1>1 DEF NextAfterHeader
<1>3. pc' # "ERR" => FsblInstance.hdr
  BY <1>1 DEF NextAfterHeader, HeaderStatus, Hdr, PH, ZeroHeader
<1> QED
  BY <1>2, <1>3, LoadTypeInv
     DEF PartitionHeaderValidation, TypeInv, TypeOK, LoadingPcs, Pmu

\* XFsbl_PartitionCopy keeps the types.
LEMMA PartitionCopyTypeInv == TypeInv /\ PartitionCopy => TypeInv'
<1> SUFFICES ASSUME TypeInv, PartitionCopy PROVE TypeInv'
  OBVIOUS
<1>1. pc = "COPY" /\ FsblInstance.hdr
  BY DEF PartitionCopy, TypeInv, Flow, LoadingPcs
<1>2. pc' \in {"CHECK", "LOAD", "ERR", "HUNG"} /\ pmu' \in Pmu
  BY DEF PartitionCopy, Faulty, Refused, Unanswered, Fail, Goto, TypeInv, TypeOK, Pmu
<1>3. FsblInstance \in Instance /\ mem \in [Slot -> Content]
  BY DEF TypeInv, TypeOK
<1>4. ASSUME ConfigureMemory
      PROVE  /\ FsblInstance' \in Instance
             /\ FsblInstance'.hdr = FsblInstance.hdr
             /\ FsblInstance'.img = FsblInstance.img
             /\ mem' \in [Slot -> Content]
  <2>1. EccFill(DestCpu) \in [Slot -> Content]
    BY <1>3, ContentTypes DEF EccFill
  <2>2. CASE NeedsEccInit(DestCpu, Hdr.load)
    <3>1. TcmEccInitStatus(DestCpu) \subseteq {CPU_R5_0, CPU_R5_1}
      BY <2>2 DEF NeedsEccInit, InTcm, TcmEccInitStatus, Cores, R5Cpus
    <3> QED
      BY <1>3, <1>4, <2>1, <2>2, <3>1 DEF ConfigureMemory, Instance
  <2>3. CASE ~NeedsEccInit(DestCpu, Hdr.load)
    BY <1>3, <1>4, <2>3 DEF ConfigureMemory
  <2> QED
    BY <2>2, <2>3
<1>5. /\ FsblInstance' \in Instance
      /\ FsblInstance'.hdr = FsblInstance.hdr
      /\ FsblInstance'.img = FsblInstance.img
      /\ mem' \in [Slot -> Content]
  BY <1>3, <1>4, HdrType, AddHandoffType DEF PartitionCopy, TypeInv
<1> QED
  BY <1>1, <1>2, <1>5, LoadTypeInv DEF PartitionCopy, TypeInv, TypeOK, LoadingPcs

\* What a copy brings, and what memory holds, is in type.
LEMMA BytesTypes ==
  ASSUME TypeInv
  PROVE  /\ BytesIn(PartitionNum) \in Content
         /\ Payload(FsblInstance.img, PartitionNum, "plain") \in Content
         /\ PartitionSlot \in Slot
         /\ mem[PartitionSlot] \in Content
         /\ LoadedBytes \in Content
<1>1. FsblInstance.img \in ImageIndex /\ PartitionNum \in PartitionIndex
  BY DEF TypeInv, TypeOK, Instance
<1>2. "plain" \in Form /\ "cipher" \in Form
  BY DEF Form
<1>3. PartitionSlot \in Slot
  BY HdrType, SlotTypes DEF PartitionSlot, TypeInv, PartitionHeader
<1> QED
  BY <1>1, <1>2, <1>3, ContentTypes DEF BytesIn, LoadedBytes, TypeInv, TypeOK

\* The copy from the device keeps the types.
LEMMA DeviceCopyTypeInv == TypeInv /\ DeviceCopy => TypeInv'
<1> SUFFICES ASSUME TypeInv, DeviceCopy PROVE TypeInv'
  OBVIOUS
<1>1. pc = "LOAD" /\ FsblInstance.hdr
  BY DEF DeviceCopy, TypeInv, Flow, LoadingPcs
<1>2. pc' \in {"CHECK", "ERR", "HUNG"}
  BY DEF DeviceCopy, Faulty, Refused, Unanswered, Fail, Goto
<1>3. mem' \in [Slot -> Content]
  BY BytesTypes DEF DeviceCopy, TypeInv, TypeOK
<1> QED
  BY <1>1, <1>2, <1>3, LoadTypeInv DEF DeviceCopy, TypeInv, TypeOK, LoadingPcs, Pmu

\* XFsbl_PartitionValidation keeps the types.
LEMMA ValidationTypeInv == TypeInv /\ PartitionValidation => TypeInv'
<1> SUFFICES ASSUME TypeInv, PartitionValidation PROVE TypeInv'
  OBVIOUS
<1>1. pc = "CHECK" /\ FsblInstance.hdr
  BY DEF PartitionValidation, TypeInv, Flow, LoadingPcs
<1>2. pc' \in {"FINISH", "ERR", "HUNG"}
  BY DEF PartitionValidation, Faulty, Refused, Unanswered, Fail, Goto
<1>3. mem' \in [Slot -> Content]
  BY BytesTypes DEF PartitionValidation, TypeInv, TypeOK
<1> QED
  BY <1>1, <1>2, <1>3, LoadTypeInv
     DEF PartitionValidation, TypeInv, TypeOK, LoadingPcs, Pmu

\* Its part for a bitstream keeps the types.
LEMMA PlValidationTypeInv == TypeInv /\ PlValidation => TypeInv'
<1> SUFFICES ASSUME TypeInv, PlValidation PROVE TypeInv'
  OBVIOUS
<1>1. pc = "CHECK" /\ FsblInstance.hdr
  BY DEF PlValidation, TypeInv, Flow, LoadingPcs
<1>2. pc' \in {"PMUFW", "PL", "ERR", "HUNG"}
  BY DEF PlValidation, Faulty, Refused, Unanswered, Fail, Goto
<1>3. pl' \in Content
  BY BytesTypes, ContentTypes DEF PlValidation, TypeInv, TypeOK
<1> QED
  BY <1>1, <1>2, <1>3, LoadTypeInv DEF PlValidation, TypeInv, TypeOK, LoadingPcs, Pmu

\* Loading the PL keeps the types.
LEMMA PlLoadTypeInv == TypeInv /\ PlLoad => TypeInv'
<1> SUFFICES ASSUME TypeInv, PlLoad PROVE TypeInv'
  OBVIOUS
<1>1. pc = "PL" /\ FsblInstance.hdr
  BY DEF PlLoad, TypeInv, Flow, LoadingPcs
<1>2. pc' \in {"PMUFW", "ERR", "HUNG"}
  BY DEF PlLoad, Faulty, Refused, Unanswered, Fail, Goto
<1>3. EventForPl => log' \in Log
  BY BytesTypes, ContentTypes, DigestTypes, MeasureTypes DEF EventForPl, TypeInv, TypeOK
<1>4. pl' \in Content /\ log' \in Log
  BY <1>3, BytesTypes, ContentTypes
     DEF PlLoad, MeasurePl, Configure, TypeInv, TypeOK
<1> QED
  BY <1>1, <1>2, <1>4, LoadTypeInv DEF PlLoad, TypeInv, TypeOK, LoadingPcs, Pmu

\* Measuring a partition keeps the types.
LEMMA MeasureTypeInv == TypeInv /\ MeasurePartition => TypeInv'
<1> SUFFICES ASSUME TypeInv, MeasurePartition PROVE TypeInv'
  OBVIOUS
<1>1. pc = "FINISH" /\ pc' \in {"PMUFW", "HUNG"} /\ FsblInstance.hdr
  BY DEF MeasurePartition, ShaAsserts, Goto, TypeInv, Flow, LoadingPcs
<1>2. log' \in Log
  BY BytesTypes, DigestTypes, MeasureTypes DEF MeasurePartition, TypeInv, TypeOK
<1>3. /\ FsblInstance' \in Instance
      /\ FsblInstance'.hdr = FsblInstance.hdr
      /\ FsblInstance'.img = FsblInstance.img
  BY HdrType, AddHandoffType DEF MeasurePartition, TypeInv, TypeOK
<1> QED
  BY <1>1, <1>2, <1>3, LoadTypeInv
     DEF MeasurePartition, TypeInv, TypeOK, LoadingPcs, Pmu

\* Waiting for the PMU firmware keeps the types.
LEMMA PmuWaitTypeInv == TypeInv /\ (CheckPmuFw \/ WaitForPmuFw) => TypeInv'
<1> SUFFICES ASSUME TypeInv, CheckPmuFw \/ WaitForPmuFw PROVE TypeInv'
  OBVIOUS
<1>1. pc \in {"PMUFW", "FWWAIT"} /\ FsblInstance.hdr
  BY DEF CheckPmuFw, WaitForPmuFw, TypeInv, Flow, LoadingPcs
<1>2. pc' \in {"FWWAIT", "NEXT"} /\ pmu' \in Pmu
  BY DEF CheckPmuFw, WaitForPmuFw, Goto, TypeInv, TypeOK, Pmu
<1> QED
  BY <1>1, <1>2, LoadTypeInv DEF CheckPmuFw, WaitForPmuFw, TypeInv, TypeOK, LoadingPcs

\* The PMU firmware keeps the types.
LEMMA PmuTypeInv == TypeInv /\ (PmuAnswers \/ PmuDies) => TypeInv'
<1> SUFFICES ASSUME TypeInv, PmuAnswers \/ PmuDies PROVE TypeInv'
  OBVIOUS
<1>1. TypeOK'
  BY DEF PmuAnswers, PmuDies, TypeInv, TypeOK, loadUnchanged, regVars, envVars
<1>2. Flow'
  BY DEF PmuAnswers, PmuDies, TypeInv, Flow, HeadersOK, loadUnchanged, regVars, envVars
<1> QED
  BY <1>1, <1>2 DEF TypeInv

(***************************************************************************)
(* What the actions between the partitions and of stage 4 have in common.  *)
(***************************************************************************)
LEMMA HandoffTypeInv ==
  ASSUME TypeInv, UNCHANGED handoffUnchanged,
         pc \in {"NEXT", "HANDOFF", "CPU"},
         pc' \in {"HEADER", "HANDOFF", "CPU", "ERR", "HUNG", "DONE", "NOHANDOFF"},
         PartitionNum' \in PartitionIndex, EarlyHandoff' \in BOOLEAN,
         EarlyHandoff' /\ pc' \in {"HANDOFF", "CPU"} => FsblInstance.hdr,
         CpuIndex' \in Nat, CpuIndexEarlyHandoff' \in Nat, runEntry' \in Nat,
         pc' = "CPU" => runEntry' <= Len(FsblInstance.handoff),
         errorStatus' \in {"RUNNING", "COMPLETED", "ERROR"},
         running' \in [Core -> Content], wdt' \in BOOLEAN,
         r5usage' \subseteq {CPU_R5_0, CPU_R5_1}
  PROVE  TypeInv'
<1>1. TypeOK'
  BY DEF TypeInv, TypeOK, Pc, handoffUnchanged, envVars
<1>2. Flow'
  BY DEF TypeInv, Flow, HeadersOK, LoadingPcs, handoffUnchanged
<1> QED
  BY <1>1, <1>2 DEF TypeInv

(***************************************************************************)
(* There is a next partition only as long as the number of this one leaves *)
(* room for it in the header array.                                        *)
(***************************************************************************)
LEMMA NextPartitionInRange ==
  ASSUME TypeInv, FsblInstance.hdr, PartitionNum < LastPartition
  PROVE  PartitionNum + 1 \in PartitionIndex
<1>1. CurImage.n \in 2 .. XIH_MAX_PARTITIONS
  BY DEF TypeInv, Flow, HeadersOK, CurImage
<1> QED
  BY <1>1 DEF LastPartition, TypeInv, TypeOK, PartitionIndex, XIH_MAX_PARTITIONS

\* The end of the partition loop keeps the types.
LEMMA NextTypeInv == TypeInv /\ NextPartition => TypeInv'
<1> SUFFICES ASSUME TypeInv, NextPartition PROVE TypeInv'
  OBVIOUS
<1>1. pc = "NEXT" /\ FsblInstance.hdr
  BY DEF NextPartition, TypeInv, Flow, LoadingPcs
<1>2. pc' \in {"HEADER", "HANDOFF"}
  BY DEF NextPartition, Goto
<1>3. PartitionNum' \in PartitionIndex
  BY <1>1, NextPartitionInRange DEF NextPartition, TypeInv, TypeOK
<1>4. EarlyHandoff' \in BOOLEAN
  BY Zenon DEF NextPartition, CheckEarlyHandoff, TypeInv, TypeOK
<1>5. r5usage' \subseteq {CPU_R5_0, CPU_R5_1}
  BY DEF NextPartition, UsedRPUCores, TypeInv, TypeOK
<1> QED
  BY <1>1, <1>2, <1>3, <1>4, <1>5, HandoffTypeInv DEF NextPartition, TypeInv, TypeOK

\* The beginning of XFsbl_Handoff keeps the types.
LEMMA HandoffBeginTypeInv == TypeInv /\ HandoffBegin => TypeInv'
<1> SUFFICES ASSUME TypeInv, HandoffBegin PROVE TypeInv'
  OBVIOUS
<1>1. pc = "HANDOFF" /\ pc' \in {"NOHANDOFF", "CPU", "ERR", "HUNG"}
  BY DEF HandoffBegin, Faulty, Refused, Unanswered, Fail, Goto
<1>2. /\ CpuIndex' \in Nat /\ runEntry' = 0
      /\ errorStatus' \in {"RUNNING", "COMPLETED", "ERROR"}
  BY DEF HandoffBegin, TypeInv, TypeOK
<1>3. Len(FsblInstance.handoff) \in Nat
  BY DEF TypeInv, TypeOK, Instance
<1> QED
  BY <1>1, <1>2, <1>3, HandoffTypeInv DEF HandoffBegin, TypeInv, TypeOK, Flow

(***************************************************************************)
(* The entry under the index, the code found at an entry's address, and    *)
(* what follows an entry.                                                  *)
(***************************************************************************)
LEMMA EntryTypes ==
  ASSUME TypeInv, MoreEntries
  PROVE  Entry \in HandoffEntry /\ CpuIndex + 1 <= Len(FsblInstance.handoff)
<1>1. FsblInstance.handoff \in Seq(HandoffEntry) /\ CpuIndex \in Nat
  BY DEF TypeInv, TypeOK, Instance
<1>2. CpuIndex + 1 \in 1 .. Len(FsblInstance.handoff)
  BY <1>1 DEF MoreEntries
<1> QED
  BY <1>1, <1>2 DEF Entry

\* What a CPU is released to run is something memory holds.
LEMMA CodeTypes ==
  ASSUME TypeInv, NEW slot \in Slot
  PROVE  CodeAt(slot) \in Content
<1>1. FsblInstance.img \in ImageIndex /\ 0 \in PartitionIndex /\ "flash" \in Form
  BY DEF TypeInv, TypeOK, Instance, PartitionIndex, XIH_MAX_PARTITIONS, Form
<1> QED
  BY <1>1, ContentTypes DEF CodeAt, TypeInv, TypeOK

\* After an entry comes the next one, the next partition or the end.
LEMMA AfterEntryTypes ==
  ASSUME TypeInv, pc = "CPU", AfterEntry
  PROVE  /\ pc' \in {"HEADER", "HANDOFF", "CPU"}
         /\ PartitionNum' \in PartitionIndex /\ EarlyHandoff' \in BOOLEAN
         /\ EarlyHandoff' => FsblInstance.hdr
         /\ CpuIndex' \in Nat /\ CpuIndexEarlyHandoff' \in Nat
<1>1. EarlyHandoff => FsblInstance.hdr
  BY DEF TypeInv, Flow
<1>2. EarlyHandoff' \in BOOLEAN /\ (EarlyHandoff' => EarlyHandoff)
  BY DEF AfterEntry, TypeInv, TypeOK
<1>3. PartitionNum' \in PartitionIndex
  BY <1>1, NextPartitionInRange DEF AfterEntry, TypeInv, TypeOK
<1> QED
  BY <1>1, <1>2, <1>3 DEF AfterEntry, Goto, TypeInv, TypeOK

\* An entry that is passed over keeps the types.
LEMMA SkipTypeInv == TypeInv /\ SkipEntry => TypeInv'
<1> SUFFICES ASSUME TypeInv, SkipEntry PROVE TypeInv'
  OBVIOUS
<1>1. pc = "CPU" /\ AfterEntry /\ runEntry' = runEntry
  BY DEF SkipEntry
<1>2. runEntry <= Len(FsblInstance.handoff)
  BY <1>1 DEF TypeInv, Flow
<1> QED
  BY <1>1, <1>2, AfterEntryTypes, HandoffTypeInv DEF SkipEntry, TypeInv, TypeOK

\* Releasing another CPU keeps the types.
LEMMA ReleaseTypeInv == TypeInv /\ ReleaseCpu => TypeInv'
<1> SUFFICES ASSUME TypeInv, ReleaseCpu PROVE TypeInv'
  OBVIOUS
<1>1. pc = "CPU" /\ MoreEntries /\ runEntry' = runEntry
  BY DEF ReleaseCpu
<1>2. runEntry <= Len(FsblInstance.handoff)
  BY <1>1 DEF TypeInv, Flow
<1>3. CodeAt(StartSlot(Entry)) \in Content
  <2>1. Entry.exec \in Address
    BY <1>1, EntryTypes DEF HandoffEntry
  <2>2. "ZERO" \in Address /\ "HIVEC" \in Address
    BY DEF Address, PsDdr, TcmWindow, Ocm
  <2>3. <<2, Entry.exec>> \in Slot /\ <<2, "HIVEC">> \in Slot
    BY <2>1, <2>2 DEF Slot
  <2>4. StartSlot(Entry) \in Slot
    BY <2>2, <2>3, SlotTypes DEF StartSlot
  <2> QED
    BY <2>4, CodeTypes
<1>4. running' \in [Core -> Content]
  BY <1>3 DEF ReleaseCpu, TypeInv, TypeOK
<1>5. CASE AfterEntry
  BY <1>1, <1>2, <1>4, <1>5, AfterEntryTypes, HandoffTypeInv
     DEF ReleaseCpu, TypeInv, TypeOK
<1>6. CASE ~AfterEntry
  <2>1. /\ pc' \in {"ERR", "HUNG"}
        /\ UNCHANGED <<EarlyHandoff, CpuIndex, CpuIndexEarlyHandoff, PartitionNum>>
    BY <1>6 DEF ReleaseCpu, Faulty, Refused, Unanswered, Fail, Goto
  <2> QED
    BY <1>1, <1>4, <2>1, HandoffTypeInv DEF ReleaseCpu, TypeInv, TypeOK
<1> QED
  BY <1>5, <1>6

\* The entry of the running CPU keeps the types.
LEMMA OwnTypeInv == TypeInv /\ OwnEntry => TypeInv'
<1> SUFFICES ASSUME TypeInv, OwnEntry PROVE TypeInv'
  OBVIOUS
<1>1. pc = "CPU" /\ MoreEntries /\ runEntry' = CpuIndex + 1
  BY DEF OwnEntry
<1>2. runEntry' \in Nat /\ runEntry' <= Len(FsblInstance.handoff)
  BY <1>1, EntryTypes DEF TypeInv, TypeOK
<1>3. CASE Entry.aa32
  BY <1>1, <1>2, <1>3, HandoffTypeInv DEF OwnEntry, Fail, Goto, TypeInv, TypeOK
<1>4. CASE ~Entry.aa32
  BY <1>1, <1>2, <1>4, AfterEntryTypes, HandoffTypeInv DEF OwnEntry, TypeInv, TypeOK
<1> QED
  BY <1>3, <1>4

\* XFsbl_HandoffExit keeps the types.
LEMMA ExitTypeInv == TypeInv /\ HandoffExit => TypeInv'
<1> SUFFICES ASSUME TypeInv, HandoffExit PROVE TypeInv'
  OBVIOUS
<1>1. pc = "CPU" /\ pc' \in {"DONE", "NOHANDOFF"}
  BY DEF HandoffExit, Goto
<1>2. ASSUME runEntry # 0
      PROVE  CodeAt(<<2, FsblInstance.handoff[runEntry].exec>>) \in Content
  <2>1. FsblInstance.handoff \in Seq(HandoffEntry) /\ runEntry \in Nat
    BY DEF TypeInv, TypeOK, Instance
  <2>2. runEntry \in 1 .. Len(FsblInstance.handoff)
    BY <1>1, <1>2, <2>1 DEF TypeInv, Flow
  <2>3. FsblInstance.handoff[runEntry] \in HandoffEntry
    BY <2>1, <2>2
  <2>4. <<2, FsblInstance.handoff[runEntry].exec>> \in Slot
    BY <2>3 DEF HandoffEntry, Slot
  <2> QED
    BY <2>4, CodeTypes
<1>3. running' \in [Core -> Content]
  BY <1>2 DEF HandoffExit, TypeInv, TypeOK
<1>4. wdt' \in BOOLEAN
  BY Zenon DEF HandoffExit, StopWdt, TypeInv, TypeOK
<1> QED
  BY <1>1, <1>3, <1>4, HandoffTypeInv DEF HandoffExit, TypeInv, TypeOK

\* XFsbl_ErrorLockDown keeps the types.
LEMMA ErrorTypeInv == TypeInv /\ ErrorLockDown => TypeInv'
<1> SUFFICES ASSUME TypeInv, ErrorLockDown PROVE TypeInv'
  OBVIOUS
<1>1. wdt' \in BOOLEAN
  BY Zenon DEF ErrorLockDown, StopWdt, TypeInv, TypeOK
<1>2. /\ pc = "ERR" /\ pc' \in {"SPIN", "SOFTRESET", "NOHANDOFF"}
      /\ pc' = "NOHANDOFF" => multiboot' = multiboot
  BY DEF ErrorLockDown, Goto
<1>3. multiboot <= LastImage
  BY <1>2 DEF TypeInv, Flow
<1>4. multiboot' \in ImageIndex
  BY <1>3, LastImageAssumption
     DEF ErrorLockDown, NextImage, TypeInv, TypeOK, ImageIndex
<1>5. TypeOK'
  BY <1>1, <1>2, <1>4 DEF ErrorLockDown, TypeInv, TypeOK, Pc, dataVars, envVars
<1>6. Flow'
  BY <1>2, <1>3 DEF ErrorLockDown, TypeInv, Flow, HeadersOK, LoadingPcs, dataVars
<1> QED
  BY <1>5, <1>6 DEF TypeInv

(***************************************************************************)
(* A reset in which the boot ROM loads the FSBL anew.                      *)
(***************************************************************************)
LEMMA RomTypeInv ==
  ASSUME TypeInv, RomLoadsFsbl, pl' \in Content, BootMode' = BootMode,
         resetReg' \in [psOnly : BOOLEAN, apu : BOOLEAN, wdt : BOOLEAN],
         restarts' \in 0 .. MaxRestarts
  PROVE  TypeInv'
<1>1. FsblInstance' \in Instance /\ ~FsblInstance'.hdr
  BY LastImageAssumption
     DEF RomLoadsFsbl, InitialInstance, Instance, SYSTEM_RESET, ImageIndex
<1>2. log' \in Log
  BY DEF RomLoadsFsbl, InitialLog, Log, TypeInv, TypeOK
<1>3. running' \in [Core -> Content]
  BY ContentTypes DEF RomLoadsFsbl
<1>4. /\ pc' \in {"ROMSTOP", "STAGE1"}
      /\ pc' = "STAGE1" => multiboot' <= LastImage
  BY LastImageAssumption
     DEF RomLoadsFsbl, MainRestarts, Goto, TypeInv, TypeOK, ImageIndex
<1>5. PartitionNum' \in PartitionIndex
  BY DEF RomLoadsFsbl, MainRestarts, PartitionIndex, XIH_MAX_PARTITIONS
<1>6. TypeOK'
  BY <1>1, <1>2, <1>3, <1>4, <1>5
     DEF RomLoadsFsbl, MainRestarts, TypeInv, TypeOK, Pc
<1>7. Flow'
  BY <1>1, <1>4 DEF RomLoadsFsbl, MainRestarts, TypeInv, Flow, HeadersOK, LoadingPcs
<1> QED
  BY <1>6, <1>7 DEF TypeInv

\* A reset keeps the types.
LEMMA ResetTypeInv == TypeInv /\ Reset => TypeInv'
<1> SUFFICES ASSUME TypeInv, Reset PROVE TypeInv'
  OBVIOUS
<1>1. NoContent \in Content /\ pl \in Content
  BY ContentTypes DEF TypeInv, TypeOK
<1>2. ASSUME MayRestart PROVE restarts' \in 0 .. MaxRestarts /\ BootMode' = BootMode
  BY <1>2, RestartAssumption DEF MayRestart, TypeInv, TypeOK
<1>3. CASE SoftReset
  BY <1>1, <1>3, RomTypeInv DEF SoftReset, SystemReset, TypeInv, TypeOK, envVars
<1>4. CASE WdtExpire
  BY <1>1, <1>4, RomTypeInv DEF WdtExpire, SystemReset, TypeInv, TypeOK, envVars
<1>5. CASE SoftwareReset
  BY <1>1, <1>2, <1>5, RomTypeInv DEF SoftwareReset, SystemReset, TypeInv, TypeOK
<1>6. CASE PsOnlyReset
  BY <1>1, <1>2, <1>6, RomTypeInv DEF PsOnlyReset, TypeInv, TypeOK
<1>7. CASE ApuOnlyReset
  <2>1. pc = "DONE" /\ pc' = "STAGE1"
    BY <1>7 DEF ApuOnlyReset, MayRestart, Goto
  <2>2. running' \in [Core -> Content]
    BY <1>1, <1>7 DEF ApuOnlyReset, TypeInv, TypeOK
  <2>3. resetReg' \in [psOnly : BOOLEAN, apu : BOOLEAN, wdt : BOOLEAN]
    BY <1>7 DEF ApuOnlyReset, TypeInv, TypeOK
  <2>4. PartitionNum' \in PartitionIndex
    BY <1>7 DEF ApuOnlyReset, MainRestarts, PartitionIndex, XIH_MAX_PARTITIONS
  <2>5. TypeOK'
    BY <1>2, <1>7, <2>1, <2>2, <2>3, <2>4
       DEF ApuOnlyReset, MainRestarts, TypeInv, TypeOK, Pc, dataVars
  <2>6. Flow'
    BY <1>7, <2>1
       DEF ApuOnlyReset, MainRestarts, TypeInv, Flow, HeadersOK, LoadingPcs, dataVars
  <2> QED
    BY <2>5, <2>6 DEF TypeInv
<1> QED
  BY <1>3, <1>4, <1>5, <1>6, <1>7 DEF Reset

\* A step that changes nothing keeps the types.
LEMMA StutterTypeInv == TypeInv /\ UNCHANGED vars => TypeInv'
BY DEF TypeInv, TypeOK, Flow, HeadersOK, vars, mainVars, dataVars, regVars, hwVars,
       envVars

\* Every step of the FSBL and of its environment keeps the types.
LEMMA TypeInvStep == TypeInv /\ [Next]_vars => TypeInv'
BY InitializeTypeInv, PrimaryTypeInv, ValidateHeaderTypeInv, SecondaryTypeInv,
   PartitionHeaderTypeInv, PartitionCopyTypeInv, DeviceCopyTypeInv,
   ValidationTypeInv, PlValidationTypeInv, PlLoadTypeInv, MeasureTypeInv,
   PmuWaitTypeInv, PmuTypeInv, NextTypeInv, HandoffBeginTypeInv, SkipTypeInv,
   ReleaseTypeInv, OwnTypeInv, ExitTypeInv, ErrorTypeInv, ResetTypeInv,
   StutterTypeInv
   DEF Next, FsblStep

(***************************************************************************)
(* The variables keep their types.  In particular no sequence of images,   *)
(* faults and resets makes the FSBL look at a partition header outside the *)
(* array of 32, or the boot ROM at an image behind the last.               *)
(***************************************************************************)
THEOREM TypeCorrect == Spec => []TypeOK
<1>1. TypeInv => TypeOK
  BY DEF TypeInv
<1> QED
  BY <1>1, InitTypeInv, TypeInvStep, PTL DEF Spec

-----------------------------------------------------------------------------
(***************************************************************************)
(* An entry is for one of the eight CPUs a partition may be for, because   *)
(* the header was validated before the partition is copied or checked, and *)
(* no CPU has two.  The saved data section comes back on a restart of the  *)
(* APU alone, so its list is held to the same.                             *)
(***************************************************************************)
OneEach(L) ==
  /\ \A k \in DOMAIN L : L[k].cpu \in 1 .. CPU_PMU
  /\ \A i, j \in DOMAIN L : L[i].cpu = L[j].cpu => i = j

ValidatedPcs == {"COPY", "LOAD", "CHECK", "FINISH"}

HandoffInv ==
  /\ OneEach(FsblInstance.handoff) /\ OneEach(dup.inst.handoff)
  /\ pc \in ValidatedPcs => DestinationCpu(Hdr) \in 1 .. CPU_PMU

-----------------------------------------------------------------------------
(***************************************************************************)
(* A list with one entry for each CPU has at most eight entries.           *)
(***************************************************************************)
LEMMA OneEachBound ==
  ASSUME NEW L \in Seq(HandoffEntry), OneEach(L)
  PROVE  Len(L) <= CPU_PMU
<1> SUFFICES ASSUME Len(L) > CPU_PMU PROVE FALSE
  BY DEF CPU_PMU
<1> DEFINE S == 1 .. Len(L)
           T == 1 .. CPU_PMU
           f == [k \in S |-> L[k].cpu]
<1>0. \A n \in Nat : IsFiniteSet(1 .. n) /\ Cardinality(1 .. n) = n
  BY FS_Interval
<1>1. Len(L) \in Nat /\ DOMAIN L = S
  OBVIOUS
<1>2. IsFiniteSet(S) /\ Cardinality(S) = Len(L)
  BY <1>0, <1>1
<1>3. IsFiniteSet(T) /\ Cardinality(T) = CPU_PMU
  <2>1. CPU_PMU \in Nat
    BY DEF CPU_PMU
  <2> QED
    BY <1>0, <2>1
<1>4. f \in [S -> T]
  BY <1>1 DEF OneEach
<1>5. \E x, y \in S : x # y /\ f[x] = f[y]
  <2>1. Cardinality(T) < Cardinality(S)
    BY <1>1, <1>2, <1>3 DEF CPU_PMU
  <2> HIDE DEF S, T, f
  <2> QED
    BY <1>2, <1>3, <1>4, <2>1, FS_PigeonHole
<1> QED
  BY <1>1, <1>5 DEF OneEach

(***************************************************************************)
(* XFsbl_CheckHandoffCpu keeps it that way.                                *)
(***************************************************************************)
LEMMA AddHandoffOneEach ==
  ASSUME TypeInv, OneEach(FsblInstance.handoff),
         NEW h \in PartitionHeader, DestinationCpu(h) \in 1 .. CPU_PMU
  PROVE  OneEach(AddHandoff(h).handoff)
<1> DEFINE L == FsblInstance.handoff
           e == NewEntry(h)
<1>1. FsblInstance \in Instance /\ L \in Seq(HandoffEntry)
  BY DEF TypeInv, TypeOK, Instance
<1>2. CASE DestinationCpu(h) \in HandoffCpus
  BY <1>2 DEF AddHandoff
<1>3. CASE DestinationCpu(h) \notin HandoffCpus
  <2>1. e \in HandoffEntry /\ e.cpu = DestinationCpu(h)
    BY DestinationCpuType DEF NewEntry, HandoffEntry, PartitionHeader
  <2>2. \A k \in DOMAIN L : L[k].cpu # e.cpu
    BY <1>3, <2>1 DEF HandoffCpus
  <2>3. AddHandoff(h).handoff = Append(L, e)
    BY <1>1, <1>3 DEF AddHandoff, AppendHandoff, Instance
  <2> HIDE DEF L, e
  <2>4. /\ DOMAIN Append(L, e) = 1 .. (Len(L) + 1)
        /\ \A k \in 1 .. Len(L) : Append(L, e)[k] = L[k]
        /\ Append(L, e)[Len(L) + 1] = e
    BY <1>1, <2>1
  <2>5. OneEach(L) /\ DOMAIN L = 1 .. Len(L) /\ Len(L) \in Nat
    BY <1>1 DEF L
  <2>6. OneEach(Append(L, e))
    BY <2>1, <2>2, <2>4, <2>5 DEF OneEach
  <2> QED
    BY <2>3, <2>6
<1> QED
  BY <1>2, <1>3

-----------------------------------------------------------------------------
(***************************************************************************)
(* The actions that leave the list alone.                                  *)
(***************************************************************************)
LEMMA QuietHandoffInv ==
  ASSUME HandoffInv, FsblInstance'.handoff = FsblInstance.handoff, dup' = dup,
         pc' \in ValidatedPcs =>
           /\ pc \in ValidatedPcs /\ PartitionNum' = PartitionNum
           /\ FsblInstance'.img = FsblInstance.img
           /\ FsblInstance'.hdr = FsblInstance.hdr
  PROVE  HandoffInv'
BY DEF HandoffInv, Hdr, PH, CurImage

\* Stages that add no entry to the list.
LEMMA StartHandoffInv ==
  ASSUME TypeInv, HandoffInv,
         \/ PrimaryBootDeviceInit \/ ValidateHeader \/ SecondaryBootDeviceInit
         \/ NextPartition \/ HandoffBegin \/ SkipEntry \/ ReleaseCpu \/ OwnEntry
         \/ HandoffExit \/ ErrorLockDown
  PROVE  HandoffInv'
<1> USE DEF Faulty, Refused, Unanswered, ShaAsserts, Fail, Goto, ValidatedPcs
<1>1. CASE PrimaryBootDeviceInit \/ ErrorLockDown
  BY <1>1, QuietHandoffInv DEF PrimaryBootDeviceInit, ErrorLockDown, dataVars
<1>2. CASE ValidateHeader
  <2>1. FsblInstance'.handoff = FsblInstance.handoff
    BY <1>2, ValidateHeaderKeeps DEF TypeInv
  <2> QED
    BY <1>2, <2>1, QuietHandoffInv DEF ValidateHeader, EnterStage3
<1>3. CASE SecondaryBootDeviceInit
  <2>1. FsblInstance'.handoff = FsblInstance.handoff
    BY <1>3 DEF SecondaryBootDeviceInit, TypeInv, TypeOK, Instance
  <2> QED
    BY <1>3, <2>1, QuietHandoffInv DEF SecondaryBootDeviceInit, EnterStage3
<1>4. CASE NextPartition \/ HandoffBegin \/ HandoffExit
  BY <1>4, QuietHandoffInv DEF NextPartition, HandoffBegin, HandoffExit, handoffUnchanged
<1>5. ASSUME AfterEntry, pc = "CPU"
      PROVE  pc' \in {"HEADER", "HANDOFF", "CPU"}
  BY <1>5 DEF AfterEntry
<1>6. CASE SkipEntry \/ ReleaseCpu \/ OwnEntry
  <2>1. pc' \in {"HEADER", "HANDOFF", "CPU", "ERR", "HUNG"}
    BY <1>5, <1>6 DEF SkipEntry, ReleaseCpu, OwnEntry
  <2> QED
    BY <1>6, <2>1, QuietHandoffInv DEF SkipEntry, ReleaseCpu, OwnEntry, handoffUnchanged
<1> QED
  BY <1>1, <1>2, <1>3, <1>4, <1>6

(***************************************************************************)
(* Stage 3.                                                                *)
(***************************************************************************)
LEMMA HeaderHandoffInv ==
  ASSUME TypeInv, HandoffInv, PartitionHeaderValidation
  PROVE  HandoffInv'
<1>1. /\ UNCHANGED <<FsblInstance, dup, PartitionNum>>
      /\ pc' = NextAfterHeader(HeaderStatus(Hdr, FsblInstance.reset, EfuseEncOnly))
  BY DEF PartitionHeaderValidation, loadUnchanged, Goto
<1>2. Hdr' = Hdr
  BY <1>1 DEF Hdr, PH, CurImage
<1>3. ASSUME pc' \in ValidatedPcs
      PROVE  DestinationCpu(Hdr) \in 1 .. CPU_PMU
  <2>1. ValidatePartitionHeader(Hdr, FsblInstance.reset, EfuseEncOnly) = "SUCCESS"
    BY <1>1, <1>3 DEF NextAfterHeader, HeaderStatus, ValidatedPcs
  <2>2. DestinationCpu(Hdr) <= CPU_PMU
    BY <2>1 DEF ValidatePartitionHeader
  <2>3. Hdr \in PartitionHeader
    BY HdrType DEF TypeInv
  <2> QED
    BY <2>2, <2>3
       DEF DestinationCpu, PartitionHeader, ProcessorID, CPU_A53_0, CPU_NONE, CPU_PMU
<1> QED
  BY <1>1, <1>2, <1>3 DEF HandoffInv, DestinationCpu

\* The partition loop adds an entry only for a CPU that has none.
LEMMA LoadHandoffInv ==
  ASSUME TypeInv, HandoffInv,
         \/ PartitionCopy \/ DeviceCopy \/ PartitionValidation \/ PlValidation
         \/ PlLoad \/ MeasurePartition \/ CheckPmuFw \/ WaitForPmuFw
  PROVE  HandoffInv'
<1> USE DEF Faulty, Refused, Unanswered, Fail, Goto, ValidatedPcs
<1>1. CASE DeviceCopy \/ PartitionValidation \/ PlValidation \/ PlLoad
           \/ CheckPmuFw \/ WaitForPmuFw
  BY <1>1, QuietHandoffInv
     DEF DeviceCopy, PartitionValidation, PlValidation, PlLoad, CheckPmuFw,
         WaitForPmuFw, loadUnchanged
<1>2. FsblInstance \in Instance /\ Hdr \in PartitionHeader
  BY HdrType DEF TypeInv, TypeOK
<1>3. ASSUME FsblInstance' = AddHandoff(Hdr), pc \in ValidatedPcs,
             UNCHANGED <<dup, PartitionNum>>
      PROVE  HandoffInv'
  <2>1. OneEach(FsblInstance'.handoff)
    BY <1>2, <1>3, AddHandoffOneEach DEF HandoffInv
  <2>2. FsblInstance'.hdr = FsblInstance.hdr /\ FsblInstance'.img = FsblInstance.img
    BY <1>2, <1>3, AddHandoffType DEF TypeInv
  <2>3. Hdr' = Hdr
    BY <1>3, <2>2 DEF Hdr, PH, CurImage
  <2> QED
    BY <1>3, <2>1, <2>3 DEF HandoffInv, DestinationCpu
<1>4. CASE MeasurePartition
  <2>1. CASE DestCpu = CPU_PMU
    BY <1>4, <2>1, QuietHandoffInv DEF MeasurePartition, loadUnchanged
  <2>2. CASE DestCpu # CPU_PMU
    BY <1>3, <1>4, <2>2 DEF MeasurePartition, loadUnchanged
  <2> QED
    BY <2>1, <2>2
<1>5. CASE PartitionCopy
  <2>1. pc = "COPY" /\ UNCHANGED <<dup, PartitionNum>>
    BY <1>5 DEF PartitionCopy, loadUnchanged
  <2>2. CASE FsblInstance' = AddHandoff(Hdr)
    BY <1>3, <2>1, <2>2
  <2>3. CASE ConfigureMemory \/ UNCHANGED FsblInstance
    <3>1. /\ FsblInstance'.handoff = FsblInstance.handoff
          /\ FsblInstance'.hdr = FsblInstance.hdr
          /\ FsblInstance'.img = FsblInstance.img
      BY <1>2, <2>3 DEF ConfigureMemory, Instance
    <3> QED
      BY <2>1, <3>1, QuietHandoffInv
  <2> QED
    BY <1>5, <2>2, <2>3 DEF PartitionCopy
<1> QED
  BY <1>1, <1>4, <1>5

(***************************************************************************)
(* The data section at the start, and over resets.                         *)
(***************************************************************************)
LEMMA InitializeHandoffInv ==
  ASSUME TypeInv, HandoffInv, Initialize
  PROVE  HandoffInv'
<1> DEFINE reset == GetResetReason
           data == DataSection(reset)
<1>1. data.inst \in Instance /\ OneEach(data.inst.handoff)
  BY DEF DataSection, RestoreData, TypeInv, TypeOK, HandoffInv
<1>2. FsblInstance' = [data.inst EXCEPT !.reset = reset]
  BY DEF Initialize
<1>3. OneEach(FsblInstance'.handoff)
  <2> HIDE DEF data, reset
  <2>1. FsblInstance'.handoff = data.inst.handoff
    BY <1>1, <1>2 DEF Instance
  <2> QED
    BY <1>1, <2>1
<1>4. OneEach(dup'.inst.handoff)
  BY DEF Initialize, SaveData, HandoffInv
<1>5. pc' \in {"ERR", "INITHUNG", "PRIMARY"}
  BY DEF Initialize, Refused, Fail, Goto
<1> QED
  BY <1>3, <1>4, <1>5 DEF HandoffInv, ValidatedPcs

\* A load of the FSBL starts with an empty list, an APU reset keeps it.
LEMMA ResetHandoffInv ==
  ASSUME TypeInv, HandoffInv, Reset
  PROVE  HandoffInv'
<1>1. CASE RomLoadsFsbl
  <2>1. FsblInstance'.handoff = <<>> /\ dup' = dup /\ pc' \in {"STAGE1", "ROMSTOP"}
    BY <1>1 DEF RomLoadsFsbl, InitialInstance, Goto
  <2> QED
    BY <2>1 DEF HandoffInv, OneEach, ValidatedPcs
<1>2. CASE ApuOnlyReset
  BY <1>2, QuietHandoffInv DEF ApuOnlyReset, Goto, ValidatedPcs, dataVars
<1> QED
  BY <1>1, <1>2
     DEF Reset, SoftReset, WdtExpire, SoftwareReset, PsOnlyReset, SystemReset

\* The PMU, and steps that change nothing.
LEMMA OtherHandoffInv ==
  ASSUME HandoffInv, PmuAnswers \/ PmuDies \/ UNCHANGED vars
  PROVE  HandoffInv'
BY QuietHandoffInv
   DEF PmuAnswers, PmuDies, loadUnchanged, vars, mainVars, dataVars

(***************************************************************************)
(* The handoff list has no two entries for one CPU and never more than     *)
(* ten, whatever the images hold and however many partitions they have     *)
(* (XFsbl_CheckHandoffCpu; the array has ten elements and its index is not *)
(* checked).                                                               *)
(***************************************************************************)
THEOREM HandoffListBounded == Spec => []HandoffListOK
<1>1. Init => TypeInv /\ HandoffInv
  <2> SUFFICES ASSUME Init PROVE HandoffInv
    BY InitTypeInv
  <2> QED
    BY DEF Init, InitialInstance, HandoffInv, OneEach, ValidatedPcs
<1>2. TypeInv /\ [Next]_vars => TypeInv'
  BY TypeInvStep
<1>3. TypeInv /\ HandoffInv /\ [Next]_vars => HandoffInv'
  BY StartHandoffInv, HeaderHandoffInv, LoadHandoffInv, InitializeHandoffInv,
     ResetHandoffInv, OtherHandoffInv
     DEF Next, FsblStep
<1>4. TypeInv /\ HandoffInv => HandoffListOK
  <2> SUFFICES ASSUME TypeInv, HandoffInv PROVE HandoffListOK
    OBVIOUS
  <2>1. FsblInstance.handoff \in Seq(HandoffEntry)
    BY DEF TypeInv, TypeOK, Instance
  <2>2. Len(FsblInstance.handoff) <= CPU_PMU
    BY <2>1, OneEachBound DEF HandoffInv
  <2> QED
    BY <2>1, <2>2 DEF HandoffInv, OneEach, HandoffListOK, CPU_PMU
<1> QED
  BY <1>1, <1>2, <1>3, <1>4, PTL DEF Spec

-----------------------------------------------------------------------------
(***************************************************************************)
(* From the first boot device on, until the handoff or the error path is   *)
(* through, the watchdog of a boot from a device is armed.  A restart of   *)
(* the APU alone is the exception, and stays one until the next reset.     *)
(***************************************************************************)
GuardedPcs ==
  {"VALIDATE", "SECONDARY", "HEADER", "COPY", "LOAD", "CHECK", "PL", "FINISH",
   "PMUFW", "FWWAIT", "NEXT", "HANDOFF", "CPU", "HUNG"}
GuardInv ==
  BootMode = "FLASH" /\ pc \in GuardedPcs => wdt \/ MasterOnly

\* A step that changes neither watchdog nor boot mode keeps the guard.
LEMMA GuardKept ==
  ASSUME GuardInv, wdt' = wdt, BootMode' = BootMode,
         FsblInstance'.reset = FsblInstance.reset,
         pc' \in GuardedPcs => pc \in GuardedPcs
  PROVE  GuardInv'
BY DEF GuardInv, MasterOnly

\* Outside the stages that may wait nothing is claimed.
LEMMA GuardEnds ==
  ASSUME pc' \notin GuardedPcs
  PROVE  GuardInv'
BY DEF GuardInv

\* An entry of the handoff list does not change the kind of reset.
LEMMA AddHandoffReset ==
  ASSUME TypeInv, NEW h
  PROVE  AddHandoff(h).reset = FsblInstance.reset
BY DEF AddHandoff, AppendHandoff, TypeInv, TypeOK, Instance

-----------------------------------------------------------------------------
\* The watchdog is started before any stage that waits.
LEMMA StartGuard ==
  ASSUME TypeInv, GuardInv,
         \/ Initialize \/ PrimaryBootDeviceInit \/ ValidateHeader
         \/ SecondaryBootDeviceInit
  PROVE  GuardInv'
<1> USE DEF Faulty, Refused, Unanswered, Fail, Goto, GuardedPcs
<1>1. FsblInstance \in Instance
  BY DEF TypeInv, TypeOK
<1>2. CASE Initialize
  <2>1. pc' \in {"ERR", "INITHUNG", "PRIMARY"}
    BY <1>2 DEF Initialize
  <2> QED
    BY <2>1, GuardEnds
<1>3. CASE PrimaryBootDeviceInit
  <2>1. MasterOnly' = MasterOnly /\ BootMode' = BootMode
    BY <1>3 DEF PrimaryBootDeviceInit, MasterOnly, dataVars, envVars
  <2>2. CASE pc' = "ERR" \/ BootMode # "FLASH"
    BY <2>1, <2>2 DEF GuardInv
  <2>3. CASE pc' # "ERR" /\ BootMode = "FLASH"
    <3>1. InitWdt
      BY <1>3, <2>3 DEF PrimaryBootDeviceInit
    <3>2. wdt' \/ MasterOnly
      BY <2>3, <3>1, Zenon DEF InitWdt
    <3> QED
      BY <2>1, <3>2, Zenon DEF GuardInv
  <2> QED
    BY <2>2, <2>3
<1>4. CASE ValidateHeader
  <2>1. FsblInstance'.reset = FsblInstance.reset
    BY <1>4, ValidateHeaderKeeps DEF TypeInv
  <2>2. pc = "VALIDATE" /\ UNCHANGED <<wdt, BootMode>>
    BY <1>4 DEF ValidateHeader, envVars
  <2> QED
    BY <2>1, <2>2, GuardKept
<1>5. CASE SecondaryBootDeviceInit
  <2>1. FsblInstance'.reset = FsblInstance.reset
    BY <1>1, <1>5 DEF SecondaryBootDeviceInit, Instance
  <2>2. pc = "SECONDARY" /\ UNCHANGED <<wdt, BootMode>>
    BY <1>5 DEF SecondaryBootDeviceInit, envVars
  <2> QED
    BY <2>1, <2>2, GuardKept
<1> QED
  BY <1>2, <1>3, <1>4, <1>5

\* The partition loop never stops it.
LEMMA LoadGuard ==
  ASSUME TypeInv, GuardInv,
         \/ PartitionHeaderValidation \/ PartitionCopy \/ DeviceCopy
         \/ PartitionValidation \/ PlValidation \/ PlLoad \/ MeasurePartition
         \/ CheckPmuFw \/ WaitForPmuFw
  PROVE  GuardInv'
<1>1. FsblInstance \in Instance
  BY DEF TypeInv, TypeOK
<1>2. pc \in GuardedPcs
  BY DEF PartitionHeaderValidation, PartitionCopy, DeviceCopy, PartitionValidation,
         PlValidation, PlLoad, MeasurePartition, CheckPmuFw, WaitForPmuFw, GuardedPcs
<1>3. UNCHANGED <<wdt, BootMode>>
  BY DEF PartitionHeaderValidation, PartitionCopy, DeviceCopy, PartitionValidation,
         PlValidation, PlLoad, MeasurePartition, CheckPmuFw, WaitForPmuFw,
         loadUnchanged, envVars
<1>4. CASE PartitionCopy
  <2>1. ConfigureMemory => FsblInstance'.reset = FsblInstance.reset
    BY <1>1 DEF ConfigureMemory, Instance
  <2>2. FsblInstance'.reset = FsblInstance.reset
    BY <1>4, <2>1, AddHandoffReset DEF PartitionCopy
  <2> QED
    BY <1>2, <1>3, <2>2, GuardKept
<1>5. CASE MeasurePartition
  BY <1>2, <1>3, <1>5, AddHandoffReset, GuardKept DEF MeasurePartition
<1>6. ASSUME UNCHANGED FsblInstance PROVE GuardInv'
  BY <1>2, <1>3, <1>6, GuardKept
<1> QED
  BY <1>4, <1>5, <1>6
     DEF PartitionHeaderValidation, DeviceCopy, PartitionValidation, PlValidation,
         PlLoad, CheckPmuFw, WaitForPmuFw

\* The handoff keeps it until it is over.
LEMMA HandoffGuard ==
  ASSUME TypeInv, GuardInv,
         \/ NextPartition \/ HandoffBegin \/ SkipEntry \/ ReleaseCpu \/ OwnEntry
         \/ HandoffExit \/ ErrorLockDown
  PROVE  GuardInv'
<1>1. CASE HandoffExit \/ ErrorLockDown
  <2>1. pc' \in {"DONE", "NOHANDOFF", "SPIN", "SOFTRESET"}
    BY <1>1 DEF HandoffExit, ErrorLockDown, Goto
  <2> QED
    BY <2>1, GuardEnds DEF GuardedPcs
<1>2. CASE NextPartition \/ HandoffBegin \/ SkipEntry \/ ReleaseCpu \/ OwnEntry
  <2>1. pc \in GuardedPcs
    BY <1>2 DEF NextPartition, HandoffBegin, SkipEntry, ReleaseCpu, OwnEntry, GuardedPcs
  <2>2. UNCHANGED <<wdt, BootMode, FsblInstance>>
    BY <1>2 DEF NextPartition, HandoffBegin, SkipEntry, ReleaseCpu, OwnEntry,
                handoffUnchanged, envVars
  <2> QED
    BY <2>1, <2>2, GuardKept
<1> QED
  BY <1>1, <1>2

\* Resets and the PMU, and steps that change nothing.
LEMMA OtherGuard ==
  ASSUME GuardInv, Reset \/ PmuAnswers \/ PmuDies \/ UNCHANGED vars
  PROVE  GuardInv'
<1>1. CASE Reset
  <2>1. pc' \in {"STAGE1", "ROMSTOP"}
    BY <1>1 DEF Reset, SoftReset, WdtExpire, SoftwareReset, PsOnlyReset, SystemReset,
                ApuOnlyReset, RomLoadsFsbl, Goto
  <2> QED
    BY <2>1, GuardEnds DEF GuardedPcs
<1>2. CASE PmuAnswers \/ PmuDies \/ UNCHANGED vars
  BY <1>2, GuardKept
     DEF PmuAnswers, PmuDies, loadUnchanged, envVars, vars, mainVars, dataVars, hwVars
<1> QED
  BY <1>1, <1>2

(***************************************************************************)
(* Whatever the images, the faults and the resets: a boot from a device    *)
(* that hangs once stage 1 is over does so under an armed watchdog, unless *)
(* only the APU was restarted.  The waits for a device, the PL and the PMU *)
(* and the assertions of the drivers have no limit of their own            *)
(* (XFsbl_PrimaryBootDeviceInit, XFsbl_InitWdt).  Those of stage 1         *)
(* (XFsbl_Initialize) come before it and are left out.                     *)
(***************************************************************************)
THEOREM WaitsAreGuarded == Spec => []EndlessWaitIsGuarded
<1>1. Init => TypeInv /\ GuardInv
  <2> SUFFICES ASSUME Init PROVE GuardInv
    BY InitTypeInv
  <2> QED
    BY DEF Init, GuardInv, GuardedPcs
<1>2. TypeInv /\ [Next]_vars => TypeInv'
  BY TypeInvStep
<1>3. TypeInv /\ GuardInv /\ [Next]_vars => GuardInv'
  BY StartGuard, LoadGuard, HandoffGuard, OtherGuard DEF Next, FsblStep
<1>4. GuardInv => EndlessWaitIsGuarded
  BY DEF GuardInv, GuardedPcs, EndlessWaitIsGuarded, Waiting
<1> QED
  BY <1>1, <1>2, <1>3, <1>4, PTL DEF Spec
=============================================================================
