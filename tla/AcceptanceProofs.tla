-------------------------- MODULE AcceptanceProofs --------------------------
(***************************************************************************)
(* Nothing that its own checks reject is ever run: for every flash whose   *)
(* images start their code where they load it, every eFUSE setting, build  *)
(* option and number of restarts, as long as the device delivers what is   *)
(* asked of it.  And what has nothing wrong in it is never refused, when   *)
(* nothing but images fails.                                               *)
(***************************************************************************)
EXTENDS PolicyProofs

(***************************************************************************)
(* The images.  The code a partition brings is not written over by another *)
(* partition of the same image, and the CPU it is for starts inside what   *)
(* this partition or an earlier one for the same CPU brings: an R5 and a   *)
(* 32-bit application at the low vector, others at the entry of the list.  *)
(* Nothing in the code asks for it: XFsbl_Handoff releases a CPU at the    *)
(* address in the header and memory keeps what earlier images left there.  *)
(***************************************************************************)
IsCode(h) ==
  /\ h.owner = 0 /\ ~IsXip(h)
  /\ h.dev # DEVICE_PL /\ DestinationCpu(h) # CPU_PMU
LoadedAt(h) == LoadSlot(DestinationCpu(h), h.load)
StartsAtVector(h) == DestinationCpu(h) \in R5Cpus \/ h.aa32
StartsAt(h) ==
  IF StartsAtVector(h) THEN LoadSlot(DestinationCpu(h), "ZERO") ELSE <<2, h.exec>>

WellPlaced(im) ==
  \A p \in 1 .. (im.n - 1) :
    /\ IsCode(im.ph[p]) =>
         /\ \A q \in 1 .. (im.n - 1) :
              q # p /\ im.ph[q].owner = 0 /\ ~IsXip(im.ph[q]) =>
                LoadedAt(im.ph[q]) # LoadedAt(im.ph[p])
         /\ \E r \in 1 .. p :
              /\ IsCode(im.ph[r]) /\ im.ph[r].cpu = im.ph[p].cpu
              /\ LoadedAt(im.ph[r]) = StartsAt(im.ph[p])
    /\ StartsAtVector(im.ph[p]) =>
         /\ ~IsXip(im.ph[p])
         /\ \A q \in 1 .. (im.n - 1) : ~im.ph[q].hivec

(***************************************************************************)
(* The tables on a second device are authenticated if those that name the  *)
(* device are: the primary key kept from the first boot header would pass  *)
(* for the second's otherwise (EfusePpkKey).                               *)
(***************************************************************************)
SecondAuthenticated ==
  \A i \in 0 .. LastImage :
    Images[i].ppd # XIH_IHT_PPD_SAME /\ AuthRequired(Images[i]) =>
      AuthRequired(Images[LastImage + 1])

PlacedFlash == \A i \in ImageIndex : WellPlaced(Images[i])
SoundFlash ==
  /\ PlacedFlash
  /\ SecondAuthenticated
  /\ "short" \notin Faults

-----------------------------------------------------------------------------
(***************************************************************************)
(* Contents that may be run or configured.                                 *)
(***************************************************************************)
Vouched(c) == ~Rejectable(c) /\ c.form # "cipher" /\ SignerInForce(c)

(***************************************************************************)
(* The key kept from the boot header: none until a header was looked at,   *)
(* one in force, and in the loop the one of the current image's header.    *)
(***************************************************************************)
KeptKey == FsblInstance.ppk
KeyOf(im) == KeptKey # 0 => AuthRequired(im) /\ KeptKey = im.cert.ppk
LoadsOrStarts == InLoop \/ pc \in {"HANDOFF", "CPU"}
KeyInv ==
  /\ dup.inst.ppk = 0
  /\ pc = "STAGE1" => KeptKey = 0 \/ GetResetReason = MASTER_ONLY_RESET
  /\ pc = "PRIMARY" \/ (pc = "VALIDATE" /\ FsblInstance.sec = 0) => KeptKey = 0
  /\ pc \in {"SECONDARY", "VALIDATE"} => KeyOf(Images[multiboot])
  /\ KeptKey # 0 /\ EfuseRsa => PpkInForce(KeptKey)
  /\ LoadsOrStarts /\ FsblInstance.hdr => KeyOf(CurImage)

(***************************************************************************)
(* One pass of the loop: the header that was checked, and what the copy    *)
(* left in memory.                                                         *)
(***************************************************************************)
Taken(h) == h.owner = 0 /\ ~NotForThisReset(h, FsblInstance.reset)
PassInv ==
  /\ pc \in ValidatedPcs \cup {"PL"} =>
       /\ Taken(Hdr) /\ XipOK(Hdr)
       /\ CheckValidMemoryAddress(Hdr.load, DestCpu, Hdr.dev)
  /\ pc = "LOAD" => ~IsXip(Hdr)
  /\ pc = "PL" => IsPl
  /\ pc = "FINISH" => ~IsPl
CopiedInv ==
  /\ pc \in {"CHECK", "PL"} /\ ~IsXip(Hdr) /\ ~(IsPl /\ PsOnly) =>
       mem[PartitionSlot] = BytesIn(PartitionNum)
  /\ pc = "PL" => ~PsOnly /\ (Hdr.cksum # 0 => Hdr.intact)

(***************************************************************************)
(* The code of the partitions that were passed is in memory, and so is     *)
(* that of the one at hand once it was validated.                          *)
(***************************************************************************)
Passed == {"FINISH", "PMUFW", "FWWAIT", "NEXT", "HANDOFF", "CPU"}
Ready(p) ==
  IsCode(CurImage.ph[p]) /\ Taken(CurImage.ph[p]) =>
    Vouched(mem[LoadedAt(CurImage.ph[p])])
LoadedTo(n) == \A p \in 1 .. n : Ready(p)
MemInv ==
  /\ InLoop /\ FsblInstance.hdr => LoadedTo(PartitionNum - 1)
  /\ pc \in Passed /\ FsblInstance.hdr =>
       PartitionNum \in 1 .. LastPartition /\ LoadedTo(PartitionNum)

(***************************************************************************)
(* An entry of the list is one of such a partition.                        *)
(***************************************************************************)
EntryFrom(e, p) ==
  /\ e = NewEntry(CurImage.ph[p])
  /\ p \in 1 .. LastPartition
  /\ Taken(CurImage.ph[p]) /\ XipOK(CurImage.ph[p])
  /\ IsXip(CurImage.ph[p]) \/ IsCode(CurImage.ph[p])
ListInv ==
  /\ pc = "SECONDARY" => DOMAIN FsblInstance.handoff = {}
  /\ LoadsOrStarts =>
       \A k \in DOMAIN FsblInstance.handoff :
         \E p \in 1 .. PartitionNum : EntryFrom(FsblInstance.handoff[k], p)
  /\ pc = "CPU" /\ runEntry # 0 =>
       /\ FsblInstance.handoff[runEntry].cpu = ProcessorID
       /\ ~FsblInstance.handoff[runEntry].aa32

RunInv == (\A c \in Core : Vouched(running[c])) /\ Vouched(pl)

AcceptInv == KeyInv /\ PassInv /\ CopiedInv /\ MemInv /\ ListInv /\ RunInv

-----------------------------------------------------------------------------
(***************************************************************************)
(* The kept key.  Steps that look at no boot header keep it.               *)
(***************************************************************************)
LEMMA QuietKeyInv ==
  ASSUME KeyInv, UNCHANGED dup,
         FsblInstance'.ppk = FsblInstance.ppk, FsblInstance'.hdr = FsblInstance.hdr,
         FsblInstance'.img = FsblInstance.img,
         \/ pc' = pc /\ UNCHANGED <<multiboot, resetReg>>
              /\ FsblInstance'.sec = FsblInstance.sec
         \/ /\ pc' \notin {"STAGE1", "PRIMARY", "VALIDATE", "SECONDARY"}
            /\ LoadsOrStarts' => LoadsOrStarts \/ ~FsblInstance.hdr
  PROVE  KeyInv'
<1>1. KeptKey' = KeptKey /\ CurImage' = CurImage
  BY DEF KeptKey, CurImage
<1>2. CASE pc' = pc /\ UNCHANGED <<multiboot, resetReg>>
             /\ FsblInstance'.sec = FsblInstance.sec
  BY <1>1, <1>2 DEF KeyInv, KeyOf, LoadsOrStarts, InLoop, GetResetReason
<1>3. CASE /\ pc' \notin {"STAGE1", "PRIMARY", "VALIDATE", "SECONDARY"}
           /\ LoadsOrStarts' => LoadsOrStarts \/ ~FsblInstance.hdr
  BY <1>1, <1>3 DEF KeyInv, KeyOf
<1> QED
  BY <1>2, <1>3

\* A boot header that is accepted leaves its key behind, or none was asked for.
LEMMA KeyOfAccepted ==
  ASSUME NEW im \in Image, HeaderAccepted(im), AuthRequired(im)
  PROVE  /\ KeepPpk(im) = [FsblInstance EXCEPT !.ppk = im.cert.ppk]
         /\ EfuseRsa => PpkInForce(im.cert.ppk)
<1>1. ~(EfuseRsa /\ im.rsa) /\ im.ac /\ BhAuthentication(im.cert, im.signed)
  BY DEF HeaderAccepted
<1>2. PpkPasses(im.cert) /\ im.cert.select \in {0, 1}
  BY <1>1 DEF BhAuthentication, Image, Certificate
<1> QED
  BY <1>1, <1>2 DEF KeepPpk, PpkIsKept, PpkPasses, PpkVer, PpkInForce

\* Any key that is kept is in force.
LEMMA KeptIsInForce ==
  ASSUME TypeInv, KeyInv, NEW im \in Image
  PROVE  /\ KeepPpk(im).ppk # 0 /\ EfuseRsa => PpkInForce(KeepPpk(im).ppk)
         /\ KeepPpk(im).hdr = FsblInstance.hdr /\ KeepPpk(im).img = FsblInstance.img
         /\ ~AuthRequired(im) => KeepPpk(im) = FsblInstance
<1>1. FsblInstance \in Instance
  BY DEF TypeInv, TypeOK
<1>2. CASE PpkIsKept(im)
  <2>1. KeepPpk(im) = [FsblInstance EXCEPT !.ppk = im.cert.ppk] /\ AuthRequired(im)
    BY <1>2 DEF KeepPpk, PpkIsKept
  <2>2. EfuseRsa => PpkVer(im.cert) /\ im.cert.select \in {0, 1}
    BY <1>2 DEF PpkIsKept, PpkPasses, Image, Certificate
  <2>3. EfuseRsa => PpkInForce(im.cert.ppk)
    BY <2>2 DEF PpkVer, PpkInForce
  <2> QED
    BY <1>1, <2>1, <2>3 DEF Instance
<1>3. CASE ~PpkIsKept(im)
  <2>1. KeepPpk(im) = FsblInstance
    BY <1>3 DEF KeepPpk
  <2> QED
    BY <2>1 DEF KeyInv, KeptKey
<1> QED
  BY <1>2, <1>3

(***************************************************************************)
(* XFsbl_ValidateHeader, of the first device and of the second.            *)
(***************************************************************************)
LEMMA ValidateHeaderKeyInv ==
  ASSUME SoundFlash, TypeInv, SourceInv, KeyInv, ValidateHeader
  PROVE  KeyInv'
<1> DEFINE im == Images[ImageToValidate]
<1>1. im \in Image /\ FsblInstance \in Instance
  BY ImageToValidateType DEF TypeInv, TypeOK
<1>2. /\ UNCHANGED <<dup, multiboot, resetReg>> /\ pc = "VALIDATE"
      /\ pc' \in {"SECONDARY", "HEADER", "ERR", "HUNG"}
  BY DEF ValidateHeader, EnterStage3, Faulty, Refused, Unanswered, ShaAsserts, Fail, Goto,
         regVars
<1>3. FsblInstance'.ppk = KeepPpk(im).ppk \/ FsblInstance' = FsblInstance
  <2>1. PICK k \in Nat : KeepPpk(im) = [FsblInstance EXCEPT !.ppk = k]
    BY <1>1, KeepPpkType DEF TypeInv
  <2> QED
    BY <1>1, <2>1 DEF ValidateHeader, ReadImageHeader, Instance
<1>4. KeptKey' # 0 /\ EfuseRsa => PpkInForce(KeptKey')
  BY <1>1, <1>3, KeptIsInForce DEF KeyInv, KeptKey
<1>5. CASE HeaderAccepted(im) /\ ReadImageHeader(ImageToValidate)
           /\ pc' \in {"SECONDARY", "HEADER"}
  <2>1. FsblInstance'.img = ImageToValidate /\ FsblInstance'.ppk = KeepPpk(im).ppk
    <3>1. PICK k \in Nat : KeepPpk(im) = [FsblInstance EXCEPT !.ppk = k]
      BY <1>1, KeepPpkType DEF TypeInv
    <3> QED
      BY <1>1, <1>5, <3>1 DEF ReadImageHeader, Instance
  <2>2. KeptKey' # 0 => AuthRequired(im) /\ KeptKey' = im.cert.ppk
    <3>1. CASE AuthRequired(im)
      BY <1>1, <1>5, <2>1, <3>1, KeyOfAccepted DEF KeptKey, Instance
    <3>2. CASE ~AuthRequired(im)
      <4>1. KeptKey' = KeptKey
        BY <1>1, <2>1, <3>2, KeptIsInForce DEF KeptKey
      <4>2. CASE FsblInstance.sec = 0
        BY <1>2, <4>1, <4>2 DEF KeyInv
      <4>3. CASE FsblInstance.sec # 0
        <5>1. Images[multiboot].ppd # XIH_IHT_PPD_SAME /\ im = Images[LastImage + 1]
          BY <1>2, <4>3 DEF SourceInv, ImageToValidate
        <5>2. multiboot \in 0 .. LastImage
          BY <1>2, LastImageAssumption DEF TypeInv, TypeOK, Flow, ImageIndex
        <5>3. ~AuthRequired(Images[multiboot])
          BY <3>2, <5>1, <5>2 DEF SoundFlash, SecondAuthenticated
        <5> QED
          BY <1>2, <4>1, <5>3 DEF KeyInv, KeyOf
      <4> QED
        BY <4>2, <4>3
    <3> QED
      BY <3>1, <3>2
  <2>3. CurImage' = im
    BY <2>1 DEF CurImage
  <2>4. pc' = "SECONDARY" => im = Images[multiboot]
    BY <1>5 DEF ValidateHeader, ImageToValidate, EnterStage3, Goto, Faulty, Refused,
                Unanswered, ShaAsserts, Fail
  <2> QED
    BY <1>2, <1>4, <1>5, <2>2, <2>3, <2>4 DEF KeyInv, KeyOf
<1>6. CASE pc' \in {"ERR", "HUNG"}
  BY <1>2, <1>4, <1>6 DEF KeyInv, LoadsOrStarts, InLoop, LoadingPcs
<1> QED
  BY <1>2, <1>5, <1>6
     DEF ValidateHeader, Faulty, Refused, Unanswered, ShaAsserts, Fail, Goto

\* A second device is asked for with the key of the first header in force.
LEMMA BootDeviceKeyInv ==
  ASSUME TypeInv, LogInv, TableInv, SourceInv, KeyInv,
         PrimaryBootDeviceInit \/ SecondaryBootDeviceInit
  PROVE  KeyInv'
<1> USE DEF Faulty, Refused, Unanswered, Fail, Goto
<1>1. CASE PrimaryBootDeviceInit
  <2>1. /\ UNCHANGED <<dup, FsblInstance, multiboot>> /\ pc = "PRIMARY"
        /\ pc' \in {"VALIDATE", "HANDOFF", "ERR", "HUNG"}
    BY <1>1 DEF PrimaryBootDeviceInit, dataVars, regVars
  <2>2. KeptKey' = 0
    BY <2>1 DEF KeyInv, KeptKey
  <2> QED
    BY <2>1, <2>2 DEF KeyInv, KeyOf
<1>2. CASE SecondaryBootDeviceInit
  <2>1. /\ FsblInstance'.hdr = FsblInstance.hdr /\ FsblInstance'.img = FsblInstance.img
        /\ FsblInstance'.ppk = FsblInstance.ppk
        /\ UNCHANGED <<dup, multiboot>> /\ pc = "SECONDARY"
    BY <1>2 DEF SecondaryBootDeviceInit, TypeInv, TypeOK, Instance, regVars
  <2>2. /\ pc' \in {"HEADER", "VALIDATE", "ERR", "HUNG"}
        /\ pc' = "VALIDATE" => FsblInstance'.sec # 0
    BY <1>2 DEF SecondaryBootDeviceInit, EnterStage3, XIH_IHT_PPD_SAME, XIH_IHT_PPD_USB,
                TypeInv, TypeOK, Instance
  <2>3. CurImage' = CurImage /\ CurImage = Images[multiboot] /\ KeptKey' = KeptKey
    BY <2>1 DEF SourceInv, CurImage, KeptKey
  <2> QED
    BY <2>1, <2>2, <2>3 DEF KeyInv, KeyOf
<1> QED
  BY <1>1, <1>2

(***************************************************************************)
(* The start of a boot: no reset brings an older key back.                 *)
(***************************************************************************)
LEMMA InitializeKeyInv ==
  ASSUME TypeInv, KeyInv, Initialize
  PROVE  KeyInv'
<1> DEFINE reset == GetResetReason
           data == DataSection(reset)
<1>1. data.inst \in Instance /\ data.inst.ppk = 0 /\ dup'.inst.ppk = 0
  BY DEF DataSection, RestoreData, Initialize, SaveData, KeyInv, KeptKey, TypeInv, TypeOK
<1>2. FsblInstance' = [data.inst EXCEPT !.reset = reset]
  BY DEF Initialize
<1>3. pc' \in {"ERR", "INITHUNG", "PRIMARY"}
  BY DEF Initialize, Refused, Fail, Goto
<1> HIDE DEF data, reset
<1>4. KeptKey' = 0
  BY <1>1, <1>2 DEF Instance, KeptKey
<1> QED
  BY <1>1, <1>3, <1>4 DEF KeyInv, KeyOf, LoadsOrStarts, InLoop, LoadingPcs

LEMMA ResetKeyInv ==
  ASSUME TypeInv, TableInv, TableInv', KeyInv, Reset
  PROVE  KeyInv'
<1>1. CASE RomLoadsFsbl
  <2>1. /\ FsblInstance'.ppk = 0 /\ dup' = dup
        /\ pc' \in {"STAGE1", "ROMSTOP"}
    BY <1>1 DEF RomLoadsFsbl, InitialInstance, Goto
  <2> QED
    BY <2>1 DEF KeyInv, KeyOf, KeptKey, LoadsOrStarts, InLoop, LoadingPcs
<1>2. CASE ApuOnlyReset
  <2>1. resetReg' = [resetReg EXCEPT !.apu = TRUE] /\ ~resetReg.psOnly
    BY <1>2 DEF ApuOnlyReset, MayRestart, TableInv
  <2>2. resetReg \in [psOnly : BOOLEAN, apu : BOOLEAN, wdt : BOOLEAN]
    BY DEF TypeInv, TypeOK
  <2>3. GetResetReason' = MASTER_ONLY_RESET
    BY <2>1, <2>2 DEF GetResetReason, MASTER_ONLY_RESET
  <2>4. UNCHANGED <<FsblInstance, dup>> /\ pc' = "STAGE1"
    BY <1>2 DEF ApuOnlyReset, MainRestarts, Goto, dataVars
  <2> QED
    BY <2>3, <2>4 DEF KeyInv, KeyOf, KeptKey, LoadsOrStarts, InLoop, LoadingPcs
<1> QED
  BY <1>1, <1>2 DEF Reset, SoftReset, WdtExpire, SoftwareReset, PsOnlyReset, SystemReset

(***************************************************************************)
(* What the partition loop does to the instance: an entry of the list, or  *)
(* the memory that was initialised.                                        *)
(***************************************************************************)
LoopStep ==
  \/ PartitionHeaderValidation \/ PartitionCopy \/ DeviceCopy
  \/ PartitionValidation \/ PlValidation \/ PlLoad \/ MeasurePartition
  \/ CheckPmuFw \/ WaitForPmuFw

LEMMA LoopKeeps ==
  ASSUME TypeInv, LoopStep
  PROVE  /\ FsblInstance'.hdr = FsblInstance.hdr /\ FsblInstance'.img = FsblInstance.img
         /\ FsblInstance'.ppk = FsblInstance.ppk
         /\ FsblInstance'.reset = FsblInstance.reset
         /\ \/ FsblInstance'.handoff = FsblInstance.handoff
            \/ FsblInstance'.handoff = AddHandoff(Hdr).handoff
         /\ UNCHANGED <<PartitionNum, dup, running, multiboot, resetReg, runEntry,
                        EarlyHandoff>>
         /\ InLoop /\ pc' \in LoadingPcs \cup {"ERR", "HUNG"}
<1> USE DEF Faulty, Refused, Unanswered, ShaAsserts, Fail, Goto
<1>1. /\ UNCHANGED <<PartitionNum, dup, running, multiboot, resetReg, runEntry,
                     EarlyHandoff>>
      /\ InLoop /\ pc' \in LoadingPcs \cup {"ERR", "HUNG"}
  BY DEF LoopStep, PartitionHeaderValidation, NextAfterHeader, PartitionCopy, DeviceCopy,
         PartitionValidation, PlValidation, PlLoad, MeasurePartition, CheckPmuFw,
         WaitForPmuFw, loadUnchanged, regVars, InLoop, LoadingPcs
<1>2. \/ FsblInstance' = FsblInstance
      \/ FsblInstance' = AddHandoff(Hdr)
      \/ FsblInstance' = [FsblInstance EXCEPT !.ecc = TcmEccInitStatus(DestCpu)]
  BY DEF LoopStep, PartitionHeaderValidation, PartitionCopy, ConfigureMemory, DeviceCopy,
         PartitionValidation, PlValidation, PlLoad, MeasurePartition, CheckPmuFw,
         WaitForPmuFw
<1>3. FsblInstance \in Instance /\ Hdr \in PartitionHeader
  BY HdrType DEF TypeInv, TypeOK
<1>4. /\ AddHandoff(Hdr).hdr = FsblInstance.hdr /\ AddHandoff(Hdr).img = FsblInstance.img
      /\ AddHandoff(Hdr).ppk = FsblInstance.ppk
      /\ AddHandoff(Hdr).reset = FsblInstance.reset
  BY <1>3 DEF AddHandoff, AppendHandoff, Instance
<1>5. CASE FsblInstance' = AddHandoff(Hdr)
  BY <1>1, <1>4, <1>5
<1>6. CASE FsblInstance' = [FsblInstance EXCEPT !.ecc = TcmEccInitStatus(DestCpu)]
  BY <1>1, <1>3, <1>6 DEF Instance
<1> QED
  BY <1>1, <1>2, <1>5, <1>6

(***************************************************************************)
(* What leaves the instance and the memory alone: stage 4, and the steps   *)
(* outside of the stages.                                                  *)
(***************************************************************************)
HandoffStep ==
  \/ NextPartition \/ HandoffBegin \/ SkipEntry \/ ReleaseCpu \/ OwnEntry
  \/ HandoffExit
OtherStep == ErrorLockDown \/ PmuAnswers \/ PmuDies \/ UNCHANGED vars

LEMMA HandoffKeeps ==
  ASSUME HandoffStep
  PROVE  /\ UNCHANGED <<FsblInstance, dup, mem, pl, multiboot, resetReg>>
         /\ pc \in {"NEXT", "HANDOFF", "CPU"}
         /\ pc' \in {"HEADER", "HANDOFF", "CPU", "ERR", "HUNG", "DONE", "NOHANDOFF"}
BY DEF HandoffStep, NextPartition, HandoffBegin, SkipEntry, ReleaseCpu, OwnEntry,
       HandoffExit, AfterEntry, handoffUnchanged, Faulty, Refused, Unanswered, Fail, Goto

LEMMA OtherKeeps ==
  ASSUME OtherStep
  PROVE  /\ UNCHANGED <<FsblInstance, dup, mem, pl, running, resetReg, PartitionNum,
                        runEntry, EarlyHandoff>>
         /\ \/ UNCHANGED <<pc, multiboot>>
            \/ pc' \in {"SPIN", "SOFTRESET", "NOHANDOFF"}
BY DEF OtherStep, ErrorLockDown, PmuAnswers, PmuDies, loadUnchanged, Goto, vars, mainVars,
       dataVars, regVars, hwVars

LEMMA KeyInvStep ==
  ASSUME SoundFlash
  PROVE  /\ TypeInv /\ LogInv /\ TableInv /\ SourceInv /\ TableInv' /\ KeyInv
         /\ [Next]_vars
         => KeyInv'
<1> SUFFICES ASSUME TypeInv, LogInv, TableInv, SourceInv, TableInv', KeyInv, [Next]_vars
             PROVE  KeyInv'
  OBVIOUS
<1>1. CASE LoopStep
  BY <1>1, LoopKeeps, QuietKeyInv DEF LoadsOrStarts, LoadingPcs
<1>2. CASE HandoffStep
  <2>1. LoadsOrStarts
    BY <1>2, HandoffKeeps DEF LoadsOrStarts, InLoop, LoadingPcs
  <2> QED
    BY <1>2, <2>1, HandoffKeeps, QuietKeyInv
<1>3. CASE OtherStep
  BY <1>3, OtherKeeps, QuietKeyInv DEF LoadsOrStarts, InLoop, LoadingPcs
<1> QED
  BY <1>1, <1>2, <1>3, ValidateHeaderKeyInv, BootDeviceKeyInv, InitializeKeyInv, ResetKeyInv
     DEF Next, FsblStep, LoopStep, HandoffStep, OtherStep

-----------------------------------------------------------------------------
(***************************************************************************)
(* The partition at hand, and what a step of the loop leaves of it.        *)
(***************************************************************************)
LEMMA CurrentPartition ==
  ASSUME TypeInv, MarkInv, InLoop, FsblInstance.hdr
  PROVE  /\ PartitionNum \in 1 .. LastPartition /\ LastPartition = CurImage.n - 1
         /\ CurImage.n \in Nat
         /\ Hdr = CurImage.ph[PartitionNum]
         /\ FsblInstance.img \in ImageIndex /\ CurImage = Images[FsblInstance.img]
<1>1. FsblInstance.img \in ImageIndex /\ PartitionNum \in Nat
  BY DEF TypeInv, TypeOK, Instance, PartitionIndex, XIH_MAX_PARTITIONS
<1>2. CurImage.n \in Nat
  BY <1>1, ImageTypes DEF CurImage, Image
<1> QED
  BY <1>1, <1>2 DEF MarkInv, LastPartition, CurImage, Hdr, PH

LEMMA LoopHeader ==
  ASSUME TypeInv, LoopStep
  PROVE  /\ Hdr' = Hdr /\ CurImage' = CurImage /\ IsPl' = IsPl /\ PsOnly' = PsOnly
         /\ PartitionSlot' = PartitionSlot /\ LastPartition' = LastPartition
         /\ BytesIn(PartitionNum)' = BytesIn(PartitionNum)
         /\ PartitionSlot = LoadedAt(Hdr)
<1>1. Hdr' = Hdr /\ CurImage' = CurImage /\ PsOnly' = PsOnly /\ UNCHANGED PartitionNum
  BY LoopKeeps DEF Hdr, PH, CurImage, PsOnly
<1>2. PH(PartitionNum)' = PH(PartitionNum)
  BY <1>1 DEF Hdr
<1> QED
  BY <1>1, <1>2, LoopKeeps
     DEF IsPl, PartitionSlot, DestCpu, LastPartition, BytesIn, LoadedAt

(***************************************************************************)
(* A header that passed is one of a partition the FSBL owns, and what it   *)
(* copies is what it validates.                                            *)
(***************************************************************************)
LEMMA LoopPassInv ==
  ASSUME TypeInv, PassInv, LoopStep
  PROVE  PassInv'
<1> USE DEF Faulty, Refused, Unanswered, ShaAsserts, Fail, Goto
<1> DEFINE checked == /\ Taken(Hdr) /\ XipOK(Hdr)
                      /\ CheckValidMemoryAddress(Hdr.load, DestCpu, Hdr.dev)
<1>1. /\ checked' = checked /\ IsXip(Hdr)' = IsXip(Hdr) /\ IsPl' = IsPl
  BY LoopKeeps, LoopHeader DEF Taken, DestCpu
<1>2. CASE PartitionHeaderValidation
  <2>1. pc' \in {"COPY", "NEXT", "ERR"}
    BY <1>2 DEF PartitionHeaderValidation, NextAfterHeader
  <2>2. ASSUME pc' = "COPY" PROVE checked
    <3>1. HeaderStatus(Hdr, FsblInstance.reset, EfuseEncOnly) = "SUCCESS"
      BY <1>2, <2>2 DEF PartitionHeaderValidation, NextAfterHeader
    <3> QED
      BY <3>1 DEF HeaderStatus, ValidatePartitionHeader, Taken, DestCpu
  <2> QED
    BY <1>1, <2>1, <2>2 DEF PassInv, ValidatedPcs
<1> HIDE DEF checked
<1>3. CASE ~PartitionHeaderValidation
  <2>1. /\ pc' \in ValidatedPcs \cup {"PL"} => pc \in ValidatedPcs
        /\ pc' = "LOAD" => ~IsXip(Hdr)
        /\ pc' = "PL" => IsPl
        /\ pc' = "FINISH" => ~IsPl
    BY <1>3
       DEF LoopStep, PartitionCopy, DeviceCopy, PartitionValidation, PlValidation, PlLoad,
           MeasurePartition, CheckPmuFw, WaitForPmuFw, ValidatedPcs
  <2> QED
    BY <1>1, <2>1 DEF PassInv, ValidatedPcs, checked
<1> QED
  BY <1>2, <1>3

LEMMA LoopCopiedInv ==
  ASSUME "short" \notin Faults, TypeInv, CopiedInv, LoopStep
  PROVE  CopiedInv'
<1> USE DEF Faulty, Refused, Unanswered, ShaAsserts, Fail, Goto
<1>1. IsXip(Hdr)' = IsXip(Hdr)
  BY LoopHeader
<1>2. CASE PartitionCopy
  <2>1. /\ pc' \in {"CHECK", "LOAD", "ERR", "HUNG"}
        /\ pc' = "CHECK" => IsXip(Hdr) \/ (IsPl /\ PsOnly)
    BY <1>2 DEF PartitionCopy
  <2> QED
    BY <1>1, <2>1, LoopHeader DEF CopiedInv
<1>3. CASE DeviceCopy
  <2>1. /\ pc' \in {"CHECK", "ERR", "HUNG"}
        /\ pc' = "CHECK" => mem' = [mem EXCEPT ![PartitionSlot] = BytesIn(PartitionNum)]
    BY <1>3 DEF DeviceCopy
  <2>2. pc' = "CHECK" => mem'[PartitionSlot] = BytesIn(PartitionNum)
    BY <2>1, BytesTypes DEF TypeInv, TypeOK
  <2> QED
    BY <1>1, <2>1, <2>2, LoopHeader DEF CopiedInv
<1>4. CASE PlValidation
  <2>1. /\ pc = "CHECK" /\ mem' = mem /\ pc' \in {"PMUFW", "PL", "ERR", "HUNG"}
        /\ pc' = "PL" => ~PsOnly /\ BitstreamAccepted
    BY <1>4 DEF PlValidation
  <2>2. BitstreamAccepted /\ Hdr.cksum # 0 => Hdr.intact
    BY DEF BitstreamAccepted, ChecksumOK, Intact
  <2> QED
    BY <1>1, <2>1, <2>2, LoopHeader DEF CopiedInv
<1>5. CASE ~(PartitionCopy \/ DeviceCopy \/ PlValidation)
  <2>1. pc' \notin {"CHECK", "PL"}
    BY <1>5
       DEF LoopStep, PartitionHeaderValidation, NextAfterHeader, PartitionValidation,
           PlLoad, MeasurePartition, CheckPmuFw, WaitForPmuFw
  <2> QED
    BY <2>1 DEF CopiedInv
<1> QED
  BY <1>2, <1>3, <1>4, <1>5

-----------------------------------------------------------------------------
(***************************************************************************)
(* Validation.  Contents of the boot loader's own making are vouched for.  *)
(***************************************************************************)
LEMMA OwnContentVouched ==
  /\ Vouched(NoContent) /\ Vouched(EccPattern)
  /\ \A i, p : Vouched(Payload(i, p, "flash"))
BY DEF Vouched, Rejectable, SignerInForce, NoContent, EccPattern, Payload

(***************************************************************************)
(* A signature that was checked was made under the key that was kept, and  *)
(* a payload whose checks passed is the intact one.                        *)
(***************************************************************************)
LEMMA CheckedIsVouched ==
  ASSUME TypeInv, MarkInv, KeyInv, InLoop, FsblInstance.hdr,
         Hdr.rsa \/ Hdr.aes \/ Hdr.cksum # 0 => Hdr.intact,
         Hdr.rsa => SpkVer(Hdr.cert, FsblInstance.ppk)
  PROVE  Vouched(Payload(FsblInstance.img, PartitionNum, "plain"))
<1> DEFINE c == Payload(FsblInstance.img, PartitionNum, "plain")
<1>1. ImageOf(c) = CurImage /\ PartitionOf(c) = Hdr /\ c.form = "plain"
  BY CurrentPartition DEF Payload, ImageOf, PartitionOf
<1> HIDE DEF c
<1>2. ASSUME Hdr.rsa
      PROVE  /\ SignerKnown(c)
             /\ EfuseRsa => PpkInForce(Hdr.cert.by) /\ SpkInForce(Hdr.cert)
  <2>1. /\ Hdr.cert.by = KeptKey /\ (EfuseRsa => SpkInForce(Hdr.cert))
    BY <1>2 DEF SpkVer, KeptKey
  <2>2. KeptKey # 0
    BY <2>1, HdrType DEF TypeInv, PartitionHeader, Certificate
  <2>3. AuthRequired(CurImage) /\ KeptKey = CurImage.cert.ppk
    BY <2>2 DEF KeyInv, KeyOf, LoadsOrStarts
  <2> QED
    BY <1>1, <2>1, <2>2, <2>3 DEF SignerKnown, KeyInv
<1> QED
  BY <1>1, <1>2 DEF Vouched, Rejectable, SignerInForce, c

\* Validation leaves the intact payload at the load address, decrypted.
LEMMA ValidatedIsVouched ==
  ASSUME TypeInv, MarkInv, KeyInv, CopiedInv, PartitionValidation, pc' = "FINISH",
         ~IsXip(Hdr)
  PROVE  Vouched(mem'[PartitionSlot])
<1>1. /\ pc = "CHECK" /\ ~IsPl /\ PartitionAccepted
      /\ mem' = IF Hdr.aes
                THEN [mem EXCEPT ![PartitionSlot] =
                        Payload(FsblInstance.img, PartitionNum, "plain")]
                ELSE mem
  BY DEF PartitionValidation, Faulty, Refused, Unanswered, Fail, Goto
<1>2. InLoop /\ FsblInstance.hdr
  BY <1>1 DEF TypeInv, Flow, InLoop, LoadingPcs
<1>3. Vouched(Payload(FsblInstance.img, PartitionNum, "plain"))
  BY <1>1, <1>2, CheckedIsVouched
     DEF PartitionAccepted, ChecksumOK, SignatureOK, DecryptionOK, Intact,
         PartitionAuthentication
<1>4. mem[PartitionSlot] = BytesIn(PartitionNum)
  BY <1>1 DEF CopiedInv
<1>5. ~Hdr.aes => BytesIn(PartitionNum) = Payload(FsblInstance.img, PartitionNum, "plain")
  BY DEF BytesIn, Hdr
<1>6. mem'[PartitionSlot] = Payload(FsblInstance.img, PartitionNum, "plain")
  BY <1>1, <1>4, <1>5, BytesTypes DEF TypeInv, TypeOK
<1> QED
  BY <1>3, <1>6

-----------------------------------------------------------------------------
(***************************************************************************)
(* Memory.  A step of the loop writes at the load address of the partition *)
(* at hand, or initialises TCM: what was brought before stays, or is gone  *)
(* as a whole.                                                             *)
(***************************************************************************)
LEMMA LoopWrites ==
  ASSUME TypeInv, PassInv, LoopStep
  PROVE  \/ mem' = mem /\ FsblInstance'.ecc = FsblInstance.ecc
         \/ /\ pc = "COPY" /\ ~IsXip(Hdr) /\ NeedsEccInit(DestCpu, Hdr.load)
            /\ mem' = EccFill(DestCpu)
            /\ FsblInstance'.ecc = Cores(DestCpu)
         \/ /\ FsblInstance'.ecc = FsblInstance.ecc /\ Hdr.owner = 0 /\ ~IsXip(Hdr)
            /\ \E c : mem' = [mem EXCEPT ![PartitionSlot] = c]
<1>1. FsblInstance \in Instance /\ AddHandoff(Hdr).ecc = FsblInstance.ecc
  BY DEF TypeInv, TypeOK, AddHandoff, AppendHandoff, Instance
<1>2. CASE PartitionCopy
  BY <1>1, <1>2 DEF PartitionCopy, ConfigureMemory, TcmEccInitStatus, Instance
<1>3. CASE DeviceCopy
  <2>1. FsblInstance' = FsblInstance /\ Hdr.owner = 0 /\ ~IsXip(Hdr)
    BY <1>3 DEF DeviceCopy, PassInv, ValidatedPcs, Taken
  <2>2. CASE mem' = [mem EXCEPT ![PartitionSlot] = BytesIn(PartitionNum)]
    BY <2>1, <2>2
  <2> QED
    BY <1>3, <2>1, <2>2 DEF DeviceCopy
<1>4. CASE PartitionValidation
  <2>1. FsblInstance' = FsblInstance /\ Hdr.owner = 0 /\ (Hdr.aes => ~IsXip(Hdr))
    BY <1>4 DEF PartitionValidation, PassInv, ValidatedPcs, Taken, XipOK
  <2>2. CASE mem' = [mem EXCEPT ![PartitionSlot] =
                       Payload(FsblInstance.img, PartitionNum, "plain")] /\ Hdr.aes
    BY <2>1, <2>2
  <2> QED
    BY <1>4, <2>1, <2>2 DEF PartitionValidation
<1>5. CASE ~(PartitionCopy \/ DeviceCopy \/ PartitionValidation)
  BY <1>1, <1>5
     DEF LoopStep, PartitionHeaderValidation, PlValidation, PlLoad, MeasurePartition,
         CheckPmuFw, WaitForPmuFw
<1> QED
  BY <1>2, <1>3, <1>4, <1>5

\* The code of another partition is only lost to the initialization of TCM.
LEMMA LoopLeavesCode ==
  ASSUME PlacedFlash, TypeInv, MarkInv, PassInv, LoopStep, FsblInstance.hdr,
         NEW p \in 1 .. LastPartition, p # PartitionNum, IsCode(CurImage.ph[p])
  PROVE  LET slot == LoadedAt(CurImage.ph[p]) IN
         /\ slot \in Slot /\ CurImage.ph[p] \in PartitionHeader
         /\ \/ mem'[slot] = mem[slot] /\ FsblInstance'.ecc = FsblInstance.ecc
            \/ /\ pc = "COPY" /\ ~IsXip(Hdr) /\ NeedsEccInit(DestCpu, Hdr.load)
               /\ mem' = EccFill(DestCpu)
               /\ FsblInstance'.ecc = Cores(DestCpu)
<1> DEFINE h == CurImage.ph[p]
<1>1. InLoop
  BY LoopKeeps
<1>2. h \in PartitionHeader
  <2>1. CurImage \in Image /\ CurImage.n \in 2 .. XIH_MAX_PARTITIONS
    BY ImageTypes DEF TypeInv, TypeOK, Instance, Flow, HeadersOK, CurImage
  <2>2. p \in 0 .. (XIH_MAX_PARTITIONS - 1)
    BY <2>1 DEF LastPartition, XIH_MAX_PARTITIONS
  <2> QED
    BY <2>1, <2>2 DEF Image
<1>3. LoadedAt(h) \in Slot /\ mem \in [Slot -> Content] /\ PartitionSlot \in Slot
  BY <1>2, SlotTypes, BytesTypes DEF LoadedAt, PartitionHeader, TypeInv, TypeOK
<1>4. CASE /\ FsblInstance'.ecc = FsblInstance.ecc /\ Hdr.owner = 0 /\ ~IsXip(Hdr)
           /\ \E c : mem' = [mem EXCEPT ![PartitionSlot] = c]
  <2>1. WellPlaced(CurImage) /\ Hdr = CurImage.ph[PartitionNum]
    BY <1>1, CurrentPartition DEF PlacedFlash
  <2>2. p \in 1 .. (CurImage.n - 1) /\ PartitionNum \in 1 .. (CurImage.n - 1)
    BY <1>1, CurrentPartition
  <2>3. LoadedAt(Hdr) # LoadedAt(h)
    BY <1>4, <2>1, <2>2 DEF WellPlaced
  <2>4. mem'[LoadedAt(h)] = mem[LoadedAt(h)]
    BY <1>3, <1>4, <2>3, LoopHeader
  <2> QED
    BY <1>2, <1>3, <1>4, <2>4
<1> QED
  BY <1>2, <1>3, <1>4, LoopWrites

LEMMA LoopReady ==
  ASSUME PlacedFlash, TypeInv, MarkInv, PassInv, LoopStep, FsblInstance.hdr,
         NEW p \in 1 .. LastPartition, p # PartitionNum, Ready(p)
  PROVE  Ready(p)'
<1> DEFINE h == CurImage.ph[p]
<1>1. CurImage' = CurImage /\ FsblInstance'.reset = FsblInstance.reset
  BY LoopKeeps, LoopHeader
<1> SUFFICES ASSUME IsCode(h), Taken(h) PROVE Vouched(mem'[LoadedAt(h)])
  BY <1>1 DEF Ready, Taken
<1>2. Vouched(mem[LoadedAt(h)])
  BY DEF Ready
<1>3. LoadedAt(h) \in Slot
  BY LoopLeavesCode
<1>4. CASE mem' = EccFill(DestCpu)
  BY <1>2, <1>3, <1>4, OwnContentVouched DEF EccFill
<1> QED
  BY <1>2, <1>4, LoopLeavesCode

(***************************************************************************)
(* The loop leaves what it passed, and passes what it validated.           *)
(***************************************************************************)
LEMMA LoopMemInv ==
  ASSUME PlacedFlash, TypeInv, MarkInv, KeyInv, PassInv, CopiedInv, MemInv, LoopStep
  PROVE  MemInv'
<1>1. /\ FsblInstance'.hdr = FsblInstance.hdr /\ FsblInstance'.reset = FsblInstance.reset
      /\ PartitionNum' = PartitionNum /\ CurImage' = CurImage
      /\ LastPartition' = LastPartition /\ InLoop
  BY LoopKeeps, LoopHeader
<1>2. CASE ~FsblInstance.hdr
  BY <1>1, <1>2 DEF MemInv
<1>3. CASE FsblInstance.hdr
  <2>1. PartitionNum \in 1 .. LastPartition /\ LastPartition \in Int
        /\ Hdr = CurImage.ph[PartitionNum]
    BY <1>1, <1>3, CurrentPartition
  <2>2. \A p \in 1 .. (PartitionNum - 1) : Ready(p)'
    <3> TAKE p \in 1 .. (PartitionNum - 1)
    <3>1. p \in 1 .. LastPartition /\ p # PartitionNum
      BY <2>1
    <3>2. Ready(p)
      BY <1>1, <1>3 DEF MemInv, LoadedTo
    <3> QED
      BY <1>3, <3>1, <3>2, LoopReady
  <2>3. ASSUME pc' \in Passed, IsCode(Hdr), Taken(Hdr)
        PROVE  Vouched(mem'[LoadedAt(Hdr)])
    <3> USE DEF Faulty, Refused, Unanswered, Fail, Goto
    <3>1. CASE PartitionHeaderValidation
      <4>1. HeaderStatus(Hdr, FsblInstance.reset, EfuseEncOnly) = "NOT_OWNER"
        BY <2>3, <3>1 DEF PartitionHeaderValidation, NextAfterHeader, Passed
      <4> QED
        BY <2>3, <4>1 DEF HeaderStatus, ValidatePartitionHeader, Taken
    <3>2. CASE PartitionCopy \/ DeviceCopy
      BY <2>3, <3>2 DEF PartitionCopy, DeviceCopy, Passed
    <3>3. CASE PartitionValidation
      <4>1. pc' = "FINISH" /\ ~IsXip(Hdr)
        BY <2>3, <3>3 DEF PartitionValidation, Passed, IsCode
      <4> QED
        BY <3>3, <4>1, ValidatedIsVouched, LoopHeader
    <3>4. CASE PlValidation \/ PlLoad
      <4>1. IsPl
        BY <3>4 DEF PlValidation, PlLoad, PassInv
      <4> QED
        BY <2>3, <4>1 DEF IsPl, IsCode
    <3>5. CASE MeasurePartition \/ CheckPmuFw \/ WaitForPmuFw
      <4>1. mem' = mem /\ pc \in Passed
        BY <3>5 DEF MeasurePartition, CheckPmuFw, WaitForPmuFw, Passed
      <4>2. \A p \in 1 .. PartitionNum : Ready(p)
        BY <1>3, <4>1 DEF MemInv, LoadedTo
      <4>3. PartitionNum \in 1 .. PartitionNum
        BY <2>1
      <4> QED
        BY <2>1, <2>3, <4>1, <4>2, <4>3 DEF Ready
    <3> QED
      BY <3>1, <3>2, <3>3, <3>4, <3>5 DEF LoopStep
  <2>4. ASSUME pc' \in Passed, NEW p \in 1 .. PartitionNum
        PROVE  Ready(p)'
    <3>1. CASE p = PartitionNum
      BY <1>1, <2>1, <2>3, <2>4, <3>1 DEF Ready, Taken
    <3>2. CASE p # PartitionNum
      BY <2>1, <2>2, <3>2
    <3> QED
      BY <3>1, <3>2
  <2> QED
    BY <1>1, <2>1, <2>2, <2>4 DEF MemInv, LoadedTo
<1> QED
  BY <1>2, <1>3

(***************************************************************************)
(* An entry that the loop adds is one of the partition at hand.            *)
(***************************************************************************)
LEMMA LoopListInv ==
  ASSUME TypeInv, MarkInv, PassInv, ListInv, LoopStep
  PROVE  ListInv'
<1> DEFINE L == FsblInstance.handoff
           e == NewEntry(Hdr)
<1>1. /\ FsblInstance'.reset = FsblInstance.reset /\ InLoop
      /\ PartitionNum' = PartitionNum /\ CurImage' = CurImage
      /\ LastPartition' = LastPartition
      /\ pc' \notin {"SECONDARY", "CPU"}
  BY LoopKeeps, LoopHeader DEF LoadingPcs
<1>2. \A k \in DOMAIN L : \E p \in 1 .. PartitionNum : EntryFrom(L[k], p)
  BY <1>1 DEF ListInv, LoadsOrStarts
<1>3. \/ FsblInstance'.handoff = L
      \/ /\ FsblInstance' = AddHandoff(Hdr) /\ pc \in ValidatedPcs
         /\ IsXip(Hdr) \/ (pc = "FINISH" /\ DestCpu # CPU_PMU)
  BY DEF LoopStep, PartitionHeaderValidation, PartitionCopy, ConfigureMemory, DeviceCopy,
         PartitionValidation, PlValidation, PlLoad, MeasurePartition, CheckPmuFw,
         WaitForPmuFw, ValidatedPcs, TypeInv, TypeOK, Instance
<1>4. ASSUME \A k \in DOMAIN FsblInstance'.handoff :
               \E p \in 1 .. PartitionNum : EntryFrom(FsblInstance'.handoff[k], p)
      PROVE  ListInv'
  BY <1>1, <1>4 DEF ListInv, EntryFrom, Taken
<1>5. CASE FsblInstance'.handoff = L
  BY <1>2, <1>4, <1>5
<1>6. CASE /\ FsblInstance' = AddHandoff(Hdr) /\ pc \in ValidatedPcs
           /\ IsXip(Hdr) \/ (pc = "FINISH" /\ DestCpu # CPU_PMU)
  <2>1. FsblInstance.hdr
    BY <1>6 DEF TypeInv, Flow, LoadingPcs, ValidatedPcs
  <2>2. /\ PartitionNum \in 1 .. LastPartition /\ LastPartition \in Int
        /\ Hdr = CurImage.ph[PartitionNum]
    BY <1>1, <2>1, CurrentPartition DEF Image
  <2>3. EntryFrom(e, PartitionNum)
    BY <1>6, <2>2 DEF EntryFrom, PassInv, IsCode, Taken, IsPl, DestCpu
  <2>4. FsblInstance \in Instance /\ L \in Seq(HandoffEntry)
    BY DEF TypeInv, TypeOK, Instance
  <2>5. FsblInstance'.handoff = L \/ FsblInstance'.handoff = Append(L, e)
    BY <1>6, <2>4 DEF AddHandoff, AppendHandoff, Instance
  <2> HIDE DEF L, e
  <2>6. CASE FsblInstance'.handoff = Append(L, e)
    <3>1. /\ DOMAIN Append(L, e) = 1 .. (Len(L) + 1)
          /\ \A k \in 1 .. Len(L) : Append(L, e)[k] = L[k]
          /\ Append(L, e)[Len(L) + 1] = e
      BY <2>4
    <3>2. DOMAIN L = 1 .. Len(L) /\ Len(L) \in Nat
      BY <2>4
    <3>3. \E p \in 1 .. PartitionNum : EntryFrom(e, p)
      <4>1. PartitionNum \in 1 .. PartitionNum
        BY <2>2
      <4> QED
        BY <2>3, <4>1
    <3>4. ASSUME NEW k \in 1 .. (Len(L) + 1)
          PROVE  \E p \in 1 .. PartitionNum : EntryFrom(Append(L, e)[k], p)
      <4>1. CASE k \in DOMAIN L
        BY <1>2, <3>1, <3>2, <4>1
      <4>2. CASE k = Len(L) + 1
        BY <3>1, <3>3, <4>2
      <4> QED
        BY <3>2, <4>1, <4>2
    <3> QED
      BY <1>4, <2>6, <3>1, <3>4
  <2> QED
    BY <1>5, <2>5, <2>6 DEF L
<1> QED
  BY <1>3, <1>5, <1>6

-----------------------------------------------------------------------------
(***************************************************************************)
(* Stage 4: the next partition is taken after the one that was passed.     *)
(***************************************************************************)
LEMMA HandoffMoves ==
  ASSUME TypeInv, HandoffStep
  PROVE  /\ pc' = "HEADER" => PartitionNum' = PartitionNum + 1
         /\ pc' # "HEADER" => PartitionNum' = PartitionNum
         /\ pc' = "CPU" /\ runEntry' # 0 =>
              /\ pc = "CPU"
              /\ \/ runEntry' = runEntry
                 \/ runEntry' = CpuIndex + 1 /\ Entry.cpu = ProcessorID /\ ~Entry.aa32
<1> USE DEF Faulty, Refused, Unanswered, Fail, Goto
<1>1. CASE NextPartition
  BY <1>1 DEF NextPartition
<1>2. CASE HandoffBegin
  BY <1>2 DEF HandoffBegin
<1>3. CASE SkipEntry
  BY <1>3 DEF SkipEntry, AfterEntry
<1>4. CASE ReleaseCpu
  BY <1>4 DEF ReleaseCpu, AfterEntry
<1>5. CASE OwnEntry
  BY <1>5 DEF OwnEntry, AfterEntry
<1>6. CASE HandoffExit
  BY <1>6 DEF HandoffExit
<1> QED
  BY <1>1, <1>2, <1>3, <1>4, <1>5, <1>6 DEF HandoffStep

LEMMA HandoffMemInv ==
  ASSUME TypeInv, MemInv, HandoffStep
  PROVE  MemInv'
<1>1. CASE ~FsblInstance.hdr
  BY <1>1, HandoffKeeps DEF MemInv
<1>2. CASE FsblInstance.hdr
  <2>1. /\ UNCHANGED <<FsblInstance, mem>> /\ CurImage' = CurImage
        /\ LastPartition' = LastPartition
        /\ pc' \in {"HEADER", "HANDOFF", "CPU", "ERR", "HUNG", "DONE", "NOHANDOFF"}
    BY HandoffKeeps DEF CurImage, LastPartition
  <2>2. PartitionNum \in 1 .. LastPartition /\ LoadedTo(PartitionNum)
    BY <1>2, HandoffKeeps DEF MemInv, Passed
  <2>3. \A p \in 1 .. PartitionNum : Ready(p)'
    BY <2>1, <2>2 DEF LoadedTo, Ready, Taken
  <2>4. PartitionNum \in Nat
    BY DEF TypeInv, TypeOK, PartitionIndex, XIH_MAX_PARTITIONS
  <2>5. CASE pc' = "HEADER"
    <3>1. PartitionNum' - 1 = PartitionNum
      BY <2>4, <2>5, HandoffMoves
    <3> QED
      BY <2>3, <2>5, <3>1 DEF MemInv, LoadedTo, Passed
  <2>6. CASE pc' # "HEADER"
    <3>1. PartitionNum' = PartitionNum
      BY <2>6, HandoffMoves
    <3> QED
      BY <2>1, <2>2, <2>3, <2>6, <3>1 DEF MemInv, LoadedTo, InLoop, LoadingPcs
  <2> QED
    BY <2>5, <2>6
<1> QED
  BY <1>1, <1>2

LEMMA HandoffListInv ==
  ASSUME TypeInv, ListInv, HandoffStep
  PROVE  ListInv'
<1>1. /\ UNCHANGED FsblInstance /\ CurImage' = CurImage
      /\ LastPartition' = LastPartition /\ LoadsOrStarts
      /\ pc' # "SECONDARY"
  BY HandoffKeeps DEF CurImage, LastPartition, LoadsOrStarts, InLoop, LoadingPcs
<1>2. PartitionNum \in Nat /\ PartitionNum' \in {PartitionNum, PartitionNum + 1}
  BY HandoffMoves DEF TypeInv, TypeOK, PartitionIndex, XIH_MAX_PARTITIONS
<1>3. \A k \in DOMAIN FsblInstance.handoff :
        \E p \in 1 .. PartitionNum' : EntryFrom(FsblInstance.handoff[k], p)
  BY <1>1, <1>2 DEF ListInv
<1>4. \A k \in DOMAIN FsblInstance'.handoff :
        \E p \in 1 .. PartitionNum' : EntryFrom(FsblInstance.handoff[k], p)'
  BY <1>1, <1>3 DEF EntryFrom, Taken
<1>5. ASSUME pc' = "CPU", runEntry' # 0
      PROVE  /\ FsblInstance.handoff[runEntry'].cpu = ProcessorID
             /\ ~FsblInstance.handoff[runEntry'].aa32
  BY <1>5, HandoffMoves DEF ListInv, Entry
<1> QED
  BY <1>1, <1>4, <1>5 DEF ListInv

-----------------------------------------------------------------------------
(***************************************************************************)
(* What an entry of the list starts: the flash window for a partition that *)
(* runs in place, else a partition of the same CPU that was passed.        *)
(***************************************************************************)
LEMMA EntryStartsVouched ==
  ASSUME PlacedFlash, TypeInv, SourceInv, MemInv, ListInv, pc = "CPU",
         NEW k \in DOMAIN FsblInstance.handoff
  PROVE  Vouched(CodeAt(StartSlot(FsblInstance.handoff[k])))
<1> DEFINE e == FsblInstance.handoff[k]
           ph == CurImage.ph
<1>1. PICK p \in 1 .. PartitionNum : EntryFrom(e, p)
  BY DEF ListInv, LoadsOrStarts
<1>2. /\ e.cpu = DestinationCpu(ph[p]) /\ e.exec = ph[p].exec /\ e.aa32 = ph[p].aa32
      /\ Is32BitCpu(e) = StartsAtVector(ph[p])
      /\ p \in 1 .. LastPartition /\ Taken(ph[p]) /\ XipOK(ph[p])
      /\ IsXip(ph[p]) \/ IsCode(ph[p])
  BY <1>1 DEF EntryFrom, NewEntry, Is32BitCpu, StartsAtVector
<1>3. FsblInstance.hdr
  BY DEF SourceInv, EntriesNamed
<1>4. /\ PartitionNum \in 1 .. LastPartition /\ LoadedTo(PartitionNum)
      /\ PartitionNum \in Nat
  BY <1>3 DEF MemInv, Passed, TypeInv, TypeOK, PartitionIndex, XIH_MAX_PARTITIONS
<1>5. WellPlaced(CurImage) /\ LastPartition = CurImage.n - 1
  BY DEF PlacedFlash, CurImage, LastPartition, TypeInv, TypeOK, Instance
<1>6. Hdr = ph[PartitionNum]
  BY <1>3 DEF Hdr, PH
<1>7. StartsAtVector(ph[p]) => ~IsXip(ph[p]) /\ ~Hdr.hivec
  BY <1>2, <1>4, <1>5, <1>6 DEF WellPlaced
<1>8. StartSlot(e) = StartsAt(ph[p])
  BY <1>2, <1>7 DEF StartSlot, StartsAt
<1> HIDE DEF e
<1>9. CASE IsXip(ph[p])
  <2>1. StartSlot(e) = <<2, "QSPI">>
    BY <1>2, <1>7, <1>8, <1>9 DEF StartsAt, XipOK
  <2>2. CodeAt(StartSlot(e)) = Payload(FsblInstance.img, 0, "flash")
    BY <2>1 DEF CodeAt
  <2> QED
    BY <2>2, OwnContentVouched DEF e
<1>10. CASE IsCode(ph[p])
  <2>1. PICK r \in 1 .. p : /\ IsCode(ph[r]) /\ ph[r].cpu = ph[p].cpu
                            /\ LoadedAt(ph[r]) = StartsAt(ph[p])
    BY <1>2, <1>5, <1>10 DEF WellPlaced
  <2>2. Taken(ph[r])
    BY <1>2, <2>1 DEF Taken, NotForThisReset, IsCode
  <2>3. r \in 1 .. PartitionNum
    BY <1>4
  <2>4. Vouched(mem[StartSlot(e)])
    BY <1>4, <1>8, <2>1, <2>2, <2>3 DEF LoadedTo, Ready
  <2>5. \/ CodeAt(StartSlot(e)) = mem[StartSlot(e)]
        \/ CodeAt(StartSlot(e)) = Payload(FsblInstance.img, 0, "flash")
    BY DEF CodeAt
  <2> QED
    BY <2>4, <2>5, OwnContentVouched DEF e
<1> QED
  BY <1>2, <1>9, <1>10

(***************************************************************************)
(* The cores: released at an entry, or the running one at its own.         *)
(***************************************************************************)
LEMMA HandoffRunInv ==
  ASSUME PlacedFlash, TypeInv, SourceInv, MemInv, ListInv, RunInv, HandoffStep
  PROVE  RunInv'
<1>1. pl' = pl
  BY HandoffKeeps
<1>2. FsblInstance.handoff \in Seq(HandoffEntry) /\ running \in [Core -> Content]
  BY DEF TypeInv, TypeOK, Instance
<1>3. CASE ReleaseCpu
  <2>1. CpuIndex + 1 \in DOMAIN FsblInstance.handoff /\ pc = "CPU"
    BY <1>2, <1>3, EntryTypes DEF ReleaseCpu, TypeInv, TypeOK
  <2>2. Vouched(CodeAt(StartSlot(Entry)))
    BY <2>1, EntryStartsVouched DEF Entry
  <2>3. \A c \in Core : running'[c] \in {running[c], CodeAt(StartSlot(Entry))}
    BY <1>3 DEF ReleaseCpu
  <2> QED
    BY <1>1, <2>2, <2>3 DEF RunInv
<1>4. CASE HandoffExit
  <2>1. CASE runEntry = 0
    <3>1. running' = running
      BY <1>4, <2>1 DEF HandoffExit
    <3> QED
      BY <1>1, <3>1 DEF RunInv
  <2>2. CASE runEntry # 0
    <3> DEFINE e == FsblInstance.handoff[runEntry]
               code == CodeAt(<<2, e.exec>>)
    <3>1. pc = "CPU" /\ running' = [running EXCEPT ![ProcessorID] = code]
      BY <1>4, <2>2 DEF HandoffExit
    <3>2. runEntry \in DOMAIN FsblInstance.handoff
      BY <1>2, <2>2, <3>1 DEF TypeInv, TypeOK, Flow
    <3>3. e.cpu = ProcessorID /\ ~e.aa32
      BY <2>2, <3>1 DEF ListInv
    <3>4. StartSlot(e) = <<2, e.exec>>
      BY <3>3
         DEF StartSlot, Is32BitCpu, R5Cpus, ProcessorID, CPU_A53_0, CPU_R5_0, CPU_R5_1,
             CPU_R5_L
    <3>5. Vouched(CodeAt(StartSlot(e)))
      BY <3>1, <3>2, EntryStartsVouched
    <3>6. Vouched(code)
      BY <3>4, <3>5
    <3> HIDE DEF code
    <3>7. \A c \in Core : running'[c] \in {running[c], code}
      BY <1>2, <3>1
    <3> QED
      BY <1>1, <3>6, <3>7 DEF RunInv
  <2> QED
    BY <2>1, <2>2
<1>5. CASE ~(ReleaseCpu \/ HandoffExit)
  <2>1. running' = running
    BY <1>5 DEF HandoffStep, NextPartition, HandoffBegin, SkipEntry, OwnEntry
  <2> QED
    BY <1>1, <2>1 DEF RunInv
<1> QED
  BY <1>3, <1>4, <1>5

(***************************************************************************)
(* The PL: a bitstream whose checksum, signature or tag held.              *)
(***************************************************************************)
LEMMA LoopRunInv ==
  ASSUME TypeInv, MarkInv, KeyInv, PassInv, CopiedInv, RunInv, LoopStep
  PROVE  RunInv'
<1> USE DEF Faulty, Refused, Unanswered, Fail, Goto
<1> DEFINE plain == Payload(FsblInstance.img, PartitionNum, "plain")
<1>1. running' = running /\ InLoop
  BY LoopKeeps
<1>2. Vouched(pl) /\ Vouched(NoContent)
  BY OwnContentVouched DEF RunInv
<1> SUFFICES Vouched(pl')
  BY <1>1 DEF RunInv
<1>3. CASE PlValidation
  <2>1. FsblInstance.hdr
    BY <1>3 DEF PlValidation, TypeInv, Flow, LoadingPcs
  <2>2. CASE BitstreamAccepted /\ Hdr.rsa /\ pl' = plain
    BY <1>1, <2>1, <2>2, CheckedIsVouched
       DEF BitstreamAccepted, ChecksumOK, SignatureOK, Intact, PartitionAuthentication
  <2> QED
    BY <1>2, <1>3, <2>2 DEF PlValidation
<1>4. CASE PlLoad
  <2>1. FsblInstance.hdr /\ pc = "PL"
    BY <1>4 DEF PlLoad, TypeInv, Flow, LoadingPcs
  <2>2. CASE ~Hdr.rsa /\ DecryptionOK /\ Configure /\ ~IsXip(Hdr)
    <3>1. Vouched(plain)
      BY <1>1, <2>1, <2>2, CheckedIsVouched DEF DecryptionOK, Intact, CopiedInv
    <3>2. ~Hdr.aes => mem[PartitionSlot] = plain
      BY <2>1, <2>2 DEF CopiedInv, BytesIn, Hdr
    <3> QED
      BY <2>2, <3>1, <3>2 DEF Configure
  <2>3. CASE pl' \in {pl, NoContent}
    BY <1>2, <2>3
  <2> QED
    BY <1>4, <2>2, <2>3 DEF PlLoad, MeasurePl, Configure
<1>5. CASE ~(PlValidation \/ PlLoad)
  <2>1. pl' = pl
    BY <1>5
       DEF LoopStep, PartitionHeaderValidation, PartitionCopy, DeviceCopy,
           PartitionValidation, MeasurePartition, CheckPmuFw, WaitForPmuFw
  <2> QED
    BY <1>2, <2>1
<1> QED
  BY <1>3, <1>4, <1>5

-----------------------------------------------------------------------------
(***************************************************************************)
(* The steps up to the loop, and resets: no partition was passed yet and   *)
(* the list is empty.                                                      *)
(***************************************************************************)
StartStep ==
  \/ Initialize \/ PrimaryBootDeviceInit \/ ValidateHeader
  \/ SecondaryBootDeviceInit \/ Reset

LEMMA StartMoves ==
  ASSUME TypeInv, TableInv, StartStep
  PROVE  \/ pc' \in {"ERR", "INITHUNG", "HUNG", "PRIMARY", "VALIDATE", "SECONDARY",
                    "STAGE1", "ROMSTOP"}
         \/ pc' = "HEADER" /\ PartitionNum' = 1
         \/ pc' = "HANDOFF" /\ ~FsblInstance'.hdr
<1> USE DEF Faulty, Refused, Unanswered, ShaAsserts, Fail, Goto
<1>1. CASE Initialize \/ Reset
  BY <1>1
     DEF Initialize, Reset, SoftReset, WdtExpire, SoftwareReset, PsOnlyReset,
         ApuOnlyReset, SystemReset, RomLoadsFsbl
<1>2. CASE PrimaryBootDeviceInit
  BY <1>2 DEF PrimaryBootDeviceInit, TableInv, dataVars
<1>3. CASE ValidateHeader
  BY <1>3 DEF ValidateHeader, EnterStage3
<1>4. CASE SecondaryBootDeviceInit
  BY <1>4 DEF SecondaryBootDeviceInit, EnterStage3
<1> QED
  BY <1>1, <1>2, <1>3, <1>4 DEF StartStep

LEMMA StartAcceptInv ==
  ASSUME TypeInv, TableInv, StartStep
  PROVE  PassInv' /\ CopiedInv' /\ MemInv'
<1>1. PassInv' /\ CopiedInv'
  BY StartMoves DEF PassInv, CopiedInv, ValidatedPcs
<1>2. CASE pc' = "HEADER" /\ PartitionNum' = 1
  <2>1. 1 .. (PartitionNum' - 1) = {}
    BY <1>2
  <2> QED
    BY <1>1, <1>2, <2>1 DEF MemInv, LoadedTo, Passed
<1>3. CASE ~(pc' = "HEADER" /\ PartitionNum' = 1)
  BY <1>1, <1>3, StartMoves DEF MemInv, Passed, InLoop, LoadingPcs
<1> QED
  BY <1>2, <1>3

LEMMA StartListInv ==
  ASSUME TypeInv, TableInv, SourceInv, ListInv, StartStep
  PROVE  ListInv'
<1> USE DEF Faulty, Refused, Unanswered, ShaAsserts, Fail, Goto
<1>1. ASSUME DOMAIN FsblInstance'.handoff = {}, pc' # "CPU"
      PROVE  ListInv'
  BY <1>1 DEF ListInv
<1>2. CASE Initialize \/ Reset
  <2>1. pc' \in {"ERR", "INITHUNG", "PRIMARY", "STAGE1", "ROMSTOP"}
    BY <1>2
       DEF Initialize, Reset, SoftReset, WdtExpire, SoftwareReset, PsOnlyReset,
           ApuOnlyReset, SystemReset, RomLoadsFsbl
  <2> QED
    BY <2>1 DEF ListInv, LoadsOrStarts, InLoop, LoadingPcs
<1>3. ~FsblInstance.hdr => DOMAIN FsblInstance.handoff = {}
  BY DEF SourceInv, EntriesNamed
<1>4. CASE PrimaryBootDeviceInit
  <2>1. UNCHANGED FsblInstance /\ ~FsblInstance.hdr /\ pc' # "CPU"
    BY <1>4 DEF PrimaryBootDeviceInit, TableInv, dataVars
  <2> QED
    BY <1>1, <1>3, <2>1
<1>5. CASE ValidateHeader
  <2>1. ~FsblInstance.hdr /\ pc' # "CPU"
    BY <1>5 DEF ValidateHeader, EnterStage3, TableInv
  <2>2. FsblInstance'.handoff = FsblInstance.handoff
    BY <1>5, ValidateHeaderKeeps DEF TypeInv
  <2> QED
    BY <1>1, <1>3, <2>1, <2>2
<1>6. CASE SecondaryBootDeviceInit
  <2>1. pc = "SECONDARY" /\ pc' # "CPU" /\ FsblInstance'.handoff = FsblInstance.handoff
    BY <1>6 DEF SecondaryBootDeviceInit, EnterStage3, TypeInv, TypeOK, Instance
  <2> QED
    BY <1>1, <2>1 DEF ListInv
<1> QED
  BY <1>2, <1>4, <1>5, <1>6 DEF StartStep

LEMMA StartRunInv ==
  ASSUME RunInv, StartStep
  PROVE  RunInv'
<1>1. CASE Reset
  <2>1. pl' \in {pl, NoContent} /\ \A c \in Core : running'[c] \in {running[c], NoContent}
    BY <1>1
       DEF Reset, SoftReset, WdtExpire, SoftwareReset, PsOnlyReset, ApuOnlyReset,
           SystemReset, RomLoadsFsbl
  <2> QED
    BY <2>1, OwnContentVouched DEF RunInv
<1>2. CASE ~Reset
  <2>1. pl' = pl /\ running' = running
    BY <1>2
       DEF StartStep, Initialize, PrimaryBootDeviceInit, ValidateHeader,
           SecondaryBootDeviceInit, hwVars
  <2> QED
    BY <2>1 DEF RunInv
<1> QED
  BY <1>1, <1>2

\* Steps outside of the stages.
LEMMA OtherAcceptInv ==
  ASSUME OtherStep
  PROVE  /\ PassInv => PassInv'
         /\ CopiedInv => CopiedInv'
         /\ MemInv => MemInv'
         /\ ListInv => ListInv'
         /\ RunInv => RunInv'
<1>1. /\ UNCHANGED <<FsblInstance, mem, pl, running, PartitionNum, runEntry>>
      /\ pc' = pc \/ pc' \in {"SPIN", "SOFTRESET", "NOHANDOFF"}
  BY OtherKeeps
<1>2. /\ Hdr' = Hdr /\ CurImage' = CurImage /\ LastPartition' = LastPartition
      /\ PsOnly' = PsOnly
  BY <1>1 DEF Hdr, PH, CurImage, LastPartition, PsOnly
<1>3. /\ IsPl' = IsPl /\ DestCpu' = DestCpu /\ PartitionSlot' = PartitionSlot
      /\ BytesIn(PartitionNum)' = BytesIn(PartitionNum)
  <2>1. PH(PartitionNum)' = PH(PartitionNum)
    BY <1>2 DEF Hdr
  <2> QED
    BY <1>1, <1>2, <2>1 DEF IsPl, PartitionSlot, DestCpu, BytesIn
<1>4. PassInv => PassInv'
  BY <1>1, <1>2, <1>3 DEF PassInv, ValidatedPcs, Taken
<1>5. CopiedInv => CopiedInv'
  BY <1>1, <1>2, <1>3 DEF CopiedInv
<1>6. MemInv => MemInv'
  BY <1>1, <1>2 DEF MemInv, LoadedTo, Ready, Taken, InLoop, LoadingPcs, Passed
<1>7. ListInv => ListInv'
  BY <1>1, <1>2 DEF ListInv, EntryFrom, Taken, LoadsOrStarts, InLoop, LoadingPcs
<1>8. RunInv => RunInv'
  BY <1>1 DEF RunInv
<1> QED
  BY <1>4, <1>5, <1>6, <1>7, <1>8

LEMMA HandoffPassInv ==
  ASSUME HandoffStep
  PROVE  PassInv' /\ CopiedInv'
BY HandoffKeeps DEF PassInv, CopiedInv, ValidatedPcs

LEMMA AcceptInvStep ==
  ASSUME SoundFlash
  PROVE  /\ TypeInv /\ LogInv /\ TableInv /\ SourceInv /\ MarkInv /\ TableInv'
         /\ AcceptInv /\ [Next]_vars
         => AcceptInv'
<1> SUFFICES ASSUME TypeInv, LogInv, TableInv, SourceInv, MarkInv, TableInv', AcceptInv,
                    [Next]_vars
             PROVE  AcceptInv'
  OBVIOUS
<1>1. /\ KeyInv /\ PassInv /\ CopiedInv /\ MemInv /\ ListInv /\ RunInv /\ KeyInv'
      /\ PlacedFlash /\ "short" \notin Faults
  BY KeyInvStep DEF AcceptInv, SoundFlash
<1>2. CASE LoopStep
  BY <1>1, <1>2, LoopPassInv, LoopCopiedInv, LoopMemInv, LoopListInv, LoopRunInv
     DEF AcceptInv
<1>3. CASE HandoffStep
  BY <1>1, <1>3, HandoffPassInv, HandoffMemInv, HandoffListInv, HandoffRunInv DEF AcceptInv
<1>4. CASE StartStep
  BY <1>1, <1>4, StartAcceptInv, StartListInv, StartRunInv DEF AcceptInv
<1>5. CASE OtherStep
  BY <1>1, <1>5, OtherAcceptInv DEF AcceptInv
<1> QED
  BY <1>2, <1>3, <1>4, <1>5
     DEF Next, FsblStep, LoopStep, HandoffStep, StartStep, OtherStep

-----------------------------------------------------------------------------
(***************************************************************************)
(* The invariant of the boot loader on such a flash.                       *)
(***************************************************************************)
BootInv == TypeInv /\ LogInv /\ TableInv /\ SourceInv /\ MarkInv /\ AcceptInv

LEMMA InitBootInv == Init => BootInv
<1> SUFFICES ASSUME Init PROVE SourceInv /\ MarkInv /\ AcceptInv
  BY InitTypeInv, InitLogInv, InitTableInv DEF BootInv
<1>1. \A c \in R5Cores : running[c] = NoContent
  BY DEF Init, R5Cores, Core, CPU_R5_0, CPU_R5_1
<1>2. SourceInv /\ MarkInv
  BY <1>1 DEF Init, InitialInstance, SourceInv, EntriesNamed, MarkInv, InLoop, LoadingPcs
<1>3. KeyInv
  BY DEF Init, InitialInstance, KeyInv, KeptKey, LoadsOrStarts, InLoop, LoadingPcs
<1>4. PassInv /\ CopiedInv /\ MemInv /\ ListInv
  BY DEF Init, PassInv, CopiedInv, ValidatedPcs, MemInv, Passed, ListInv, LoadsOrStarts, InLoop,
         LoadingPcs
<1>5. RunInv
  BY OwnContentVouched DEF Init, RunInv
<1> QED
  BY <1>2, <1>3, <1>4, <1>5 DEF AcceptInv

LEMMA BootInvStep == SoundFlash => (BootInv /\ [Next]_vars => BootInv')
BY TypeInvStep, LogInvStep, TableInvStep, SourceInvStep, MarkInvStep, AcceptInvStep
   DEF BootInv

(***************************************************************************)
(* On a flash whose images start their code where they load it, no core    *)
(* runs, and no boot ends with a PL configured with, a payload that its    *)
(* own checksum, signature or tag rejects, that is signed under another    *)
(* key than its image's header, or that was not decrypted; whatever fails, *)
(* falls back, hangs or restarts in between (XFsbl_PartitionValidation,    *)
(* XFsbl_Handoff).                                                         *)
(***************************************************************************)
THEOREM NothingRejected ==
  ASSUME SoundFlash
  PROVE  Spec => []NothingRejectedRuns
<1>1. BootInv /\ [Next]_vars => BootInv'
  BY BootInvStep
<1>2. BootInv => NothingRejectedRuns
  BY DEF BootInv, AcceptInv, RunInv, Vouched, NothingRejectedRuns
<1> QED
  BY <1>1, <1>2, InitBootInv, PTL DEF Spec

(***************************************************************************)
(* On such a flash every signed payload that runs, or that the PL is left  *)
(* with, is signed under a primary key that the eFUSEs hold and that is    *)
(* not revoked, and by a secondary key whose ID they have, if they ask for *)
(* authentication (XFsbl_Authentication, XFsbl_PpkVer, XFsbl_SpkVer).      *)
(***************************************************************************)
THEOREM SignersKept ==
  ASSUME SoundFlash
  PROVE  Spec => []SignersInForce
<1>1. BootInv /\ [Next]_vars => BootInv'
  BY BootInvStep
<1>2. BootInv => SignersInForce
  BY DEF BootInv, AcceptInv, RunInv, Vouched, SignersInForce
<1> QED
  BY <1>1, <1>2, InitBootInv, PTL DEF Spec

-----------------------------------------------------------------------------
(***************************************************************************)
(* The invariants that the rest builds on, in which no image is asked      *)
(* anything, and the four kinds of steps.                                  *)
(***************************************************************************)
PassingInv ==
  TypeInv /\ LogInv /\ FormInv /\ TableInv /\ SourceInv /\ MarkInv /\ PassInv

LEMMA InitPassingInv == Init => PassingInv
<1>1. Init => FormInv
  BY DEF Init, InitialLog, FormInv, Recording, BeforeEvent, AfterEvent
<1> QED
  BY <1>1, InitBootInv DEF BootInv, AcceptInv, PassingInv

LEMMA NextSteps ==
  ASSUME [Next]_vars
  PROVE  LoopStep \/ HandoffStep \/ StartStep \/ OtherStep
BY DEF Next, FsblStep, LoopStep, HandoffStep, StartStep, OtherStep

LEMMA PassingInvStep ==
  ASSUME PassingInv, [Next]_vars
  PROVE  PassingInv'
<1>1. TypeInv /\ LogInv /\ FormInv /\ TableInv /\ SourceInv /\ MarkInv /\ PassInv
  BY DEF PassingInv
<1>2. /\ TypeInv' /\ LogInv' /\ FormInv' /\ TableInv' /\ SourceInv' /\ MarkInv'
  BY <1>1, TypeInvStep, LogInvStep, FormInvStep, TableInvStep, SourceInvStep, MarkInvStep
<1>3. PassInv'
  BY <1>1, NextSteps, LoopPassInv, HandoffPassInv, StartAcceptInv, OtherAcceptInv
<1> QED
  BY <1>2, <1>3 DEF PassingInv

-----------------------------------------------------------------------------
(***************************************************************************)
(* A sound image is not refused when nothing fails but images.  Printing   *)
(* counts: without it the reader of the log may hang.  The boot that is    *)
(* under way is of such an image:                                          *)
(***************************************************************************)
SoundBoot ==
  BootMode = "FLASH" /\ multiboot <= LastImage /\ Sound(Images[multiboot])
NothingFails == Faults = {} /\ FSBL_DEBUG_INFO

(***************************************************************************)
(* What holds of every boot: a PMU that answers, records as long as the    *)
(* reader of the log takes them for, and an error status that tells how    *)
(* the boot before it ended.                                               *)
(***************************************************************************)
Readable(L) == \A k \in DOMAIN L.buf : StepsOver(L.buf[k]) = L.buf[k].size
StatusInv ==
  /\ pmu # "DEAD" /\ pc \notin {"INITHUNG", "HUNG"} /\ Readable(log)
  /\ pc = "SOFTRESET" => errorStatus = "ERROR"
  /\ pc = "DONE" => errorStatus = "COMPLETED"
  /\ pc = "NOHANDOFF" /\ BootMode = "FLASH" => errorStatus = "COMPLETED"

(***************************************************************************)
(* And of the boot of a sound image: the watchdog did not cut it short,    *)
(* its headers are read before the loop, with the key of its boot header.  *)
(***************************************************************************)
HeadersInv ==
  SoundBoot =>
    /\ pc # "ERR"
    /\ pc = "STAGE1" => errorStatus # "RUNNING"
    /\ pc = "SECONDARY" \/ LoadsOrStarts =>
         /\ FsblInstance.hdr
         /\ AuthRequired(CurImage) => KeptKey = CurImage.cert.ppk

(***************************************************************************)
(* The PMU sleeps, or was asked to, where the loop waits for it: it was    *)
(* asked by this partition, or by one before it in a row of partitions of  *)
(* the PMU firmware that nothing comes between.                            *)
(***************************************************************************)
AskedToSleep == pmu \in {"ASKED", "SLEEP"}
PmuPart(h) ==
  Taken(h) /\ h.cpu = CPU_PMU /\ h.dev # DEVICE_PL /\ ~IsXip(h)
FollowsPmuPart(h) ==
  Taken(h) /\ h.cpu = CPU_PMU /\ ~IsXip(h) /\ h.exec = "ZERO"
PmuInv ==
  SoundBoot =>
    /\ pc \in {"HEADER", "COPY"} /\ FollowsPmuPart(Hdr) => AskedToSleep
    /\ pc = "LOAD" /\ DestCpu = CPU_PMU => AskedToSleep
    /\ pc \in {"CHECK", "FINISH", "PMUFW"} /\ PmuPart(Hdr) => AskedToSleep
    /\ pc = "FWWAIT" => PmuFwLoadDone
    /\ pc = "NEXT" /\ PmuPart(Hdr) /\ PartitionNum < LastPartition
         /\ PH(PartitionNum + 1).cpu = CPU_PMU => AskedToSleep
    /\ pc \in {"HANDOFF", "CPU"} /\ EarlyHandoff => Hdr.cpu \in R5Cpus

(***************************************************************************)
(* No fallback led over a sound image.                                     *)
(***************************************************************************)
SoundAhead ==
  BootMode = "FLASH" =>
    \A i \in 0 .. LastImage : Sound(Images[i]) => multiboot <= i

KeptImageInv ==
  /\ PassingInv /\ CopiedInv /\ ListInv
  /\ StatusInv /\ HeadersInv /\ PmuInv /\ SoundAhead

-----------------------------------------------------------------------------
\* Nothing is refused or hangs.
LEMMA NoFaults ==
  ASSUME NothingFails
  PROVE  /\ ~Refused /\ ~Unanswered /\ ~Faulty /\ ~ShaAsserts
         /\ {"fail", "hang", "late", "short"} \cap Faults = {}
BY DEF NothingFails, Refused, Unanswered, Faulty, ShaAsserts

(***************************************************************************)
(* The records: what the reader steps over is what the writer moved by.    *)
(***************************************************************************)
LEMMA StepSizes ==
  ASSUME NEW e, e.name \in Label, e.size = EventSize(e.name)
  PROVE  StepsOver(e) = e.size
BY DEF StepsOver, event2_print, EventDataSize, EventSize, EVENT2_HDR_SIZE, NameLen, Label,
       SizeofEvent2Header, HASH_ALG_COUNT, OffsetofDigest, SHA384_DIGEST_SIZE,
       OffsetofEvent

\* A log that can be read to its end stays so with one more event.
LEMMA RecordReadable ==
  ASSUME NEW L, L.buf \in Seq(Event), Readable(L),
         NEW label \in Label, NEW pcr, NEW c
  PROVE  Readable(event_log_record(L, label, pcr, c))
<1> DEFINE e == [name |-> label, pcr |-> pcr, data |-> c, size |-> EventSize(label)]
           W == Written(L)
           M == event_log_record(L, label, pcr, c)
<1>1. StepsOver(e) = e.size
  BY StepSizes
<1>2. W \in Seq(Event) /\ \A k \in DOMAIN W : StepsOver(W[k]) = W[k].size
  BY DEF Written, Readable
<1>3. M.buf = W \o << e >>
  BY DEF event_log_record, WriteAtPointer
<1> HIDE DEF e, W, M
<1>4. \A k \in DOMAIN M.buf : M.buf[k] = e \/ (k \in DOMAIN W /\ M.buf[k] = W[k])
  BY <1>2, <1>3
<1> QED
  BY <1>1, <1>2, <1>4 DEF Readable, M

\* Each measurement leaves a log that can be read to its end.
LEMMA MeasuresReadable ==
  ASSUME NEW L \in Log, Readable(L), NEW c
  PROVE  /\ Readable(Tpm_Measure_Rom(L))
         /\ Readable(Tpm_Measure_Partition(L, c))
         /\ Readable(Tpm_Measure_Pl(L, c))
         /\ Readable(Tpm_Measure_Fsbl(L, c))
<1> DEFINE id == [name |-> "SPEC_ID", pcr |-> 0, data |-> NoContent,
                  size |-> ID_EVENT_SIZE]
           loc == [name |-> "LOCALITY", pcr |-> 0, data |-> NoContent,
                   size |-> LOC_EVENT_SIZE]
           W == Written(L)
           H == event_log_write_header(L, NoContent)
<1>1. L.buf \in Seq(Event) /\ L.partition \in 1 .. 5
  BY DEF Log
<1>2. {"ROM", "FSBL", "BITSTREAM", "BL31", "DTB", "UBOOT", "OPTEE"} \subseteq Label
  BY DEF Label, NameLen
<1>3. Readable(Tpm_Measure_Pl(L, c))
  BY <1>1, <1>2, RecordReadable DEF Tpm_Measure_Pl
<1>4. Readable(Tpm_Measure_Fsbl(L, c))
  BY <1>1, <1>2, RecordReadable DEF Tpm_Measure_Fsbl
<1>5. Readable(Tpm_Measure_Partition(L, c))
  <2> DEFINE M == event_log_record(L, PartitionLabel[L.partition],
                                   PartitionPcr[L.partition], c)
  <2>1. CASE L.partition \in DOMAIN PartitionLabel
    <3>1. PartitionLabel[L.partition] \in Label
      BY <1>2, <2>1 DEF PartitionLabel
    <3>2. Readable(M)
      BY <1>1, <3>1, RecordReadable
    <3>3. Tpm_Measure_Partition(L, c).buf = M.buf
      BY <2>1 DEF Tpm_Measure_Partition, event_log_record, WriteAtPointer
    <3> QED
      BY <3>2, <3>3 DEF Readable
  <2>2. CASE L.partition \notin DOMAIN PartitionLabel
    BY <2>2 DEF Tpm_Measure_Partition
  <2> QED
    BY <2>1, <2>2
<1>6. Readable(Tpm_Measure_Rom(L))
  <2>1. StepsOver(id) = id.size
    BY DEF StepsOver, id_event_print, ID_EVENT_SIZE, SizeofIdEventHeaders, HASH_ALG_COUNT,
           SizeofIdEventAlgorithmSize, SizeofVendorInfoSize
  <2>2. StepsOver(loc) = loc.size
    BY DEF StepsOver, event2_print, EventDataSize, LOC_EVENT_SIZE, SizeofEvent2Header,
           HASH_ALG_COUNT, OffsetofDigest, SHA384_DIGEST_SIZE, OffsetofEvent,
           SizeofStartupLocalityEvent
  <2>3. id \in Event /\ loc \in Event
    BY ContentTypes DEF Event, Label2, ID_EVENT_SIZE, LOC_EVENT_SIZE
  <2>4. W \in Seq(Event) /\ \A k \in DOMAIN W : StepsOver(W[k]) = W[k].size
    BY <1>1 DEF Written, Readable
  <2>5. H.buf = W \o << id, loc >>
    BY DEF event_log_write_header, WriteAtPointer
  <2> HIDE DEF id, loc, W, H
  <2>6. H.buf \in Seq(Event)
    BY <2>3, <2>4, <2>5
  <2>7. \A k \in DOMAIN H.buf :
          H.buf[k] = id \/ H.buf[k] = loc \/ (k \in DOMAIN W /\ H.buf[k] = W[k])
    BY <2>4, <2>5
  <2>8. Readable(H)
    BY <2>1, <2>2, <2>4, <2>7 DEF Readable
  <2> QED
    BY <1>2, <2>6, <2>8, RecordReadable DEF Tpm_Measure_Rom, H
<1> QED
  BY <1>3, <1>4, <1>5, <1>6

\* No step writes a record of another length.
LEMMA StaysReadable ==
  ASSUME TypeInv, Readable(log), [Next]_vars
  PROVE  Readable(log)'
<1>1. log \in Log /\ dup.log \in Log
  BY DEF TypeInv, TypeOK
<1>2. \/ log'.buf = log.buf
      \/ \E L \in Log : L.buf = log.buf /\ log' = Tpm_Measure_Rom(L)
      \/ \E c : log' = Tpm_Measure_Fsbl(log, c)
      \/ \E c : log' = Tpm_Measure_Pl(log, c)
      \/ \E c : log' = Tpm_Measure_Partition(log, c)
      \/ log' = InitialLog
  <2>1. CASE Initialize
    <3> DEFINE L == DataSection(GetResetReason).log
    <3>1. L \in Log /\ L.buf = log.buf
      BY <1>1 DEF DataSection, RestoreData, Log
    <3>2. log' = L \/ log' = Tpm_Measure_Rom(L)
      BY <2>1 DEF Initialize
    <3> QED
      BY <3>1, <3>2
  <2>2. CASE ValidateHeader \/ PlLoad \/ MeasurePartition
    BY <2>2
       DEF ValidateHeader, MeasureFsbl, PlLoad, MeasurePl, EventForPl, MeasurePartition
  <2>3. CASE Reset
    BY <2>3
       DEF Reset, SoftReset, WdtExpire, SoftwareReset, PsOnlyReset, ApuOnlyReset,
           SystemReset, RomLoadsFsbl, dataVars
  <2>4. CASE UNCHANGED vars
    BY <2>4 DEF vars, dataVars
  <2>5. CASE ~(\/ Initialize \/ ValidateHeader \/ PlLoad \/ MeasurePartition \/ Reset
               \/ UNCHANGED vars)
    <3>1. log' = log
      BY <2>5
         DEF Next, FsblStep, PrimaryBootDeviceInit, SecondaryBootDeviceInit,
             PartitionHeaderValidation, PartitionCopy, DeviceCopy, PartitionValidation,
             PlValidation, CheckPmuFw, WaitForPmuFw, NextPartition, HandoffBegin,
             SkipEntry, ReleaseCpu, OwnEntry, HandoffExit, ErrorLockDown, PmuAnswers,
             PmuDies, dataVars, handoffUnchanged
    <3> QED
      BY <3>1
  <2> QED
    BY <2>1, <2>2, <2>3, <2>4, <2>5
<1>3. Readable(log')
  <2>1. ASSUME NEW L, L.buf = log.buf
        PROVE  Readable(L)
    BY <2>1 DEF Readable
  <2>2. Readable(InitialLog)
    BY DEF Readable, InitialLog
  <2> QED
    BY <1>1, <1>2, <2>1, <2>2, MeasuresReadable
<1> QED
  BY <1>3 DEF Readable, StepsOver, event2_print, EventDataSize

-----------------------------------------------------------------------------
(***************************************************************************)
(* The boot mode stays, and the multiboot register moves in a fallback.    *)
(***************************************************************************)
LEMMA BootKept ==
  ASSUME [Next]_vars
  PROVE  /\ BootMode' = BootMode
         /\ ~ErrorLockDown => multiboot' = multiboot
<1>1. BootMode' = BootMode
  BY DEF Next, FsblStep, Initialize, PrimaryBootDeviceInit, ValidateHeader,
         SecondaryBootDeviceInit, PartitionHeaderValidation, PartitionCopy, DeviceCopy,
         PartitionValidation, PlValidation, PlLoad, MeasurePartition, CheckPmuFw,
         WaitForPmuFw, loadUnchanged, NextPartition, HandoffBegin, SkipEntry, ReleaseCpu,
         OwnEntry, HandoffExit, handoffUnchanged, ErrorLockDown, PmuAnswers, PmuDies,
         Reset, SoftReset, WdtExpire, SoftwareReset, PsOnlyReset, ApuOnlyReset,
         MayRestart, envVars, vars
<1>2. ASSUME ~ErrorLockDown
      PROVE  multiboot' = multiboot
  BY <1>2
     DEF Next, FsblStep, Initialize, PrimaryBootDeviceInit, ValidateHeader,
         SecondaryBootDeviceInit, PartitionHeaderValidation, PartitionCopy, DeviceCopy,
         PartitionValidation, PlValidation, PlLoad, MeasurePartition, CheckPmuFw,
         WaitForPmuFw, loadUnchanged, NextPartition, HandoffBegin, SkipEntry, ReleaseCpu,
         OwnEntry, HandoffExit, handoffUnchanged, PmuAnswers, PmuDies, Reset, SoftReset,
         WdtExpire, SoftwareReset, PsOnlyReset, ApuOnlyReset, SystemReset, RomLoadsFsbl,
         MainRestarts, regVars, vars
<1> QED
  BY <1>1, <1>2

(***************************************************************************)
(* How a boot ends is what the error status says afterwards.               *)
(***************************************************************************)
LEMMA LoopLeavesStatus ==
  ASSUME NothingFails, TypeInv, StatusInv, LoopStep
  PROVE  /\ pmu' # "DEAD" /\ pc' # "HUNG"
         /\ pc' \notin {"INITHUNG", "SOFTRESET", "DONE", "NOHANDOFF"}
         /\ errorStatus' = errorStatus
<1> USE NoFaults DEF Fail, Goto
<1>1. pc' \notin {"INITHUNG", "SOFTRESET", "DONE", "NOHANDOFF"}
  BY LoopKeeps DEF LoadingPcs
<1>2. errorStatus' = errorStatus /\ pmu' # "DEAD"
  BY DEF LoopStep, PartitionHeaderValidation, PartitionCopy, DeviceCopy,
         PartitionValidation, PlValidation, PlLoad, MeasurePartition, CheckPmuFw,
         WaitForPmuFw, loadUnchanged, regVars, StatusInv
<1>3. CASE MeasurePartition
  <2>1. log \in Log /\ LoadedBytes \in Content
    BY HdrType, DestinationCpuType, SlotTypes, ContentTypes
       DEF TypeInv, TypeOK, LoadedBytes, PartitionSlot, DestCpu, PartitionHeader
  <2>2. Readable(log')
    BY <1>3, <2>1, MeasuresReadable DEF MeasurePartition, StatusInv, Readable
  <2>3. ReadsToTheEnd(log')
    BY <2>2 DEF Readable, ReadsToTheEnd, NothingFails
  <2> QED
    BY <1>1, <1>2, <1>3, <2>3 DEF MeasurePartition
<1>4. CASE ~MeasurePartition
  <2>1. pc' # "HUNG"
    BY <1>4
       DEF LoopStep, PartitionHeaderValidation, NextAfterHeader, PartitionCopy, DeviceCopy,
           PartitionValidation, PlValidation, PlLoad, CheckPmuFw, WaitForPmuFw
  <2> QED
    BY <1>1, <1>2, <2>1
<1> QED
  BY <1>3, <1>4

LEMMA StatusInvStep ==
  ASSUME NothingFails, TypeInv, StatusInv, [Next]_vars
  PROVE  StatusInv'
<1> USE NoFaults DEF Fail, Goto
<1>1. Readable(log)'
  BY StaysReadable DEF StatusInv
<1>2. BootMode' = BootMode
  BY BootKept
<1>3. CASE LoopStep
  BY <1>1, <1>2, <1>3, LoopLeavesStatus DEF StatusInv
<1>4. CASE HandoffStep
  <2>1. pmu' = pmu
    BY <1>4
       DEF HandoffStep, NextPartition, HandoffBegin, SkipEntry, ReleaseCpu, OwnEntry,
           HandoffExit, handoffUnchanged
  <2>2. pc' \notin {"INITHUNG", "HUNG", "SOFTRESET"}
    BY <1>4
       DEF HandoffStep, NextPartition, HandoffBegin, SkipEntry, ReleaseCpu, OwnEntry,
           HandoffExit, AfterEntry
  <2>3. pc' \in {"DONE", "NOHANDOFF"} => errorStatus' = "COMPLETED"
    BY <1>4
       DEF HandoffStep, NextPartition, HandoffBegin, SkipEntry, ReleaseCpu, OwnEntry,
           HandoffExit, AfterEntry
  <2> QED
    BY <1>1, <2>1, <2>2, <2>3 DEF StatusInv
<1>5. CASE StartStep
  <2>1. pmu' \in {pmu, "ROM"}
    BY <1>5
       DEF StartStep, Initialize, PrimaryBootDeviceInit, ValidateHeader,
           SecondaryBootDeviceInit, Reset, SoftReset, WdtExpire, SoftwareReset,
           PsOnlyReset, ApuOnlyReset, SystemReset, RomLoadsFsbl, hwVars
  <2>2. pc' \notin {"INITHUNG", "HUNG", "SOFTRESET", "DONE", "NOHANDOFF"}
    BY <1>5
       DEF StartStep, Initialize, PrimaryBootDeviceInit, ValidateHeader, EnterStage3,
           SecondaryBootDeviceInit, Reset, SoftReset, WdtExpire, SoftwareReset,
           PsOnlyReset, ApuOnlyReset, SystemReset, RomLoadsFsbl
  <2> QED
    BY <1>1, <2>1, <2>2 DEF StatusInv
<1>6. CASE OtherStep
  <2>1. pmu' # "DEAD"
    BY <1>6
       DEF OtherStep, ErrorLockDown, PmuAnswers, PmuDies, vars, hwVars, StatusInv
  <2>2. CASE ErrorLockDown
    BY <1>1, <1>2, <2>1, <2>2 DEF ErrorLockDown, StatusInv
  <2>3. CASE ~ErrorLockDown
    <3>1. UNCHANGED <<pc, errorStatus>>
      BY <1>6, <2>3
         DEF OtherStep, PmuAnswers, PmuDies, loadUnchanged, regVars, vars, mainVars
    <3> QED
      BY <1>1, <1>2, <2>1, <3>1 DEF StatusInv
  <2> QED
    BY <2>2, <2>3
<1> QED
  BY <1>3, <1>4, <1>5, <1>6, NextSteps

-----------------------------------------------------------------------------
(***************************************************************************)
(* The image that is booted is the one the multiboot register points at.   *)
(***************************************************************************)
LEMMA SoundImage ==
  ASSUME TypeInv, SourceInv, HeadersInv, SoundBoot, pc = "SECONDARY" \/ LoadsOrStarts
  PROVE  /\ FsblInstance.hdr /\ CurImage = Images[multiboot]
         /\ Sound(CurImage) /\ CurImage \in Image
         /\ AuthRequired(CurImage) => KeptKey = CurImage.cert.ppk
<1>1. FsblInstance.hdr /\ (AuthRequired(CurImage) => KeptKey = CurImage.cert.ppk)
  BY DEF HeadersInv
<1>2. CurImage = Images[multiboot]
  <2>1. CASE pc = "SECONDARY"
    BY <2>1 DEF SourceInv, CurImage
  <2>2. CASE LoadsOrStarts
    <3>1. CurImage = BootImage
      BY <1>1, <2>2 DEF SourceInv, Booting, LoadsOrStarts, InLoop, LoadingPcs
    <3> QED
      BY <3>1 DEF BootImage, SoundBoot, Sound
  <2> QED
    BY <2>1, <2>2
<1>3. Images[multiboot] \in Image
  BY ImageTypes DEF TypeInv, TypeOK
<1> QED
  BY <1>1, <1>2, <1>3 DEF SoundBoot

\* The partition at hand is one of a sound image.
LEMMA SoundCurrent ==
  ASSUME TypeInv, SourceInv, MarkInv, HeadersInv, SoundBoot, InLoop
  PROVE  /\ Hdr.sum /\ Hdr \in PartitionHeader
         /\ Hdr = CurImage.ph[PartitionNum]
         /\ Hdr.owner = 0 => SoundPartition(Hdr, CurImage)
<1>1. FsblInstance.hdr /\ Sound(CurImage)
  BY SoundImage DEF LoadsOrStarts
<1>2. PartitionNum \in 1 .. (CurImage.n - 1) /\ Hdr = CurImage.ph[PartitionNum]
  BY <1>1, CurrentPartition
<1> QED
  BY <1>1, <1>2, HdrType DEF Sound, TypeInv

(***************************************************************************)
(* What the loop asks of a header: other resets pass partitions over, and  *)
(* refuse none.                                                            *)
(***************************************************************************)
LEMMA SoundHeaderPasses ==
  ASSUME TypeInv, SourceInv, MarkInv, HeadersInv, SoundBoot, PartitionHeaderValidation
  PROVE  /\ pc = "HEADER" /\ pc' \in {"COPY", "NEXT"}
         /\ pc' = "NEXT" => ~Taken(Hdr)
<1>1. pc = "HEADER" /\ InLoop
  BY DEF PartitionHeaderValidation, InLoop
<1>2. Hdr.sum /\ (Hdr.owner = 0 => SoundPartition(Hdr, CurImage))
  BY <1>1, SoundCurrent
<1> DEFINE status == HeaderStatus(Hdr, FsblInstance.reset, EfuseEncOnly)
<1>3. \/ status = "SUCCESS"
      \/ status = "NOT_OWNER" /\ ~Taken(Hdr)
  BY <1>2
     DEF HeaderStatus, SoundPartition, ValidatePartitionHeader, NotForThisReset, Taken,
         SYSTEM_RESET, MASTER_ONLY_RESET
<1>4. pc' = NextAfterHeader(status)
  BY DEF PartitionHeaderValidation, Goto
<1> HIDE DEF status
<1> QED
  BY <1>1, <1>3, <1>4 DEF NextAfterHeader

LEMMA SoundCopyPasses ==
  ASSUME NothingFails, TypeInv, SourceInv, MarkInv, PassInv, HeadersInv, SoundBoot,
         PartitionCopy
  PROVE  pc = "COPY" /\ pc' \in {"LOAD", "CHECK"}
<1>1. pc = "COPY" /\ InLoop /\ Hdr.owner = 0
  BY DEF PartitionCopy, InLoop, LoadingPcs, PassInv, ValidatedPcs, Taken
<1>2. SoundPartition(Hdr, CurImage) /\ Hdr \in PartitionHeader
  BY <1>1, SoundCurrent
<1>3. FitsTcm(DestCpu, Hdr.load, Hdr.total)
  BY <1>2 DEF SoundPartition, DestCpu
<1>4. Hdr.total \in Nat /\ AcWords \in Nat /\ TcmBank \in Nat
  BY <1>2, SizeAssumption DEF PartitionHeader
<1>5. CopyLength \in Int /\ CopyLength <= Hdr.total
  BY <1>4 DEF CopyLength
<1>6. FitsTcm(DestCpu, Hdr.load, CopyLength)
  BY <1>3, <1>4, <1>5 DEF FitsTcm
<1> QED
  BY <1>1, <1>6, NoFaults DEF PartitionCopy, Goto

(***************************************************************************)
(* And of what was copied.                                                 *)
(***************************************************************************)
LEMMA SoundChecks ==
  ASSUME TypeInv, SourceInv, MarkInv, PassInv, CopiedInv, HeadersInv, SoundBoot,
         pc \in {"CHECK", "PL"}, ~(IsPl /\ PsOnly)
  PROVE  /\ LoadFits /\ ChecksumOK /\ SignatureOK /\ DecryptionOK
         /\ IsPl => SecureBitstreamOK
<1>1. InLoop /\ Hdr.owner = 0
  BY DEF InLoop, LoadingPcs, PassInv, ValidatedPcs, Taken
<1>2. SoundPartition(Hdr, CurImage) /\ Hdr \in PartitionHeader
  BY <1>1, SoundCurrent
<1>3. AuthRequired(CurImage) => KeptKey = CurImage.cert.ppk
  BY <1>1, SoundImage DEF LoadsOrStarts
<1>4. IsXip(Hdr) \/ mem[PartitionSlot] = BytesIn(PartitionNum)
  BY DEF CopiedInv
<1>5. Protected => Intact
  BY <1>2, <1>4 DEF SoundPartition, Protected, Intact
<1>6. LoadFits
  BY <1>2 DEF SoundPartition, LoadFits, DestCpu
<1>7. ChecksumOK
  BY <1>2, <1>5 DEF SoundPartition, ChecksumOK, CopyLength, IsPl, Protected
<1>8. SignatureOK
  BY <1>2, <1>3, <1>5
     DEF SoundPartition, SignatureOK, PartitionAuthentication, KeptKey, Protected
<1>9. DecryptionOK
  BY <1>5 DEF DecryptionOK, Protected
<1>10. IsPl => SecureBitstreamOK
  BY <1>2 DEF SoundPartition, SecureBitstreamOK, IsPl
<1> QED
  BY <1>6, <1>7, <1>8, <1>9, <1>10

LEMMA SoundChecksPass ==
  ASSUME NothingFails, TypeInv, SourceInv, MarkInv, PassInv, CopiedInv, HeadersInv,
         SoundBoot, PartitionValidation \/ PlValidation \/ PlLoad
  PROVE  pc' \in {"FINISH", "PL", "PMUFW"}
<1> USE NoFaults DEF Fail, Goto
<1>1. CASE PartitionValidation
  <2>1. PartitionAccepted
    BY <1>1, SoundChecks DEF PartitionValidation, PartitionAccepted
  <2> QED
    BY <1>1, <2>1 DEF PartitionValidation
<1>2. CASE PlValidation
  <2>1. PsOnly \/ BitstreamAccepted
    BY <1>2, SoundChecks DEF PlValidation, BitstreamAccepted
  <2> QED
    BY <1>2, <2>1 DEF PlValidation
<1>3. CASE PlLoad
  <2>1. pc = "PL" /\ ~PsOnly
    BY <1>3 DEF PlLoad, CopiedInv
  <2>2. DecryptionOK
    BY <2>1, SoundChecks
  <2> QED
    BY <1>3, <2>2 DEF PlLoad, DecryptionOK
<1> QED
  BY <1>1, <1>2, <1>3

LEMMA SoundLoopPasses ==
  ASSUME NothingFails, TypeInv, SourceInv, MarkInv, PassInv, CopiedInv, StatusInv,
         HeadersInv, SoundBoot, LoopStep
  PROVE  pc' \in LoadingPcs
<1>1. pc' # "HUNG"
  BY LoopLeavesStatus
<1>2. pc' # "ERR"
  <2>1. CASE PartitionHeaderValidation \/ PartitionCopy
    BY <2>1, SoundHeaderPasses, SoundCopyPasses
  <2>2. CASE PartitionValidation \/ PlValidation \/ PlLoad
    BY <2>2, SoundChecksPass
  <2>3. CASE DeviceCopy \/ MeasurePartition \/ CheckPmuFw \/ WaitForPmuFw
    BY <2>3, NoFaults DEF DeviceCopy, MeasurePartition, CheckPmuFw, WaitForPmuFw, Goto
  <2> QED
    BY <2>1, <2>2, <2>3 DEF LoopStep
<1> QED
  BY <1>1, <1>2, LoopKeeps

-----------------------------------------------------------------------------
(***************************************************************************)
(* Stage 4: the CPUs of the list can be started.                           *)
(***************************************************************************)
LEMMA SoundEntry ==
  ASSUME TypeInv, SourceInv, ListInv, HeadersInv, SoundBoot, pc = "CPU", MoreEntries
  PROVE  /\ Startable(Entry.cpu)
         /\ Entry.cpu = ProcessorID => ~Entry.aa32
<1>1. CpuIndex + 1 \in DOMAIN FsblInstance.handoff
  BY DEF MoreEntries, TypeInv, TypeOK, Instance
<1>2. PICK p \in 1 .. PartitionNum : EntryFrom(Entry, p)
  BY <1>1 DEF ListInv, LoadsOrStarts, Entry
<1> DEFINE h == CurImage.ph[p]
<1>3. /\ Entry = NewEntry(h) /\ p \in 1 .. (CurImage.n - 1)
      /\ h.owner = 0 /\ (IsXip(h) \/ IsCode(h))
  BY <1>2 DEF EntryFrom, LastPartition, Taken
<1>4. Sound(CurImage)
  BY SoundImage DEF LoadsOrStarts
<1>5. SoundPartition(h, CurImage)
  BY <1>3, <1>4 DEF Sound
<1>6. Entry.cpu = DestinationCpu(h) /\ Entry.aa32 = h.aa32
  BY <1>3 DEF NewEntry
<1> QED
  BY <1>3, <1>5, <1>6 DEF SoundPartition, IsCode

LEMMA SoundHandoffPasses ==
  ASSUME NothingFails, TypeInv, SourceInv, ListInv, HeadersInv, SoundBoot, HandoffStep
  PROVE  pc' # "ERR"
<1> USE NoFaults DEF Fail, Goto
<1>1. CASE ReleaseCpu
  BY <1>1, SoundEntry DEF ReleaseCpu, AfterEntry
<1>2. CASE OwnEntry
  BY <1>2, SoundEntry DEF OwnEntry, AfterEntry
<1>3. CASE ~(ReleaseCpu \/ OwnEntry)
  BY <1>3
     DEF HandoffStep, NextPartition, HandoffBegin, SkipEntry, HandoffExit, AfterEntry
<1> QED
  BY <1>1, <1>2, <1>3

(***************************************************************************)
(* The FSBL waits for the PMU only where it sleeps or was asked to.        *)
(***************************************************************************)
LEMMA SoundNeverWaits ==
  ASSUME StatusInv, PmuInv, SoundBoot, Waiting
  PROVE  pc = "NOHANDOFF"
BY DEF Waiting, StatusInv, PmuInv, AskedToSleep

(***************************************************************************)
(* The steps up to the loop.                                               *)
(***************************************************************************)
LEMMA SoundHeadersRead ==
  ASSUME NothingFails, TypeInv, SourceInv, SoundBoot, ValidateHeader
  PROVE  /\ pc' = "SECONDARY" /\ FsblInstance'.hdr
         /\ CurImage' = Images[multiboot]
         /\ AuthRequired(Images[multiboot]) =>
              FsblInstance'.ppk = Images[multiboot].cert.ppk
<1> DEFINE im == Images[multiboot]
<1>1. FsblInstance.sec = 0 /\ ImageToValidate = multiboot
  BY DEF ValidateHeader, SourceInv, SoundBoot, Sound, ImageToValidate
<1>2. Sound(im) /\ HeaderAccepted(im) /\ TablesRead(im)
  BY DEF SoundBoot, Sound, HeaderAccepted, TablesRead, ValidateImageHeaderTable
<1>3. im \in Image /\ FsblInstance \in Instance
  BY ImageTypes DEF TypeInv, TypeOK
<1>4. ReadImageHeader(multiboot) /\ pc' = "SECONDARY"
  BY <1>1, <1>2, NoFaults DEF ValidateHeader, Goto, Fail
<1>5. FsblInstance' = [KeepPpk(im) EXCEPT !.img = multiboot, !.hdr = TRUE]
  BY <1>2, <1>4 DEF ReadImageHeader
<1>6. PICK k \in Nat : KeepPpk(im) = [FsblInstance EXCEPT !.ppk = k]
  BY <1>3, KeepPpkType DEF TypeInv
<1>7. /\ FsblInstance'.img = multiboot /\ FsblInstance'.hdr
      /\ FsblInstance'.ppk = KeepPpk(im).ppk
  BY <1>3, <1>5, <1>6 DEF Instance
<1>8. AuthRequired(im) => KeepPpk(im).ppk = im.cert.ppk
  BY <1>2, <1>3, KeyOfAccepted DEF Instance
<1> QED
  BY <1>4, <1>7, <1>8 DEF CurImage

LEMMA StartHeadersInv ==
  ASSUME NothingFails, TypeInv, TableInv, SourceInv, StatusInv, HeadersInv, PmuInv,
         StartStep
  PROVE  HeadersInv'
<1> USE NoFaults DEF Fail, Goto
<1>1. SoundBoot' = SoundBoot
  <2>1. [Next]_vars /\ ~ErrorLockDown
    BY DEF StartStep, Next, FsblStep, Initialize, PrimaryBootDeviceInit, ValidateHeader,
           SecondaryBootDeviceInit, EnterStage3, ErrorLockDown, Reset, SoftReset,
           WdtExpire, SoftwareReset, PsOnlyReset, ApuOnlyReset, MayRestart, SystemReset,
           RomLoadsFsbl
  <2> QED
    BY <2>1, BootKept DEF SoundBoot
<1> SUFFICES ASSUME SoundBoot
             PROVE  HeadersInv'
  BY <1>1 DEF HeadersInv
<1>2. ASSUME pc' \in {"PRIMARY", "VALIDATE", "ROMSTOP"}
      PROVE  HeadersInv'
  BY <1>2 DEF HeadersInv, LoadsOrStarts, InLoop, LoadingPcs
<1>3. CASE Initialize
  <2>1. ~WdtResetSeen
    BY <1>3 DEF Initialize, HeadersInv, WdtResetSeen
  <2>2. pc' = "PRIMARY"
    BY <1>3, <2>1 DEF Initialize
  <2> QED
    BY <1>2, <2>2
<1>4. CASE PrimaryBootDeviceInit
  <2>1. pc' = "VALIDATE"
    BY <1>4 DEF PrimaryBootDeviceInit, SoundBoot
  <2> QED
    BY <1>2, <2>1
<1>5. CASE ValidateHeader
  <2>1. /\ pc' = "SECONDARY" /\ FsblInstance'.hdr
        /\ AuthRequired(CurImage)' => KeptKey' = CurImage'.cert.ppk
    BY <1>5, SoundHeadersRead DEF KeptKey, AuthRequired
  <2> QED
    BY <2>1 DEF HeadersInv
<1>6. CASE SecondaryBootDeviceInit
  <2>1. pc = "SECONDARY"
    BY <1>6 DEF SecondaryBootDeviceInit
  <2>2. /\ FsblInstance.hdr /\ CurImage.ppd = XIH_IHT_PPD_SAME
        /\ AuthRequired(CurImage) => KeptKey = CurImage.cert.ppk
    BY <2>1, SoundImage DEF Sound
  <2>3. pc' = "HEADER" /\ UNCHANGED FsblInstance
    BY <1>6, <2>2
       DEF SecondaryBootDeviceInit, EnterStage3, XIH_IHT_PPD_SAME, XIH_IHT_PPD_USB
  <2> QED
    BY <2>2, <2>3 DEF HeadersInv, CurImage, KeptKey, AuthRequired
<1>7. CASE Reset
  <2>1. pc' \in {"STAGE1", "ROMSTOP"} /\ errorStatus' = errorStatus
    BY <1>7
       DEF Reset, SoftReset, WdtExpire, SoftwareReset, PsOnlyReset, ApuOnlyReset,
           SystemReset, RomLoadsFsbl, MainRestarts
  <2>2. pc \in {"SOFTRESET", "DONE"} \/ Waiting
    BY <1>7
       DEF Reset, SoftReset, WdtExpire, SoftwareReset, PsOnlyReset, ApuOnlyReset,
           MayRestart
  <2>3. errorStatus # "RUNNING"
    BY <2>2, SoundNeverWaits DEF StatusInv, SoundBoot
  <2> QED
    BY <2>1, <2>3 DEF HeadersInv, LoadsOrStarts, InLoop, LoadingPcs
<1> QED
  BY <1>3, <1>4, <1>5, <1>6, <1>7 DEF StartStep

LEMMA HeadersInvStep ==
  ASSUME NothingFails, TypeInv, TableInv, SourceInv, MarkInv, PassInv, CopiedInv,
         ListInv, StatusInv, HeadersInv, PmuInv, [Next]_vars
  PROVE  HeadersInv'
<1>1. ASSUME SoundBoot, pc' # "ERR", pc' # "STAGE1", LoadsOrStarts' => LoadsOrStarts,
             pc' # "SECONDARY", UNCHANGED <<FsblInstance.hdr, FsblInstance.img,
                                            FsblInstance.ppk>>
      PROVE  HeadersInv'
  BY <1>1 DEF HeadersInv, CurImage, KeptKey, AuthRequired
<1>2. CASE StartStep
  BY <1>2, StartHeadersInv
<1>3. CASE LoopStep
  <2>1. ~ErrorLockDown
    BY <1>3, LoopKeeps DEF ErrorLockDown, InLoop, LoadingPcs
  <2>2. SoundBoot' = SoundBoot
    BY <2>1, BootKept DEF SoundBoot
  <2>3. ASSUME SoundBoot
        PROVE  HeadersInv'
    <3>1. LoadsOrStarts /\ pc' \in LoadingPcs
      BY <1>3, <2>3, LoopKeeps, SoundLoopPasses DEF LoadsOrStarts
    <3> QED
      BY <1>1, <1>3, <2>3, <3>1, LoopKeeps DEF LoadingPcs
  <2> QED
    BY <2>2, <2>3 DEF HeadersInv
<1>4. CASE HandoffStep
  <2>1. UNCHANGED FsblInstance /\ LoadsOrStarts /\ pc' \notin {"STAGE1", "SECONDARY"}
        /\ pc # "ERR"
    BY <1>4, HandoffKeeps DEF LoadsOrStarts, InLoop, LoadingPcs
  <2>2. SoundBoot' = SoundBoot
    BY <2>1, BootKept DEF SoundBoot, ErrorLockDown
  <2>3. ASSUME SoundBoot
        PROVE  HeadersInv'
    BY <1>1, <1>4, <2>1, <2>3, SoundHandoffPasses
  <2> QED
    BY <2>2, <2>3 DEF HeadersInv
<1>5. CASE OtherStep
  <2>1. CASE ErrorLockDown
    <3>1. pc' \in {"SPIN", "SOFTRESET", "NOHANDOFF"}
      BY <2>1 DEF ErrorLockDown, Goto
    <3> QED
      BY <3>1 DEF HeadersInv, LoadsOrStarts, InLoop, LoadingPcs
  <2>2. CASE ~ErrorLockDown
    <3>1. UNCHANGED <<pc, errorStatus, FsblInstance>>
      BY <1>5, <2>2
         DEF OtherStep, PmuAnswers, PmuDies, loadUnchanged, regVars, vars, mainVars,
             dataVars
    <3>2. SoundBoot' = SoundBoot
      BY <2>2, BootKept DEF SoundBoot
    <3> QED
      BY <3>1, <3>2 DEF HeadersInv, LoadsOrStarts, InLoop, CurImage, KeptKey, AuthRequired
  <2> QED
    BY <2>1, <2>2
<1> QED
  BY <1>2, <1>3, <1>4, <1>5, NextSteps

(***************************************************************************)
(* A fallback leads to the image after one that was refused.               *)
(***************************************************************************)
LEMMA SoundAheadStep ==
  ASSUME TypeInv, HeadersInv, SoundAhead, [Next]_vars
  PROVE  SoundAhead'
<1>1. BootMode' = BootMode
  BY BootKept
<1>2. CASE ~ErrorLockDown
  BY <1>1, <1>2, BootKept DEF SoundAhead
<1>3. CASE ErrorLockDown
  <2> SUFFICES ASSUME BootMode = "FLASH", NEW i \in 0 .. LastImage, Sound(Images[i])
               PROVE  multiboot' <= i
    BY <1>1 DEF SoundAhead
  <2>1. multiboot <= i /\ multiboot' = multiboot + 1 /\ pc = "ERR"
    BY <1>3 DEF SoundAhead, ErrorLockDown, NextImage
  <2>2. multiboot # i
    BY <2>1, LastImageAssumption DEF HeadersInv, SoundBoot
  <2>3. multiboot \in Int /\ i \in Int
    BY LastImageAssumption DEF TypeInv, TypeOK, ImageIndex
  <2> QED
    BY <2>1, <2>2, <2>3
<1> QED
  BY <1>2, <1>3

-----------------------------------------------------------------------------
(***************************************************************************)
(* The PMU over a pass of the loop.                                        *)
(***************************************************************************)
LEMMA PmuCpu ==
  DestCpu = CPU_PMU <=> Hdr.cpu = CPU_PMU
BY DEF DestCpu, DestinationCpu, ProcessorID, CPU_A53_0, CPU_PMU, CPU_NONE

LEMMA LoopPmuInv ==
  ASSUME NothingFails, TypeInv, SourceInv, MarkInv, PassInv, CopiedInv, StatusInv,
         HeadersInv, PmuInv, LoopStep
  PROVE  PmuInv'
<1> USE NoFaults DEF Fail, Goto
<1>1. SoundBoot' = SoundBoot
  <2>1. ~ErrorLockDown
    BY LoopKeeps DEF ErrorLockDown, InLoop, LoadingPcs
  <2>2. [Next]_vars
    BY DEF LoopStep, Next, FsblStep
  <2> QED
    BY <2>1, <2>2, BootKept DEF SoundBoot
<1> SUFFICES ASSUME SoundBoot
             PROVE  PmuInv'
  BY <1>1 DEF PmuInv
<1>2. /\ Hdr' = Hdr /\ PartitionNum' = PartitionNum /\ LastPartition' = LastPartition
      /\ FsblInstance'.reset = FsblInstance.reset
      /\ \A p : PH(p)' = PH(p)
  BY LoopKeeps, LoopHeader DEF PH, CurImage
<1>3. /\ FollowsPmuPart(Hdr)' = FollowsPmuPart(Hdr) /\ PmuPart(Hdr)' = PmuPart(Hdr)
      /\ (DestCpu = CPU_PMU)' = (DestCpu = CPU_PMU) /\ PmuFwLoadDone' = PmuFwLoadDone
  BY <1>2 DEF FollowsPmuPart, PmuPart, DestCpu, PmuFwLoadDone, Taken, NotForThisReset,
              IsXip, DestinationCpu
<1>4. pc' \in LoadingPcs
  BY SoundLoopPasses
<1>5. ASSUME /\ pc' = "COPY" /\ FollowsPmuPart(Hdr) => pmu' \in {"ASKED", "SLEEP"}
             /\ pc' = "LOAD" /\ DestCpu = CPU_PMU => pmu' \in {"ASKED", "SLEEP"}
             /\ pc' \in {"CHECK", "FINISH", "PMUFW"} /\ PmuPart(Hdr) =>
                  pmu' \in {"ASKED", "SLEEP"}
             /\ pc' = "FWWAIT" => PmuFwLoadDone
             /\ pc' = "NEXT" /\ PmuPart(Hdr) /\ PartitionNum < LastPartition
                  /\ PH(PartitionNum + 1).cpu = CPU_PMU => pmu' \in {"ASKED", "SLEEP"}
      PROVE  PmuInv'
  BY <1>2, <1>3, <1>4, <1>5 DEF PmuInv, AskedToSleep, LoadingPcs
<1>6. CASE PartitionHeaderValidation
  <2>1. /\ pc = "HEADER" /\ pmu' = pmu /\ pc' \in {"COPY", "NEXT"}
        /\ pc' = "NEXT" => ~PmuPart(Hdr)
    BY <1>6, SoundHeaderPasses DEF PartitionHeaderValidation, PmuPart
  <2>2. FollowsPmuPart(Hdr) => AskedToSleep
    BY <2>1 DEF PmuInv
  <2> QED
    BY <1>5, <2>1, <2>2 DEF AskedToSleep
<1>7. CASE PartitionCopy
  <2>1. pc = "COPY" /\ Taken(Hdr) /\ pc' \in {"LOAD", "CHECK"}
    BY <1>7, SoundCopyPasses DEF PassInv, ValidatedPcs
  <2>2. pc' = "CHECK" => ~PmuPart(Hdr)
    BY <1>7 DEF PartitionCopy, PmuPart, IsPl
  <2>3. pc' = "LOAD" =>
          /\ ~IsXip(Hdr)
          /\ pmu' = IF DestCpu = CPU_PMU /\ Hdr.exec # "ZERO" THEN "ASKED" ELSE pmu
    BY <1>7 DEF PartitionCopy
  <2>4. FollowsPmuPart(Hdr) => AskedToSleep
    BY <2>1 DEF PmuInv
  <2>5. pc' = "LOAD" /\ DestCpu = CPU_PMU => pmu' \in {"ASKED", "SLEEP"}
    BY <2>1, <2>3, <2>4, PmuCpu DEF FollowsPmuPart, AskedToSleep
  <2> QED
    BY <1>5, <2>1, <2>2, <2>5
<1>8. CASE DeviceCopy
  <2>1. pc = "LOAD" /\ pmu' = pmu /\ pc' = "CHECK"
    BY <1>8 DEF DeviceCopy
  <2>2. PmuPart(Hdr) => AskedToSleep
    BY <2>1, PmuCpu DEF PmuInv, PmuPart
  <2> QED
    BY <1>5, <2>1, <2>2 DEF AskedToSleep
<1>9. CASE PartitionValidation \/ PlValidation \/ MeasurePartition
  <2>1. pc \in {"CHECK", "FINISH"} /\ pmu' = pmu /\ pc' \in {"FINISH", "PL", "PMUFW"}
    BY <1>4, <1>9
       DEF PartitionValidation, PlValidation, MeasurePartition, LoadingPcs
  <2>2. PmuPart(Hdr) => AskedToSleep
    BY <2>1 DEF PmuInv
  <2> QED
    BY <1>5, <2>1, <2>2 DEF AskedToSleep
<1>10. CASE PlLoad
  <2>1. pc = "PL" /\ IsPl /\ pc' = "PMUFW"
    BY <1>4, <1>10 DEF PlLoad, PassInv, LoadingPcs
  <2>2. ~PmuPart(Hdr)
    BY <2>1 DEF PmuPart, IsPl
  <2> QED
    BY <1>5, <2>1, <2>2
<1>11. CASE CheckPmuFw
  <2>1. /\ pc = "PMUFW" /\ pc' \in {"FWWAIT", "NEXT"}
        /\ pc' = "FWWAIT" => PmuFwLoadDone
        /\ pc' = "NEXT" => pmu' = pmu
    BY <1>11 DEF CheckPmuFw
  <2>2. PmuPart(Hdr) => AskedToSleep
    BY <2>1 DEF PmuInv
  <2> QED
    BY <1>5, <2>1, <2>2 DEF AskedToSleep
<1>12. CASE WaitForPmuFw
  <2>1. pc = "FWWAIT" /\ pc' = "NEXT"
    BY <1>12 DEF WaitForPmuFw
  <2>2. PmuFwLoadDone
    BY <2>1 DEF PmuInv
  <2> QED
    BY <1>5, <2>1, <2>2 DEF PmuFwLoadDone
<1> QED
  BY <1>6, <1>7, <1>8, <1>9, <1>10, <1>11, <1>12 DEF LoopStep

(***************************************************************************)
(* Between two partitions: one of the PMU firmware that needs a PMU asleep *)
(* has another in front of it, and no early handoff comes between the two. *)
(***************************************************************************)
LEMMA NextFollows ==
  ASSUME TypeInv, SourceInv, MarkInv, HeadersInv, SoundBoot, pc \in {"NEXT", "CPU"},
         PartitionNum < LastPartition, FollowsPmuPart(PH(PartitionNum + 1))
  PROVE  PmuPart(Hdr) /\ PH(PartitionNum + 1).cpu = CPU_PMU
<1>1. FsblInstance.hdr /\ Sound(CurImage)
  BY SoundImage DEF LoadsOrStarts, InLoop, LoadingPcs
<1>2. PartitionNum \in Nat /\ CurImage.n \in Nat /\ LastPartition = CurImage.n - 1
  BY <1>1, ImageTypes DEF TypeInv, TypeOK, PartitionIndex, LastPartition, CurImage, Image,
                          Instance
<1> DEFINE p == PartitionNum + 1
           h == CurImage.ph[p]
<1>3. p \in 1 .. (CurImage.n - 1) /\ p - 1 = PartitionNum
  BY <1>2
<1>4. PH(p) = h /\ Hdr = CurImage.ph[p - 1]
  BY <1>1, <1>3 DEF PH, Hdr
<1>5. FollowsPmuPart(h)
  BY <1>4
<1> HIDE DEF p
<1>6. FindsPmuAsleep(CurImage, p)
  BY <1>1, <1>3, <1>5 DEF Sound, FollowsPmuPart, Taken
<1>7. Hdr.owner = 0 /\ Hdr.cpu = CPU_PMU /\ Hdr.dev # DEVICE_PL /\ ~IsXip(Hdr)
  BY <1>4, <1>6 DEF FindsPmuAsleep
<1>8. Taken(Hdr)
  BY <1>5, <1>7 DEF FollowsPmuPart, Taken, NotForThisReset
<1> QED
  BY <1>4, <1>5, <1>7, <1>8 DEF PmuPart, FollowsPmuPart, p

LEMMA HandoffPmuInv ==
  ASSUME TypeInv, SourceInv, MarkInv, HeadersInv, PmuInv, HandoffStep
  PROVE  PmuInv'
<1> USE DEF Faulty, Refused, Unanswered, Fail, Goto
<1>1. /\ UNCHANGED FsblInstance /\ pc \in {"NEXT", "HANDOFF", "CPU"}
      /\ pc' \in {"HEADER", "HANDOFF", "CPU", "ERR", "HUNG", "DONE", "NOHANDOFF"}
  BY HandoffKeeps
<1>2. SoundBoot' = SoundBoot
  <2>1. [Next]_vars /\ ~ErrorLockDown
    BY <1>1 DEF HandoffStep, Next, FsblStep, ErrorLockDown
  <2> QED
    BY <2>1, BootKept DEF SoundBoot
<1> SUFFICES ASSUME SoundBoot
             PROVE  PmuInv'
  BY <1>2 DEF PmuInv
<1>3. ASSUME pc' \in {"HANDOFF", "CPU"} /\ EarlyHandoff' => Hdr'.cpu \in R5Cpus,
             pc' = "HEADER" /\ FollowsPmuPart(Hdr)' => pmu' \in {"ASKED", "SLEEP"}
      PROVE  PmuInv'
  BY <1>1, <1>3 DEF PmuInv, AskedToSleep
<1>4. pmu' = pmu
  BY DEF HandoffStep, NextPartition, HandoffBegin, SkipEntry, ReleaseCpu, OwnEntry,
         HandoffExit, handoffUnchanged
<1>5. /\ pc' = "HEADER" => PartitionNum' = PartitionNum + 1
      /\ pc' # "HEADER" => PartitionNum' = PartitionNum
  BY HandoffMoves
<1>6. /\ pc' = "HEADER" => Hdr' = PH(PartitionNum + 1)
      /\ pc' # "HEADER" => Hdr' = Hdr
  BY <1>1, <1>5 DEF Hdr, PH, CurImage
<1>7. FollowsPmuPart(Hdr)' = FollowsPmuPart(Hdr')
  BY <1>1 DEF FollowsPmuPart, Taken, NotForThisReset, IsXip
<1>8. pc' = "HEADER" =>
        /\ PartitionNum < LastPartition /\ pc \in {"NEXT", "CPU"}
        /\ pc = "CPU" => EarlyHandoff
  BY DEF HandoffStep, NextPartition, HandoffBegin, SkipEntry, ReleaseCpu, OwnEntry,
         HandoffExit, AfterEntry
<1>9. ASSUME pc' = "HEADER", FollowsPmuPart(Hdr)'
      PROVE  pmu' \in {"ASKED", "SLEEP"}
  <2>1. PmuPart(Hdr) /\ PH(PartitionNum + 1).cpu = CPU_PMU
    BY <1>6, <1>7, <1>8, <1>9, NextFollows
  <2>2. CASE pc = "NEXT"
    BY <1>4, <1>8, <1>9, <2>1, <2>2 DEF PmuInv, AskedToSleep
  <2>3. CASE pc = "CPU"
    BY <1>8, <1>9, <2>1, <2>3
       DEF PmuInv, PmuPart, R5Cpus, CPU_R5_0, CPU_R5_1, CPU_R5_L, CPU_PMU
  <2> QED
    BY <1>8, <1>9, <2>2, <2>3
<1>10. ASSUME pc' \in {"HANDOFF", "CPU"}, EarlyHandoff'
       PROVE  Hdr'.cpu \in R5Cpus
  <2>1. \/ pc = "NEXT" /\ CheckEarlyHandoff
        \/ pc \in {"HANDOFF", "CPU"} /\ EarlyHandoff
    BY <1>10
       DEF HandoffStep, NextPartition, HandoffBegin, SkipEntry, ReleaseCpu, OwnEntry,
           HandoffExit, AfterEntry
  <2>2. Hdr.cpu \in R5Cpus
    BY <2>1 DEF PmuInv, CheckEarlyHandoff, CpuNeedsEarlyHandoff
  <2> QED
    BY <1>6, <1>10, <2>2
<1> QED
  BY <1>3, <1>9, <1>10

LEMMA StartPmuInv ==
  ASSUME NothingFails, TypeInv, TableInv, SourceInv, StatusInv, HeadersInv, PmuInv,
         TypeInv', SourceInv', StartStep
  PROVE  PmuInv'
<1> SUFFICES ASSUME SoundBoot'
             PROVE  PmuInv'
  BY DEF PmuInv
<1>1. HeadersInv'
  BY StartHeadersInv
<1>2. CASE pc' = "HEADER" /\ PartitionNum' = 1
  <2>1. Sound(CurImage)' /\ FsblInstance'.hdr /\ CurImage' \in Image
    <3>1. LoadsOrStarts'
      BY <1>2 DEF LoadsOrStarts, InLoop
    <3>2. FsblInstance'.hdr
      BY <1>1, <3>1 DEF HeadersInv
    <3>3. CurImage' = Images[multiboot']
      BY <1>2, <3>2 DEF SourceInv, Booting, BootImage, SoundBoot, Sound
    <3>4. CurImage' \in Image
      BY <3>3, ImageTypes DEF TypeInv, TypeOK
    <3> QED
      BY <3>2, <3>3, <3>4 DEF SoundBoot
  <2>2. Hdr' = CurImage'.ph[1]
    BY <1>2, <2>1 DEF Hdr, PH
  <2>3. CurImage'.n \in 2 .. XIH_MAX_PARTITIONS
    BY <2>1 DEF TypeInv, Flow, HeadersOK, CurImage
  <2>4. 1 \in 1 .. (CurImage'.n - 1)
    BY <2>3 DEF XIH_MAX_PARTITIONS
  <2>5. ~FollowsPmuPart(Hdr)'
    BY <2>1, <2>2, <2>4 DEF Sound, FindsPmuAsleep, FollowsPmuPart, Taken
  <2> QED
    BY <1>2, <2>5 DEF PmuInv
<1>3. CASE ~(pc' = "HEADER" /\ PartitionNum' = 1)
  <2>1. \/ pc' \in {"ERR", "INITHUNG", "HUNG", "PRIMARY", "VALIDATE", "SECONDARY",
                    "STAGE1", "ROMSTOP"}
        \/ pc' = "HANDOFF" /\ ~FsblInstance'.hdr
    BY <1>3, StartMoves
  <2>2. pc' # "HANDOFF"
    BY <1>1, <2>1 DEF HeadersInv, LoadsOrStarts
  <2> QED
    BY <2>1, <2>2 DEF PmuInv
<1> QED
  BY <1>2, <1>3

LEMMA PmuInvStep ==
  ASSUME NothingFails, TypeInv, TableInv, SourceInv, MarkInv, PassInv, CopiedInv,
         StatusInv, HeadersInv, PmuInv, TypeInv', SourceInv', [Next]_vars
  PROVE  PmuInv'
<1>1. CASE LoopStep
  BY <1>1, LoopPmuInv
<1>2. CASE HandoffStep
  BY <1>2, HandoffPmuInv
<1>3. CASE StartStep
  BY <1>3, StartPmuInv
<1>4. CASE OtherStep
  <2>1. CASE ErrorLockDown
    <3>1. pc' \in {"SPIN", "SOFTRESET", "NOHANDOFF"}
      BY <2>1 DEF ErrorLockDown, Goto
    <3> QED
      BY <3>1 DEF PmuInv
  <2>2. CASE ~ErrorLockDown
    <3>1. UNCHANGED <<pc, FsblInstance, PartitionNum, EarlyHandoff, multiboot, BootMode>>
      BY <1>4, <2>2
         DEF OtherStep, PmuAnswers, PmuDies, loadUnchanged, regVars, envVars, vars,
             mainVars, dataVars
    <3>2. AskedToSleep => AskedToSleep'
      BY <1>4, <2>2, NoFaults
         DEF OtherStep, PmuAnswers, PmuDies, AskedToSleep, vars, hwVars
    <3>3. /\ SoundBoot' = SoundBoot /\ Hdr' = Hdr /\ LastPartition' = LastPartition
          /\ \A p : PH(p)' = PH(p)
      BY <3>1 DEF SoundBoot, Hdr, PH, LastPartition, CurImage
    <3>4. /\ FollowsPmuPart(Hdr)' = FollowsPmuPart(Hdr) /\ PmuPart(Hdr)' = PmuPart(Hdr)
          /\ (DestCpu = CPU_PMU)' = (DestCpu = CPU_PMU) /\ PmuFwLoadDone' = PmuFwLoadDone
      BY <3>1, <3>3 DEF FollowsPmuPart, PmuPart, DestCpu, PmuFwLoadDone, Taken,
                        NotForThisReset, IsXip, DestinationCpu
    <3> QED
      BY <3>1, <3>2, <3>3, <3>4 DEF PmuInv
  <2> QED
    BY <2>1, <2>2
<1> QED
  BY <1>1, <1>2, <1>3, <1>4, NextSteps

-----------------------------------------------------------------------------
LEMMA InitKeptImageInv == Init => KeptImageInv
<1> SUFFICES ASSUME Init
             PROVE  KeptImageInv
  OBVIOUS
<1>1. PassingInv /\ CopiedInv /\ ListInv
  BY InitPassingInv, InitBootInv DEF BootInv, AcceptInv
<1>2. StatusInv /\ HeadersInv /\ PmuInv
  BY DEF Init, StatusInv, HeadersInv, PmuInv, LoadsOrStarts, InLoop, LoadingPcs, Readable,
         InitialLog
<1>3. SoundAhead
  BY LastImageAssumption DEF Init, SoundAhead
<1> QED
  BY <1>1, <1>2, <1>3 DEF KeptImageInv

LEMMA KeptImageInvStep ==
  ASSUME NothingFails, KeptImageInv, [Next]_vars
  PROVE  KeptImageInv'
<1>1. /\ PassingInv /\ PassingInv' /\ CopiedInv /\ ListInv
      /\ StatusInv /\ HeadersInv /\ PmuInv /\ SoundAhead
  BY PassingInvStep DEF KeptImageInv
<1>2. /\ TypeInv /\ TableInv /\ SourceInv /\ MarkInv /\ PassInv
      /\ TypeInv' /\ TableInv' /\ SourceInv'
  BY <1>1 DEF PassingInv
<1>3. CopiedInv'
  <2>1. "short" \notin Faults
    BY DEF NothingFails
  <2> QED
    BY <1>1, <1>2, <2>1, NextSteps, LoopCopiedInv, HandoffPassInv, StartAcceptInv,
       OtherAcceptInv
<1>4. ListInv'
  BY <1>1, <1>2, NextSteps, LoopListInv, HandoffListInv, StartListInv, OtherAcceptInv
<1>5. StatusInv'
  BY <1>1, <1>2, StatusInvStep
<1>6. HeadersInv' /\ PmuInv' /\ SoundAhead'
  BY <1>1, <1>2, HeadersInvStep, PmuInvStep, SoundAheadStep
<1> QED
  BY <1>1, <1>3, <1>4, <1>5, <1>6 DEF KeptImageInv

(***************************************************************************)
(* When no device, no peripheral and no PMU fails, on any flash, with any  *)
(* eFUSEs and over any restarts, the fallback never leads over a sound     *)
(* image, and the boot of one is neither refused nor waits for the PMU     *)
(* without end: what the images before it left behind does not matter      *)
(* (XFsbl_ErrorLockDown, XFsbl_FallBack, XFsbl_ResetValidation).  Each of  *)
(* the faults can refuse a sound image, and a build that prints nothing    *)
(* may hang while it reads its own log.                                    *)
(***************************************************************************)
THEOREM SoundImagesKept ==
  ASSUME NothingFails
  PROVE  Spec => []SoundImageIsKept
<1>1. KeptImageInv /\ [Next]_vars => KeptImageInv'
  BY KeptImageInvStep
<1>2. KeptImageInv => SoundImageIsKept
  <2> SUFFICES ASSUME KeptImageInv, BootMode = "FLASH", NEW i \in 0 .. LastImage,
                      Sound(Images[i])
               PROVE  /\ multiboot <= i
                      /\ multiboot = i => pc # "ERR" /\ ~(Waiting /\ pc # "NOHANDOFF")
    BY DEF SoundImageIsKept
  <2>1. multiboot <= i
    BY DEF KeptImageInv, SoundAhead
  <2>2. multiboot = i => SoundBoot
    BY LastImageAssumption DEF SoundBoot
  <2> QED
    BY <2>1, <2>2, SoundNeverWaits DEF KeptImageInv, HeadersInv
<1> QED
  BY InitKeptImageInv, <1>1, <1>2, PTL DEF Spec
=============================================================================
