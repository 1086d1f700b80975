---------------------------- MODULE PolicyProofs ----------------------------
(***************************************************************************)
(* What the software that is handed over to may rely on, for every flash   *)
(* and over every restart: what runs obeys the eFUSEs, the trusted         *)
(* firmware's table is the image's own, and the R5s in use are known.      *)
(***************************************************************************)
EXTENDS LogProofs

(***************************************************************************)
(* What the eFUSEs ask of the header tables of an image, and of the bytes  *)
(* of a partition.  Bytes that are still encrypted are asked nothing.      *)
(***************************************************************************)
TablesPermitted(im) ==
  EfuseRsa => /\ im.ac /\ im.signed /\ ~im.rsa
              /\ PpkInForce(im.cert.by) /\ SpkInForce(im.cert)
Permitted(c) ==
  c.form = "plain" =>
    TablesPermitted(ImageOf(c)) /\ (EfuseEncOnly => PartitionOf(c).aes)

(***************************************************************************)
(* Memory keeps its bytes over every reset, and a core may be started on   *)
(* any of it.  So all of memory is held to the policy, what a refused      *)
(* image left there included; it got there under tables that had been      *)
(* verified and a header that had been checked.                            *)
(***************************************************************************)
PolicyInv ==
  /\ FsblInstance.hdr => TablesPermitted(CurImage)
  /\ dup.inst.hdr => TablesPermitted(Images[dup.inst.img])
  /\ pc \in ValidatedPcs => (EfuseEncOnly => Hdr.aes)
  /\ \A s \in Slot : Permitted(mem[s])
  /\ \A c \in Core : Permitted(running[c])

-----------------------------------------------------------------------------
(***************************************************************************)
(* XFsbl_ValidateHeader accepts permitted tables only.                     *)
(***************************************************************************)
LEMMA AcceptedIsPermitted ==
  ASSUME NEW im \in Image, HeaderAccepted(im)
  PROVE  TablesPermitted(im)
<1> SUFFICES ASSUME EfuseRsa PROVE TablesPermitted(im)
  BY DEF TablesPermitted
<1>1. im.ac /\ ~im.rsa /\ BhAuthentication(im.cert, im.signed)
  BY DEF HeaderAccepted, AuthRequired, Image
<1>2. im.cert.select \in {0, 1}
  BY DEF Image, Certificate
<1>3. im.signed /\ SpkInForce(im.cert) /\ im.cert.by = im.cert.ppk
  BY <1>1 DEF BhAuthentication, SpkVer
<1>4. PpkInForce(im.cert.by)
  BY <1>1, <1>2, <1>3 DEF BhAuthentication, PpkPasses, PpkVer, PpkInForce
<1> QED
  BY <1>1, <1>3, <1>4 DEF TablesPermitted

\* Contents the boot loader makes itself are permitted.
LEMMA OwnContentPermitted ==
  /\ Permitted(NoContent) /\ Permitted(EccPattern)
  /\ \A i, p : Permitted(Payload(i, p, "flash")) /\ Permitted(Payload(i, p, "cipher"))
BY DEF Permitted, NoContent, EccPattern, Payload

(***************************************************************************)
(* A partition of tables that were read, under a header that was checked.  *)
(***************************************************************************)
LEMMA BytesPermitted ==
  ASSUME TypeInv, PolicyInv, pc \in ValidatedPcs
  PROVE  /\ Permitted(BytesIn(PartitionNum))
         /\ Permitted(Payload(FsblInstance.img, PartitionNum, "plain"))
<1>1. FsblInstance.hdr
  BY DEF TypeInv, Flow, ValidatedPcs, LoadingPcs
<1>2. TablesPermitted(CurImage) /\ (EfuseEncOnly => Hdr.aes)
  BY <1>1 DEF PolicyInv
<1>3. Hdr = CurImage.ph[PartitionNum]
  BY <1>1 DEF Hdr, PH
<1>4. Permitted(Payload(FsblInstance.img, PartitionNum, "plain"))
  BY <1>2, <1>3 DEF Permitted, Payload, ImageOf, PartitionOf, CurImage
<1> QED
  BY <1>4, OwnContentPermitted DEF BytesIn

-----------------------------------------------------------------------------
(***************************************************************************)
(* Steps that read no tables, load nothing and start nothing.              *)
(***************************************************************************)
LEMMA QuietPolicyInv ==
  ASSUME PolicyInv, UNCHANGED <<dup, mem, running>>,
         FsblInstance'.hdr = FsblInstance.hdr, FsblInstance'.img = FsblInstance.img,
         pc' \in ValidatedPcs => pc \in ValidatedPcs /\ PartitionNum' = PartitionNum
  PROVE  PolicyInv'
BY DEF PolicyInv, Hdr, PH, CurImage, Permitted, ImageOf, PartitionOf, TablesPermitted,
       PpkInForce, SpkInForce

\* Steps that write to memory only, as the tables in force allow.
LEMMA WritePolicyInv ==
  ASSUME PolicyInv, UNCHANGED <<dup, running, PartitionNum>>, pc \in ValidatedPcs,
         FsblInstance'.hdr = FsblInstance.hdr, FsblInstance'.img = FsblInstance.img,
         \A s \in Slot : Permitted(mem'[s])
  PROVE  PolicyInv'
<1>1. Hdr' = Hdr /\ CurImage' = CurImage
  BY DEF Hdr, PH, CurImage
<1>2. \A s \in Slot : Permitted(mem[s])'
  BY DEF Permitted, ImageOf, PartitionOf, TablesPermitted, PpkInForce, SpkInForce
<1>3. \A c \in Core : Permitted(running[c])'
  BY DEF PolicyInv, Permitted, ImageOf, PartitionOf, TablesPermitted, PpkInForce, SpkInForce
<1> QED
  BY <1>1, <1>2, <1>3 DEF PolicyInv, TablesPermitted, PpkInForce, SpkInForce

-----------------------------------------------------------------------------
(***************************************************************************)
(* The header tables.                                                      *)
(***************************************************************************)
LEMMA ValidateHeaderPolicyInv ==
  ASSUME TypeInv, PolicyInv, ValidateHeader
  PROVE  PolicyInv'
<1> DEFINE im == Images[ImageToValidate]
<1>1. im \in Image
  BY ImageToValidateType DEF TypeInv
<1>2. PICK k \in Nat : KeepPpk(im) = [FsblInstance EXCEPT !.ppk = k]
  BY <1>1, KeepPpkType DEF TypeInv
<1>3. FsblInstance \in Instance
  BY DEF TypeInv, TypeOK
<1>4. UNCHANGED <<dup, mem, running>> /\ pc' \in {"SECONDARY", "HEADER", "ERR", "HUNG"}
  BY DEF ValidateHeader, EnterStage3, Faulty, Refused, Unanswered, ShaAsserts, Fail, Goto
<1>5. CASE HeaderAccepted(im) /\ ReadImageHeader(ImageToValidate)
  <2>1. FsblInstance'.img = ImageToValidate
    BY <1>2, <1>3, <1>5 DEF ReadImageHeader, Instance
  <2>2. TablesPermitted(CurImage')
    BY <1>1, <1>5, <2>1, AcceptedIsPermitted DEF CurImage
  <2>3. TablesPermitted(CurImage)'
    BY <2>2 DEF TablesPermitted, PpkInForce, SpkInForce
  <2> QED
    BY <1>4, <2>3
       DEF PolicyInv, ValidatedPcs, Permitted, ImageOf, PartitionOf, TablesPermitted,
           PpkInForce, SpkInForce
<1>6. CASE FsblInstance' \in {FsblInstance, KeepPpk(im)}
  <2>1. FsblInstance'.hdr = FsblInstance.hdr /\ FsblInstance'.img = FsblInstance.img
    BY <1>2, <1>3, <1>6 DEF Instance
  <2> QED
    BY <1>4, <2>1, QuietPolicyInv DEF ValidatedPcs
<1> QED
  BY <1>5, <1>6 DEF ValidateHeader

\* The other stages before and after the partition loop start no core.
LEMMA StagePolicyInv ==
  ASSUME TypeInv, PolicyInv,
         \/ PrimaryBootDeviceInit \/ SecondaryBootDeviceInit \/ NextPartition
         \/ HandoffBegin \/ SkipEntry \/ OwnEntry \/ ErrorLockDown
  PROVE  PolicyInv'
<1> USE DEF Faulty, Refused, Unanswered, Fail, Goto, ValidatedPcs
<1>1. CASE PrimaryBootDeviceInit \/ ErrorLockDown
  BY <1>1, QuietPolicyInv DEF PrimaryBootDeviceInit, ErrorLockDown, dataVars
<1>2. CASE SecondaryBootDeviceInit
  <2>1. FsblInstance'.hdr = FsblInstance.hdr /\ FsblInstance'.img = FsblInstance.img
    BY <1>2 DEF SecondaryBootDeviceInit, TypeInv, TypeOK, Instance
  <2> QED
    BY <1>2, <2>1, QuietPolicyInv DEF SecondaryBootDeviceInit, EnterStage3
<1>3. CASE NextPartition \/ HandoffBegin
  BY <1>3, QuietPolicyInv DEF NextPartition, HandoffBegin, handoffUnchanged
<1>4. CASE SkipEntry \/ OwnEntry
  <2>1. pc' \in {"HEADER", "HANDOFF", "CPU", "ERR", "HUNG"}
    BY <1>4 DEF SkipEntry, OwnEntry, AfterEntry
  <2> QED
    BY <1>4, <2>1, QuietPolicyInv DEF SkipEntry, OwnEntry, handoffUnchanged
<1> QED
  BY <1>1, <1>2, <1>3, <1>4

(***************************************************************************)
(* XFsbl_PartitionHeaderValidation: with eFUSE ENC_ONLY programmed only an *)
(* encrypted partition goes on.                                            *)
(***************************************************************************)
LEMMA HeaderPolicyInv ==
  ASSUME TypeInv, PolicyInv, PartitionHeaderValidation
  PROVE  PolicyInv'
<1>1. /\ UNCHANGED <<FsblInstance, dup, PartitionNum, mem, running>>
      /\ pc' = NextAfterHeader(HeaderStatus(Hdr, FsblInstance.reset, EfuseEncOnly))
  BY DEF PartitionHeaderValidation, loadUnchanged, Goto
<1>2. Hdr' = Hdr /\ CurImage' = CurImage
  BY <1>1 DEF Hdr, PH, CurImage
<1>3. ASSUME pc' \in ValidatedPcs, EfuseEncOnly
      PROVE  Hdr.aes
  <2>1. ValidatePartitionHeader(Hdr, FsblInstance.reset, EfuseEncOnly) = "SUCCESS"
    BY <1>1, <1>3 DEF NextAfterHeader, HeaderStatus, ValidatedPcs
  <2> QED
    BY <1>3, <2>1 DEF ValidatePartitionHeader
<1> QED
  BY <1>1, <1>2, <1>3
     DEF PolicyInv, Permitted, ImageOf, PartitionOf, TablesPermitted, PpkInForce, SpkInForce

-----------------------------------------------------------------------------
(***************************************************************************)
(* The partition loop writes permitted bytes only.                         *)
(***************************************************************************)
LEMMA LoadPolicyInv ==
  ASSUME TypeInv, PolicyInv, PartitionCopy \/ DeviceCopy \/ PartitionValidation
  PROVE  PolicyInv'
<1> USE DEF Faulty, Refused, Unanswered, Fail, Goto
<1>1. pc \in ValidatedPcs /\ UNCHANGED <<dup, running, PartitionNum>>
  BY DEF PartitionCopy, DeviceCopy, PartitionValidation, loadUnchanged, ValidatedPcs
<1>2. \A s \in Slot : Permitted(mem[s])
  BY DEF PolicyInv
<1>3. FsblInstance \in Instance /\ Hdr \in PartitionHeader
  BY HdrType DEF TypeInv, TypeOK
<1>4. FsblInstance'.hdr = FsblInstance.hdr /\ FsblInstance'.img = FsblInstance.img
  <2>1. \/ FsblInstance' = FsblInstance
        \/ FsblInstance' = AddHandoff(Hdr)
        \/ FsblInstance' = [FsblInstance EXCEPT !.ecc = TcmEccInitStatus(DestCpu)]
    BY DEF PartitionCopy, DeviceCopy, PartitionValidation, ConfigureMemory
  <2> QED
    BY <1>3, <2>1, AddHandoffType DEF TypeInv, Instance
<1>5. mem \in [Slot -> Content]
  BY DEF TypeInv, TypeOK
<1>6. \A s \in Slot : Permitted(mem'[s])
  <2>1. CASE mem' = mem
    BY <1>2, <2>1
  <2>2. CASE mem' = EccFill(DestCpu)
    BY <1>2, <2>2, OwnContentPermitted DEF EccFill
  <2>3. CASE mem' = [mem EXCEPT ![PartitionSlot] = BytesIn(PartitionNum)]
    BY <1>1, <1>2, <1>5, <2>3, BytesPermitted
  <2>4. CASE mem' = [mem EXCEPT ![PartitionSlot] =
                       Payload(FsblInstance.img, PartitionNum, "plain")]
    BY <1>1, <1>2, <1>5, <2>4, BytesPermitted
  <2> QED
    BY <2>1, <2>2, <2>3, <2>4
       DEF PartitionCopy, DeviceCopy, PartitionValidation, ConfigureMemory
<1> QED
  BY <1>1, <1>4, <1>6, WritePolicyInv

\* The rest of the loop leaves memory alone.
LEMMA FinishPolicyInv ==
  ASSUME TypeInv, PolicyInv,
         \/ PlValidation \/ PlLoad \/ MeasurePartition \/ CheckPmuFw \/ WaitForPmuFw
         \/ PmuAnswers \/ PmuDies
  PROVE  PolicyInv'
<1>1. FsblInstance'.hdr = FsblInstance.hdr /\ FsblInstance'.img = FsblInstance.img
  BY HdrType, AddHandoffType
     DEF PlValidation, PlLoad, MeasurePartition, CheckPmuFw, WaitForPmuFw, PmuAnswers,
         PmuDies, TypeInv
<1> QED
  BY <1>1, QuietPolicyInv
     DEF PlValidation, PlLoad, MeasurePartition, CheckPmuFw, WaitForPmuFw, PmuAnswers,
         PmuDies, loadUnchanged, Faulty, Refused, Unanswered, Fail, Goto, ValidatedPcs

-----------------------------------------------------------------------------
(***************************************************************************)
(* Cores start on what lies in memory, or in place in flash.               *)
(***************************************************************************)
LEMMA CodePermitted ==
  ASSUME PolicyInv, NEW slot \in Slot
  PROVE  Permitted(CodeAt(slot))
BY OwnContentPermitted DEF CodeAt, PolicyInv

LEMMA RunningPolicyInv ==
  ASSUME PolicyInv, UNCHANGED <<FsblInstance, dup, mem>>, pc' \notin ValidatedPcs,
         \A c \in Core : Permitted(running'[c])
  PROVE  PolicyInv'
<1>1. TablesPermitted(CurImage)' = TablesPermitted(CurImage)
  BY DEF TablesPermitted, CurImage
<1>2. \A s \in Slot : Permitted(mem[s])'
  BY DEF PolicyInv, Permitted, ImageOf, PartitionOf, TablesPermitted
<1>3. \A c \in Core : Permitted(running[c])'
  BY DEF Permitted, ImageOf, PartitionOf, TablesPermitted
<1>4. TablesPermitted(Images[dup.inst.img])' = TablesPermitted(Images[dup.inst.img])
  BY DEF TablesPermitted
<1> QED
  BY <1>1, <1>2, <1>3, <1>4 DEF PolicyInv

LEMMA StartPolicyInv ==
  ASSUME TypeInv, PolicyInv, ReleaseCpu \/ HandoffExit
  PROVE  PolicyInv'
<1> USE DEF Faulty, Refused, Unanswered, Fail, Goto
<1>1. UNCHANGED <<FsblInstance, dup, mem>> /\ pc' \notin ValidatedPcs
  BY DEF ReleaseCpu, HandoffExit, AfterEntry, handoffUnchanged, ValidatedPcs
<1>2. CASE ReleaseCpu
  <2>1. StartSlot(Entry) \in Slot
    <3>1. Entry.exec \in Address
      BY <1>2, EntryTypes DEF ReleaseCpu, HandoffEntry
    <3>2. "ZERO" \in Address /\ "HIVEC" \in Address
      BY DEF Address, Ocm, PsDdr, TcmWindow
    <3> QED
      BY <3>1, <3>2, SlotTypes DEF StartSlot, Slot
  <2>2. Permitted(CodeAt(StartSlot(Entry)))
    BY <2>1, CodePermitted
  <2>3. \A c \in Core : running'[c] \in {running[c], CodeAt(StartSlot(Entry))}
    BY <1>2 DEF ReleaseCpu
  <2>4. \A c \in Core : Permitted(running'[c])
    BY <2>2, <2>3 DEF PolicyInv
  <2> QED
    BY <1>1, <2>4, RunningPolicyInv
<1>3. CASE HandoffExit
  <2>1. CASE runEntry = 0
    BY <1>1, <1>3, <2>1, QuietPolicyInv DEF HandoffExit
  <2>2. CASE runEntry # 0
    <3>1. <<2, FsblInstance.handoff[runEntry].exec>> \in Slot
      <4>1. FsblInstance.handoff \in Seq(HandoffEntry)
        BY DEF TypeInv, TypeOK, Instance
      <4>2. runEntry \in 1 .. Len(FsblInstance.handoff)
        BY <1>3, <2>2, <4>1 DEF HandoffExit, TypeInv, TypeOK, Flow
      <4>3. FsblInstance.handoff[runEntry] \in HandoffEntry
        BY <4>1, <4>2
      <4> QED
        BY <4>3 DEF HandoffEntry, Slot
    <3> DEFINE code == CodeAt(<<2, FsblInstance.handoff[runEntry].exec>>)
    <3>2. Permitted(code)
      BY <3>1, CodePermitted
    <3>3. running' = [running EXCEPT ![ProcessorID] = code] /\ DOMAIN running = Core
      BY <1>3, <2>2 DEF HandoffExit, TypeInv, TypeOK
    <3> HIDE DEF code
    <3>4. \A c \in Core : running'[c] \in {running[c], code}
      BY <3>3
    <3>5. \A c \in Core : Permitted(running'[c])
      BY <3>2, <3>4 DEF PolicyInv
    <3> QED
      BY <1>1, <3>5, RunningPolicyInv
  <2> QED
    BY <2>1, <2>2
<1> QED
  BY <1>2, <1>3

(***************************************************************************)
(* A restart of the APU alone takes the saved data back, every other one   *)
(* starts with the tables unread.                                          *)
(***************************************************************************)
LEMMA InitializePolicyInv ==
  ASSUME TypeInv, PolicyInv, Initialize
  PROVE  PolicyInv'
<1> DEFINE reset == GetResetReason
           data == DataSection(reset)
<1>1. data.inst \in {FsblInstance, dup.inst} /\ data.inst \in Instance
  BY DEF DataSection, RestoreData, TypeInv, TypeOK
<1>2. FsblInstance' = [data.inst EXCEPT !.reset = reset]
  BY DEF Initialize
<1>3. dup'.inst \in {FsblInstance, dup.inst}
  BY DEF Initialize, SaveData
<1>4. UNCHANGED <<mem, running>> /\ pc' \notin ValidatedPcs
  BY DEF Initialize, hwVars, Refused, Fail, Goto, ValidatedPcs
<1>5. FsblInstance'.hdr = data.inst.hdr /\ FsblInstance'.img = data.inst.img
  <2> HIDE DEF data, reset
  <2> QED
    BY <1>1, <1>2 DEF Instance
<1> HIDE DEF data, reset
<1> QED
  BY <1>1, <1>3, <1>4, <1>5
     DEF PolicyInv, CurImage, Permitted, ImageOf, PartitionOf, TablesPermitted,
         PpkInForce, SpkInForce

LEMMA ResetPolicyInv ==
  ASSUME TypeInv, PolicyInv, Reset
  PROVE  PolicyInv'
<1>1. ASSUME UNCHANGED <<dup, mem>>, pc' \in {"STAGE1", "ROMSTOP"},
             FsblInstance' = InitialInstance \/ FsblInstance' = FsblInstance,
             \A c \in Core : running'[c] \in {NoContent, running[c]}
      PROVE  PolicyInv'
  <2>1. \A c \in Core : Permitted(running'[c])
    BY <1>1, OwnContentPermitted DEF PolicyInv
  <2> QED
    BY <1>1, <2>1
       DEF PolicyInv, ValidatedPcs, InitialInstance, CurImage, Permitted, ImageOf,
           PartitionOf, TablesPermitted, PpkInForce, SpkInForce
<1>2. CASE RomLoadsFsbl
  BY <1>1, <1>2 DEF RomLoadsFsbl, MainRestarts, Goto
<1>3. CASE ApuOnlyReset
  BY <1>1, <1>3 DEF ApuOnlyReset, MainRestarts, Goto, dataVars
<1> QED
  BY <1>2, <1>3 DEF Reset, SoftReset, WdtExpire, SoftwareReset, PsOnlyReset, SystemReset

-----------------------------------------------------------------------------
(***************************************************************************)
(* With eFUSEs programmed, every core runs code from an image whose tables *)
(* verified under keys in force, and decrypted if that is asked for,       *)
(* whatever earlier and refused images left in memory                      *)
(* (XFsbl_ValidateHeader, XFsbl_ValidatePartitionHeader, XFsbl_Handoff).   *)
(***************************************************************************)
THEOREM EfusePolicyKept == Spec => []EfusePolicyHolds
<1>1. Init => TypeInv /\ PolicyInv
  <2> SUFFICES ASSUME Init PROVE PolicyInv
    BY InitTypeInv
  <2> QED
    BY OwnContentPermitted DEF Init, InitialInstance, PolicyInv, ValidatedPcs
<1>2. TypeInv /\ [Next]_vars => TypeInv'
  BY TypeInvStep
<1>3. TypeInv /\ PolicyInv /\ [Next]_vars => PolicyInv'
  <2>1. PolicyInv /\ UNCHANGED vars => PolicyInv'
    BY QuietPolicyInv DEF vars, mainVars, dataVars, hwVars
  <2> QED
    BY <2>1, ValidateHeaderPolicyInv, StagePolicyInv, HeaderPolicyInv, LoadPolicyInv,
       FinishPolicyInv, StartPolicyInv, InitializePolicyInv, ResetPolicyInv
       DEF Next, FsblStep
<1>4. PolicyInv => EfusePolicyHolds
  BY DEF PolicyInv, Permitted, TablesPermitted, EfusePolicyHolds
<1> QED
  BY <1>1, <1>2, <1>3, <1>4, PTL DEF Spec

-----------------------------------------------------------------------------
(***************************************************************************)
(* The table for the trusted firmware.  It is in a section that no reset   *)
(* clears, so it is current only because the tables count as unread        *)
(* wherever it may be older: at every start but one of the APU alone, and  *)
(* up to the end of XFsbl_ValidateHeader.  A second device is asked for by *)
(* tables whose headers are not read.                                      *)
(***************************************************************************)
TableInv ==
  /\ ~dup.inst.hdr
  /\ pc = "STAGE1" /\ FsblInstance.hdr => GetResetReason = MASTER_ONLY_RESET
  /\ pc \notin {"STAGE1", "ROMSTOP"} => ~resetReg.psOnly
  /\ pc \in {"PRIMARY", "VALIDATE"} => ~FsblInstance.hdr
  /\ FsblInstance.hdr =>
       /\ CurImage.ppd = XIH_IHT_PPD_SAME
       /\ ATFHandoffParams(CurImage) # {} => atf = ATFHandoffParams(CurImage)

\* Steps that read no tables and are not at the start of a boot.
LEMMA QuietTableInv ==
  ASSUME TableInv, UNCHANGED <<dup, resetReg, atf>>,
         FsblInstance'.hdr = FsblInstance.hdr, FsblInstance'.img = FsblInstance.img,
         \/ pc' = pc
         \/ pc \notin {"STAGE1", "ROMSTOP"} /\ pc' \notin {"STAGE1", "PRIMARY", "VALIDATE"}
         \/ pc = "PRIMARY" /\ pc' = "VALIDATE"
  PROVE  TableInv'
BY DEF TableInv, CurImage, GetResetReason, ATFHandoffParams, IsAtfEntry, AtfEntriesBefore,
       AtfFlagCpu

(***************************************************************************)
(* XFsbl_ReadImageHeader reads all headers of the tables it reads.         *)
(***************************************************************************)
LEMMA WholeTable ==
  ASSUME NEW im \in Image, ATFHandoffParams(im) # {}
  PROVE  AtfTable(im, im.n) = ATFHandoffParams(im)
<1>1. im.n \in Nat
  BY DEF Image
<1>2. \A e \in ATFHandoffParams(im) : e.part < im.n
  BY <1>1 DEF ATFHandoffParams
<1> QED
  BY <1>2 DEF AtfTable

LEMMA ValidateHeaderTableInv ==
  ASSUME TypeInv, TableInv, ValidateHeader
  PROVE  TableInv'
<1> DEFINE im == Images[ImageToValidate]
<1>1. im \in Image
  BY ImageToValidateType DEF TypeInv
<1>2. PICK k \in Nat : KeepPpk(im) = [FsblInstance EXCEPT !.ppk = k]
  BY <1>1, KeepPpkType DEF TypeInv
<1>3. FsblInstance \in Instance
  BY DEF TypeInv, TypeOK
<1>4. /\ UNCHANGED <<dup, resetReg>> /\ pc = "VALIDATE"
      /\ pc' \in {"SECONDARY", "HEADER", "ERR", "HUNG"}
  BY DEF ValidateHeader, EnterStage3, Faulty, Refused, Unanswered, ShaAsserts, Fail, Goto,
         regVars
<1>5. CASE ReadImageHeader(ImageToValidate)
  <2>1. FsblInstance'.img = ImageToValidate /\ FsblInstance'.hdr = TablesRead(im)
    BY <1>2, <1>3, <1>5 DEF ReadImageHeader, Instance
  <2>2. CurImage' = im
    BY <2>1 DEF CurImage
  <2>3. ASSUME TablesRead(im)
        PROVE  /\ im.ppd = XIH_IHT_PPD_SAME
               /\ ATFHandoffParams(im) # {} => atf' = ATFHandoffParams(im)
    BY <1>1, <1>5, <2>3, WholeTable
       DEF TablesRead, ValidateImageHeaderTable, ReadImageHeader
  <2> HIDE DEF im
  <2>4. ATFHandoffParams(CurImage)' = ATFHandoffParams(im)
    BY <2>2 DEF ATFHandoffParams, IsAtfEntry, AtfEntriesBefore, AtfFlagCpu
  <2> QED
    BY <1>4, <2>1, <2>2, <2>3, <2>4 DEF TableInv
<1>6. CASE FsblInstance' \in {FsblInstance, KeepPpk(im)}
  <2>1. FsblInstance'.hdr = FsblInstance.hdr
    BY <1>2, <1>3, <1>6 DEF Instance
  <2> QED
    BY <1>4, <2>1 DEF TableInv
<1> QED
  BY <1>5, <1>6 DEF ValidateHeader

(***************************************************************************)
(* XFsbl_SecondaryBootDeviceInit goes back to validation only with no      *)
(* headers read.                                                           *)
(***************************************************************************)
LEMMA SecondaryTableInv ==
  ASSUME TypeInv, TableInv, SecondaryBootDeviceInit
  PROVE  TableInv'
<1> USE DEF Faulty, Refused, Unanswered, Fail, Goto
<1>1. /\ FsblInstance'.hdr = FsblInstance.hdr /\ FsblInstance'.img = FsblInstance.img
      /\ UNCHANGED <<dup, resetReg, atf>> /\ pc = "SECONDARY"
  BY DEF SecondaryBootDeviceInit, TypeInv, TypeOK, Instance, regVars
<1>2. CASE CurImage.ppd = XIH_IHT_PPD_SAME
  <2>1. pc' \notin {"STAGE1", "PRIMARY", "VALIDATE"}
    BY <1>2 DEF SecondaryBootDeviceInit, EnterStage3, XIH_IHT_PPD_SAME, XIH_IHT_PPD_USB
  <2> QED
    BY <1>1, <2>1, QuietTableInv
<1>3. CASE CurImage.ppd # XIH_IHT_PPD_SAME
  <2>1. ~FsblInstance.hdr
    BY <1>3 DEF TableInv
  <2>2. pc' # "STAGE1"
    BY DEF SecondaryBootDeviceInit, EnterStage3
  <2> QED
    BY <1>1, <2>1, <2>2 DEF TableInv
<1> QED
  BY <1>2, <1>3

\* The other stages and the partition loop.
LEMMA StageTableInv ==
  ASSUME TypeInv, TableInv,
         \/ PrimaryBootDeviceInit \/ PartitionHeaderValidation \/ NextPartition
         \/ HandoffBegin \/ SkipEntry \/ ReleaseCpu \/ OwnEntry \/ HandoffExit
         \/ ErrorLockDown
  PROVE  TableInv'
<1> USE DEF Faulty, Refused, Unanswered, Fail, Goto
<1>1. CASE PrimaryBootDeviceInit \/ ErrorLockDown
  BY <1>1, QuietTableInv DEF PrimaryBootDeviceInit, ErrorLockDown, dataVars, regVars
<1>2. CASE PartitionHeaderValidation
  BY <1>2, QuietTableInv
     DEF PartitionHeaderValidation, NextAfterHeader, loadUnchanged, regVars
<1>3. CASE NextPartition \/ HandoffBegin \/ HandoffExit
  BY <1>3, QuietTableInv DEF NextPartition, HandoffBegin, HandoffExit, handoffUnchanged
<1>4. CASE SkipEntry \/ ReleaseCpu \/ OwnEntry
  <2>1. pc = "CPU" /\ pc' \in {"HEADER", "HANDOFF", "CPU", "ERR", "HUNG"}
    BY <1>4 DEF SkipEntry, ReleaseCpu, OwnEntry, AfterEntry
  <2> QED
    BY <1>4, <2>1, QuietTableInv DEF SkipEntry, ReleaseCpu, OwnEntry, handoffUnchanged
<1> QED
  BY <1>1, <1>2, <1>3, <1>4

LEMMA LoadTableInv ==
  ASSUME TypeInv, TableInv,
         \/ PartitionCopy \/ DeviceCopy \/ PartitionValidation \/ PlValidation \/ PlLoad
         \/ MeasurePartition \/ CheckPmuFw \/ WaitForPmuFw \/ PmuAnswers \/ PmuDies
  PROVE  TableInv'
<1> USE DEF Faulty, Refused, Unanswered, ShaAsserts, Fail, Goto
<1>1. FsblInstance \in Instance /\ Hdr \in PartitionHeader
  BY HdrType DEF TypeInv, TypeOK
<1>2. FsblInstance'.hdr = FsblInstance.hdr /\ FsblInstance'.img = FsblInstance.img
  <2>1. \/ FsblInstance' = FsblInstance
        \/ FsblInstance' = AddHandoff(Hdr)
        \/ FsblInstance' = [FsblInstance EXCEPT !.ecc = TcmEccInitStatus(DestCpu)]
    BY DEF PartitionCopy, DeviceCopy, PartitionValidation, PlValidation, PlLoad,
           MeasurePartition, CheckPmuFw, WaitForPmuFw, PmuAnswers, PmuDies,
           ConfigureMemory
  <2> QED
    BY <1>1, <2>1, AddHandoffType DEF TypeInv, Instance
<1> QED
  BY <1>2, QuietTableInv
     DEF PartitionCopy, DeviceCopy, PartitionValidation, PlValidation, PlLoad,
         MeasurePartition, CheckPmuFw, WaitForPmuFw, PmuAnswers, PmuDies,
         loadUnchanged, regVars

(***************************************************************************)
(* The start of a boot: data are saved with the tables unread, and on a    *)
(* restart of the APU alone they come back that way.                       *)
(***************************************************************************)
LEMMA InitializeUnread ==
  ASSUME TypeInv, TableInv, Initialize
  PROVE  ~FsblInstance'.hdr /\ ~dup'.inst.hdr
<1> DEFINE reset == GetResetReason
           data == DataSection(reset)
<1>1. data.inst \in Instance /\ ~data.inst.hdr /\ ~dup'.inst.hdr
  BY DEF DataSection, RestoreData, Initialize, SaveData, TableInv, TypeInv, TypeOK
<1>2. FsblInstance' = [data.inst EXCEPT !.reset = reset]
  BY DEF Initialize
<1> HIDE DEF data, reset
<1> QED
  BY <1>1, <1>2 DEF Instance

LEMMA InitializeTableInv ==
  ASSUME TypeInv, TableInv, Initialize
  PROVE  TableInv'
<1>1. ~FsblInstance'.hdr /\ ~dup'.inst.hdr
  BY InitializeUnread
<1>2. ~resetReg'.psOnly
  <2>1. resetReg \in [psOnly : BOOLEAN, apu : BOOLEAN, wdt : BOOLEAN]
    BY DEF TypeInv, TypeOK
  <2>2. GetResetReason = MASTER_ONLY_RESET => ~resetReg.psOnly
    BY DEF GetResetReason, PS_ONLY_RESET, MASTER_ONLY_RESET
  <2> QED
    BY <2>1, <2>2 DEF Initialize, ResetValidation
<1>3. pc' # "STAGE1"
  BY DEF Initialize, Refused, Fail, Goto
<1> QED
  BY <1>1, <1>2, <1>3 DEF TableInv

LEMMA ResetTableInv ==
  ASSUME TypeInv, TableInv, Reset
  PROVE  TableInv'
<1>1. CASE RomLoadsFsbl
  <2>1. ~FsblInstance'.hdr /\ dup' = dup /\ pc' \in {"STAGE1", "ROMSTOP"}
    BY <1>1 DEF RomLoadsFsbl, InitialInstance, Goto
  <2> QED
    BY <2>1 DEF TableInv
<1>2. CASE ApuOnlyReset
  <2>1. resetReg' = [resetReg EXCEPT !.apu = TRUE] /\ ~resetReg.psOnly
    BY <1>2 DEF ApuOnlyReset, MayRestart, TableInv
  <2>2. resetReg \in [psOnly : BOOLEAN, apu : BOOLEAN, wdt : BOOLEAN]
    BY DEF TypeInv, TypeOK
  <2>3. resetReg'.apu /\ ~resetReg'.psOnly
    BY <2>1, <2>2
  <2>4. GetResetReason' = MASTER_ONLY_RESET
    BY <2>3 DEF GetResetReason, MASTER_ONLY_RESET
  <2>5. UNCHANGED <<FsblInstance, dup, atf>> /\ pc' = "STAGE1"
    BY <1>2 DEF ApuOnlyReset, MainRestarts, Goto, dataVars
  <2> QED
    BY <2>4, <2>5
       DEF TableInv, CurImage, ATFHandoffParams, IsAtfEntry, AtfEntriesBefore, AtfFlagCpu
<1> QED
  BY <1>1, <1>2 DEF Reset, SoftReset, WdtExpire, SoftwareReset, PsOnlyReset, SystemReset

LEMMA InitTableInv == Init => TableInv
BY DEF Init, InitialInstance, TableInv

LEMMA TableInvStep == TypeInv /\ TableInv /\ [Next]_vars => TableInv'
<1>1. TableInv /\ UNCHANGED vars => TableInv'
  BY QuietTableInv DEF vars, mainVars, dataVars, regVars, hwVars
<1> QED
  BY <1>1, ValidateHeaderTableInv, SecondaryTableInv, StageTableInv, LoadTableInv,
     InitializeTableInv, ResetTableInv
     DEF Next, FsblStep

(***************************************************************************)
(* An image with entries for the trusted firmware is handed over with      *)
(* these and no others in the table, whatever images were read before it,  *)
(* in whole or in part (XFsbl_SetATFHandoffParameters).                    *)
(***************************************************************************)
THEOREM AtfTableKept == Spec => []AtfTableIsCurrent
<1>1. Init => TypeInv /\ TableInv
  BY InitTypeInv, InitTableInv
<1>2. TypeInv /\ [Next]_vars => TypeInv'
  BY TypeInvStep
<1>3. TypeInv /\ TableInv /\ [Next]_vars => TableInv'
  BY TableInvStep
<1>4. TableInv => AtfTableIsCurrent
  BY DEF TableInv, AtfTableIsCurrent
<1> QED
  BY <1>1, <1>2, <1>3, <1>4, PTL DEF Spec

-----------------------------------------------------------------------------
(***************************************************************************)
(* The R5s that run.  They run on over a restart of the APU alone, which   *)
(* forgets the list they were started from; but the multiboot register     *)
(* leads to the image that has partitions for them again.                  *)
(***************************************************************************)
BootImage ==
  IF Images[multiboot].ppd = XIH_IHT_PPD_SAME
  THEN Images[multiboot] ELSE Images[LastImage + 1]
R5Cores == {CPU_R5_0, CPU_R5_1}
Names(im, c) == \E p \in 1 .. (im.n - 1) : c \in Cores(im.ph[p].cpu)
EntriesNamed(inst) ==
  \A k \in DOMAIN inst.handoff :
    /\ inst.hdr
    /\ inst.handoff[k].cpu \in R5Cpus =>
         \E p \in 1 .. (Images[inst.img].n - 1) :
            Images[inst.img].ph[p].cpu = inst.handoff[k].cpu

Booting == pc \notin {"SPIN", "SOFTRESET", "ROMSTOP"}
SourceInv ==
  /\ EntriesNamed(FsblInstance) /\ EntriesNamed(dup.inst)
  /\ Booting /\ FsblInstance.hdr => CurImage = BootImage
  /\ Booting => \A c \in R5Cores : running[c] # NoContent => Names(BootImage, c)
  /\ pc = "SECONDARY" => FsblInstance.img = multiboot
  /\ pc = "VALIDATE" /\ FsblInstance.sec # 0 =>
       Images[multiboot].ppd # XIH_IHT_PPD_SAME

(***************************************************************************)
(* The marks: of every partition the loop has passed, loaded or not.  An   *)
(* early handoff never ends the boot, since the running CPU has no part in *)
(* it.                                                                     *)
(***************************************************************************)
MarkedTo(n) == \A p \in 1 .. n : UsedRPUCores(CurImage.ph[p]) \subseteq r5usage
InLoop == pc \in LoadingPcs \cup {"HEADER"}
MarkInv ==
  /\ InLoop =>
       /\ PartitionNum >= 1
       /\ FsblInstance.hdr => PartitionNum <= LastPartition /\ MarkedTo(PartitionNum - 1)
  /\ pc \in {"HANDOFF", "CPU"} /\ FsblInstance.hdr =>
       MarkedTo(PartitionNum) /\ (EarlyHandoff \/ PartitionNum >= LastPartition)
  /\ pc = "CPU" /\ EarlyHandoff => runEntry = 0
  /\ pc = "DONE" => FsblInstance.hdr /\ MarkedTo(LastPartition)

-----------------------------------------------------------------------------
\* Steps that leave the tables, the list and the cores alone.
LEMMA QuietSourceInv ==
  ASSUME SourceInv, UNCHANGED <<dup, multiboot>>,
         \A c \in R5Cores : running'[c] \in {running[c], NoContent},
         FsblInstance'.hdr = FsblInstance.hdr, FsblInstance'.img = FsblInstance.img,
         FsblInstance'.handoff = FsblInstance.handoff,
         Booting' => Booting, pc' \notin {"SECONDARY", "VALIDATE"} \/ pc' = pc,
         FsblInstance'.sec = FsblInstance.sec
  PROVE  SourceInv'
<1>1. CurImage' = CurImage /\ BootImage' = BootImage
  BY DEF CurImage, BootImage
<1>2. EntriesNamed(FsblInstance)' /\ EntriesNamed(dup.inst)'
  BY DEF SourceInv, EntriesNamed, R5Cpus
<1>3. \A c \in R5Cores : Names(BootImage, c)' = Names(BootImage, c)
  BY <1>1 DEF Names, Cores
<1> QED
  BY <1>1, <1>2, <1>3 DEF SourceInv, R5Cores, NoContent

\* Steps that leave the tables and the marks alone and stay in the partition loop.
LEMMA LoopMarkInv ==
  ASSUME MarkInv, UNCHANGED <<r5usage, PartitionNum>>,
         FsblInstance'.hdr = FsblInstance.hdr, FsblInstance'.img = FsblInstance.img,
         InLoop, pc' \in LoadingPcs \cup {"ERR", "HUNG"}
  PROVE  MarkInv'
BY DEF MarkInv, InLoop, LoadingPcs, MarkedTo, CurImage, LastPartition, UsedRPUCores

(***************************************************************************)
(* XFsbl_CheckHandoffCpu adds an entry of the partition at hand.           *)
(***************************************************************************)
LEMMA AddHandoffNamed ==
  ASSUME TypeInv, EntriesNamed(FsblInstance), FsblInstance.hdr,
         PartitionNum \in 1 .. LastPartition
  PROVE  EntriesNamed(AddHandoff(Hdr))
<1> DEFINE L == FsblInstance.handoff
           e == NewEntry(Hdr)
<1>1. FsblInstance \in Instance /\ L \in Seq(HandoffEntry)
  BY DEF TypeInv, TypeOK, Instance
<1>2. Hdr \in PartitionHeader /\ Hdr = CurImage.ph[PartitionNum]
  BY HdrType DEF TypeInv, Hdr, PH
<1>3. CASE DestinationCpu(Hdr) \in HandoffCpus
  BY <1>3 DEF AddHandoff
<1>4. CASE DestinationCpu(Hdr) \notin HandoffCpus
  <2>1. e \in HandoffEntry /\ e.cpu = DestinationCpu(Hdr)
    BY <1>2, DestinationCpuType DEF NewEntry, HandoffEntry, PartitionHeader
  <2>2. e.cpu \in R5Cpus => Hdr.cpu = e.cpu
    BY <2>1 DEF DestinationCpu, R5Cpus, ProcessorID, CPU_A53_0, CPU_R5_0, CPU_R5_1, CPU_R5_L
  <2>3. /\ AddHandoff(Hdr).handoff = Append(L, e)
        /\ AddHandoff(Hdr).hdr = FsblInstance.hdr /\ AddHandoff(Hdr).img = FsblInstance.img
    BY <1>1, <1>4 DEF AddHandoff, AppendHandoff, Instance
  <2> HIDE DEF L, e
  <2>4. /\ DOMAIN Append(L, e) = 1 .. (Len(L) + 1)
        /\ \A k \in 1 .. Len(L) : Append(L, e)[k] = L[k]
        /\ Append(L, e)[Len(L) + 1] = e
    BY <1>1, <2>1
  <2>5. DOMAIN L = 1 .. Len(L) /\ Len(L) \in Nat
    BY <1>1
  <2>6. ASSUME NEW k \in 1 .. Len(L), L[k].cpu \in R5Cpus
        PROVE  \E p \in 1 .. LastPartition : CurImage.ph[p].cpu = L[k].cpu
    BY <2>5, <2>6 DEF EntriesNamed, L, LastPartition, CurImage
  <2>7. ASSUME e.cpu \in R5Cpus
        PROVE  \E p \in 1 .. LastPartition : CurImage.ph[p].cpu = e.cpu
    BY <1>2, <2>2, <2>7
  <2> QED
    BY <2>3, <2>4, <2>5, <2>6, <2>7 DEF EntriesNamed, LastPartition, CurImage
<1> QED
  BY <1>3, <1>4

-----------------------------------------------------------------------------
(***************************************************************************)
(* Stage 2: the tables are those of the first device, or of the second if  *)
(* the first names one.                                                    *)
(***************************************************************************)
LEMMA ValidateHeaderSourceInv ==
  ASSUME TypeInv, TableInv, SourceInv, ValidateHeader
  PROVE  SourceInv'
<1> DEFINE im == Images[ImageToValidate]
<1>1. im \in Image /\ FsblInstance \in Instance
  BY ImageToValidateType DEF TypeInv, TypeOK
<1>2. PICK k \in Nat : KeepPpk(im) = [FsblInstance EXCEPT !.ppk = k]
  BY <1>1, KeepPpkType DEF TypeInv
<1>3. /\ UNCHANGED <<dup, multiboot, running>> /\ pc = "VALIDATE" /\ ~FsblInstance.hdr
      /\ pc' \in {"SECONDARY", "HEADER", "ERR", "HUNG"}
      /\ pc' = "SECONDARY" => ReadImageHeader(ImageToValidate) /\ FsblInstance.sec = 0
  BY DEF ValidateHeader, EnterStage3, Faulty, Refused, Unanswered, ShaAsserts, Fail, Goto,
         regVars, TableInv
<1>4. FsblInstance'.handoff = FsblInstance.handoff
  BY ValidateHeaderKeeps DEF TypeInv
<1>5. DOMAIN FsblInstance.handoff = {}
  BY <1>3 DEF SourceInv, EntriesNamed
<1>6. EntriesNamed(FsblInstance)' /\ EntriesNamed(dup.inst)'
  BY <1>3, <1>4, <1>5 DEF SourceInv, EntriesNamed, R5Cpus
<1>7. BootImage' = BootImage
  BY <1>3 DEF BootImage
<1>8. \A c \in R5Cores : running'[c] # NoContent => Names(BootImage, c)'
  BY <1>3, <1>7 DEF SourceInv, Booting, R5Cores, NoContent, Names, Cores
<1>9. CASE ReadImageHeader(ImageToValidate)
  <2>1. FsblInstance'.img = ImageToValidate /\ FsblInstance'.hdr = TablesRead(im)
    BY <1>1, <1>2, <1>9 DEF ReadImageHeader, Instance
  <2>2. TablesRead(im) => im.ppd = XIH_IHT_PPD_SAME
    BY DEF TablesRead, ValidateImageHeaderTable
  <2>3. TablesRead(im) => im = BootImage
    BY <1>3, <2>2 DEF SourceInv, BootImage, ImageToValidate
  <2>4. FsblInstance'.hdr => CurImage' = BootImage'
    BY <1>7, <2>1, <2>3 DEF CurImage
  <2>5. pc' = "SECONDARY" => FsblInstance'.img = multiboot'
    BY <1>3, <2>1 DEF ImageToValidate
  <2> QED
    BY <1>3, <1>6, <1>8, <2>4, <2>5 DEF SourceInv, Booting, R5Cores, NoContent
<1>10. CASE ~ReadImageHeader(ImageToValidate)
  <2>1. FsblInstance' \in {FsblInstance, KeepPpk(im)}
    BY <1>10 DEF ValidateHeader
  <2>2. ~FsblInstance'.hdr
    BY <1>1, <1>2, <1>3, <2>1 DEF Instance
  <2> QED
    BY <1>3, <1>6, <1>8, <1>10, <2>2 DEF SourceInv, Booting, R5Cores, NoContent
<1> QED
  BY <1>9, <1>10

LEMMA BootDeviceSourceInv ==
  ASSUME TypeInv, LogInv, TableInv, SourceInv,
         PrimaryBootDeviceInit \/ SecondaryBootDeviceInit
  PROVE  SourceInv'
<1> USE DEF Faulty, Refused, Unanswered, Fail, Goto
<1>1. /\ UNCHANGED <<dup, multiboot, running>>
      /\ FsblInstance'.hdr = FsblInstance.hdr /\ FsblInstance'.img = FsblInstance.img
      /\ FsblInstance'.handoff = FsblInstance.handoff
      /\ Booting
  BY DEF PrimaryBootDeviceInit, SecondaryBootDeviceInit, dataVars, regVars, TypeInv,
         TypeOK, Instance, Booting
<1>2. pc' # "SECONDARY"
  BY DEF PrimaryBootDeviceInit, SecondaryBootDeviceInit, EnterStage3
<1>3. ASSUME pc' = "VALIDATE", FsblInstance'.sec # 0
      PROVE  Images[multiboot].ppd # XIH_IHT_PPD_SAME
  <2>1. CASE PrimaryBootDeviceInit
    BY <1>3, <2>1 DEF PrimaryBootDeviceInit, LogInv, dataVars
  <2>2. CASE SecondaryBootDeviceInit
    <3>1. CurImage.ppd # XIH_IHT_PPD_SAME /\ pc = "SECONDARY"
      BY <1>3, <2>2
         DEF SecondaryBootDeviceInit, EnterStage3, XIH_IHT_PPD_SAME, XIH_IHT_PPD_USB
    <3> QED
      BY <3>1 DEF SourceInv, CurImage
  <2> QED
    BY <2>1, <2>2
<1>4. EntriesNamed(FsblInstance)' /\ EntriesNamed(dup.inst)'
  BY <1>1 DEF SourceInv, EntriesNamed, R5Cpus
<1>5. CurImage' = CurImage /\ BootImage' = BootImage
  BY <1>1 DEF CurImage, BootImage
<1>6. \A c \in R5Cores : running'[c] # NoContent => Names(BootImage, c)'
  BY <1>1, <1>5 DEF SourceInv, R5Cores, NoContent, Names, Cores
<1> QED
  BY <1>1, <1>2, <1>3, <1>4, <1>5, <1>6 DEF SourceInv, R5Cores, NoContent

LEMMA StageMarkInv ==
  ASSUME TypeInv, TypeInv', TableInv, MarkInv,
         PrimaryBootDeviceInit \/ SecondaryBootDeviceInit \/ ValidateHeader
  PROVE  MarkInv'
<1> USE DEF Faulty, Refused, Unanswered, ShaAsserts, Fail, Goto
<1>1. CASE PrimaryBootDeviceInit
  <2>1. /\ pc' \in {"VALIDATE", "HANDOFF", "ERR", "HUNG"} /\ FsblInstance' = FsblInstance
        /\ ~FsblInstance.hdr
    BY <1>1 DEF PrimaryBootDeviceInit, TableInv, dataVars
  <2> QED
    BY <2>1 DEF MarkInv, InLoop, LoadingPcs
<1>2. ASSUME pc' = "HEADER" => PartitionNum' = 1,
             pc' \in {"HEADER", "SECONDARY", "VALIDATE", "ERR", "HUNG"}
      PROVE  MarkInv'
  <2>1. FsblInstance'.hdr => CurImage'.n \in 2 .. XIH_MAX_PARTITIONS
    BY DEF TypeInv, Flow, HeadersOK, CurImage
  <2>2. FsblInstance'.hdr => 1 <= LastPartition'
    BY <2>1 DEF LastPartition, XIH_MAX_PARTITIONS
  <2> QED
    BY <1>2, <2>2 DEF MarkInv, InLoop, LoadingPcs, MarkedTo
<1>3. CASE SecondaryBootDeviceInit \/ ValidateHeader
  BY <1>2, <1>3 DEF SecondaryBootDeviceInit, ValidateHeader, EnterStage3
<1> QED
  BY <1>1, <1>3

(***************************************************************************)
(* The partition loop adds entries, and only of partitions it has read.    *)
(***************************************************************************)
LEMMA LoadSourceInv ==
  ASSUME TypeInv, SourceInv, MarkInv,
         \/ PartitionHeaderValidation \/ PartitionCopy \/ DeviceCopy
         \/ PartitionValidation \/ PlValidation \/ PlLoad \/ MeasurePartition
         \/ CheckPmuFw \/ WaitForPmuFw
  PROVE  SourceInv'
<1> USE DEF Faulty, Refused, Unanswered, ShaAsserts, Fail, Goto
<1>1. /\ UNCHANGED <<dup, multiboot, running, PartitionNum>>
      /\ InLoop /\ pc' \in LoadingPcs \cup {"ERR", "HUNG"}
  BY DEF PartitionHeaderValidation, NextAfterHeader, PartitionCopy, DeviceCopy,
         PartitionValidation, PlValidation, PlLoad, MeasurePartition, CheckPmuFw,
         WaitForPmuFw, loadUnchanged, regVars, InLoop, LoadingPcs
<1>2. Booting /\ pc' \notin {"SECONDARY", "VALIDATE"}
  BY <1>1 DEF Booting, InLoop, LoadingPcs
<1>3. FsblInstance \in Instance
  BY DEF TypeInv, TypeOK
<1>4. CASE FsblInstance' = FsblInstance
  BY <1>1, <1>2, <1>4, QuietSourceInv
<1>5. CASE FsblInstance' = [FsblInstance EXCEPT !.ecc = TcmEccInitStatus(DestCpu)]
  <2>1. /\ FsblInstance'.hdr = FsblInstance.hdr /\ FsblInstance'.img = FsblInstance.img
        /\ FsblInstance'.handoff = FsblInstance.handoff /\ FsblInstance'.sec = FsblInstance.sec
    BY <1>3, <1>5 DEF Instance
  <2> QED
    BY <1>1, <1>2, <2>1, QuietSourceInv
<1>6. CASE FsblInstance' = AddHandoff(Hdr) /\ pc \in LoadingPcs
  <2>1. FsblInstance.hdr
    BY <1>6 DEF TypeInv, Flow
  <2>2. PartitionNum \in 1 .. LastPartition
    BY <1>1, <2>1, ImageTypes
       DEF MarkInv, TypeInv, TypeOK, PartitionIndex, LastPartition, CurImage, Instance,
           Image
  <2>3. EntriesNamed(FsblInstance')
    BY <1>6, <2>1, <2>2, AddHandoffNamed DEF SourceInv
  <2>4. EntriesNamed(FsblInstance)' /\ EntriesNamed(dup.inst)'
    BY <1>1, <2>3 DEF SourceInv, EntriesNamed, R5Cpus
  <2>5. FsblInstance'.hdr = FsblInstance.hdr /\ FsblInstance'.img = FsblInstance.img
    BY <1>6, HdrType, AddHandoffType DEF TypeInv
  <2>6. CurImage' = CurImage /\ BootImage' = BootImage
    BY <1>1, <2>5 DEF CurImage, BootImage
  <2>7. \A c \in R5Cores : running'[c] # NoContent => Names(BootImage, c)'
    BY <1>1, <1>2, <2>6 DEF SourceInv, R5Cores, NoContent, Names, Cores
  <2> QED
    BY <1>1, <1>2, <2>4, <2>5, <2>6, <2>7 DEF SourceInv, R5Cores, NoContent
<1> QED
  BY <1>4, <1>5, <1>6
     DEF PartitionHeaderValidation, PartitionCopy, ConfigureMemory, DeviceCopy,
         PartitionValidation, PlValidation, PlLoad, MeasurePartition, CheckPmuFw,
         WaitForPmuFw, LoadingPcs

\* A core that is released is one its entry's partition names.
LEMMA HandoffSourceInv ==
  ASSUME TypeInv, SourceInv,
         \/ NextPartition \/ HandoffBegin \/ SkipEntry \/ ReleaseCpu \/ OwnEntry
         \/ HandoffExit
  PROVE  SourceInv'
<1> USE DEF Faulty, Refused, Unanswered, Fail, Goto
<1>1. /\ UNCHANGED <<FsblInstance, dup, multiboot>> /\ Booting
      /\ pc' \notin {"SECONDARY", "VALIDATE"}
  BY DEF NextPartition, HandoffBegin, SkipEntry, ReleaseCpu, OwnEntry, HandoffExit,
         AfterEntry, handoffUnchanged, Booting
<1>2. CASE ~ReleaseCpu
  <2>1. \A c \in R5Cores : running'[c] = running[c]
    <3>1. running \in [Core -> Content] /\ R5Cores \subseteq Core /\ ProcessorID \notin R5Cores
      BY DEF TypeInv, TypeOK, Core, R5Cores, CPU_R5_0, CPU_R5_1, ProcessorID, CPU_A53_0,
             A53Cpus, CPU_A53_3
    <3> QED
      BY <1>2, <3>1 DEF NextPartition, HandoffBegin, SkipEntry, OwnEntry, HandoffExit
  <2> QED
    BY <1>1, <2>1, QuietSourceInv
<1>3. CASE ReleaseCpu
  <2>1. BootImage' = BootImage /\ CurImage' = CurImage
    BY <1>1 DEF BootImage, CurImage
  <2>2. EntriesNamed(FsblInstance)' /\ EntriesNamed(dup.inst)'
    BY <1>1 DEF SourceInv, EntriesNamed, R5Cpus
  <2>3. ASSUME NEW c \in R5Cores \cap Cores(Entry.cpu)
        PROVE  Names(BootImage, c)
    <3>1. CpuIndex + 1 \in DOMAIN FsblInstance.handoff
      <4>1. FsblInstance.handoff \in Seq(HandoffEntry) /\ CpuIndex \in Nat
        BY DEF TypeInv, TypeOK, Instance
      <4> QED
        BY <1>3, <4>1 DEF ReleaseCpu, MoreEntries
    <3>2. Entry.cpu \in R5Cpus
      BY <2>3 DEF R5Cores, Cores, R5Cpus
    <3>3. /\ FsblInstance.hdr
          /\ \E p \in 1 .. (CurImage.n - 1) : CurImage.ph[p].cpu = Entry.cpu
      BY <3>1, <3>2 DEF SourceInv, EntriesNamed, Entry, CurImage
    <3> QED
      BY <1>1, <2>3, <3>3 DEF SourceInv, Names
  <2>4. \A c \in R5Cores : running'[c] # NoContent => Names(BootImage, c)
    <3>1. R5Cores \subseteq Core
      BY DEF Core, R5Cores, CPU_R5_0, CPU_R5_1, A53Cpus
    <3>2. ASSUME NEW c \in R5Cores
          PROVE  running'[c] = running[c] \/ c \in Cores(Entry.cpu)
      BY <1>3, <3>1, <3>2 DEF ReleaseCpu
    <3> QED
      BY <1>1, <2>3, <3>2 DEF SourceInv
  <2>5. \A c \in R5Cores : running'[c] # NoContent => Names(BootImage, c)'
    BY <2>1, <2>4 DEF R5Cores, NoContent, Names, Cores
  <2> QED
    BY <1>1, <2>1, <2>2, <2>5 DEF SourceInv, R5Cores, NoContent
<1> QED
  BY <1>2, <1>3

\* The error path, the PMU, and steps that change nothing.
LEMMA OtherSourceInv ==
  ASSUME TypeInv, SourceInv,
         ErrorLockDown \/ PmuAnswers \/ PmuDies \/ UNCHANGED vars
  PROVE  SourceInv'
<1>1. CASE PmuAnswers \/ PmuDies \/ UNCHANGED vars
  BY <1>1, QuietSourceInv
     DEF PmuAnswers, PmuDies, loadUnchanged, regVars, Booting, vars, mainVars, dataVars,
         hwVars
<1>2. CASE ErrorLockDown
  <2>1. UNCHANGED <<FsblInstance, dup, running>>
    BY <1>2 DEF ErrorLockDown, dataVars
  <2>2. CASE UNCHANGED multiboot
    BY <1>2, <2>1, <2>2, QuietSourceInv DEF ErrorLockDown, Goto, Booting
  <2>3. CASE ~UNCHANGED multiboot
    <3>1. ~Booting'
      BY <1>2, <2>3 DEF ErrorLockDown, Goto, Booting
    <3>2. EntriesNamed(FsblInstance)' /\ EntriesNamed(dup.inst)'
      BY <2>1 DEF SourceInv, EntriesNamed, R5Cpus
    <3> QED
      BY <3>1, <3>2 DEF SourceInv, Booting
  <2> QED
    BY <2>2, <2>3
<1> QED
  BY <1>1, <1>2

(***************************************************************************)
(* The start of a boot has no list, whether the data are fresh or          *)
(* restored; a restart of the APU alone keeps the R5s and the register     *)
(* that leads to their image.                                              *)
(***************************************************************************)
LEMMA InitializeSourceInv ==
  ASSUME TypeInv, TableInv, SourceInv, Initialize
  PROVE  SourceInv'
<1> DEFINE reset == GetResetReason
           data == DataSection(reset)
<1>1. /\ data.inst \in {FsblInstance, dup.inst} /\ data.inst \in Instance
      /\ ~data.inst.hdr
  BY DEF DataSection, RestoreData, Initialize, TableInv, TypeInv, TypeOK
<1>2. FsblInstance' = [data.inst EXCEPT !.reset = reset]
  BY DEF Initialize
<1>3. dup'.inst \in {FsblInstance, dup.inst}
  BY DEF Initialize, SaveData
<1>4. DOMAIN data.inst.handoff = {}
  <2> HIDE DEF data
  <2> QED
    BY <1>1 DEF SourceInv, EntriesNamed
<1> HIDE DEF data, reset
<1>5. DOMAIN FsblInstance'.handoff = {} /\ ~FsblInstance'.hdr
  BY <1>1, <1>2, <1>4 DEF Instance
<1>6. EntriesNamed(FsblInstance)' /\ EntriesNamed(dup.inst)'
  BY <1>3, <1>5 DEF SourceInv, EntriesNamed, R5Cpus
<1>7. /\ UNCHANGED <<multiboot, running>> /\ Booting
      /\ pc' \notin {"SECONDARY", "VALIDATE"}
  BY DEF Initialize, hwVars, Refused, Fail, Goto, Booting
<1>8. \A c \in R5Cores : running'[c] # NoContent => Names(BootImage, c)'
  BY <1>7 DEF SourceInv, R5Cores, NoContent, BootImage, Names, Cores
<1> QED
  BY <1>5, <1>6, <1>7, <1>8 DEF SourceInv, R5Cores, NoContent

LEMMA ResetSourceInv ==
  ASSUME TypeInv, SourceInv, Reset
  PROVE  SourceInv'
<1>1. R5Cores \subseteq Core
  BY DEF Core, R5Cores, CPU_R5_0, CPU_R5_1
<1>2. CASE RomLoadsFsbl
  <2>1. /\ FsblInstance' = InitialInstance /\ dup' = dup
        /\ pc' \notin {"SECONDARY", "VALIDATE"}
        /\ \A c \in R5Cores : running'[c] = NoContent
    BY <1>1, <1>2 DEF RomLoadsFsbl, Goto
  <2>2. EntriesNamed(FsblInstance)' /\ EntriesNamed(dup.inst)'
    BY <2>1 DEF SourceInv, EntriesNamed, InitialInstance, R5Cpus
  <2> QED
    BY <2>1, <2>2 DEF SourceInv, InitialInstance, R5Cores, NoContent
<1>3. CASE ApuOnlyReset
  <2>1. UNCHANGED <<FsblInstance, dup, multiboot>> /\ pc = "DONE" /\ pc' = "STAGE1"
    BY <1>3 DEF ApuOnlyReset, MayRestart, MainRestarts, Goto, dataVars
  <2>2. \A c \in R5Cores : running'[c] \in {running[c], NoContent}
    BY <1>1, <1>3 DEF ApuOnlyReset
  <2> QED
    BY <2>1, <2>2, QuietSourceInv DEF Booting
<1> QED
  BY <1>2, <1>3 DEF Reset, SoftReset, WdtExpire, SoftwareReset, PsOnlyReset, SystemReset

LEMMA SourceInvStep ==
  TypeInv /\ LogInv /\ TableInv /\ SourceInv /\ MarkInv /\ [Next]_vars => SourceInv'
BY ValidateHeaderSourceInv, BootDeviceSourceInv, LoadSourceInv, HandoffSourceInv,
   OtherSourceInv, InitializeSourceInv, ResetSourceInv
   DEF Next, FsblStep

-----------------------------------------------------------------------------
(***************************************************************************)
(* The marks over the partition loop.                                      *)
(***************************************************************************)
LEMMA LoadMarkInv ==
  ASSUME TypeInv, MarkInv,
         \/ PartitionHeaderValidation \/ PartitionCopy \/ DeviceCopy
         \/ PartitionValidation \/ PlValidation \/ PlLoad \/ MeasurePartition
         \/ CheckPmuFw \/ WaitForPmuFw
  PROVE  MarkInv'
<1> USE DEF Faulty, Refused, Unanswered, ShaAsserts, Fail, Goto
<1>1. /\ UNCHANGED <<r5usage, PartitionNum>>
      /\ InLoop /\ pc' \in LoadingPcs \cup {"ERR", "HUNG"}
  BY DEF PartitionHeaderValidation, NextAfterHeader, PartitionCopy, DeviceCopy,
         PartitionValidation, PlValidation, PlLoad, MeasurePartition, CheckPmuFw,
         WaitForPmuFw, loadUnchanged, InLoop, LoadingPcs
<1>2. FsblInstance'.hdr = FsblInstance.hdr /\ FsblInstance'.img = FsblInstance.img
  <2>1. FsblInstance \in Instance
    BY DEF TypeInv, TypeOK
  <2>2. \/ FsblInstance' = FsblInstance
        \/ FsblInstance' = AddHandoff(Hdr)
        \/ FsblInstance' = [FsblInstance EXCEPT !.ecc = TcmEccInitStatus(DestCpu)]
    BY DEF PartitionHeaderValidation, PartitionCopy, ConfigureMemory, DeviceCopy,
           PartitionValidation, PlValidation, PlLoad, MeasurePartition, CheckPmuFw,
           WaitForPmuFw
  <2> QED
    BY <2>1, <2>2, HdrType, AddHandoffType DEF TypeInv, Instance
<1> QED
  BY <1>1, <1>2, LoopMarkInv

\* XFsbl_MarkUsedRPUCores marks for the partition that was passed last.
LEMMA NextMarkInv ==
  ASSUME TypeInv, MarkInv, NextPartition
  PROVE  MarkInv'
<1>1. pc = "NEXT" /\ FsblInstance.hdr /\ FsblInstance' = FsblInstance
  BY DEF NextPartition, handoffUnchanged, TypeInv, Flow, LoadingPcs
<1>2. PartitionNum \in 1 .. LastPartition /\ LastPartition \in Int
  BY <1>1, ImageTypes
     DEF MarkInv, InLoop, LoadingPcs, TypeInv, TypeOK, PartitionIndex, LastPartition,
         CurImage, Instance, Image
<1>3. \A p \in 1 .. PartitionNum : UsedRPUCores(CurImage.ph[p]) \subseteq r5usage'
  <2>1. r5usage' = r5usage \cup UsedRPUCores(CurImage.ph[PartitionNum])
    BY <1>1 DEF NextPartition, Hdr, PH
  <2>2. \A p \in 1 .. (PartitionNum - 1) : UsedRPUCores(CurImage.ph[p]) \subseteq r5usage
    BY <1>1 DEF MarkInv, InLoop, LoadingPcs, MarkedTo
  <2>3. \A p \in 1 .. PartitionNum : p = PartitionNum \/ p \in 1 .. (PartitionNum - 1)
    BY <1>2
  <2> QED
    BY <2>1, <2>2, <2>3
<1>4. CurImage' = CurImage /\ LastPartition' = LastPartition
  BY <1>1 DEF CurImage, LastPartition
<1>5. \A p \in 1 .. PartitionNum : (UsedRPUCores(CurImage.ph[p]) \subseteq r5usage)'
  BY <1>3, <1>4 DEF UsedRPUCores
<1>6. CASE PartitionNum < LastPartition /\ ~CheckEarlyHandoff
  <2>1. PartitionNum' = PartitionNum + 1 /\ pc' = "HEADER"
    BY <1>2, <1>6 DEF NextPartition, Goto
  <2>2. MarkedTo(PartitionNum - 1)'
    BY <1>2, <1>5, <2>1 DEF MarkedTo
  <2> QED
    BY <1>2, <1>4, <1>6, <2>1, <2>2 DEF MarkInv, InLoop, LoadingPcs
<1>7. CASE ~(PartitionNum < LastPartition /\ ~CheckEarlyHandoff)
  <2>1. /\ PartitionNum' = PartitionNum /\ pc' = "HANDOFF"
        /\ EarlyHandoff' \/ PartitionNum >= LastPartition
    BY <1>2, <1>7 DEF NextPartition, Goto
  <2>2. MarkedTo(PartitionNum)'
    BY <1>5, <2>1 DEF MarkedTo
  <2> QED
    BY <1>4, <2>1, <2>2 DEF MarkInv, InLoop, LoadingPcs
<1> QED
  BY <1>6, <1>7

(***************************************************************************)
(* XFsbl_Handoff, early or not: the running CPU's entry is not taken in an *)
(* early handoff, so one never ends with a jump.                           *)
(***************************************************************************)
LEMMA QuietMarkInv ==
  ASSUME MarkInv, UNCHANGED <<r5usage, PartitionNum, EarlyHandoff>>,
         FsblInstance'.hdr = FsblInstance.hdr, FsblInstance'.img = FsblInstance.img,
         \/ pc' = pc /\ runEntry' = runEntry
         \/ pc' \in {"ERR", "HUNG", "NOHANDOFF", "SPIN", "SOFTRESET"}
         \/ pc = "HANDOFF" /\ pc' = "CPU" /\ runEntry' = 0
  PROVE  MarkInv'
BY DEF MarkInv, InLoop, LoadingPcs, MarkedTo, CurImage, LastPartition, UsedRPUCores

LEMMA AfterEntryMarkInv ==
  ASSUME TypeInv, MarkInv, pc = "CPU", UNCHANGED <<r5usage, FsblInstance>>, AfterEntry,
         EarlyHandoff => runEntry' = runEntry
  PROVE  MarkInv'
<1>1. CurImage' = CurImage /\ LastPartition' = LastPartition
  BY DEF CurImage, LastPartition
<1>2. \A p : (UsedRPUCores(CurImage.ph[p]) \subseteq r5usage)'
               = (UsedRPUCores(CurImage.ph[p]) \subseteq r5usage)
  BY <1>1 DEF UsedRPUCores
<1>3. FsblInstance.hdr =>
        MarkedTo(PartitionNum) /\ (EarlyHandoff \/ PartitionNum >= LastPartition)
  BY DEF MarkInv
<1>4. PartitionNum \in Nat /\ (FsblInstance.hdr => LastPartition \in Int)
  BY ImageTypes
     DEF TypeInv, TypeOK, PartitionIndex, LastPartition, CurImage, Instance, Image
<1>5. CASE EarlyHandoff /\ CpuNeedsEarlyHandoff(Entry.cpu)
  <2>1. CASE PartitionNum < LastPartition
    <3>1. PartitionNum' = PartitionNum + 1 /\ pc' = "HEADER" /\ PartitionNum' - 1 = PartitionNum
      BY <1>4, <1>5, <2>1 DEF AfterEntry, Goto
    <3> QED
      BY <1>1, <1>2, <1>3, <1>4, <2>1, <3>1 DEF MarkInv, InLoop, LoadingPcs, MarkedTo
  <2>2. CASE ~(PartitionNum < LastPartition)
    <3>1. PartitionNum' = PartitionNum /\ pc' = "HANDOFF"
      BY <1>5, <2>2 DEF AfterEntry, Goto
    <3> QED
      BY <1>1, <1>2, <1>3, <1>4, <2>2, <3>1 DEF MarkInv, InLoop, LoadingPcs, MarkedTo
  <2> QED
    BY <2>1, <2>2
<1>6. CASE ~(EarlyHandoff /\ CpuNeedsEarlyHandoff(Entry.cpu))
  <2>1. UNCHANGED <<pc, EarlyHandoff, PartitionNum>>
    BY <1>6 DEF AfterEntry
  <2> QED
    BY <1>1, <1>2, <1>3, <2>1 DEF MarkInv, InLoop, LoadingPcs, MarkedTo
<1> QED
  BY <1>5, <1>6

LEMMA HandoffMarkInv ==
  ASSUME TypeInv, SourceInv, MarkInv,
         HandoffBegin \/ SkipEntry \/ ReleaseCpu \/ OwnEntry \/ HandoffExit
  PROVE  MarkInv'
<1> USE DEF Faulty, Refused, Unanswered, Fail, Goto
<1>1. CASE HandoffBegin
  BY <1>1, QuietMarkInv DEF HandoffBegin, handoffUnchanged
<1>2. CASE SkipEntry
  BY <1>2, AfterEntryMarkInv DEF SkipEntry, handoffUnchanged
<1>3. CASE ReleaseCpu
  <2>1. CASE AfterEntry
    BY <1>3, <2>1, AfterEntryMarkInv DEF ReleaseCpu, handoffUnchanged
  <2>2. CASE ~AfterEntry
    BY <1>3, <2>2, QuietMarkInv DEF ReleaseCpu, handoffUnchanged
  <2> QED
    BY <2>1, <2>2
<1>4. CASE OwnEntry
  <2>1. ~EarlyHandoff
    <3>1. ProcessorID \notin R5Cpus
      BY DEF R5Cpus, ProcessorID, CPU_A53_0, CPU_R5_0, CPU_R5_1, CPU_R5_L
    <3>2. Eligible /\ Entry.cpu = ProcessorID
      BY <1>4 DEF OwnEntry
    <3>3. ~CpuNeedsEarlyHandoff(Entry.cpu)
      BY <3>1, <3>2 DEF CpuNeedsEarlyHandoff
    <3> QED
      BY <3>2, <3>3, Zenon DEF Eligible
  <2>2. CASE Entry.aa32
    BY <1>4, <2>2, QuietMarkInv DEF OwnEntry, handoffUnchanged
  <2>3. CASE ~Entry.aa32
    BY <1>4, <2>1, <2>3, AfterEntryMarkInv DEF OwnEntry, handoffUnchanged
  <2> QED
    BY <2>2, <2>3
<1>5. CASE HandoffExit
  <2>1. CASE runEntry = 0
    BY <1>5, <2>1, QuietMarkInv DEF HandoffExit, handoffUnchanged
  <2>2. CASE runEntry # 0
    <3>1. /\ pc = "CPU" /\ pc' = "DONE"
          /\ UNCHANGED <<FsblInstance, PartitionNum, r5usage>>
      BY <1>5, <2>2 DEF HandoffExit, handoffUnchanged
    <3>2. FsblInstance.hdr
      <4>1. FsblInstance.handoff \in Seq(HandoffEntry)
        BY DEF TypeInv, TypeOK, Instance
      <4>2. runEntry \in DOMAIN FsblInstance.handoff
        BY <2>2, <3>1, <4>1 DEF TypeInv, TypeOK, Flow
      <4> QED
        BY <4>2 DEF SourceInv, EntriesNamed
    <3>3. MarkedTo(PartitionNum) /\ PartitionNum >= LastPartition
      BY <2>2, <3>1, <3>2 DEF MarkInv
    <3>4. PartitionNum \in Nat /\ LastPartition \in Int
      BY ImageTypes
         DEF TypeInv, TypeOK, PartitionIndex, LastPartition, CurImage, Instance, Image
    <3>5. MarkedTo(LastPartition)
      BY <3>3, <3>4 DEF MarkedTo
    <3>6. MarkedTo(LastPartition)'
      BY <3>1, <3>5 DEF MarkedTo, CurImage, LastPartition, UsedRPUCores
    <3> QED
      BY <3>1, <3>2, <3>6 DEF MarkInv, InLoop, LoadingPcs
  <2> QED
    BY <2>1, <2>2
<1> QED
  BY <1>1, <1>2, <1>3, <1>4, <1>5

\* The other steps leave the loop alone or are outside of it.
LEMMA OtherMarkInv ==
  ASSUME MarkInv,
         Initialize \/ ErrorLockDown \/ Reset \/ PmuAnswers \/ PmuDies \/ UNCHANGED vars
  PROVE  MarkInv'
<1> USE DEF Refused, Fail, Goto
<1>1. CASE Initialize \/ Reset
  <2>1. pc' \in {"ERR", "INITHUNG", "PRIMARY", "STAGE1", "ROMSTOP"}
    BY <1>1
       DEF Initialize, Reset, SoftReset, WdtExpire, SoftwareReset, PsOnlyReset,
           ApuOnlyReset, SystemReset, RomLoadsFsbl
  <2> QED
    BY <2>1 DEF MarkInv, InLoop, LoadingPcs
<1>2. CASE ErrorLockDown
  BY <1>2, QuietMarkInv DEF ErrorLockDown, dataVars
<1>3. CASE PmuAnswers \/ PmuDies \/ UNCHANGED vars
  BY <1>3, QuietMarkInv DEF PmuAnswers, PmuDies, loadUnchanged, vars, mainVars, dataVars, hwVars
<1> QED
  BY <1>1, <1>2, <1>3

LEMMA MarkInvStep ==
  TypeInv /\ TableInv /\ SourceInv /\ MarkInv /\ [Next]_vars => MarkInv'
BY TypeInvStep, StageMarkInv, LoadMarkInv, NextMarkInv, HandoffMarkInv, OtherMarkInv
   DEF Next, FsblStep

-----------------------------------------------------------------------------
(***************************************************************************)
(* Every R5 that runs when the FSBL hands over is marked in the usage      *)
(* register, directly or by the first core of its lockstep pair, also when *)
(* it was started before a restart of the APU alone                        *)
(* (XFsbl_MarkUsedRPUCores).                                               *)
(***************************************************************************)
THEOREM R5UsageMarked == Spec => []R5UsageKnown
<1> DEFINE Inv == TypeInv /\ LogInv /\ TableInv /\ SourceInv /\ MarkInv
<1>1. Init => Inv
  <2> SUFFICES ASSUME Init PROVE SourceInv /\ MarkInv
    BY InitTypeInv, InitLogInv, InitTableInv
  <2>1. \A c \in R5Cores : running[c] = NoContent
    BY DEF Init, R5Cores, Core, CPU_R5_0, CPU_R5_1
  <2> QED
    BY <2>1
       DEF Init, InitialInstance, SourceInv, EntriesNamed, MarkInv, InLoop, LoadingPcs
<1>2. Inv /\ [Next]_vars => Inv'
  BY TypeInvStep, LogInvStep, TableInvStep, SourceInvStep, MarkInvStep
<1>3. Inv => R5UsageKnown
  <2> SUFFICES ASSUME Inv, pc = "DONE", NEW c \in R5Cores, running[c] # NoContent
               PROVE  c \in r5usage \/ (c = CPU_R5_1 /\ Lockstep)
    BY DEF R5UsageKnown, R5Cores
  <2>1. FsblInstance.hdr /\ MarkedTo(LastPartition)
    BY DEF MarkInv
  <2>2. Names(CurImage, c)
    BY <2>1 DEF SourceInv, Booting
  <2>3. PICK p \in 1 .. LastPartition : c \in Cores(CurImage.ph[p].cpu)
    BY <2>2 DEF Names, LastPartition
  <2>4. UsedRPUCores(CurImage.ph[p]) \subseteq r5usage /\ PH(p) = CurImage.ph[p]
    BY <2>1 DEF MarkedTo, PH
  <2> QED
    BY <2>3, <2>4
       DEF Cores, R5Cores, UsedRPUCores, Lockstep, CPU_R5_0, CPU_R5_1, CPU_R5_L
<1> HIDE DEF Inv
<1> QED
  BY <1>1, <1>2, <1>3, PTL DEF Spec
=============================================================================
