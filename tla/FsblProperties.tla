--------------------------- MODULE FsblProperties ---------------------------
(***************************************************************************)
(* What is asked of the boot loader.                                       *)
(***************************************************************************)
EXTENDS Fsbl

Label2 == Label \cup {"SPEC_ID", "LOCALITY"}
Form == {"none", "rom", "ecc", "zeros", "cipher", "plain", "flash",
         "fsbl_system", "fsbl_ps_only", "fsbl_master_only"}
ImageIndex == 0 .. (LastImage + 1)
PartitionIndex == 0 .. (XIH_MAX_PARTITIONS - 1)
Content == [img : ImageIndex, part : PartitionIndex, form : Form]
Event == [name : Label2, pcr : Nat, data : Content, size : Nat]
Log == [buf : Seq(Event), ptr : Nat, partition : 1 .. 5]
HandoffEntry == [cpu : 0 .. 15, exec : Address, aa32 : BOOLEAN]
Instance ==
  [reset : {SYSTEM_RESET, PS_ONLY_RESET, MASTER_ONLY_RESET}, sec : Nat,
   img : ImageIndex, hdr : BOOLEAN, handoff : Seq(HandoffEntry),
   ecc : SUBSET {CPU_R5_0, CPU_R5_1}, ppk : Nat]
Pc == {"STAGE1", "PRIMARY", "VALIDATE", "SECONDARY", "HEADER", "COPY", "LOAD",
       "CHECK", "PL", "FINISH", "PMUFW", "FWWAIT", "NEXT", "HANDOFF", "CPU",
       "ERR", "INITHUNG", "HUNG", "DONE", "NOHANDOFF", "SPIN", "SOFTRESET", "ROMSTOP"}

(***************************************************************************)
(* The variables keep their types: the partition number stays inside the   *)
(* header array, the image number among the images.                        *)
(***************************************************************************)
TypeOK ==
  /\ pc \in Pc
  /\ PartitionNum \in PartitionIndex
  /\ EarlyHandoff \in BOOLEAN
  /\ CpuIndex \in Nat /\ CpuIndexEarlyHandoff \in Nat /\ runEntry \in Nat
  /\ FsblInstance \in Instance
  /\ log \in Log
  /\ dup \in [inst : Instance, log : Log]
  /\ multiboot \in ImageIndex
  /\ errorStatus \in {"RUNNING", "COMPLETED", "ERROR"}
  /\ resetReg \in [psOnly : BOOLEAN, apu : BOOLEAN, wdt : BOOLEAN]
  /\ running \in [Core -> Content]
  /\ pl \in Content
  /\ pmu \in {"ROM", "ASKED", "SLEEP", "WAKING", "FW", "DEAD"}
  /\ wdt \in BOOLEAN
  /\ r5usage \subseteq {CPU_R5_0, CPU_R5_1}
  /\ mem \in [Slot -> Content]
  /\ atf \subseteq [part : PartitionIndex, cpu : A53Cpus]
  /\ BootMode \in BootModes
  /\ restarts \in 0 .. MaxRestarts

-----------------------------------------------------------------------------
(***************************************************************************)
(* The event log.                                                          *)
(***************************************************************************)
Started == log.ptr # 0
Measured == {log.buf[k].data : k \in DOMAIN log.buf}
EventsNamed(names) == {k \in DOMAIN log.buf : log.buf[k].name \in names}

(***************************************************************************)
(* However many times the FSBL was restarted, over whichever reset, the    *)
(* log holds one header and one ROM event at its start, and the counter    *)
(* that names the partitions agrees with the partition events in it        *)
(* (Tpm_Measure_Rom, Tpm_Measure_Partition, XFsbl_RestoreData).            *)
(***************************************************************************)
LogWellFormed ==
  Started =>
    /\ Len(log.buf) >= 3
    /\ EventsNamed({"SPEC_ID"}) = {1}
    /\ EventsNamed({"LOCALITY"}) = {2}
    /\ EventsNamed({"ROM"}) = {3}
    /\ \A i \in DOMAIN PartitionLabel :
         Cardinality(EventsNamed({PartitionLabel[i]})) =
           (IF i < log.partition THEN 1 ELSE 0)

(***************************************************************************)
(* The log never runs past the end of its buffer, although                 *)
(* event_log_record checks nothing: the bound comes from the number of     *)
(* partitions that the header table may have.                              *)
(***************************************************************************)
LogFits == log.ptr <= EVENT_LOG_END + 1

(***************************************************************************)
(* The partitions that are measured up to n, in the image and for the      *)
(* reset at hand: each takes the label after the one before it.            *)
(***************************************************************************)
MeasuredTo(n) ==
  {p \in 1 .. n : /\ PH(p).owner = 0 /\ PH(p).dev # DEVICE_PL
                  /\ ~NotForThisReset(PH(p), FsblInstance.reset)}
Rank(p) == Cardinality(MeasuredTo(p))
ToldOf(k) ==
  IF k \in DOMAIN PartitionLabel
  THEN {log.buf[e].data : e \in EventsNamed({PartitionLabel[k]})} ELSE {}

(***************************************************************************)
(* A core is only ever started on bytes whose digest is already in the     *)
(* log of this boot: what XFsbl_Handoff releases is what                   *)
(* Tpm_Measure_Partition hashed, decrypted bytes included, and nothing     *)
(* overwrote it in between.  When the SHA3 engine failed, zeros stand      *)
(* under the very label of the partition whose place the bytes lie in.     *)
(***************************************************************************)
StartedCores ==
  {c \in Core : running'[c] # running[c] /\ running'[c] # NoContent}
LiesIn(p, code) == mem[LoadSlot(DestinationCpu(PH(p)), PH(p).load)] = code
KnownUnmeasured(code) ==
  \E p \in MeasuredTo(LastPartition) : LiesIn(p, code) /\ NoDigest \in ToldOf(Rank(p))
MeasuredBeforeRun ==
  [][\A c \in StartedCores :
       running'[c] \in Measured \/ KnownUnmeasured(running'[c])]_vars

(***************************************************************************)
(* The boot loader implements the chain of measured boot: over all its     *)
(* restarts the log of a boot begins with the ROM and only grows, nothing  *)
(* is started that is not in it, unless it shows a measurement that failed *)
(* (XFsbl_ShaDigest), nothing is recorded after the jump of                *)
(* XFsbl_HandoffExit, no core that runs is started anew, and log_ptr2 goes *)
(* back only behind a reset, where R5s may go on running on code whose     *)
(* event is given up.                                                      *)
(***************************************************************************)
Chain == INSTANCE MeasuredChain WITH
  Application <- A53Cpus,
  Self <- ProcessorID,
  Begun <- <<NoContent, NoContent, RomCode>>,
  Unmade <- NoDigest,
  None <- NoContent,
  recorded <- [k \in DOMAIN Written(log) |-> Written(log)[k].data],
  reset <- pc = "STAGE1"
BootIsMeasured == Chain!Spec

(***************************************************************************)
(* When the FSBL is done, the last bitstream event is of the bitstream in  *)
(* the PL, if this boot configured one, whatever was asked to protect it,  *)
(* or is the zeros of a SHA3 engine that failed (Tpm_Measure_Pl,           *)
(* XSecure_Sha3Finish).                                                    *)
(***************************************************************************)
LastOf(name) ==
  log.buf[CHOOSE k \in EventsNamed({name}) :
            \A j \in EventsNamed({name}) : j <= k].data
TellsOf(data, content) ==
  (data.img = content.img /\ data.part = content.part)
    \/ ("fail" \in Faults /\ data = NoDigest)
PlMeasured ==
  pc = "DONE" /\ pl # NoContent /\ FsblInstance.reset = SYSTEM_RESET =>
    EventsNamed({"BITSTREAM"}) # {} /\ TellsOf(LastOf("BITSTREAM"), pl)

(***************************************************************************)
(* What the partition events tell follows from the image and the reset     *)
(* alone, so that it can be foretold: the label k holds one digest, of the *)
(* partition that is the k-th to be measured, as it was before it was      *)
(* encrypted, or zeros when the SHA3 engine failed at it, and none if      *)
(* there are fewer.  Images that were refused before, R5s started early    *)
(* and restarts leave nothing in it, although the label comes from a       *)
(* counter in a data section that is restored (Tpm_Measure_Partition,      *)
(* XFsbl_ShaDigest, XFsbl_RestoreData).                                    *)
(***************************************************************************)
MeasuredAs(k) == {p \in MeasuredTo(LastPartition) : Rank(p) = k}
DigestOf(p) ==
  IF IsXip(PH(p)) THEN NoContent ELSE Payload(FsblInstance.img, p, "plain")
LabelsGoByOrder ==
  pc = "DONE" => \A k \in DOMAIN PartitionLabel :
    IF MeasuredAs(k) = {} THEN ToldOf(k) = {}
    ELSE \E p \in MeasuredAs(k) : \E d \in Digests(DigestOf(p)) : ToldOf(k) = {d}

(***************************************************************************)
(* Although the FSBL measures itself once before it has read any partition *)
(* header when the tables are on a second device, what is loaded is never  *)
(* recorded ahead of an event of the FSBL's memory with the headers it is  *)
(* loaded by, of zeros if the SHA3 engine failed at it                     *)
(* (XFsbl_ValidateHeader, Tpm_Measure_Fsbl).  With the headers unread      *)
(* nothing is loaded: the first one is refused.                            *)
(***************************************************************************)
FsblMeasuredWithTables ==
  BootMode = "FLASH" /\ (pc = "DONE" \/ (pc = "HEADER" /\ FsblInstance.hdr)) =>
    LastOf("FSBL") \in Digests(FsblMemory(FsblInstance.img, FsblInstance.reset))

(***************************************************************************)
(* The table handed to the trusted firmware lies where no start-up code    *)
(* clears it, and reading an image may fail half-way: when the FSBL hands  *)
(* over an image with entries for it, the table holds these and none of an *)
(* image before (XFsbl_SetATFHandoffParameters).  An image without entries *)
(* leaves the table as it is.                                              *)
(***************************************************************************)
AtfTableIsCurrent ==
  pc = "DONE" /\ FsblInstance.hdr /\ ATFHandoffParams(CurImage) # {} =>
    atf = ATFHandoffParams(CurImage)

-----------------------------------------------------------------------------
(***************************************************************************)
(* Acceptance.                                                             *)
(***************************************************************************)
ImageOf(c) == Images[c.img]
PartitionOf(c) == ImageOf(c).ph[c.part]
SignerKnown(c) ==
  LET im == ImageOf(c) IN AuthRequired(im) /\ PartitionOf(c).cert.by = im.cert.ppk
Rejectable(c) ==
  LET h == PartitionOf(c) IN
  /\ c.form = "plain"
  /\ \/ ~h.intact /\ (h.cksum # 0 \/ h.rsa \/ h.aes)
     \/ h.rsa /\ ~SignerKnown(c)

(***************************************************************************)
(* No core runs, and the PL is never left configured at the end of a boot  *)
(* with, a payload that its own checksum, signature or tag rejects, that   *)
(* was signed under another primary key than its image's header, or that   *)
(* was not decrypted.  The bytes of a rejected partition do stay in        *)
(* memory, over the fallback to the next image (XFsbl_PartitionValidation, *)
(* XFsbl_Handoff).                                                         *)
(***************************************************************************)
NothingRejectedRuns ==
  /\ \A c \in Core : ~Rejectable(running[c]) /\ running[c].form # "cipher"
  /\ pc = "DONE" => ~Rejectable(pl)

(***************************************************************************)
(* With the eFUSEs programmed, what runs comes from an image whose tables  *)
(* verified against a primary key whose hash is in force in the eFUSEs and *)
(* a secondary key that is not revoked, and was encrypted; the tables on a *)
(* secondary device are held to the same (XFsbl_ValidateHeader,            *)
(* XFsbl_BhAuthentication, XFsbl_ValidatePartitionHeader).                 *)
(***************************************************************************)
PpkInForce(key) ==
  \E s \in {0, 1} \ EfuseKeys.revoked : EfuseKeys.ppk[s] = key
EfusePolicyHolds ==
  \A c \in Core : running[c].form = "plain" =>
    LET im == ImageOf(running[c]) IN
    /\ EfuseRsa => /\ im.ac /\ im.signed /\ ~im.rsa
                   /\ PpkInForce(im.cert.by) /\ SpkInForce(im.cert)
    /\ EfuseEncOnly => PartitionOf(running[c]).aes

(***************************************************************************)
(* A signed partition runs, or is in the PL at the end, only under a key   *)
(* in force: the primary key that signed its SPK is one the eFUSEs vouch   *)
(* for, although the partition's certificate is never compared with them,  *)
(* and the SPK itself is not revoked (XFsbl_SpkVer, EfusePpkKey).          *)
(***************************************************************************)
SignerInForce(c) ==
  c.form = "plain" /\ PartitionOf(c).rsa /\ EfuseRsa =>
    PpkInForce(PartitionOf(c).cert.by) /\ SpkInForce(PartitionOf(c).cert)
SignersInForce ==
  /\ \A c \in Core : SignerInForce(running[c])
  /\ pc = "DONE" => SignerInForce(pl)

(***************************************************************************)
(* The handoff list names a CPU at most once, so its ten entries suffice   *)
(* for any number of partitions (XFsbl_CheckHandoffCpu).                   *)
(***************************************************************************)
HandoffListOK ==
  /\ \A i, j \in DOMAIN FsblInstance.handoff :
       FsblInstance.handoff[i].cpu = FsblInstance.handoff[j].cpu => i = j
  /\ Len(FsblInstance.handoff) <= 10

(***************************************************************************)
(* An R5 core that runs when the FSBL hands over is marked in the usage    *)
(* register, also after a restart of the APU alone, which clears the       *)
(* register while the R5s keep running (XFsbl_MarkUsedRPUCores).  The      *)
(* second core of a lockstep pair is covered by the first.                 *)
(***************************************************************************)
Lockstep == \E p \in 1 .. LastPartition : PH(p).cpu = CPU_R5_L
R5UsageKnown ==
  pc = "DONE" => \A c \in {CPU_R5_0, CPU_R5_1} :
     running[c] # NoContent => c \in r5usage \/ (c = CPU_R5_1 /\ Lockstep)

(***************************************************************************)
(* A TCM bank that was initialised and loaded is not initialised again for *)
(* a later partition, so what was put there is there when the FSBL hands   *)
(* over (XFsbl_ConfigureMemory, XFsbl_TcmEccInit).  It fails for an image  *)
(* that goes back to an R5 after a partition of the other, as the status   *)
(* word is assigned.                                                       *)
(***************************************************************************)
LoadedCodeSurvives ==
  pc = "HANDOFF" /\ ~EarlyHandoff => \A p \in 1 .. PartitionNum : LET h == PH(p) IN
     h.owner = 0 /\ h.dev # DEVICE_PL /\ ~IsXip(h) =>
       mem[LoadSlot(DestinationCpu(h), h.load)] # EccPattern

-----------------------------------------------------------------------------
(***************************************************************************)
(* Waiting and falling back.                                               *)
(***************************************************************************)

(***************************************************************************)
(* Wherever the FSBL may wait without end from the set-up of the boot      *)
(* device on, for a device, the PL, the PMU or behind an assertion, the    *)
(* watchdog is armed, unless only the APU restarted                        *)
(* (XFsbl_PrimaryBootDeviceInit, XFsbl_PartitionCopy, XFsbl_CheckPmuFw).   *)
(* The waits of stage 1 come before XFsbl_InitWdt and are watched by       *)
(* nobody.                                                                 *)
(***************************************************************************)
EndlessWaitIsGuarded ==
  BootMode = "FLASH" /\ Waiting /\ pc \notin {"INITHUNG", "NOHANDOFF"} =>
    wdt \/ MasterOnly

(***************************************************************************)
(* A boot that the watchdog cuts short is not tried again: the image after *)
(* it is, over two resets, the error status and the reset reason being all *)
(* that is carried over (XFsbl_ResetValidation, XFsbl_FallBack), unless    *)
(* the boot after the watchdog's reset never gets out of its stage 1.      *)
(***************************************************************************)
WatchdogFallsBack ==
  \A i \in 0 .. LastImage :
    (pc = "HUNG" /\ wdt /\ multiboot = i) ~> (multiboot = i + 1 \/ pc = "INITHUNG")

(***************************************************************************)
(* Every boot comes to an end: the FSBL hands over, or stops where its     *)
(* error path says, whatever fails or hangs on the way.  Only stage 1,     *)
(* which is over before the watchdog is armed, and a restart of the APU    *)
(* alone, which runs without it, may hang for good.                        *)
(***************************************************************************)
Settled ==
  \/ pc \in {"DONE", "NOHANDOFF", "SPIN", "ROMSTOP"} /\ ~(wdt /\ Waiting)
  \/ pc = "INITHUNG" \/ (pc = "HUNG" /\ MasterOnly)
BootSettles == []<>Settled

(***************************************************************************)
(* An image without a fault in it: its tables are accepted, and each       *)
(* partition of the FSBL's is one that can be loaded, checked and, if it   *)
(* is for a CPU or runs in place, started.  Of the PMU firmware, only what *)
(* follows another part of it may come without an execution address, which *)
(* makes the FSBL ask the PMU to sleep.                                    *)
(***************************************************************************)
SoundPartition(h, im) ==
  LET cpu == DestinationCpu(h) IN
  /\ ValidatePartitionHeader(h, SYSTEM_RESET, EfuseEncOnly) = "SUCCESS"
  /\ FitsTcm(cpu, h.load, h.total)
  /\ h.intact \/ ~(h.cksum # 0 \/ h.rsa \/ h.aes)
  /\ h.rsa => AuthRequired(im) /\ SpkVer(h.cert, im.cert.ppk)
  /\ IF h.dev = DEVICE_PL THEN h.rsa => h.block # 0 /\ ~im.sha2
     ELSE ~(h.cksum # 0 /\ h.rsa)
  /\ h.dev # DEVICE_PL \/ IsXip(h) =>
       /\ cpu = ProcessorID => ~h.aa32
       /\ Startable(cpu) \/ (cpu = CPU_PMU /\ ~IsXip(h))
FindsPmuAsleep(im, p) ==
  /\ p > 1
  /\ LET h == im.ph[p - 1] IN
       h.owner = 0 /\ h.cpu = CPU_PMU /\ h.dev # DEVICE_PL /\ ~IsXip(h)
Sound(im) ==
  /\ HeaderAccepted(im) /\ im.ppd = XIH_IHT_PPD_SAME
  /\ \A p \in 1 .. (im.n - 1) : LET h == im.ph[p] IN
       /\ h.sum
       /\ h.owner = 0 =>
            /\ SoundPartition(h, im)
            /\ h.cpu = CPU_PMU /\ ~IsXip(h) /\ h.exec = "ZERO" => FindsPmuAsleep(im, p)
HasOwnEntry(im) ==
  \E p \in 1 .. (im.n - 1) : LET h == im.ph[p] IN
     h.owner = 0 /\ h.dev # DEVICE_PL /\ DestinationCpu(h) = ProcessorID

(***************************************************************************)
(* When nothing fails but the images, a sound one is never refused, nor    *)
(* waited in: whatever the images before it left in memory, in the PMU, in *)
(* the registers that survive a reset or in the key that is kept, and      *)
(* however often the software it started restarts it (XFsbl_FallBack,      *)
(* XFsbl_ResetValidation).                                                 *)
(***************************************************************************)
SoundImageIsKept ==
  BootMode = "FLASH" => \A i \in 0 .. LastImage : Sound(Images[i]) =>
    /\ multiboot <= i
    /\ multiboot = i => pc # "ERR" /\ ~(Waiting /\ pc # "NOHANDOFF")

(***************************************************************************)
(* When nothing fails but the images, the FSBL gets through the first      *)
(* sound one, however the ones before it are broken, and runs it unless it *)
(* holds nothing for the running CPU (XFsbl_FallBack).                     *)
(***************************************************************************)
FirstSound ==
  CHOOSE i \in 0 .. LastImage :
    /\ Sound(Images[i])
    /\ \A j \in 0 .. (i - 1) : ~Sound(Images[j])
FirstSoundImageRuns ==
  <>( /\ FsblInstance.img = FirstSound
      /\ IF HasOwnEntry(Images[FirstSound])
         THEN pc = "DONE" /\ running[ProcessorID].img = FirstSound
         ELSE pc = "NOHANDOFF" /\ errorStatus = "COMPLETED" )

-----------------------------------------------------------------------------
(***************************************************************************)
(* What the comments of the code say.                                      *)
(***************************************************************************)

(***************************************************************************)
(* "XFSBL_SUCCESS for successful copy": with every copy reported as a      *)
(* success, a core is started on bytes of the image that is being booted,  *)
(* not on what an earlier image left at the address (XFsbl_SdCopy).        *)
(***************************************************************************)
StartedFromThisImage ==
  [][\A c \in StartedCores : running'[c].img = FsblInstance.img]_vars

=============================================================================
