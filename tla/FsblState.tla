----------------------------- MODULE FsblState -----------------------------
(***************************************************************************)
(* The state of the first stage boot loader and of the hardware it drives, *)
(* shared by the modules of its stages.                                    *)
(*                                                                         *)
(*   stage 1  XFsbl_Initialize                  pc = "STAGE1"              *)
(*   stage 2  XFsbl_BootDeviceInitAndValidate   pc = "PRIMARY", "VALIDATE",*)
(*                                                   "SECONDARY"           *)
(*   stage 3  XFsbl_PartitionLoad               pc = "HEADER", "COPY",     *)
(*                                                   "LOAD", "CHECK", "PL",*)
(*                                                   "FINISH", "PMUFW",    *)
(*                                                   "FWWAIT", "NEXT"      *)
(*   stage 4  XFsbl_Handoff                     pc = "HANDOFF", "CPU"      *)
(*   error    XFsbl_ErrorLockDown               pc = "ERR"                 *)
(*                                                                         *)
(* "HUNG" is a wait for the hardware that is never answered, or a failed   *)
(* assertion of a driver, which loops; "INITHUNG" is such a wait in stage  *)
(* 1, before there is a watchdog.  "DONE" (jump to an address),            *)
(* "NOHANDOFF" (wait for an event), "SPIN" (endless loop with no reset     *)
(* pending), "SOFTRESET" (endless loop with a reset pending) and "ROMSTOP" *)
(* (the boot ROM finds no image) are where a boot ends.                    *)
(*                                                                         *)
(* Build options: MEASURED_BOOT, XFSBL_SECURE, XFSBL_BS, XFSBL_PS_DDR,     *)
(* XFSBL_WDT_PRESENT and FSBL_UNPROVISIONED_AUTH_SIGN_EXCLUDE as shipped;  *)
(* XFSBL_EARLY_HANDOFF and FSBL_DEBUG_INFO are parameters.                 *)
(***************************************************************************)
EXTENDS ImageHeader, EventPrint

CONSTANTS
  LastImage,            \* the flash holds the images 0 .. LastImage
  Images,               \* those, and image LastImage + 1 on the second device
  BootModes,            \* the boot modes to consider: "FLASH" (a device an
                        \* image is read from), "USB", "JTAG", "OTHER"
  EfuseEncOnly,         \* eFUSE ENC_ONLY is programmed
  XFSBL_EARLY_HANDOFF,  \* the build option
  IsCG,                 \* a device with two A53 cores only
  TcmBank,              \* words in one TCM bank
  AcWords,              \* words in an authentication certificate
  Faults,               \* the faults to consider: "fail" (an operation is
                        \* refused), "hang" (it is never answered), "late"
                        \* (it takes longer than the watchdog allows),
                        \* "short" (the file ends before the partition does)
  MaxRestarts           \* bound on the resets asked for by running software

ASSUME LastImageAssumption == LastImage \in Nat
ASSUME ImagesAssumption == Images \in [0 .. (LastImage + 1) -> Image]
ASSUME ModeAssumption == BootModes \subseteq {"FLASH", "USB", "JTAG", "OTHER"}
ASSUME OptionAssumption ==
  /\ EfuseEncOnly \in BOOLEAN
  /\ XFSBL_EARLY_HANDOFF \in BOOLEAN /\ IsCG \in BOOLEAN
ASSUME SizeAssumption == TcmBank \in Nat /\ AcWords \in Nat
ASSUME FaultAssumption == Faults \subseteq {"fail", "hang", "late", "short"}
ASSUME RestartAssumption == MaxRestarts \in Nat

VARIABLES
  pc, PartitionNum, EarlyHandoff, CpuIndex,
  CpuIndexEarlyHandoff,  \* static in XFsbl_Handoff, zeroed by the startup code
  runEntry,              \* the handoff entry of the running CPU, 0 if absent
  FsblInstance, log,     \* the variables in the data section
  dup,                   \* the copy of the data section
  multiboot, errorStatus, resetReg, \* registers that survive a reset
  running,               \* for each core the code it was started on
  pl, pmu, wdt, r5usage, mem, atf,
  BootMode,              \* the mode pins
  restarts

mainVars == <<pc, PartitionNum, EarlyHandoff, CpuIndex, CpuIndexEarlyHandoff, runEntry>>
dataVars == <<FsblInstance, log, dup>>
regVars == <<multiboot, errorStatus, resetReg>>
hwVars == <<running, pl, pmu, wdt, r5usage, mem, atf>>
envVars == <<BootMode, restarts>>
vars == <<mainVars, dataVars, regVars, hwVars, envVars>>

-----------------------------------------------------------------------------
(***************************************************************************)
(* Memory: a slot is an address window as seen by R5-0 (0), by R5-1 (1) or *)
(* on the system bus (2).                                                  *)
(***************************************************************************)
Slot == (0 .. 2) \X Address
Core == 1 .. 6
Cores(cpu) == IF cpu = CPU_R5_L THEN {CPU_R5_0, CPU_R5_1} ELSE {cpu}

(***************************************************************************)
(* XFsbl_GetLoadAddress: an R5's own window is moved to its global alias.  *)
(***************************************************************************)
InTcm(cpu, a) == cpu \in R5Cpus /\ a \in TcmWindow
LoadSlot(cpu, a) ==
  IF ~InTcm(cpu, a) THEN <<2, IF a = "DUMMY_PL" THEN "TEMP" ELSE a>>
  ELSE IF cpu = CPU_R5_1 THEN <<1, a>> ELSE <<0, a>>
FitsTcm(cpu, a, length) ==
  InTcm(cpu, a) => length <= (IF cpu = CPU_R5_L THEN 4 * TcmBank ELSE TcmBank)

(***************************************************************************)
(* XFsbl_TcmEccInit fills every bank of the core (of both for lockstep).   *)
(* The status word is assigned, not merged.                                *)
(***************************************************************************)
EccFill(cpu) ==
  [s \in Slot |-> IF s[2] \in TcmWindow
                     /\ \/ s[1] = 0 /\ cpu \in {CPU_R5_0, CPU_R5_L}
                        \/ s[1] = 1 /\ cpu \in {CPU_R5_1, CPU_R5_L}
                  THEN EccPattern ELSE mem[s]]
TcmEccInitStatus(cpu) == Cores(cpu)

(***************************************************************************)
(* XFsbl_ConfigureMemory initialises the banks whose bit is not set.  A    *)
(* mutant does not look at the bits.                                       *)
(***************************************************************************)
NeedsEccInitEachTime(cpu, a) == InTcm(cpu, a)
NeedsEccInit(cpu, a) ==
  InTcm(cpu, a) /\ ~(Cores(cpu) \subseteq FsblInstance.ecc)

(***************************************************************************)
(* XFsblPs, the FSBL's instance structure, and the header of a partition.  *)
(* While the headers are unread the structure holds zeroes, whose checksum *)
(* is wrong.  "ppk" is EfusePpkKey: the startup code zeroes it, and no     *)
(* reset brings an older one back, since it is still zero when the data    *)
(* are saved.                                                              *)
(***************************************************************************)
InitialInstance ==
  [reset |-> SYSTEM_RESET, sec |-> 0, img |-> 0, hdr |-> FALSE,
   handoff |-> <<>>, ecc |-> {}, ppk |-> 0]
NoCertificate == [ppk |-> 0, select |-> 0, fuse |-> 0, id |-> 0, by |-> 1]
ZeroHeader ==
  [sum |-> FALSE, owner |-> 0, cpu |-> 0, dev |-> 0, unenc |-> 0, enc |-> 0,
   total |-> 0, rsa |-> FALSE, aes |-> FALSE, cksum |-> 0, load |-> "ZERO",
   exec |-> "ZERO", aa32 |-> FALSE, hivec |-> FALSE, block |-> 0,
   intact |-> TRUE, cert |-> NoCertificate]
CurImage == Images[FsblInstance.img]
LastPartition == CurImage.n - 1
PH(p) == IF FsblInstance.hdr THEN CurImage.ph[p] ELSE ZeroHeader
Hdr == PH(PartitionNum)
MasterOnly == FsblInstance.reset = MASTER_ONLY_RESET
PsOnly == FsblInstance.reset = PS_ONLY_RESET
BytesIn(p) == LET h == PH(p) IN
  Payload(FsblInstance.img, p, IF h.aes THEN "cipher" ELSE "plain")

Goto(label) == pc' = label
Fail == Goto("ERR")

(***************************************************************************)
(* What an operation on a device may do instead of succeeding.             *)
(***************************************************************************)
Refused == "fail" \in Faults /\ Fail
Unanswered == "hang" \in Faults /\ Goto("HUNG")
Faulty == Refused \/ Unanswered

(***************************************************************************)
(* XFsbl_ShaDigest has no status to return.  When the engine fails at the  *)
(* end of a message the digest is the zeros the caller put there; when it  *)
(* fails before, the driver has left its "update" state and asserts on the *)
(* next call.                                                              *)
(***************************************************************************)
Digests(data) == {data} \cup (IF "fail" \in Faults THEN {NoDigest} ELSE {})
ShaAsserts == "fail" \in Faults /\ Goto("HUNG")

(***************************************************************************)
(* XFsbl_CheckHandoffCpu and the entry made when it finds no earlier one.  *)
(* A mutant forgets to look.                                               *)
(***************************************************************************)
HandoffCpus == {FsblInstance.handoff[k].cpu : k \in DOMAIN FsblInstance.handoff}
NewEntry(h) == [cpu |-> DestinationCpu(h), exec |-> h.exec, aa32 |-> h.aa32]
AppendHandoff(h) ==
  [FsblInstance EXCEPT !.handoff = Append(@, NewEntry(h))]
AddHandoff(h) ==
  IF DestinationCpu(h) \in HandoffCpus THEN FsblInstance ELSE AppendHandoff(h)

-----------------------------------------------------------------------------
(***************************************************************************)
(* Power-on: the boot ROM found image 0 and started its FSBL.              *)
(***************************************************************************)
Init ==
  /\ pc = "STAGE1" /\ PartitionNum = 0 /\ EarlyHandoff = FALSE
  /\ CpuIndex = 0 /\ CpuIndexEarlyHandoff = 0 /\ runEntry = 0
  /\ FsblInstance = InitialInstance /\ log = InitialLog
  /\ dup = [inst |-> InitialInstance, log |-> InitialLog]
  /\ multiboot = 0 /\ errorStatus = "COMPLETED"
  /\ resetReg = [psOnly |-> FALSE, apu |-> FALSE, wdt |-> FALSE]
  /\ running = [c \in Core |-> NoContent]
  /\ pl = NoContent /\ pmu = "ROM" /\ wdt = FALSE /\ r5usage = {}
  /\ mem = [s \in Slot |-> NoContent] /\ atf = {}
  /\ BootMode \in BootModes /\ restarts = 0
=============================================================================
