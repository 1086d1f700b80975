# A model of the measured-boot first stage boot loader

This directory holds TLA+ modules, TLC configurations and TLAPS proofs about the
Zynq UltraScale+ first stage boot loader (FSBL) in `src/`, in the build for the
A53 that the repository ships: 64 bit, PS DDR, `MEASURED_BOOT`, `XFSBL_SECURE`,
`XFSBL_BS`, `XFSBL_WDT_PRESENT`, no USB, no discrete TPM. The build options
`XFSBL_EARLY_HANDOFF` and `FSBL_DEBUG_INFO` and the eFUSEs (`EfuseRsa`, `EfuseKeys`,
`EfuseEncOnly`) are parameters.

## 1. Inventory

The FSBL is one thread. It is hard because of everything around it: a boot ROM
and resets that start it in the middle of what an earlier boot left behind, a
watchdog, a PMU that answers or does not, an FPGA fabric (PL), DMA engines and a
stream switch, up to six cores released one after the other, operations that fail at
any place, and images on flash that may be broken anywhere.

| Component (`src/`) | State | Operations | Correct when |
|---|---|---|---|
| Main loop, error path (`xfsbl_main.c`) | stage, partition number, multiboot register, error status, R5 usage bits | stages 1-4, error lock-down, fallback | every boot ends; fallback reaches the first sound image; usage bits tell the truth |
| Initialization (`xfsbl_initialization.c`) | reset reason, saved data section, watchdog, devices, TCM ECC status | initialize, reset validation, primary and secondary device, header validation | what a reset leaves is used or discarded rightly; eFUSE policy holds |
| Headers (`xfsbl_image_header.c`) | header tables, ATF handoff table | table and header validation, ATF entries | nothing unsound is acted upon; the ATF table is that of the image handed over |
| Authentication chain (`xfsbl_authentication.c`) | the primary key kept from a boot header | PPK, SPK, revocation, signatures | what runs was signed under keys in force |
| Partition loading (`xfsbl_partition_load.c`) | memories, TCM ECC status, handoff list | header check, copy, validation, bitstream, PMU firmware | only accepted bytes are kept for running |
| Boot devices (`xfsbl_qspi.c`, `xfsbl_sd.c`) | bank registers, address mode | copy, cut into transfers | the bytes asked for, all of them, and nothing else |
| Authenticated bitstream (`xfsbl_plpartition_valid.c`) | block and chunk loops, certificate, digest of each chunk, AES position, part of a header kept | block authentication, re-authentication, decryption chunk by chunk | what reaches the PL is what was compared with the authenticated digests, all of it, or the PL is reset |
| PL measurement (`fsbl_measured_pl.c`, `xfsbl_bs.c`) | PL, stream switch, AES and SHA engine | load while hashing, block by block | the event is of what the PL took, or zeros if the hash engine failed |
| Measured boot (`fsbl_measured_boot.c`) | partition counter, log pointer | measure ROM, FSBL, partition | measured before run, or zeros under the label if the hash failed; labels agree with the counter |
| Event log (`event_log.c`) | buffer, pointer | header, record | well formed, within its buffer |
| Log printing (`event_print.c`) | read pointer, size left | step over each record | the reader reaches the end |
| Handoff (`xfsbl_handoff.c`) | handoff list, indexes, reset vectors | early handoff, release, exit | each core starts once, on accepted and measured bytes |
| Watchdog, PM (`xfsbl_misc_drivers.c`) | armed or not | arm, restart, stop | armed wherever the FSBL may wait for ever from the set-up of the boot device on; stage 1 waits unwatched |
| Boot ROM, PMU, started software (external) | reset registers, PMU state | reload, sleep, wake, reset requests | - |
| Board, generated set-up, discrete TPM variant, board support package | see `PROJECT.json` | not modelled (section 7) | - |

Interaction: the stages share one instance structure (`FsblInstance`) and the log
pointer; measured boot writes through the event log; loading fills memory that
handoff later starts cores on; a signed bitstream is read from a memory that cores
released early may write to; the error path and every reset lead back to stage 1
with part of the state kept. The places where this can go wrong, each with its
line, are the `hazards` of `PROJECT.json`; the properties below exist for them.

## 2. Modules

| Module | Models | Kind |
|---|---|---|
| `Authentication` | PPK, SPK, revocation and signatures against the eFUSEs | operators |
| `ImageHeader` | tables, headers and the checks on them | operators |
| `EventLog` | the log as a record `[buf, ptr, partition]` and its writes | operators |
| `MeasuredBoot` | what is hashed, under which label and PCR | operators |
| `EventPrint` | by how much each reader of the log moves | operators |
| `FsblState` | the variables, constants with assumptions, memory and TCM helpers, `Init` | state |
| `Initialization` | stages 1 and 2 | actions |
| `PartitionLoad` | stage 3 for one partition; the PMU | actions |
| `Handoff` | end of stage 3, stage 4 | actions |
| `Fsbl` | composition, error path, resets, `Spec`, `FairSpec` | actions |
| `FsblProperties` | type invariant and properties | properties |
| `MCFsbl` | images, keys and sizes for the runs | model checking |
| `PlState`, `PlDecrypt`, `PlAuth` | `XFsbl_SecPlPartition`: layout of a signed bitstream; secure headers, encrypted blocks and the chunks that cut them; certificate, signature, second reading, sending, reset; other masters | state, actions, `Spec` |
| `AuthenticatedLoad` | what loading a signed bitstream promises | abstract specification |
| `PlMeasure` | `fsbl_measured_pl.c` with its caller: an unsigned bitstream, plain or encrypted, loaded while it is hashed; other masters | actions, `Spec` |
| `MeasuredLoad` | what a measured load promises | abstract specification |
| `QspiCopy` | `xfsbl_qspi.c`: identification, bank registers, address mode, the loop over transfers | actions, `Spec` |
| `FlashCopy` | what `DeviceCopy` of a boot device promises | abstract specification |
| `MeasuredChain` | what measured boot promises over resets | abstract specification |
| `MCPlAuth`, `MCPlMeasure`, `MCQspi` | bitstreams, boards and calls for the runs | model checking |
| `FsblProofs`, `LogProofs`, `PolicyProofs`, `AcceptanceProofs`, `MeasureProofs` | theorems about `Fsbl` | proofs |
| `PlProofs`, `PlMeasureProofs`, `QspiProofs` | theorems about the other three models | proofs |

There are four models. `Fsbl` composes the stages of a boot; in it, a copy from flash,
the load of a signed bitstream and the load of an unsigned one are one step each. The
other three open these steps and are shown to implement an abstract specification
that says what the step in `Fsbl` takes for granted: `QspiCopy` implements
`FlashCopy` (the bytes asked for, or an error, and nothing else written), `PlAuth`
implements `AuthenticatedLoad` (the whole bitstream in the PL, or none of it, and every
word of it as signed but those behind the last whole SHA3 block of a plain data block,
which no digest covers), `PlMeasure` implements `MeasuredLoad` (one event, of exactly
what the PL took, or of zeros if the hash engine failed). In `Fsbl` nobody else writes
to memory while a signed bitstream is loaded, so its words are those that were signed.
Of a board without DDR, which `Fsbl` leaves out, `PlMeasure` has the copy in chunks too.
`Fsbl` itself implements `MeasuredChain`, for images as boards use them: cores are
started on recorded code only unless the record shows, by zeros, that a measurement
failed, a record only grows, and it is given up for a new one only by a reset.

State and code. `pc` is the stage and the place in it; its values are listed at the head
of `FsblState`. `FsblInstance` is the structure of the same name: reset reason,
secondary device, the image its headers came from (`img`, `hdr`), handoff list, TCM ECC
status and the primary key kept from a boot header (`EfusePpkKey`). `log` is the buffer
at `EVENT_LOG_START`, `log_ptr2` and the counter `partition`. `dup` is the saved data
section. `multiboot`, `errorStatus` and `resetReg` are the registers that survive a
reset. `running`, `pl`, `mem` say which bytes a core was started on, the PL was
configured with, a memory window holds; `wdt`, `pmu`, `r5usage` and `atf` are what their
names say.

An action is one operation of the code between two points where something else can
happen: a fault, an answer of the PMU, an expiry of the watchdog. It includes all the
operation changes; a failure changes what the code changed before it failed.

In `PlAuth`, `blk` is the loop of `XFsbl_SecPlPartition` (`SrcAddress`,
`CurrentAcOffset`, `Index`, `Len`, `IsLastBlock`), `chunk` the `Index` of the chunk
loops, `HashsOfChunks`, `ChunkBuffer` and `AuthCertBuf` the buffers of these names,
`sha` what the SHA3 driver was given since it was started (the engine has the whole
blocks of it, `Digested`, and a digest kept in `HashsOfChunks` is of these), `aes` the
state of `XFsblPs_PlEncryption` with the key the engine uses and the number of headers
it opened, `rest` the words of a chunk still to be decrypted, `sent` all that went to
the PCAP or the AES engine. One action is one copy from memory with what is done on it,
or one look at a certificate; between any two of them another master may write a word.

In `PlMeasure`, `sss` is the secure stream switch: what feeds the PCAP, the AES and the
SHA3 engine. `SrcAddr`, `RemainingBytes`, `NextBlkLen`, `CurrentImgLen` and `BlockCnt`
are the variables of these names, `left` the words a DMA transfer has still to read,
`sha` what the engine took and `Sha3Len` what its driver believes it took, `pl` the
words that reached the PCAP. A DMA word goes wherever the switch leads it at that
moment, so the order of routing, starting and waiting is what the model is about.

In `QspiCopy`, `bank` is the bank register of each chip, which keeps its value over
copies and resets, `fourByte` the Macronix chips that were told to take four address
bytes; `SrcAddress`, `DestAddress`, `RemainingBytes` and `UnalignedBytes` are those of
`XFsbl_Qspi24Copy` and `XFsbl_Qspi32Copy`, and an action is one transfer.

Abstractions, and why they keep what matters:

* Addresses are windows, lengths are words; `TcmBank` is 4 and `AcWords` 2 in the
  runs, so that a partition can fit a bank with or without its certificate.
* A payload is *who it is*: image, partition, and whether it is ciphertext. A digest
  is the payload hashed, so two digests are equal when the bytes are, or it is
  `NoDigest`, the zeros its buffer starts with. The SHA3 driver's status is dropped by
  `XFsbl_ShaDigest`, which returns nothing, and by the code that measures the PL: with
  `fail` among the faults an event may hold the zeros while the payload goes on to run.
  A driver that was not reset stops in an assertion instead, which loops (`ShaAsserts`).
  Checksum, signature and tag agree with the field `intact`, and with the bytes that are
  in memory: a copy that ended too soon leaves others there.
* A key is a number, 0 the buffer that nobody filled; a signature is who made it. The
  eFUSEs hold two key hashes, what is revoked, the SPK ID in force and the user bits.
* Reading the headers may fail half-way, and the ATF handoff table is then filled up to
  there. The reader of the log is modelled by the sizes it adds up, against the sizes
  the writer used.
* Memory keeps its bytes over every reset, the worst case for stale data. A system
  reset clears the PL, a PS-only reset keeps it; either puts the PMU back in its ROM. Of the
  log's buffer the model drops what an earlier boot left when the FSBL is loaded anew:
  the log pointer starts over with it, and nothing behind the pointer is read.
* The boot ROM starts whatever image the multiboot register names and stops past the
  last one; it does no checks of its own, which puts the burden on the FSBL.
* The generated set-up, board and protection configuration and the hooks are single
  operations that may be refused. A refused TCM set-up leaves memory as it was.
* An application's execution address lies in the window it is loaded to. Cores that
  wake on memory nobody loaded are not counted as started (`NoContent`).
* In `PlAuth` a word is where it was read and whether it was then as signed, the
  finished digest the words that were hashed, in order, and the one read after a chunk
  those of them that fill whole SHA3 blocks, since the driver keeps the rest for the next
  update; a signature or a GCM tag fits when the words are
  exactly those it was made for. A write of another master turns a word into one that
  was not signed, or back. `fault` marks the refusal of a device, an engine or a key
  check. That the signed image itself is sound is the `PlSizes` assumption: it is how
  the image tool lays a bitstream out, and it names the one thing the code relies on
  without a check: a chunk that a block border cuts short still holds a secure header.
* In `PlMeasure` sizes are words, a SHA3 block is three of them and the buffer two; a
  header names the length of the block behind it and a tag fits when the engine saw what
  was encrypted and nothing else. In `QspiCopy` sizes are units of two bytes, so that a
  parallel pair splits a unit, and a unit of flash data is its address; calls are
  multiples of a word, as everything in a boot image is, and end below 4 GB: that the
  address plus the length may wrap at 32 bits is left out (`CallsAreWords`).
* `BootMode` is fixed for a behaviour: `FLASH` stands for QSPI, SD, eMMC and NAND.

## 3. Properties

Of the boot, invariants: `TypeOK`; `LogWellFormed` (one header, one ROM event and a
counter that agrees with the events, over every kind of restart); `LogFits`;
`NothingRejectedRuns` (neither a core nor the PL at the end is given bytes that their
own protection rejects, that another primary key vouches for, or that are still
encrypted); `EfusePolicyHolds` (with eFUSEs programmed, what runs comes from tables
verified under keys in force, and was encrypted if that is asked for);
`SignersInForce` (a signed partition runs only under keys in force, although its own
certificate is never compared with the eFUSE hashes); `HandoffListOK`; `R5UsageKnown`;
`LoadedCodeSurvives` (what was put into a TCM is not wiped by the set-up for a later
partition); `AtfTableIsCurrent` (the trusted firmware gets the table of the image that
is handed over); `FsblMeasuredWithTables` (what is loaded by headers comes after an
event of the FSBL with these headers in its memory, or of zeros, with a second device
too); `EndlessWaitIsGuarded` (from the set-up of the boot device on, the watchdog is
armed wherever the FSBL may wait for ever); `PlMeasured` (the last bitstream event is of
the bitstream in the PL, or of zeros); `SoundImageIsKept` (when nothing fails but the
images, no fallback leads over an image that passes its own checks, and its boot is
neither refused nor left waiting for the PMU, whatever the refused ones left behind);
`LabelsGoByOrder` (what each of the four partition
labels tells follows from the image and the kind of reset alone, so that it can be
foretold: the k-th partition to be measured, or zeros if its hash failed, and nothing
left by an image that was refused, an R5 started early or a boot before a restart).
Action property: `MeasuredBeforeRun`, a core is only ever started on bytes that are
in the log by then, or that lie in the place of a partition under whose own label the
log shows zeros. `BootIsMeasured`, the refinement of `MeasuredChain`, says of all resets
that what is started is recorded unless the record shows a measurement that failed, and
adds that the log of a boot begins with the ROM and only grows, that nothing
is recorded once the FSBL has left, and that no core is started twice. It also says what
does not hold: after a restart of the APU alone an R5 runs on although its event is gone
from the log, whose pointer starts over.
Liveness: `BootSettles` (a boot hands over or stops where the error path says),
`WatchdogFallsBack` (an image that hung is not tried again), `FirstSoundImageRuns`. The
first two make an exception of stage 1: on its way to line 917, where the watchdog is
armed, it polls the isolation blocks (`xfsbl_initialization.c:813`), the PMU
(`xfsbl_misc.c:560`, `:596`) and the ADMA (`xfsbl_initialization.c:665`) without a limit,
and a boot that hangs there hangs for good (`pc = "INITHUNG"`), also one that the watchdog
of the boot before has brought about.

Of the load of a signed bitstream: `PlTypeOK` (with the bound of the hash buffer);
`SignedWhenCompared`, what went to the PL is for the place it took and, although it was
read after its signature was checked, is as it was signed as soon as a whole SHA3 block
with it was compared (the words behind the last such block of a data block never are, see
the run `ChunkTail`); `IntactIsLoaded`, an untouched bitstream is
refused for a device or for a block of too many chunks only, so the lengths that
`XFsbl_SecPlPartition`, `XFsbl_PlSignVer`, `XFsbl_ReAuthenticationBlock` and
`XFsbl_DecrptPl` work out separately agree; `DecryptedToTheEnd`, success means the last
header was opened and nothing is left over; `LoadsAsPromised`, the refinement of
`AuthenticatedLoad`.

Of the load of an unsigned bitstream: `PlMeasureTypeOK`; `MeasuredAsPromised`, the
refinement of `MeasuredLoad`: the event is recorded once, when the PL has got all
words, whatever other masters write and whatever fails, and it is of these words and no
others, or of zeros if the hash engine failed; `LoadEnds`.

Of copies out of the QSPI: `QspiTypeOK`; `CopiesAsPromised`, the refinement of
`FlashCopy`, over bank registers that hold anything at the start; `CopiesReturn`.

## 4. Runs

| Run | Shows | Bounds |
|---|---|---|
| `Boot` | images as boards use them, one tampered with, all faults but short reads | 3 flash images, 5 partitions, 2 restarts |
| `Broken` | fallback over 23 images, each refused at another place; the 24th is sound, is never refused and runs, and has as many partitions as a table may have | no faults but the images; 31 partitions, 5 restarts |
| `Early` | the early handoff build, faults, one restart | 3 images, R5s before, between and after others |
| `Secure` | programmed eFUSEs with one key revoked, second device, all boot modes, short reads | 11 flash images and one on the second device, one restart |
| `PlAuth` | a signed bitstream, plain or encrypted, against writes of other masters | chunk 4, SHA3 block 3, certificate 2, header 3, two hashes, blocks of 7 and 16, two writes |
| `Qspi` | copies of every kind on 12 boards: single, stacked, parallel, three and four address bytes, six makes | bank 8, die 16, alignment 8, transfer 16; 72 calls, one after another |
| `PlMeasure` | 72 bitstreams, plain and encrypted, with and without DDR and faults, against writes of other masters | SHA3 block 3, buffer 2, header 3, tag 1, two writes |

The bounds are enough to reach what the properties are about. With three images a
fallback follows a fallback and leaves something to boot; two restarts allow a
restart of the APU alone on top of a PS-only reset, and the same kind twice; the
labels run out after four partitions and the images of `Boot` stay below that on
purpose (the run `FifthPartition` goes past it). `Broken` uses the header table's own
limit of 32, not a smaller one; with five restarts the log would overflow if any
kind of restart kept the pointer. The images of `Secure` have certificates under a
good, a revoked, an unknown and a withdrawn key in every place a certificate is looked
at. The bitstreams of `PlAuth` end before, at and after the border of a chunk and
of a block, for one, two and three blocks of two chunks; encrypted ones have headers
at every place of a chunk, cut or whole; blocks of 16 words have chunks that fill the
hash buffer, or one and two too many. A chunk is no multiple of a SHA3 block, as 56 KB is
none of 104 bytes, so each chunk leaves another tail to the next. Those of `PlMeasure`
are smaller than, as large as and larger than the buffer and a SHA3 block, and the
encrypted ones have sizes that agree with their block headers and sizes that do not. Two
writes are a change and its undoing, or two words, at any moments. The calls of `Qspi`
start before, at and behind the borders of a bank, of a die and of a chip, with lengths
that reach over none, one and two of them, and past the end of the flash.

Faults: `fail` lets any operation that can be refused be refused, the SHA3 driver
included, `hang` lets it never answer, in the polls of stage 1 too, `late` lets the
watchdog expire at any moment, `short` lets a copy end too soon with success. Deadlock
checking is off in every run because a boot, a load and a sequence of copies may end:
the FSBL jumps away, waits for an event, or the boot ROM gives up; a load is done or
refused. Instead `BootSettles`, `LoadEnds` and `CopiesReturn` say where they may end.

Runs that end in a violation, each a place where the code and a text about it part:

| Run | Text | What happens |
|---|---|---|
| `FifthPartition` | every partition digest becomes an event | the fifth is started without one |
| `ChunkTail` | each chunk is authenticated again and compared | the digest of a chunk leaves out its last bytes: they are sent before anything covers them, and those at the end of a block are compared with nothing |
| `ShortRead` | success means a successful copy | a file that ends too soon is copied with success; after a fallback a core starts on bytes of the image before |
| `PrintOff` | by default there are no debug prints | without them the reader of the log loses its place after the fourth partition and never ends |
| `PlPadding` | the hash is padded and read on complete data | the block loop of an encrypted bitstream does not tell the driver what it hashed, so the padding is that of an empty message |

`MeasuredBeforeRun` also fails for a partition that runs in place: its length is 0, so
the digest is one of no bytes (`src/fsbl_measured_boot.c:128`), and `PlMeasured` for a
signed bitstream: the call that would record its digest is commented out
(`src/xfsbl_plpartition_valid.c:600`) and `src/fsbl_measured_pl.c` marks it as still to
be done. `LoadedCodeSurvives` fails for an image that goes back to an R5 after a
partition for the other one: the TCM status word is assigned and not merged
(`src/xfsbl_initialization.c:1897`), against the comment at `src/xfsbl_main.h:96`. These
properties hold for images without these features, and the passing runs use such images.
Other places where the code and its comments part, without a run of their own:
`xfsbl_authentication.c` lines 75-77 say that SPK revocation is checked unless it is
the boot header's authentication, and the code checks it in both; after a restart of
the APU alone, partitions with no CPU in their header are skipped although "no CPU"
means the running one everywhere else (`xfsbl_image_header.c:637` and `:656`); the FSBL
is measured with variables that hold the reset reason (`fsbl_measured_boot.c:103`), while
`xfsbl_initialization.c:1404` calls its data deterministic there.

Every property of a passing run has a mutant: a definition of the code changed as a
bug would, which the run must catch. The mutated forms stand beside the definitions
they replace.

## 5. Fairness

`Fsbl!FairSpec` adds weak fairness of `FsblStep` (a processor executes; a step that waits
for an answer is not enabled until it came), of `PmuAnswers` (a PMU that is not dead
answers; `PmuDies` may come first), of `SoftReset` (a requested reset happens) and of
`WdtExpire` (a counter left alone runs out). Software that was started owes nobody a
reset, so there is no fairness on its requests. A fault needs none: an operation may
hang, and the watchdog is then what makes progress, but in stage 1, where nothing does.

`QspiCopy!FairSpec` has weak fairness of `Transfer \/ CopyEnds`, so a copy that was
begun goes on; nobody has to ask for one. `PlMeasure!FairSpec` has it of `Step`, the
FSBL's own steps and its DMA; the writes of other masters are not in it.

## 6. Proofs

For every set of images, eFUSE setting, build option, fault and bound, from the named
assumptions of `FsblState`, `Authentication` and `EventPrint` (which TLC evaluates in
every run of `Fsbl`) and, where nothing else is said, no others:

* `FsblProofs!TypeCorrect`: `Spec => []TypeOK`. `TypeOK` is not inductive: that the
  image number stays among the images needs that the FSBL only ever runs with the
  multiboot register inside the flash, and that the partition number stays below 32
  needs that stage 3 runs only on accepted tables (or with the headers unread,
  where the first header is refused). `Flow` states these, and `TypeInv` is
  `TypeOK /\ Flow`. One lemma per action, and lemmas that the log's operators and
  the handoff list keep their types.
* `LogProofs!LogAlwaysFits`: `Spec => []LogFits`. `event_log_record` checks nothing,
  so the bound is an argument about control: header and ROM once per boot, at most
  two FSBL events, at most one event per partition and at most 31 partitions, each
  of at most 83 bytes. `LogInv` bounds the pointer by the place the boot has got to,
  for the saved copy too, since a restart of the APU alone continues from it.
* `LogProofs!LogKeepsItsForm`: `Spec => []LogWellFormed`. `FormInv` says that a log that
  was begun has its header and the ROM event at the start and nowhere else, each label
  below the counter once and none from the counter on, and that a boot past stage 1 has
  begun its log. A restart of the APU alone keeps the buffer and sets the pointer back to
  a saved zero: it is `LogInv` that says so, and the next record starts the buffer anew.
* `LogProofs!FsblIsMeasuredWithTables`: `Spec => []FsblMeasuredWithTables`. `TablesInv`
  says that while partitions are loaded with headers read, the last event of the FSBL is
  of its memory with these headers, or of zeros: a table that names a second device
  records one too, and leaves the headers unread, so that nothing is loaded until the
  second is recorded.
* `PolicyProofs!EfusePolicyKept`: `Spec => []EfusePolicyHolds`. That a core is started
  on permitted code is not inductive: a refused image leaves its bytes in memory and the
  entry of a later one may point at them. `PolicyInv` holds all of memory to the policy:
  bytes get there only under tables that were verified and a header that was checked.
* `PolicyProofs!AtfTableKept`: `Spec => []AtfTableIsCurrent`. `TableInv` says that the
  headers count as unread wherever the table may be older than they are: at the start of
  a boot but one of the APU alone, in the data saved for that one, and up to the end of
  `XFsbl_ValidateHeader`.
* `PolicyProofs!R5UsageMarked`: `Spec => []R5UsageKnown`. Two things come together.
  `SourceInv`: an R5 that runs is named by a partition of the image that the multiboot
  register leads to, which holds over a restart of the APU alone because that register is
  only moved on the way to a reset of all cores. `MarkInv`: the loop marks for every
  partition that it passes, loaded or not, and a boot ends with a jump only behind the
  last one, since an early handoff never takes the entry of the running CPU.
* `FsblProofs!HandoffListBounded`: `Spec => []HandoffListOK`. `HandoffInv` says that
  the CPUs in the list are distinct and among the eight that a checked header can name,
  for the saved list as well; an injection into these eight bounds its length.
* `FsblProofs!WaitsAreGuarded`: `Spec => []EndlessWaitIsGuarded`. `GuardInv` says
  at which places the watchdog is armed in a flash boot, and that nothing between
  arming it and the end of the boot disarms it. Stage 1 is before all of these places,
  and the property says nothing of it.
* `AcceptanceProofs!NothingRejected`: `Spec => []NothingRejectedRuns`, and
  `AcceptanceProofs!SignersKept`: `Spec => []SignersInForce`, both from `SoundFlash`.
  They do not hold for every flash: the bytes of a refused partition stay in memory, and
  nothing stops an entry of a later image from pointing at them; what runs is then what
  that image asks for. `SoundFlash` says what the code relies on: the code of a partition
  is not written over by another one of its image, and each CPU starts where the image
  loads code for it (`WellPlaced`); tables on a second device are authenticated if those
  that name the device are (`SecondAuthenticated`); no copy ends too soon with success.
  The images of `Boot`, `Early` and `Secure` satisfy it. `AcceptInv` follows a payload
  through the loop: `KeyInv`, the key kept is the one of the current image's boot header,
  although it is kept before that header is accepted and outlives a fallback on a second
  device; `PassInv`, what was copied is what is validated; `MemInv`, each partition passed
  has accepted code at its load address, which later partitions leave alone or fill as a
  whole; `ListInv`, an entry of the list, also one made for a partition in place, is of a
  partition passed; `RunInv`, so what runs is accepted.
* `AcceptanceProofs!SoundImagesKept`: `Spec => []SoundImageIsKept`, for every flash, all
  eFUSEs and any number of restarts, from `NothingFails`: the set of faults is empty and
  the build prints. Each of the faults can refuse a sound image, and a build that does
  not print may hang in its own log (the run `PrintOff`). `KeptImageInv` adds to the
  copied and listed partitions what a boot finds of the boots before it. `StatusInv`: the
  error status tells how the last one ended, so that the watchdog's fallback is not taken
  over a sound image, and each record of the log has the length its reader steps over.
  `HeadersInv`: headers are read before the loop, and the key kept is the one of this
  image's boot header, not a refused one's. `PmuInv`: where the loop waits for the PMU to
  sleep, this partition or one right before it has asked it to, with no early handoff in
  between. `SoundAhead`: the multiboot register has not passed a sound image. That the
  image is then also run is the liveness of `FirstSoundImageRuns`.
* `MeasureProofs!MeasuredRuns`: `Spec => MeasuredBeforeRun`, from `MeasurableFlash`,
  also when copies end too soon and with any set of faults. The assumption excludes what
  section 4 shows to break it, and no more: code placed as above, nothing run in place, at
  most four partitions to measure (a fifth finds no label), and the TCM of an R5 brought
  in one go (another R5's partition in between has the first one's TCM initialised again).
  The images of `Boot` and `Early` satisfy it. `CountInv` ties the next label to the
  number of measurable partitions passed, so a label is left for the one at hand, unless
  the log was cleared with it; `NotedInv`, each partition passed has its bytes in memory
  and, in the log, their event or zeros under the label its place among the measured
  ones gives it, and its TCM stays initialised until another R5's is; with `ListInv` the
  core started begins inside one of them.
* `MeasureProofs!BootKeepsChain`: `Spec => BootIsMeasured`, the refinement of
  `MeasuredChain`, from `MeasurableFlash` and `OwnCores`: no image has a partition for
  the R5s in lockstep and one for a single R5, since the list has an entry for each and
  would start the core twice. `CoresInv`: a core that runs while the FSBL boots was
  started from an entry that the passes over the list have left behind, early handoff's
  own index included, or it is an R5 that ran on over a restart of the APU alone, and
  then the list has no R5. So what is started did not run, and until the jump the running
  core is still the boot loader's, which is why nothing is recorded after it. An event
  of zeros, once in the log, stays there, so code that is not recorded for want of a
  digest is accounted for until a reset. With `LogInv` and `FormInv` a record begins
  with the ROM's event and is given up only by a reset.
* `MeasureProofs!BitstreamsMeasured`: `Spec => []PlMeasured`, from `UnsignedBitstreams`,
  since nothing is recorded of a signed one. `BitstreamInv` says that a boot which takes
  its reset for one of the system finds the PL empty, and that the PL is from then on
  empty or has the last bitstream event, of it or of zeros: the event comes before a
  later step may fail, and an image that is fallen back from is followed by a reset that
  empties the PL.
* `MeasureProofs!LoadedCodeKept`: `Spec => []LoadedCodeSurvives`, from `WholeFlash`: no
  copy ends too soon and each image brings the TCM of an R5 in one go (`InOneGo`).
  `KeptInv` says that the memory of each partition passed holds something other than the
  fill pattern, and that the TCM status of its bank stands as long as no other R5's was
  set up. A restart of the APU alone passes the R5s'
  partitions over and relies on the boot before: `ApuInv` says that the PMU firmware's
  bit tells such a restart and that no reset of the system is under way with it, so it is
  the same image, and what that image left in a TCM is there.
* `MeasureProofs!LabelsFollowOrder`: `Spec => []LabelsGoByOrder`, for every flash, unless
  copies end too soon. `BytesInv`: where a partition is measured its bytes lie in memory,
  decrypted. `LabelInv` ties what each label tells to the partitions passed: label k holds
  the digest of the k-th of those that are measured, or zeros, and nothing else, and
  `CountInv` has the counter one behind their number, up to four. It starts
  anew with each boot because a log that is begun again drops all events, those that
  an APU restart leaves in the buffer as well (`FormInv`, `LogInv`).
* `PlProofs`, from `PlSizes` alone, so for all lengths, chunk and block sizes, layouts
  of headers and any number of writes: `PlTypeCorrect` (`PlTypeOK`),
  `ComparedWordsAreSigned` (`SignedWhenCompared`), `WholeBitstreamIsDecrypted`
  (`DecryptedToTheEnd`) and `LoadKeepsPromise`, which is `Spec => LoadsAsPromised`.
  None of these is inductive. Of the second reading all that matters is the set `F` of
  places where it found words that are not as signed, and `LoadInv` says that there is
  one with `PlInv(F) /\ GuardInv(F)`. `PlInv(F)` adds to the types: where the block loop
  stands and how long the block is (`BlockInv`); that the digests kept are, once the
  signature was found right, of the whole SHA3 blocks of signed words, and that what the
  driver was given again is a row of words with those of `F` changed (`HashInv`); that
  the words sent, a part of a header kept and the words left of the chunk are of that row
  and follow each other up to where the loops stand (`SentInv`); that the AES engine is
  as far into the encrypted blocks as words were sent (`AesInv`). `GuardInv(F)` bounds
  `F`: a place in a whole SHA3 block is in it only if that block reaches behind what was
  sent and compared, none lies before the last secure header the engine opened, since the
  tag covers all that came before, and without a write there is none at all. So the
  success of an encrypted load leaves `F` empty, and that of a plain one leaves in it
  only tails of data blocks. Memory appears nowhere in `PlInv`: this is why writes cannot
  break it. The lemmas below it are about rows of words (a part of a row is one, rows
  that meet join) and about the division of a block into chunks.
* `PlProofs!IntactBitstreamIsLoaded`: `Spec => []IntactIsLoaded`. Here memory does
  appear: `IntactInv` says, beside `PlInv`, that with no write so far the certificate and
  the words hashed are as signed, that the certificates lie one behind the other, and
  that the engine has the device key for the first header and the updated key for every
  other. What is left is arithmetic: the length that the block loop works out is the one
  that was signed, and the words sent, when a block is used up, end where the layout has
  the next header.
* `PlMeasureProofs`, from `PlMeasureSizes`, so for all bitstreams and sizes and any
  number of writes: `PlMeasureTypeCorrect` (`PlMeasureTypeOK`) and
  `MeasuringKeepsPromise`, which is `Spec => MeasuredAsPromised`. `MeasureInv` adds to
  the types how the switch is set at each place (`PathInv`, `RouteInv`), that the SHA3
  engine was fed the very words that the PL took (`StreamInv`), how many words each loop
  has left (`PlainLengths`, `EncryptedLengths`, `WholeInv`), and what a status, a digest
  and an event tell of them (`MadeInv`, `DigestInv`, `StatusInv`, `LogInv`).
* `QspiProofs`, from `QspiSizes`, `CallsAreWords`, and, for the refinement, boards that
  are all `Supported`: `QspiTypeCorrect` (`QspiTypeOK`) and `CopiesKeepPromise`, which
  is `Spec => CopiesAsPromised`. `CopyInv` says where the loop stands and that what lies
  before that place is there and nothing else was written; the lemmas are about
  division: a transfer that was cut at a bank, a die or a chip reads the addresses of
  one chip in a row. `Supported` names the boards on which the driver selects the bank
  it means to; the makes it sends no bank command to are among the `hazards` without a
  property.

Each proof shows that the strengthened invariant holds initially and is kept by every
action, then concludes by `PTL`. `TypeInv` is shared by the
five modules about `Fsbl`.

Every invariant, action property and refinement that a passing run checks is stated by a
theorem. Model-checked only: everything with fairness (`BootSettles`,
`WatchdogFallsBack`, `FirstSoundImageRuns`, `LoadEnds`, `CopiesReturn`), which is out of
the prover's reach.

## 7. Not modelled

Nearly all lines of `src/` are generated or vendored: `psu_init.c` and `.h` (twice),
`xfsbl_ddr_init.c` and the drivers and file system under `zynqmp_fsbl_bsp/`. They are
tables of register values and third-party code without logic of the boot loader, and
what the FSBL sees of them, that they may be refused or never answer, is in `Fsbl`. So
the share of all lines that is modelled stays small, while nearly all of the boot
loader's own control is.

* Board, hooks, power and protection set-up: single operations that may be refused.
* `xfsbl_nand.c`, which this build leaves out (no `XPAR_XNANDPSU_0_BASEADDR`): its loop
  only skips bad blocks in front of the driver's read.
  `xfsbl_sd.c` beyond the copy: the file name is made from the multiboot register, and
  the images of `Fsbl` are numbered by that register.
* USB with its DFU machine (`xfsbl_usb.c`, `xfsbl_dfu_util.c`), the discrete TPM
  (`xfsbl_tpm.c`) and the R5 builds are other configurations. In this build a boot mode
  of USB is an error; its endless loop is not, since the watchdog armed before it
  (`xfsbl_initialization.c:917`) resets the system for ever.
* The initialization of the QSPI controller, which may fail before any copy.
* Caches. The error returns of `XFsbl_SecPlPartition` leave the data cache off
  (`xfsbl_plpartition_valid.c:234`), which slows down the error path and changes nothing
  else there.
* The digest of an encrypted bitstream covers IVs, secure headers and tags as they were
  read; that it cannot be compared with one of the bitstream before encryption is a fact
  about the format and no property. In a build for a board without DDR, encrypted
  bitstreams go through `XSecure_AesDecrypt` and are not measured at all; `PlMeasure` has
  the builds in which they are.
* Event log printing and banners beyond the steps of the reader.

## 8. Plan

What is left, in order:

1. The links between the models stated as refinements: the single step of `Fsbl` that
   copies or loads a bitstream replaced by `FlashCopy`, `AuthenticatedLoad` and
   `MeasuredLoad`.
2. A build with `XFSBL_NAND`: skipping bad blocks as another `FlashCopy`.
