---------------------------- MODULE MeasureProofs ----------------------------
(***************************************************************************)
(* What is started, and what the PL is configured with, was measured       *)
(* before, or the log shows that its measurement failed, whatever the      *)
(* device delivers, if an image is one that can be measured: of such       *)
(* images the boot loader implements the chain of measured boot.           *)
(***************************************************************************)
EXTENDS AcceptanceProofs

(***************************************************************************)
(* Nothing is started that was not measured, but for a partition whose     *)
(* label shows that its measurement failed, whatever the device delivers,  *)
(* if an image places its code, runs none in place, has no more partitions *)
(* to measure than there are labels, and brings the TCM of an R5 in one go *)
(* (in between, the core of another R5 would have its own initialised, and *)
(* the bits of the first are lost: its code is wiped when it goes on).     *)
(***************************************************************************)
Measurable(h) == h.owner = 0 /\ h.dev # DEVICE_PL
Brought(h) == h.owner = 0 /\ h.dev # DEVICE_PL /\ ~IsXip(h)
InOwnTcm(h) == h.owner = 0 /\ ~IsXip(h) /\ InTcm(DestinationCpu(h), h.load)
MeasurableTo(im, n) == {p \in 1 .. n : Measurable(im.ph[p])}

InOneGo(im) ==
  \A p, q \in 1 .. (im.n - 1) : \A r \in p .. q :
    /\ InOwnTcm(im.ph[p]) /\ InOwnTcm(im.ph[q]) /\ InOwnTcm(im.ph[r])
    /\ Cores(im.ph[p].cpu) \cap Cores(im.ph[q].cpu) # {}
    => im.ph[r].cpu = im.ph[q].cpu

MeasurableFlash ==
  /\ PlacedFlash
  /\ \A i \in ImageIndex :
       /\ \A p \in 1 .. (Images[i].n - 1) : Images[i].ph[p].owner = 0 => ~IsXip(Images[i].ph[p])
       /\ Cardinality(MeasurableTo(Images[i], Images[i].n - 1)) <= Len(PartitionLabel)
       /\ InOneGo(Images[i])

(***************************************************************************)
(* A partition is noted when its bytes are in memory and their event is in *)
(* the log, or one of zeros is under its label.  Its TCM stays initialised *)
(* until another R5's is.                                                  *)
(***************************************************************************)
OtherTcmSince(p) ==
  \E r \in (p + 1) .. PartitionNum :
    InOwnTcm(CurImage.ph[r]) /\ CurImage.ph[r].cpu # CurImage.ph[p].cpu
Noted(p) ==
  LET h == CurImage.ph[p] IN
  IsCode(h) /\ Taken(h) =>
    /\ mem[LoadedAt(h)] \in Measured \/ NoDigest \in ToldOf(Rank(p))
    /\ CheckValidMemoryAddress(h.load, DestinationCpu(h), h.dev)
    /\ InOwnTcm(h) => Cores(h.cpu) \subseteq FsblInstance.ecc \/ OtherTcmSince(p)

NotedInv ==
  /\ InLoop /\ FsblInstance.hdr => \A p \in 1 .. (PartitionNum - 1) : Noted(p)
  /\ pc \in AfterEvent /\ FsblInstance.hdr => \A p \in 1 .. PartitionNum : Noted(p)
  /\ pc \in {"LOAD", "CHECK", "FINISH"} /\ ~IsPl /\ InOwnTcm(Hdr) =>
       Cores(Hdr.cpu) \subseteq FsblInstance.ecc

(***************************************************************************)
(* The counter of the labels is as far as the partitions that were passed. *)
(***************************************************************************)
CounterBehind(n) == IF n < Len(PartitionLabel) THEN n + 1 ELSE Len(PartitionLabel) + 1
CountedTo(n) == log.partition = CounterBehind(Rank(n))
CountInv ==
  /\ pc \in BeforeEvent /\ FsblInstance.hdr => CountedTo(PartitionNum - 1)
  /\ pc \in AfterEvent /\ FsblInstance.hdr =>
       PartitionNum \in 1 .. LastPartition /\ CountedTo(PartitionNum)

-----------------------------------------------------------------------------
(***************************************************************************)
(* What a record adds to the events that the log holds.                    *)
(***************************************************************************)
Under(L, k) == {L.buf[e].data : e \in Labelled(L, PartitionLabel[k])}

LEMMA ToldUnder ==
  ASSUME NEW k
  PROVE  /\ k \in 1 .. 4 => ToldOf(k) = Under(log, k) /\ ToldOf(k)' = Under(log', k)
         /\ k \notin 1 .. 4 => ToldOf(k) = {} /\ ToldOf(k)' = {}
<1>1. DOMAIN PartitionLabel = 1 .. 4
  BY DEF PartitionLabel
<1> QED
  BY <1>1 DEF ToldOf, Under, EventsNamed, Labelled

\* A record leaves the ones before it where they are.
LEMMA RecordKeeps ==
  ASSUME NEW L \in Log, L.ptr # 0, NEW label, NEW pcr, NEW c
  PROVE  LET M == event_log_record(L, label, pcr, c) IN
         /\ \A k \in DOMAIN L.buf : k \in DOMAIN M.buf /\ M.buf[k] = L.buf[k]
         /\ Len(L.buf) + 1 \in DOMAIN M.buf
         /\ M.buf[Len(L.buf) + 1].name = label /\ M.buf[Len(L.buf) + 1].data = c
<1> DEFINE M == event_log_record(L, label, pcr, c)
           e == [name |-> label, pcr |-> pcr, data |-> c, size |-> EventSize(label)]
<1>1. L.buf \in Seq(Event)
  BY DEF Log
<1>2. M.buf = L.buf \o << e >>
  BY DEF event_log_record, WriteAtPointer, Written
<1>3. e.name = label /\ e.data = c
  OBVIOUS
<1> HIDE DEF M, e
<1>4. /\ DOMAIN M.buf = 1 .. (Len(L.buf) + 1) /\ DOMAIN L.buf = 1 .. Len(L.buf)
      /\ \A k \in 1 .. Len(L.buf) : M.buf[k] = L.buf[k]
      /\ M.buf[Len(L.buf) + 1] = e
      /\ Len(L.buf) \in Nat
  BY <1>1, <1>2
<1>5. /\ \A k \in DOMAIN L.buf : k \in DOMAIN M.buf /\ M.buf[k] = L.buf[k]
      /\ Len(L.buf) + 1 \in DOMAIN M.buf
      /\ M.buf[Len(L.buf) + 1].name = label /\ M.buf[Len(L.buf) + 1].data = c
  BY <1>3, <1>4
<1> QED
  BY <1>5 DEF M

LEMMA PartitionKeeps ==
  ASSUME NEW L \in Log, L.ptr # 0, NEW c
  PROVE  LET M == Tpm_Measure_Partition(L, c) IN
         \A k \in DOMAIN L.buf : k \in DOMAIN M.buf /\ M.buf[k] = L.buf[k]
<1> DEFINE M == Tpm_Measure_Partition(L, c)
           N == event_log_record(L, PartitionLabel[L.partition],
                                 PartitionPcr[L.partition], c)
<1>1. \A k \in DOMAIN L.buf : k \in DOMAIN N.buf /\ N.buf[k] = L.buf[k]
  BY RecordKeeps
<1>2. N = [buf |-> N.buf, ptr |-> N.ptr, partition |-> N.partition]
  BY DEF event_log_record, WriteAtPointer
<1>3. M = [N EXCEPT !.partition = @ + 1] \/ M = L
  BY DEF Tpm_Measure_Partition
<1> HIDE DEF M, N
<1>4. M.buf = N.buf \/ M = L
  BY <1>2, <1>3
<1>5. \A k \in DOMAIN L.buf : k \in DOMAIN M.buf /\ M.buf[k] = L.buf[k]
  BY <1>1, <1>4
<1> QED
  BY <1>5 DEF M

\* What the counter says is under the label it picks, and no other one changes.
LEMMA PartitionUnder ==
  ASSUME NEW L \in Log, L.ptr # 0, Formed(L), NEW c
  PROVE  LET M == Tpm_Measure_Partition(L, c) IN
         /\ L.partition = 5 => M = L
         /\ L.partition # 5 => M.partition = L.partition + 1
         /\ L.partition # 5 => Under(M, L.partition) = {c}
         /\ \A k \in 1 .. 4 : k # L.partition => Under(M, k) = Under(L, k)
<1> DEFINE n == L.partition
           M == Tpm_Measure_Partition(L, c)
           N == event_log_record(L, PartitionLabel[n], PartitionPcr[n], c)
<1>1. n \in 1 .. 5 /\ Len(L.buf) \in Nat
  BY DEF Log
<1>2. CASE n = 5
  BY <1>2 DEF Tpm_Measure_Partition, PartitionLabel
<1>3. CASE n # 5
  <2>1. n \in 1 .. 4 /\ M = [N EXCEPT !.partition = @ + 1]
    BY <1>1, <1>3 DEF Tpm_Measure_Partition, PartitionLabel
  <2>2. PartitionLabel[n] \in Label
    BY <2>1 DEF PartitionLabel, Label, NameLen
  <2>3. /\ N = [buf |-> N.buf, ptr |-> N.ptr, partition |-> N.partition]
        /\ N.partition = n
    BY DEF event_log_record, WriteAtPointer
  <2>4. /\ \A k \in DOMAIN L.buf : k \in DOMAIN N.buf /\ N.buf[k] = L.buf[k]
        /\ N.buf[Len(L.buf) + 1].data = c
    BY RecordKeeps
  <2>5. /\ Labelled(N, PartitionLabel[n]) = Labelled(L, PartitionLabel[n]) \cup {Len(L.buf) + 1}
        /\ \A other : other # PartitionLabel[n] => Labelled(N, other) = Labelled(L, other)
    BY <2>2, RecordLabels
  <2> HIDE DEF M, N
  <2>6. M.buf = N.buf /\ M.partition = n + 1
    BY <2>1, <2>3
  <2>7. \A x : Labelled(M, x) = Labelled(N, x)
    BY <2>6 DEF Labelled
  <2>8. Under(M, n) = {c}
    <3>1. Labelled(L, PartitionLabel[n]) = {}
      BY <1>1, <2>1 DEF Formed
    <3> QED
      BY <2>4, <2>5, <2>6, <2>7, <3>1 DEF Under
  <2>9. ASSUME NEW k \in 1 .. 4, k # n
        PROVE  Under(M, k) = Under(L, k)
    <3>1. PartitionLabel[k] # PartitionLabel[n]
      BY <2>1, <2>9 DEF PartitionLabel
    <3>2. Labelled(M, PartitionLabel[k]) = Labelled(L, PartitionLabel[k])
      BY <2>5, <2>7, <3>1
    <3>3. \A e \in Labelled(L, PartitionLabel[k]) : M.buf[e] = L.buf[e]
      BY <2>4, <2>6 DEF Labelled
    <3> QED
      BY <3>2, <3>3 DEF Under
  <2> QED
    BY <1>3, <2>6, <2>8, <2>9 DEF M
<1> QED
  BY <1>2, <1>3

\* A bitstream's event is under none of these labels.
LEMMA BitstreamUnder ==
  ASSUME NEW L \in Log, L.ptr # 0, NEW c, NEW k \in 1 .. 4
  PROVE  /\ Under(Tpm_Measure_Pl(L, c), k) = Under(L, k)
         /\ Tpm_Measure_Pl(L, c).partition = L.partition
<1> DEFINE M == Tpm_Measure_Pl(L, c)
<1>1. M = event_log_record(L, "BITSTREAM", 2, c)
  BY DEF Tpm_Measure_Pl
<1>2. "BITSTREAM" \in Label /\ PartitionLabel[k] # "BITSTREAM"
  BY DEF Label, NameLen, PartitionLabel
<1>3. /\ Labelled(M, PartitionLabel[k]) = Labelled(L, PartitionLabel[k])
      /\ M.partition = L.partition
  BY <1>1, <1>2, RecordLabels
<1>4. \A e \in DOMAIN L.buf : M.buf[e] = L.buf[e]
  BY <1>1, RecordKeeps
<1> HIDE DEF M
<1>5. Under(M, k) = Under(L, k)
  BY <1>3, <1>4 DEF Under, Labelled
<1> QED
  BY <1>3, <1>5 DEF M

\* The loop leaves what was recorded, and records a partition in one step only.
LEMMA LoopRecords ==
  ASSUME TypeInv, FormInv, LoopStep
  PROVE  /\ \A k \in DOMAIN log.buf : k \in DOMAIN log'.buf /\ log'.buf[k] = log.buf[k]
         /\ Measured \subseteq Measured'
         /\ \A k : ToldOf(k) \subseteq ToldOf(k)'
         /\ ~MeasurePartition =>
              /\ log'.partition = log.partition
              /\ \A k \in 1 .. 4 : Under(log', k) = Under(log, k)
<1>1. log \in Log /\ log.ptr # 0
  <2>1. pc \in Recording
    BY LoopKeeps DEF InLoop, LoadingPcs, Recording, BeforeEvent, AfterEvent
  <2> QED
    BY <2>1 DEF TypeInv, TypeOK, FormInv
<1>2. \/ log' = log
      \/ PlLoad /\ ~MeasurePartition /\ \E c : log' = Tpm_Measure_Pl(log, c)
      \/ MeasurePartition /\ \E c : log' = Tpm_Measure_Partition(log, c)
  BY DEF LoopStep, PartitionHeaderValidation, PartitionCopy, DeviceCopy,
         PartitionValidation, PlValidation, PlLoad, MeasurePl, EventForPl,
         MeasurePartition, CheckPmuFw, WaitForPmuFw
<1>3. \A k \in DOMAIN log.buf : k \in DOMAIN log'.buf /\ log'.buf[k] = log.buf[k]
  BY <1>1, <1>2, RecordKeeps, PartitionKeeps DEF Tpm_Measure_Pl
<1>4. Measured \subseteq Measured'
  BY <1>3 DEF Measured
<1>5. \A k : ToldOf(k) \subseteq ToldOf(k)'
  BY <1>3 DEF ToldOf, EventsNamed
<1>6. ~MeasurePartition =>
        /\ log'.partition = log.partition
        /\ \A k \in 1 .. 4 : Under(log', k) = Under(log, k)
  BY <1>1, <1>2, BitstreamUnder
<1> QED
  BY <1>3, <1>4, <1>5, <1>6

\* What the partition's event holds, unless the SHA3 driver's assertion stops it.
LEMMA PartitionRecords ==
  ASSUME TypeInv, FormInv, MeasurePartition
  PROVE  /\ pc = "FINISH" /\ pc' \in {"PMUFW", "HUNG"}
         /\ pc' = "PMUFW" /\ log.partition = 5 => log' = log
         /\ pc' = "PMUFW" /\ log.partition # 5 =>
              /\ log.partition \in 1 .. 4
              /\ log'.partition = log.partition + 1
              /\ \E d \in Digests(LoadedBytes) :
                   Under(log', log.partition) = {d} /\ d \in Measured'
              /\ \A k \in 1 .. 4 : k # log.partition => Under(log', k) = Under(log, k)
<1> USE DEF ShaAsserts, Goto
<1>1. pc = "FINISH" /\ pc' \in {"PMUFW", "HUNG"}
  BY DEF MeasurePartition
<1>2. log \in Log /\ log.ptr # 0 /\ Formed(log) /\ log.partition \in 1 .. 5
  BY <1>1 DEF TypeInv, TypeOK, FormInv, Recording, BeforeEvent, Log
<1>3. SUFFICES ASSUME pc' = "PMUFW" PROVE
         /\ log.partition = 5 => log' = log
         /\ log.partition # 5 =>
              /\ log.partition \in 1 .. 4
              /\ log'.partition = log.partition + 1
              /\ \E d \in Digests(LoadedBytes) :
                   Under(log', log.partition) = {d} /\ d \in Measured'
              /\ \A k \in 1 .. 4 : k # log.partition => Under(log', k) = Under(log, k)
  BY <1>1
<1>4. PICK d \in Digests(LoadedBytes) : log' = Tpm_Measure_Partition(log, d)
  BY <1>3 DEF MeasurePartition
<1>5. /\ log.partition = 5 => log' = log
      /\ log.partition # 5 =>
           /\ log'.partition = log.partition + 1 /\ Under(log', log.partition) = {d}
           /\ \A k \in 1 .. 4 : k # log.partition => Under(log', k) = Under(log, k)
  BY <1>2, <1>4, PartitionUnder
<1>6. Under(log', log.partition) = {d} => d \in Measured'
  BY DEF Under, Labelled, Measured
<1> QED
  BY <1>2, <1>5, <1>6

-----------------------------------------------------------------------------
(***************************************************************************)
(* The counter follows the partitions that are measured, over every label. *)
(***************************************************************************)
\* The place of a partition among those that are measured.
LEMMA MeasuredMore ==
  ASSUME NEW n \in Nat \ {0}
  PROVE  /\ Cardinality(MeasuredTo(n - 1)) \in Nat /\ Cardinality(MeasuredTo(n)) \in Nat
         /\ n \in MeasuredTo(n) =>
              /\ MeasuredTo(n) = MeasuredTo(n - 1) \cup {n}
              /\ Cardinality(MeasuredTo(n)) = Cardinality(MeasuredTo(n - 1)) + 1
         /\ n \notin MeasuredTo(n) => MeasuredTo(n) = MeasuredTo(n - 1)
<1> DEFINE S == MeasuredTo(n - 1)
           T == MeasuredTo(n)
<1>1. IsFiniteSet(S) /\ Cardinality(S) \in Nat
  <2>1. IsFiniteSet(1 .. (n - 1)) /\ S \subseteq 1 .. (n - 1)
    BY FS_Interval DEF MeasuredTo
  <2>2. IsFiniteSet(S)
    BY <2>1, FS_Subset
  <2> QED
    BY <2>2, FS_CardinalityType
<1>2. CASE n \in T
  <2>1. T = S \cup {n} /\ n \notin S
    BY <1>2 DEF MeasuredTo
  <2>2. Cardinality(T) = Cardinality(S) + 1
    BY <1>1, <2>1, FS_AddElement
  <2> QED
    BY <1>1, <1>2, <2>1, <2>2
<1>3. CASE n \notin T
  <2>1. T = S
    BY <1>3 DEF MeasuredTo
  <2> QED
    BY <1>1, <1>3, <2>1
<1> QED
  BY <1>2, <1>3

\* While the headers, the image and the reset are the same, so are the passes.
LEMMA SamePasses ==
  ASSUME FsblInstance'.hdr = FsblInstance.hdr, FsblInstance'.img = FsblInstance.img,
         FsblInstance'.reset = FsblInstance.reset, NEW n
  PROVE  /\ MeasuredTo(n)' = MeasuredTo(n) /\ Rank(n)' = Rank(n)
         /\ DigestOf(n)' = DigestOf(n)
BY DEF MeasuredTo, Rank, DigestOf, PH, CurImage

\* A partition that is passed over without its measurement takes no label.
LEMMA PassedUnmeasured ==
  ASSUME LoopStep, PassInv, ~MeasurePartition, NEW n, n = PartitionNum
  PROVE  /\ pc' \in BeforeEvent => pc \in BeforeEvent
         /\ pc \in BeforeEvent /\ pc' \in AfterEvent => n \notin MeasuredTo(n)
<1> USE DEF Faulty, Refused, Unanswered, ShaAsserts, Fail, Goto
<1>1. CASE PartitionHeaderValidation
  BY <1>1
     DEF PartitionHeaderValidation, NextAfterHeader, HeaderStatus, Hdr,
         ValidatePartitionHeader, BeforeEvent, AfterEvent, MeasuredTo
<1>2. CASE PlValidation \/ PlLoad
  <2>1. IsPl /\ pc \in BeforeEvent
    BY <1>2 DEF PlValidation, PlLoad, PassInv, BeforeEvent
  <2>2. n \notin MeasuredTo(n)
    BY <2>1 DEF MeasuredTo, IsPl, Hdr
  <2> QED
    BY <2>1, <2>2
<1>3. CASE ~(PartitionHeaderValidation \/ PlValidation \/ PlLoad)
  BY <1>3
     DEF LoopStep, PartitionCopy, DeviceCopy, PartitionValidation, CheckPmuFw,
         WaitForPmuFw, BeforeEvent, AfterEvent
<1> QED
  BY <1>1, <1>2, <1>3

LEMMA LoopCountInv ==
  ASSUME TypeInv, FormInv, MarkInv, PassInv, CountInv, LoopStep
  PROVE  CountInv'
<1> USE DEF Faulty, Refused, Unanswered, ShaAsserts, Fail, Goto
<1>1. /\ PartitionNum' = PartitionNum /\ LastPartition' = LastPartition
      /\ FsblInstance'.hdr = FsblInstance.hdr /\ FsblInstance'.img = FsblInstance.img
      /\ FsblInstance'.reset = FsblInstance.reset
      /\ InLoop /\ pc' \in LoadingPcs \cup {"ERR", "HUNG"}
  BY LoopKeeps, LoopHeader
<1>2. SUFFICES ASSUME FsblInstance.hdr, NEW n, n = PartitionNum
               PROVE  /\ pc' \in BeforeEvent => CountedTo(n - 1)'
                      /\ pc' \in AfterEvent => CountedTo(n)'
  BY <1>1, CurrentPartition DEF CountInv
<1>3. /\ n \in Nat \ {0} /\ n \in 1 .. LastPartition
      /\ Hdr = PH(n)
  BY <1>1, <1>2, CurrentPartition DEF Hdr, TypeInv, TypeOK
<1>4. /\ pc \in BeforeEvent => CountedTo(n - 1)
      /\ pc \in AfterEvent => CountedTo(n)
      /\ pc \in BeforeEvent \cup AfterEvent
  BY <1>1, <1>2 DEF CountInv, InLoop, LoadingPcs, BeforeEvent, AfterEvent
<1>5. /\ Rank(n - 1) \in Nat /\ Rank(n) \in Nat
      /\ n \in MeasuredTo(n) => Rank(n) = Rank(n - 1) + 1
      /\ n \notin MeasuredTo(n) => Rank(n) = Rank(n - 1)
  BY <1>3, MeasuredMore DEF Rank
<1>6. \A m : Rank(m)' = Rank(m)
  BY <1>1, SamePasses
<1>7. CASE MeasurePartition
  <2>1. pc \in BeforeEvent /\ n \in MeasuredTo(n)
    BY <1>3, <1>7, PartitionRecords
       DEF BeforeEvent, PassInv, ValidatedPcs, Taken, IsPl, MeasuredTo
  <2>2. log.partition = CounterBehind(Rank(n - 1))
    BY <1>4, <2>1 DEF CountedTo
  <2>3. pc' = "PMUFW" => log'.partition = CounterBehind(Rank(n))
    BY <1>5, <1>7, <2>1, <2>2, PartitionRecords DEF CounterBehind, PartitionLabel
  <2> QED
    BY <1>6, <1>7, <2>3, PartitionRecords DEF BeforeEvent, AfterEvent, CountedTo
<1>8. CASE ~MeasurePartition
  <2>1. log'.partition = log.partition
    BY <1>8, LoopRecords
  <2>2. \A m : CountedTo(m) => CountedTo(m)'
    BY <1>6, <2>1 DEF CountedTo
  <2>3. /\ pc' \in BeforeEvent => pc \in BeforeEvent
        /\ pc \in BeforeEvent /\ pc' \in AfterEvent => n \notin MeasuredTo(n)
    BY <1>2, <1>8, PassedUnmeasured
  <2>4. CASE pc \in BeforeEvent /\ pc' \in AfterEvent
    <3>1. CountedTo(n)
      BY <1>4, <1>5, <2>3, <2>4 DEF CountedTo
    <3>2. pc' \notin BeforeEvent
      BY <2>4 DEF BeforeEvent, AfterEvent
    <3> QED
      BY <2>2, <3>1, <3>2
  <2>5. CASE ~(pc \in BeforeEvent /\ pc' \in AfterEvent)
    BY <1>4, <2>2, <2>3, <2>5
  <2> QED
    BY <2>4, <2>5
<1> QED
  BY <1>7, <1>8

\* There is a label for the partition at hand, the one of its place.
LEMMA LabelLeft ==
  ASSUME MeasurableFlash, TypeInv, MarkInv, PassInv, CountInv, pc = "FINISH"
  PROVE  log.partition \in 1 .. 4 /\ log.partition = Rank(PartitionNum)
<1>1. InLoop /\ FsblInstance.hdr /\ pc \in BeforeEvent
  BY DEF TypeInv, Flow, InLoop, LoadingPcs, BeforeEvent
<1>2. /\ PartitionNum \in 1 .. LastPartition /\ LastPartition \in Nat \ {0}
      /\ PartitionNum \in Nat \ {0} /\ CurImage.n - 1 = LastPartition
      /\ FsblInstance.img \in ImageIndex /\ CurImage = Images[FsblInstance.img]
      /\ \A p : PH(p) = CurImage.ph[p]
  BY <1>1, CurrentPartition DEF PH
<1> DEFINE all == MeasurableTo(CurImage, LastPartition)
           passed == MeasuredTo(PartitionNum)
<1>3. PartitionNum \in passed
  BY <1>2 DEF PassInv, ValidatedPcs, Taken, IsPl, Hdr, MeasuredTo
<1>4. /\ Rank(PartitionNum - 1) \in Nat
      /\ Rank(PartitionNum) = Rank(PartitionNum - 1) + 1
  BY <1>2, <1>3, MeasuredMore DEF Rank
<1>5. IsFiniteSet(all) /\ passed \subseteq all
  <2>1. IsFiniteSet(1 .. LastPartition) /\ all \subseteq 1 .. LastPartition
    BY <1>2, FS_Interval DEF MeasurableTo
  <2>2. passed \subseteq all
    BY <1>2 DEF MeasurableTo, MeasuredTo, Measurable
  <2> QED
    BY <2>1, <2>2, FS_Subset
<1>6. Rank(PartitionNum) <= Cardinality(all) /\ Cardinality(all) \in Nat
  BY <1>5, FS_Subset, FS_CardinalityType DEF Rank
<1>7. Cardinality(all) <= Len(PartitionLabel) /\ Len(PartitionLabel) = 4
  BY <1>2 DEF MeasurableFlash, PartitionLabel
<1>8. log.partition = CounterBehind(Rank(PartitionNum - 1))
  BY <1>1 DEF CountInv, CountedTo
<1> HIDE DEF all, passed
<1> QED
  BY <1>4, <1>6, <1>7, <1>8 DEF CounterBehind

-----------------------------------------------------------------------------
(***************************************************************************)
(* What was noted stays: it is not written over, and TCM is initialised    *)
(* for another core, or was before.                                        *)
(***************************************************************************)
LEMMA FillLeaves ==
  ASSUME NEW cpu, NEW other, NEW a \in Address,
         InTcm(other, a) => Cores(cpu) \cap Cores(other) = {}
  PROVE  EccFill(cpu)[LoadSlot(other, a)] = mem[LoadSlot(other, a)]
<1>1. LoadSlot(other, a) \in Slot
  BY SlotTypes
<1>2. CASE ~InTcm(other, a)
  <2>1. LoadSlot(other, a)[1] = 2
    BY <1>2 DEF LoadSlot
  <2> QED
    BY <1>1, <2>1 DEF EccFill
<1>3. CASE InTcm(other, a) /\ other = CPU_R5_1
  <2>1. LoadSlot(other, a)[1] = 1 /\ cpu \notin {CPU_R5_1, CPU_R5_L}
    BY <1>3 DEF LoadSlot, Cores, CPU_R5_0, CPU_R5_1, CPU_R5_L
  <2> QED
    BY <1>1, <2>1 DEF EccFill
<1>4. CASE InTcm(other, a) /\ other # CPU_R5_1
  <2>1. LoadSlot(other, a)[1] = 0 /\ cpu \notin {CPU_R5_0, CPU_R5_L}
    BY <1>4 DEF LoadSlot, InTcm, R5Cpus, Cores, CPU_R5_0, CPU_R5_1, CPU_R5_L
  <2> QED
    BY <1>1, <2>1 DEF EccFill
<1> QED
  BY <1>2, <1>3, <1>4

\* In its own TCM a partition is for the CPU in its header.
LEMMA TcmCpu ==
  ASSUME NEW h, InTcm(DestinationCpu(h), h.load)
  PROVE  DestinationCpu(h) = h.cpu
BY DEF InTcm, DestinationCpu, R5Cpus, ProcessorID, CPU_A53_0, CPU_R5_0, CPU_R5_1, CPU_R5_L

(***************************************************************************)
(* The TCM of an R5 is filled for the partition at hand, where none of the *)
(* partitions before it has its code.                                      *)
(***************************************************************************)
LEMMA OneCpu ==
  ASSUME NEW im, InOneGo(im), NEW p \in 1 .. (im.n - 1), NEW q \in 1 .. (im.n - 1),
         NEW r \in p .. q, InOwnTcm(im.ph[p]), InOwnTcm(im.ph[q]), InOwnTcm(im.ph[r]),
         Cores(im.ph[p].cpu) \cap Cores(im.ph[q].cpu) # {}
  PROVE  im.ph[r].cpu = im.ph[q].cpu
BY DEF InOneGo

LEMMA FillSparesPassed ==
  ASSUME InOneGo(CurImage), TypeInv, MarkInv, PassInv, FsblInstance.hdr,
         pc = "COPY", ~IsXip(Hdr), NeedsEccInit(DestCpu, Hdr.load),
         NEW p \in 1 .. (PartitionNum - 1), CurImage.ph[p].owner = 0, ~IsXip(CurImage.ph[p]),
         InOwnTcm(CurImage.ph[p]) =>
           Cores(CurImage.ph[p].cpu) \subseteq FsblInstance.ecc \/ OtherTcmSince(p)
  PROVE  /\ EccFill(DestCpu)[LoadedAt(CurImage.ph[p])] = mem[LoadedAt(CurImage.ph[p])]
         /\ InOwnTcm(CurImage.ph[p]) => OtherTcmSince(p)
<1> DEFINE h == CurImage.ph[p]
<1>1. /\ PartitionNum \in 1 .. LastPartition /\ LastPartition \in Nat
      /\ Hdr = CurImage.ph[PartitionNum] /\ LastPartition = CurImage.n - 1
  BY CurrentPartition DEF InLoop, LoadingPcs
<1>2. InOwnTcm(Hdr) /\ DestCpu = Hdr.cpu /\ ~(Cores(Hdr.cpu) \subseteq FsblInstance.ecc)
  BY TcmCpu DEF NeedsEccInit, DestCpu, PassInv, ValidatedPcs, Taken, InOwnTcm
<1>3. InOwnTcm(h) => DestinationCpu(h) = h.cpu
  BY TcmCpu DEF InOwnTcm
<1>4. InOwnTcm(h) => Cores(Hdr.cpu) \cap Cores(h.cpu) = {}
  <2> SUFFICES ASSUME InOwnTcm(h), Cores(Hdr.cpu) \cap Cores(h.cpu) # {}
               PROVE  FALSE
    OBVIOUS
  <2>1. \A r \in p .. PartitionNum :
          InOwnTcm(CurImage.ph[r]) => CurImage.ph[r].cpu = Hdr.cpu
    <3>1. p \in 1 .. (CurImage.n - 1) /\ PartitionNum \in 1 .. (CurImage.n - 1)
      BY <1>1
    <3>2. Cores(CurImage.ph[p].cpu) \cap Cores(CurImage.ph[PartitionNum].cpu) # {}
      BY <1>1
    <3>3. InOwnTcm(CurImage.ph[PartitionNum])
      BY <1>1, <1>2
    <3> TAKE r \in p .. PartitionNum
    <3> HAVE InOwnTcm(CurImage.ph[r])
    <3>4. CurImage.ph[r].cpu = CurImage.ph[PartitionNum].cpu
      BY <3>1, <3>2, <3>3, OneCpu
    <3> QED
      BY <1>1, <3>4
  <2>2. h.cpu = Hdr.cpu
    BY <1>1, <2>1
  <2>3. ~OtherTcmSince(p)
    BY <1>1, <2>1, <2>2 DEF OtherTcmSince
  <2> QED
    BY <1>2, <2>2, <2>3
<1>5. h.load \in Address /\ (InTcm(DestinationCpu(h), h.load) => InOwnTcm(h))
  <2>1. p \in PartitionIndex /\ PH(p) = h
    BY <1>1 DEF PH, PartitionIndex, XIH_MAX_PARTITIONS, TypeInv, TypeOK
  <2>2. h \in PartitionHeader
    BY <2>1, HeaderTypes DEF TypeInv
  <2> QED
    BY <2>2 DEF PartitionHeader, InOwnTcm
<1>6. EccFill(DestCpu)[LoadedAt(h)] = mem[LoadedAt(h)]
  BY <1>2, <1>3, <1>4, <1>5, FillLeaves DEF LoadedAt
<1>7. InOwnTcm(h) => OtherTcmSince(p)
  <2>1. InOwnTcm(h) => Hdr.cpu # h.cpu
    BY <1>4 DEF Cores
  <2>2. PartitionNum \in (p + 1) .. PartitionNum
    BY <1>1
  <2> QED
    BY <1>1, <1>2, <2>1, <2>2 DEF OtherTcmSince
<1> QED
  BY <1>6, <1>7

\* What a label tells, it goes on telling.
LEMMA ToldGrows ==
  ASSUME TypeInv, FormInv, LoopStep, NEW p, Rank(p)' = Rank(p)
  PROVE  ToldOf(Rank(p)) \subseteq ToldOf(Rank(p))'
<1>1. PICK k : k = Rank(p)
  OBVIOUS
<1>2. ToldOf(k) \subseteq ToldOf(k)'
  BY LoopRecords
<1> QED
  BY <1>1, <1>2 DEF ToldOf

LEMMA LoopNoted ==
  ASSUME MeasurableFlash, TypeInv, FormInv, MarkInv, PassInv, LoopStep, FsblInstance.hdr,
         NEW p \in 1 .. (PartitionNum - 1), Noted(p)
  PROVE  Noted(p)'
<1> DEFINE h == CurImage.ph[p]
           slot == LoadedAt(h)
<1>1. /\ CurImage' = CurImage /\ FsblInstance'.reset = FsblInstance.reset
      /\ PartitionNum' = PartitionNum /\ InLoop
  BY LoopKeeps, LoopHeader
<1>2. /\ PartitionNum \in 1 .. LastPartition /\ LastPartition \in Nat
      /\ Hdr = CurImage.ph[PartitionNum] /\ LastPartition = CurImage.n - 1
      /\ FsblInstance.img \in ImageIndex /\ CurImage = Images[FsblInstance.img]
  BY <1>1, CurrentPartition
<1>3. OtherTcmSince(p)' = OtherTcmSince(p)
  BY <1>1 DEF OtherTcmSince
<1> SUFFICES ASSUME IsCode(h), Taken(h)
             PROVE  /\ mem'[slot] \in Measured' \/ NoDigest \in ToldOf(Rank(p))'
                    /\ CheckValidMemoryAddress(h.load, DestinationCpu(h), h.dev)
                    /\ InOwnTcm(h) =>
                         Cores(h.cpu) \subseteq FsblInstance'.ecc \/ OtherTcmSince(p)
  BY <1>1, <1>3 DEF Noted, Taken
<1>4. /\ mem[slot] \in Measured' \/ NoDigest \in ToldOf(Rank(p))'
      /\ CheckValidMemoryAddress(h.load, DestinationCpu(h), h.dev)
      /\ InOwnTcm(h) => Cores(h.cpu) \subseteq FsblInstance.ecc \/ OtherTcmSince(p)
  <2>1. Noted(p) /\ Rank(p)' = Rank(p)
    BY LoopKeeps, SamePasses
  <2>2. ToldOf(Rank(p)) \subseteq ToldOf(Rank(p))'
    BY <2>1, ToldGrows
  <2> QED
    BY <2>1, <2>2, LoopRecords DEF Noted
<1>5. p \in 1 .. LastPartition /\ p # PartitionNum /\ PlacedFlash
  BY <1>2 DEF MeasurableFlash
<1>6. CASE mem'[slot] = mem[slot] /\ FsblInstance'.ecc = FsblInstance.ecc
  BY <1>4, <1>6
<1>7. CASE /\ pc = "COPY" /\ ~IsXip(Hdr) /\ NeedsEccInit(DestCpu, Hdr.load)
           /\ mem' = EccFill(DestCpu)
           /\ FsblInstance'.ecc = Cores(DestCpu)
  <2>1. InOneGo(CurImage)
    BY <1>2 DEF MeasurableFlash
  <2>2. mem'[slot] = mem[slot] /\ (InOwnTcm(h) => OtherTcmSince(p))
    BY <1>4, <1>7, <2>1, FillSparesPassed DEF IsCode
  <2> QED
    BY <1>4, <2>2
<1> QED
  BY <1>5, <1>6, <1>7, LoopLeavesCode

\* The bank of the partition at hand is marked.
LEMMA CurrentMarked ==
  ASSUME TypeInv, LoopStep, pc' \in {"LOAD", "CHECK", "FINISH"}, InOwnTcm(Hdr),
         Brought(Hdr),
         pc \in {"LOAD", "CHECK", "FINISH"} => Cores(Hdr.cpu) \subseteq FsblInstance.ecc
  PROVE  Cores(Hdr.cpu) \subseteq FsblInstance'.ecc
<1> USE DEF Faulty, Refused, Unanswered, ShaAsserts, Fail, Goto
<1>1. CASE PartitionCopy
  <2>1. pc' = "LOAD" /\ ConfigureMemory
    BY <1>1 DEF PartitionCopy, InOwnTcm, Brought, IsPl
  <2>2. DestCpu = Hdr.cpu /\ InTcm(DestCpu, Hdr.load)
    BY TcmCpu DEF InOwnTcm, DestCpu
  <2>3. CASE NeedsEccInit(DestCpu, Hdr.load)
    <3>1. FsblInstance'.ecc = Cores(DestCpu)
      BY <2>1, <2>3 DEF ConfigureMemory, TcmEccInitStatus, TypeInv, TypeOK, Instance
    <3> QED
      BY <2>2, <3>1
  <2>4. CASE ~NeedsEccInit(DestCpu, Hdr.load)
    BY <2>1, <2>2, <2>4 DEF ConfigureMemory, NeedsEccInit
  <2> QED
    BY <2>3, <2>4
<1>2. CASE DeviceCopy \/ PartitionValidation
  BY <1>2 DEF DeviceCopy, PartitionValidation
<1>3. CASE ~(PartitionCopy \/ DeviceCopy \/ PartitionValidation)
  BY <1>3
     DEF LoopStep, PartitionHeaderValidation, NextAfterHeader, PlValidation, PlLoad,
         MeasurePartition, CheckPmuFw, WaitForPmuFw
<1> QED
  BY <1>1, <1>2, <1>3

(***************************************************************************)
(* The partition at hand is noted when it is passed: MeasurePartition has  *)
(* what was copied, or the PL or another owner takes it.                   *)
(***************************************************************************)
LEMMA CurrentNoted ==
  ASSUME MeasurableFlash, TypeInv, FormInv, MarkInv, PassInv, CountInv, NotedInv, LoopStep,
         FsblInstance.hdr, pc' \in AfterEvent, NEW p, p = PartitionNum
  PROVE  Noted(p)'
<1> USE DEF Faulty, Refused, Unanswered, ShaAsserts, Fail, Goto
<1>1. /\ CurImage' = CurImage /\ FsblInstance'.reset = FsblInstance.reset
      /\ PartitionNum' = PartitionNum /\ InLoop
  BY LoopKeeps, LoopHeader
<1>2. PartitionNum \in Nat \ {0} /\ Hdr = CurImage.ph[p]
  BY <1>1, CurrentPartition
<1> SUFFICES ASSUME IsCode(Hdr), Taken(Hdr)
             PROVE  /\ \/ mem'[LoadedAt(Hdr)] \in Measured'
                       \/ NoDigest \in ToldOf(Rank(p))'
                    /\ CheckValidMemoryAddress(Hdr.load, DestinationCpu(Hdr), Hdr.dev)
                    /\ InOwnTcm(Hdr) => \/ Cores(Hdr.cpu) \subseteq FsblInstance'.ecc
                                        \/ OtherTcmSince(p)'
  BY <1>1, <1>2 DEF Noted, Taken
<1>3. CASE PartitionHeaderValidation
  <2>1. HeaderStatus(Hdr, FsblInstance.reset, EfuseEncOnly) = "NOT_OWNER"
    BY <1>3 DEF PartitionHeaderValidation, NextAfterHeader, AfterEvent
  <2> QED
    BY <2>1 DEF HeaderStatus, ValidatePartitionHeader, Taken
<1>4. CASE PartitionCopy \/ DeviceCopy \/ PartitionValidation
  BY <1>4 DEF PartitionCopy, DeviceCopy, PartitionValidation, AfterEvent
<1>5. CASE PlValidation \/ PlLoad
  <2>1. IsPl
    BY <1>5 DEF PlValidation, PlLoad, PassInv
  <2> QED
    BY <2>1 DEF IsPl, IsCode
<1>6. CASE MeasurePartition
  <2>1. pc = "FINISH" /\ mem' = mem /\ FsblInstance'.ecc = FsblInstance.ecc
    BY <1>6 DEF MeasurePartition, TypeInv, TypeOK, AddHandoff, AppendHandoff, Instance
  <2>2. LoadedBytes \in Measured' \/ NoDigest \in ToldOf(Rank(p))'
    <3>1. log.partition \in 1 .. 4 /\ log.partition = Rank(p) /\ pc' = "PMUFW"
      BY <1>6, <2>1, LabelLeft, PartitionRecords DEF AfterEvent
    <3>2. PICK d \in Digests(LoadedBytes) :
            Under(log', log.partition) = {d} /\ d \in Measured'
      BY <1>6, <3>1, PartitionRecords
    <3>3. Rank(p)' = Rank(p)
      BY LoopKeeps, SamePasses
    <3>4. Under(log', log.partition) = ToldOf(Rank(p))'
      BY <3>1, <3>3, ToldUnder DEF ToldOf
    <3> QED
      BY <3>2, <3>4 DEF Digests
  <2>3. LoadedBytes = mem'[LoadedAt(Hdr)]
    BY <2>1, LoopHeader DEF LoadedBytes, IsCode
  <2>4. CheckValidMemoryAddress(Hdr.load, DestinationCpu(Hdr), Hdr.dev) /\ ~IsPl
    BY <2>1 DEF PassInv, ValidatedPcs, DestCpu
  <2>5. InOwnTcm(Hdr) => Cores(Hdr.cpu) \subseteq FsblInstance.ecc
    BY <2>1, <2>4 DEF NotedInv
  <2> QED
    BY <2>1, <2>2, <2>3, <2>4, <2>5
<1>7. CASE CheckPmuFw \/ WaitForPmuFw
  <2>1. UNCHANGED <<mem, FsblInstance, log>> /\ pc \in AfterEvent
    BY <1>7 DEF CheckPmuFw, WaitForPmuFw, AfterEvent
  <2>2. p \in 1 .. PartitionNum
    BY <1>2
  <2>3. Noted(p)
    BY <2>1, <2>2 DEF NotedInv
  <2>4. OtherTcmSince(p)' = OtherTcmSince(p)
    BY <1>1 DEF OtherTcmSince
  <2>5. Measured' = Measured /\ ToldOf(Rank(p))' = ToldOf(Rank(p))
    <3>1. Rank(p)' = Rank(p)
      BY <2>1, SamePasses
    <3> QED
      BY <2>1, <3>1 DEF Measured, ToldOf, EventsNamed
  <2> QED
    BY <1>2, <2>1, <2>3, <2>4, <2>5 DEF Noted
<1> QED
  BY <1>3, <1>4, <1>5, <1>6, <1>7 DEF LoopStep

LEMMA LoopNotedInv ==
  ASSUME MeasurableFlash, TypeInv, FormInv, MarkInv, PassInv, CountInv, NotedInv, LoopStep
  PROVE  NotedInv'
<1> USE DEF Faulty, Refused, Unanswered, ShaAsserts, Fail, Goto
<1>1. /\ FsblInstance'.hdr = FsblInstance.hdr /\ PartitionNum' = PartitionNum
      /\ Hdr' = Hdr /\ IsPl' = IsPl /\ InLoop
  BY LoopKeeps, LoopHeader
<1>2. ASSUME FsblInstance.hdr, NEW p \in 1 .. (PartitionNum - 1)
      PROVE  Noted(p)'
  BY <1>1, <1>2, LoopNoted DEF NotedInv
<1>3. ASSUME FsblInstance.hdr, pc' \in AfterEvent, NEW p \in 1 .. PartitionNum
      PROVE  Noted(p)'
  <2>1. PartitionNum \in Nat
    BY <1>1, <1>3, CurrentPartition
  <2>2. CASE p = PartitionNum
    BY <1>3, <2>2, CurrentNoted
  <2>3. CASE p # PartitionNum
    BY <1>2, <1>3, <2>1, <2>3
  <2> QED
    BY <2>2, <2>3
<1>4. ASSUME pc' \in {"LOAD", "CHECK", "FINISH"}, ~IsPl, InOwnTcm(Hdr)
      PROVE  Cores(Hdr.cpu) \subseteq FsblInstance'.ecc
  <2>1. Brought(Hdr)
    BY <1>4 DEF Brought, InOwnTcm, IsPl
  <2> QED
    BY <1>4, <2>1, CurrentMarked DEF NotedInv
<1>5. InOwnTcm(Hdr)' = InOwnTcm(Hdr)
  BY <1>1
<1> QED
  BY <1>1, <1>2, <1>3, <1>4, <1>5 DEF NotedInv

(***************************************************************************)
(* Stage 4, the steps outside of the stages and those up to the loop.      *)
(***************************************************************************)
LEMMA HandoffLog ==
  ASSUME HandoffStep
  PROVE  log' = log
BY DEF HandoffStep, NextPartition, HandoffBegin, SkipEntry, ReleaseCpu, OwnEntry,
       HandoffExit, handoffUnchanged

LEMMA SameTold ==
  ASSUME UNCHANGED <<FsblInstance, log>>, NEW p
  PROVE  ToldOf(Rank(p))' = ToldOf(Rank(p))
<1>1. Rank(p)' = Rank(p)
  BY SamePasses
<1> QED
  BY <1>1 DEF ToldOf, EventsNamed

LEMMA HandoffNotedInv ==
  ASSUME TypeInv, NotedInv, HandoffStep
  PROVE  NotedInv'
<1>1. /\ UNCHANGED <<FsblInstance, mem, log>> /\ CurImage' = CurImage
      /\ LastPartition' = LastPartition /\ pc \in AfterEvent
      /\ pc' \in {"HEADER", "HANDOFF", "CPU", "ERR", "HUNG", "DONE", "NOHANDOFF"}
  <2>1. log' = log
    BY DEF HandoffStep, NextPartition, HandoffBegin, SkipEntry, ReleaseCpu, OwnEntry,
           HandoffExit, handoffUnchanged
  <2> QED
    BY <2>1, HandoffKeeps DEF CurImage, LastPartition, AfterEvent
<1>2. /\ PartitionNum \in Nat
      /\ pc' = "HEADER" => PartitionNum' = PartitionNum + 1
      /\ pc' # "HEADER" => PartitionNum' = PartitionNum
  BY HandoffMoves DEF TypeInv, TypeOK, PartitionIndex, XIH_MAX_PARTITIONS
<1>3. ASSUME FsblInstance.hdr, NEW p \in 1 .. PartitionNum
      PROVE  Noted(p)'
  <2>1. Noted(p)
    BY <1>1, <1>3 DEF NotedInv
  <2>2. OtherTcmSince(p) => OtherTcmSince(p)'
    BY <1>1, <1>2 DEF OtherTcmSince
  <2>3. /\ Measured' = Measured /\ Taken(CurImage.ph[p])' = Taken(CurImage.ph[p])
        /\ ToldOf(Rank(p))' = ToldOf(Rank(p))
    BY <1>1, SameTold DEF Measured, Taken
  <2> QED
    BY <1>1, <2>1, <2>2, <2>3 DEF Noted
<1>4. NotedInv'
  <2>1. FsblInstance.hdr /\ pc' = "HEADER" => \A p \in 1 .. (PartitionNum' - 1) : Noted(p)'
    BY <1>2, <1>3
  <2>2. FsblInstance.hdr /\ pc' # "HEADER" => \A p \in 1 .. PartitionNum' : Noted(p)'
    BY <1>2, <1>3
  <2> QED
    BY <1>1, <2>1, <2>2 DEF NotedInv, InLoop, LoadingPcs, AfterEvent
<1> QED
  BY <1>4

LEMMA HandoffCountInv ==
  ASSUME TypeInv, CountInv, HandoffStep
  PROVE  CountInv'
<1>1. /\ UNCHANGED <<FsblInstance, log>> /\ pc \in AfterEvent
      /\ LastPartition' = LastPartition
      /\ pc' \in {"HEADER", "HANDOFF", "CPU", "ERR", "HUNG", "DONE", "NOHANDOFF"}
  BY HandoffKeeps, HandoffLog DEF CurImage, LastPartition, AfterEvent
<1>2. /\ PartitionNum \in Nat
      /\ pc' = "HEADER" => PartitionNum' = PartitionNum + 1
      /\ pc' # "HEADER" => PartitionNum' = PartitionNum
  BY HandoffMoves DEF TypeInv, TypeOK, PartitionIndex, XIH_MAX_PARTITIONS
<1>3. FsblInstance.hdr => PartitionNum \in 1 .. LastPartition /\ CountedTo(PartitionNum)
  BY <1>1 DEF CountInv
<1>4. PICK n : n = PartitionNum
  OBVIOUS
<1>5. CountedTo(n)' = CountedTo(n)
  BY <1>1, SamePasses DEF CountedTo
<1>6. /\ CountedTo(PartitionNum) = CountedTo(n)
      /\ pc' = "HEADER" => CountedTo(PartitionNum - 1)' = CountedTo(n)'
      /\ pc' # "HEADER" => CountedTo(PartitionNum)' = CountedTo(n)'
  <2>1. pc' = "HEADER" => PartitionNum' - 1 = n
    BY <1>2, <1>4
  <2> QED
    BY <1>2, <1>4, <2>1
<1> QED
  BY <1>1, <1>2, <1>3, <1>5, <1>6 DEF CountInv, BeforeEvent, AfterEvent

LEMMA OtherNotedInv ==
  ASSUME NotedInv, OtherStep
  PROVE  NotedInv'
<1>1. /\ UNCHANGED <<FsblInstance, mem, log, PartitionNum>>
      /\ pc' = pc \/ pc' \in {"SPIN", "SOFTRESET", "NOHANDOFF"}
  <2>1. log' = log
    BY DEF OtherStep, ErrorLockDown, PmuAnswers, PmuDies, vars, dataVars
  <2> QED
    BY <2>1, OtherKeeps
<1>2. CurImage' = CurImage /\ Hdr' = Hdr /\ IsPl' = IsPl /\ Measured' = Measured
  BY <1>1 DEF CurImage, Hdr, PH, IsPl, Measured
<1>3. ASSUME NEW p PROVE Noted(p)' = Noted(p)
  BY <1>1, <1>2, SameTold DEF Noted, Taken, OtherTcmSince
<1> QED
  BY <1>1, <1>2, <1>3 DEF NotedInv, InLoop, LoadingPcs, AfterEvent

LEMMA OtherCountInv ==
  ASSUME CountInv, OtherStep
  PROVE  CountInv'
<1>1. /\ UNCHANGED <<FsblInstance, log, PartitionNum>>
      /\ LastPartition' = LastPartition
      /\ pc' = pc \/ pc' \in {"SPIN", "SOFTRESET", "NOHANDOFF"}
  <2>1. log' = log
    BY DEF OtherStep, ErrorLockDown, PmuAnswers, PmuDies, vars, dataVars
  <2> QED
    BY <2>1, OtherKeeps DEF LastPartition, CurImage
<1>2. \A n : CountedTo(n)' = CountedTo(n)
  BY <1>1, SamePasses DEF CountedTo
<1>3. /\ CountedTo(PartitionNum - 1)' = CountedTo(PartitionNum - 1)
      /\ CountedTo(PartitionNum)' = CountedTo(PartitionNum)
  BY <1>1, <1>2
<1> QED
  BY <1>1, <1>3 DEF CountInv, BeforeEvent, AfterEvent

\* A boot comes to its first partition with the first label.
LEMMA FirstLabel ==
  ASSUME TypeInv, LogInv, StartStep, pc' = "HEADER"
  PROVE  log'.partition = 1
<1> USE DEF Faulty, Refused, Unanswered, ShaAsserts, Fail, Goto
<1>1. ValidateHeader \/ SecondaryBootDeviceInit
  BY DEF StartStep, Initialize, PrimaryBootDeviceInit, Reset, SoftReset, WdtExpire,
         SoftwareReset, PsOnlyReset, ApuOnlyReset, SystemReset, RomLoadsFsbl
<1>2. log.partition = 1 /\ log \in Log
  BY <1>1 DEF LogInv, ValidateHeader, SecondaryBootDeviceInit, TypeInv, TypeOK
<1>3. \/ log' = log
      \/ \E c : log' = Tpm_Measure_Fsbl(log, c)
  BY <1>1 DEF ValidateHeader, ReadImageHeader, MeasureFsbl, MeasureFsblOnce,
              SecondaryBootDeviceInit
<1> QED
  BY <1>2, <1>3, MeasureSizes

LEMMA StartNotedInv ==
  ASSUME TypeInv, TableInv, StartStep
  PROVE  NotedInv'
BY StartMoves DEF NotedInv, InLoop, LoadingPcs, AfterEvent

LEMMA StartCountInv ==
  ASSUME TypeInv, LogInv, TableInv, StartStep
  PROVE  CountInv'
<1>1. CASE ~(pc' = "HEADER" /\ PartitionNum' = 1)
  BY <1>1, StartMoves DEF CountInv, BeforeEvent, AfterEvent
<1>2. CASE pc' = "HEADER" /\ PartitionNum' = 1
  <2>1. log'.partition = 1
    BY <1>2, FirstLabel
  <2>2. PartitionNum' - 1 = 0
    BY <1>2
  <2>3. Rank(0)' = 0
    <3>1. MeasuredTo(0)' = {}
      BY DEF MeasuredTo
    <3> QED
      BY <3>1, FS_EmptySet DEF Rank
  <2>4. CountedTo(0)'
    BY <2>1, <2>3 DEF CountedTo, CounterBehind, PartitionLabel
  <2>5. CountedTo(PartitionNum - 1)'
    BY <2>2, <2>4
  <2> QED
    BY <1>2, <2>5 DEF CountInv, BeforeEvent, AfterEvent
<1> QED
  BY <1>1, <1>2

-----------------------------------------------------------------------------
(***************************************************************************)
(* What an entry of the list starts is noted.                              *)
(***************************************************************************)
Explained(code) == code \in Measured \/ KnownUnmeasured(code)

LEMMA LastNat ==
  ASSUME TypeInv, FsblInstance.hdr
  PROVE  LastPartition \in Nat
<1>1. CurImage.n \in 2 .. XIH_MAX_PARTITIONS
  BY DEF TypeInv, Flow, HeadersOK, CurImage
<1> QED
  BY <1>1 DEF LastPartition, XIH_MAX_PARTITIONS

LEMMA EntryStartsMeasured ==
  ASSUME MeasurableFlash, TypeInv, SourceInv, ListInv, NotedInv, CountInv, pc = "CPU",
         NEW k \in DOMAIN FsblInstance.handoff
  PROVE  Explained(CodeAt(StartSlot(FsblInstance.handoff[k])))
<1> DEFINE e == FsblInstance.handoff[k]
           ph == CurImage.ph
<1>1. PICK p \in 1 .. PartitionNum : EntryFrom(e, p)
  BY DEF ListInv, LoadsOrStarts
<1>2. /\ e.cpu = DestinationCpu(ph[p]) /\ e.exec = ph[p].exec /\ e.aa32 = ph[p].aa32
      /\ Is32BitCpu(e) = StartsAtVector(ph[p])
      /\ p \in 1 .. LastPartition /\ Taken(ph[p])
      /\ IsXip(ph[p]) \/ IsCode(ph[p])
  BY <1>1 DEF EntryFrom, NewEntry, Is32BitCpu, StartsAtVector
<1>3. FsblInstance.hdr /\ PartitionNum \in Nat
  BY DEF SourceInv, EntriesNamed, TypeInv, TypeOK, PartitionIndex, XIH_MAX_PARTITIONS
<1>4. \A q \in 1 .. PartitionNum : Noted(q)
  BY <1>3 DEF NotedInv, AfterEvent
<1>5. /\ CurImage = Images[FsblInstance.img] /\ FsblInstance.img \in ImageIndex
      /\ LastPartition = CurImage.n - 1
  BY DEF CurImage, LastPartition, TypeInv, TypeOK, Instance
<1>6. /\ WellPlaced(CurImage)
      /\ \A q \in 1 .. (CurImage.n - 1) : ph[q].owner = 0 => ~IsXip(ph[q])
  BY <1>5 DEF MeasurableFlash, PlacedFlash
<1>7. IsCode(ph[p])
  BY <1>2, <1>5, <1>6 DEF Taken
<1>8. StartsAtVector(ph[p]) => ~Hdr.hivec
  <2>1. PartitionNum \in 1 .. LastPartition
    BY <1>3 DEF CountInv, AfterEvent
  <2>2. Hdr = ph[PartitionNum]
    BY <1>3 DEF Hdr, PH
  <2> QED
    BY <1>2, <1>5, <1>6, <2>1, <2>2 DEF WellPlaced
<1>9. StartSlot(e) = StartsAt(ph[p])
  BY <1>2, <1>8 DEF StartSlot, StartsAt
<1> HIDE DEF e
<1>10. PICK r \in 1 .. p : /\ IsCode(ph[r]) /\ ph[r].cpu = ph[p].cpu
                           /\ LoadedAt(ph[r]) = StartsAt(ph[p])
  BY <1>2, <1>5, <1>6, <1>7 DEF WellPlaced
<1>11. Taken(ph[r]) /\ r \in 1 .. PartitionNum
  BY <1>2, <1>3, <1>10 DEF Taken, NotForThisReset, IsCode
<1>12. /\ mem[StartSlot(e)] \in Measured \/ NoDigest \in ToldOf(Rank(r))
       /\ CheckValidMemoryAddress(ph[r].load, DestinationCpu(ph[r]), ph[r].dev)
  BY <1>4, <1>9, <1>10, <1>11 DEF Noted
<1>13. StartSlot(e)[2] # "QSPI"
  <2>1. ph[r].load # "QSPI"
    BY <1>12 DEF CheckValidMemoryAddress, PsDdr, TcmWindow, Ocm
  <2>2. StartSlot(e) = LoadSlot(DestinationCpu(ph[r]), ph[r].load)
    BY <1>9, <1>10 DEF LoadedAt
  <2> QED
    BY <2>1, <2>2 DEF LoadSlot
<1>14. /\ r \in MeasuredTo(LastPartition)
       /\ LiesIn(r, mem[StartSlot(e)])
  <2>1. PH(r) = ph[r] /\ LastPartition \in Nat /\ r \in 1 .. LastPartition
    <3>1. PartitionNum \in 1 .. LastPartition
      BY <1>3 DEF CountInv, AfterEvent
    <3> QED
      BY <1>3, <1>11, <3>1, LastNat DEF PH
  <2> QED
    BY <1>9, <1>10, <1>11, <2>1 DEF MeasuredTo, LiesIn, LoadedAt, IsCode, Taken
<1> QED
  BY <1>12, <1>13, <1>14 DEF CodeAt, Explained, KnownUnmeasured, e

LEMMA OwnStartsMeasured ==
  ASSUME MeasurableFlash, TypeInv, SourceInv, ListInv, NotedInv, CountInv, pc = "CPU",
         runEntry # 0
  PROVE  Explained(CodeAt(<<2, FsblInstance.handoff[runEntry].exec>>))
<1> DEFINE e == FsblInstance.handoff[runEntry]
<1>1. FsblInstance.handoff \in Seq(HandoffEntry) /\ runEntry \in Nat
  BY DEF TypeInv, TypeOK, Instance
<1>2. runEntry \in DOMAIN FsblInstance.handoff
  BY <1>1 DEF TypeInv, Flow
<1>3. e.cpu = ProcessorID /\ ~e.aa32
  BY DEF ListInv
<1>4. StartSlot(e) = <<2, e.exec>>
  BY <1>3
     DEF StartSlot, Is32BitCpu, R5Cpus, ProcessorID, CPU_A53_0, CPU_R5_0, CPU_R5_1,
         CPU_R5_L
<1>5. Explained(CodeAt(StartSlot(e)))
  BY <1>2, EntryStartsMeasured
<1> QED
  BY <1>4, <1>5

(***************************************************************************)
(* What a step starts: an entry's code, in ReleaseCpu and HandoffExit.     *)
(***************************************************************************)
MeasureInv ==
  /\ TypeInv /\ LogInv /\ FormInv /\ TableInv /\ SourceInv /\ MarkInv
  /\ PassInv /\ ListInv /\ NotedInv /\ CountInv

LEMMA StartsMeasured ==
  ASSUME MeasurableFlash, MeasureInv, [Next]_vars
  PROVE  \A c \in StartedCores : Explained(running'[c])
<1>1. /\ FsblInstance.handoff \in Seq(HandoffEntry) /\ running \in [Core -> Content]
      /\ CpuIndex \in Nat
  BY DEF MeasureInv, TypeInv, TypeOK, Instance
<1>2. ASSUME pc = "CPU", NEW k \in DOMAIN FsblInstance.handoff
      PROVE  Explained(CodeAt(StartSlot(FsblInstance.handoff[k])))
  BY <1>2, EntryStartsMeasured DEF MeasureInv
<1>3. CASE ReleaseCpu
  <2>1. CpuIndex + 1 \in DOMAIN FsblInstance.handoff /\ pc = "CPU"
    BY <1>1, <1>3 DEF ReleaseCpu, MoreEntries
  <2> DEFINE code == CodeAt(StartSlot(Entry))
  <2>2. Explained(code)
    BY <1>2, <2>1 DEF Entry
  <2>3. \A c \in Core : running'[c] \in {running[c], code}
    BY <1>3 DEF ReleaseCpu
  <2> HIDE DEF code
  <2> QED
    BY <2>2, <2>3 DEF StartedCores
<1>4. CASE HandoffExit /\ runEntry # 0
  <2> DEFINE code == CodeAt(<<2, FsblInstance.handoff[runEntry].exec>>)
  <2>1. pc = "CPU" /\ running' = [running EXCEPT ![ProcessorID] = code]
    BY <1>4 DEF HandoffExit
  <2>2. Explained(code)
    BY <1>4, <2>1, OwnStartsMeasured DEF MeasureInv
  <2> HIDE DEF code
  <2>3. \A c \in Core : running'[c] \in {running[c], code}
    BY <1>1, <2>1
  <2> QED
    BY <2>2, <2>3 DEF StartedCores
<1>5. CASE Reset
  <2>1. \A c \in Core : running'[c] \in {running[c], NoContent}
    BY <1>5
       DEF Reset, SoftReset, WdtExpire, SoftwareReset, PsOnlyReset, ApuOnlyReset,
           SystemReset, RomLoadsFsbl
  <2> QED
    BY <2>1 DEF StartedCores
<1>6. CASE ~(ReleaseCpu \/ (HandoffExit /\ runEntry # 0) \/ Reset)
  <2>1. running' = running
    <3>1. LoopStep => running' = running
      BY LoopKeeps DEF MeasureInv
    <3>2. OtherStep => running' = running
      BY OtherKeeps
    <3>3. HandoffStep => running' = running
      BY <1>6
         DEF HandoffStep, NextPartition, HandoffBegin, SkipEntry, OwnEntry, HandoffExit
    <3>4. StartStep => running' = running
      BY <1>6
         DEF StartStep, Initialize, PrimaryBootDeviceInit, ValidateHeader,
             SecondaryBootDeviceInit, hwVars
    <3> QED
      BY <3>1, <3>2, <3>3, <3>4
         DEF Next, FsblStep, LoopStep, HandoffStep, StartStep, OtherStep
  <2> QED
    BY <2>1 DEF StartedCores
<1> QED
  BY <1>3, <1>4, <1>5, <1>6

LEMMA InitMeasureInv == Init => MeasureInv
<1> SUFFICES ASSUME Init
             PROVE  FormInv /\ SourceInv /\ MarkInv /\ PassInv /\ ListInv /\ NotedInv
                    /\ CountInv
  BY InitTypeInv, InitLogInv, InitTableInv DEF MeasureInv
<1>1. \A c \in R5Cores : running[c] = NoContent
  BY DEF Init, R5Cores, Core, CPU_R5_0, CPU_R5_1
<1>2. SourceInv /\ MarkInv
  BY <1>1 DEF Init, InitialInstance, SourceInv, EntriesNamed, MarkInv, InLoop, LoadingPcs
<1>3. FormInv
  BY DEF Init, FormInv, InitialLog, Recording, BeforeEvent, AfterEvent
<1>4. PassInv /\ ListInv /\ NotedInv /\ CountInv
  BY DEF Init, PassInv, ValidatedPcs, ListInv, LoadsOrStarts, InLoop, LoadingPcs, NotedInv,
         CountInv, BeforeEvent, AfterEvent
<1> QED
  BY <1>2, <1>3, <1>4

LEMMA MeasureInvStep ==
  ASSUME MeasurableFlash
  PROVE  MeasureInv /\ [Next]_vars => MeasureInv'
<1> SUFFICES ASSUME MeasureInv, [Next]_vars PROVE MeasureInv'
  OBVIOUS
<1>1. /\ TypeInv /\ LogInv /\ FormInv /\ TableInv /\ SourceInv /\ MarkInv /\ PassInv
      /\ ListInv /\ NotedInv /\ CountInv
  BY DEF MeasureInv
<1>2. /\ TypeInv' /\ LogInv' /\ FormInv' /\ TableInv' /\ SourceInv' /\ MarkInv'
  BY <1>1, TypeInvStep, LogInvStep, FormInvStep, TableInvStep, SourceInvStep, MarkInvStep
<1>3. CASE LoopStep
  BY <1>1, <1>2, <1>3, LoopPassInv, LoopListInv, LoopNotedInv, LoopCountInv DEF MeasureInv
<1>4. CASE HandoffStep
  BY <1>1, <1>2, <1>4, HandoffPassInv, HandoffListInv, HandoffNotedInv, HandoffCountInv
     DEF MeasureInv
<1>5. CASE StartStep
  BY <1>1, <1>2, <1>5, StartAcceptInv, StartListInv, StartNotedInv, StartCountInv
     DEF MeasureInv
<1>6. CASE OtherStep
  BY <1>1, <1>2, <1>6, OtherAcceptInv, OtherNotedInv, OtherCountInv DEF MeasureInv
<1> QED
  BY <1>3, <1>4, <1>5, <1>6
     DEF Next, FsblStep, LoopStep, HandoffStep, StartStep, OtherStep

(***************************************************************************)
(* On a flash of such images a core is only ever started on bytes whose    *)
(* digest is already in the log of this boot, or on a partition whose own  *)
(* label has the zeros of a SHA3 engine that failed, however often the     *)
(* FSBL is restarted, whatever else fails, and even when the device        *)
(* delivers less than it was asked for (Tpm_Measure_Partition,             *)
(* XFsbl_ShaDigest, XFsbl_Handoff).                                        *)
(***************************************************************************)
THEOREM MeasuredRuns ==
  ASSUME MeasurableFlash
  PROVE  Spec => MeasuredBeforeRun
<1>1. MeasureInv /\ [Next]_vars => MeasureInv'
  BY MeasureInvStep
<1>2. MeasureInv /\ [Next]_vars =>
        [\A c \in StartedCores :
           running'[c] \in Measured \/ KnownUnmeasured(running'[c])]_vars
  BY StartsMeasured DEF Explained
<1> QED
  BY <1>1, <1>2, InitMeasureInv, PTL DEF Spec, MeasuredBeforeRun

-----------------------------------------------------------------------------
(***************************************************************************)
(* Lockstep and a single R5 in one image would start a core that runs.     *)
(***************************************************************************)
OwnCores(im) ==
  ~ \E p, q \in 1 .. (im.n - 1) :
      im.ph[p].cpu = CPU_R5_L /\ im.ph[q].cpu \in R5Cores

(***************************************************************************)
(* A core that runs while the FSBL boots was started from an entry of the  *)
(* list that its passes have left behind, unless it is an R5 that ran on   *)
(* over a restart of the APU alone, which starts none.                     *)
(***************************************************************************)
LeftBehind(k) ==
  LET early == CpuNeedsEarlyHandoff(FsblInstance.handoff[k].cpu) IN
  \/ InLoop /\ early /\ k <= CpuIndexEarlyHandoff
  \/ pc = "HANDOFF" /\ early /\ (EarlyHandoff => k <= CpuIndexEarlyHandoff)
  \/ pc = "CPU" /\ EarlyHandoff /\ early /\ k <= CpuIndexEarlyHandoff
  \/ pc = "CPU" /\ ~EarlyHandoff /\ (early \/ k <= CpuIndex)
StartedFromList(c) ==
  \E k \in DOMAIN FsblInstance.handoff :
    /\ LeftBehind(k)
    /\ FsblInstance.handoff[k].cpu # ProcessorID
    /\ c \in Cores(FsblInstance.handoff[k].cpu)
CoresInv ==
  /\ pc = "STAGE1" => \A c \in Core : running[c] # NoContent =>
       c \in R5Cores /\ GetResetReason = MASTER_ONLY_RESET
  /\ pc \in Recording => \A c \in Core : running[c] # NoContent =>
       (c \in R5Cores /\ MasterOnly) \/ StartedFromList(c)
  /\ pc = "CPU" /\ EarlyHandoff => CpuIndex = CpuIndexEarlyHandoff

-----------------------------------------------------------------------------
\* Two entries are for different cores.
LEMMA EntriesApart ==
  ASSUME \A i \in ImageIndex : OwnCores(Images[i]), TypeInv, HandoffInv, ListInv,
         LoadsOrStarts, NEW j \in DOMAIN FsblInstance.handoff,
         NEW k \in DOMAIN FsblInstance.handoff, j # k
  PROVE  Cores(FsblInstance.handoff[j].cpu) \cap Cores(FsblInstance.handoff[k].cpu) = {}
<1> DEFINE a == FsblInstance.handoff[j].cpu
           b == FsblInstance.handoff[k].cpu
<1>1. a # b
  BY DEF HandoffInv, OneEach
<1>2. /\ \E p \in 1 .. LastPartition : a = DestinationCpu(CurImage.ph[p])
      /\ \E p \in 1 .. LastPartition : b = DestinationCpu(CurImage.ph[p])
  <2>1. PICK p \in 1 .. PartitionNum : EntryFrom(FsblInstance.handoff[j], p)
    BY DEF ListInv
  <2>2. PICK q \in 1 .. PartitionNum : EntryFrom(FsblInstance.handoff[k], q)
    BY DEF ListInv
  <2> QED
    BY <2>1, <2>2 DEF EntryFrom, NewEntry
<1>3. OwnCores(CurImage) /\ LastPartition = CurImage.n - 1
  BY DEF TypeInv, TypeOK, Instance, CurImage, LastPartition
<1>4. ~(a = CPU_R5_L /\ b \in R5Cores) /\ ~(b = CPU_R5_L /\ a \in R5Cores)
  BY <1>2, <1>3
     DEF OwnCores, DestinationCpu, R5Cores, ProcessorID, CPU_A53_0, CPU_R5_0, CPU_R5_1,
         CPU_R5_L
<1> HIDE DEF a, b
<1>5. Cores(a) \cap Cores(b) = {}
  BY <1>1, <1>4 DEF Cores, R5Cores
<1> QED
  BY <1>5 DEF a, b

\* A restart of the APU alone starts no R5.
LEMMA NoR5Entry ==
  ASSUME ListInv, LoadsOrStarts, MasterOnly, NEW k \in DOMAIN FsblInstance.handoff
  PROVE  Cores(FsblInstance.handoff[k].cpu) \cap R5Cores = {}
<1>1. PICK p \in 1 .. PartitionNum : EntryFrom(FsblInstance.handoff[k], p)
  BY DEF ListInv
<1>2. FsblInstance.handoff[k].cpu = CurImage.ph[p].cpu /\ CurImage.ph[p].cpu \in A53Cpus
  BY <1>1
     DEF EntryFrom, NewEntry, Taken, NotForThisReset, MasterOnly, DestinationCpu, A53Cpus,
         CPU_NONE, CPU_A53_0, CPU_A53_3
<1> QED
  BY <1>2 DEF Cores, R5Cores, A53Cpus, CPU_A53_0, CPU_A53_3, CPU_R5_0, CPU_R5_1, CPU_R5_L

\* The running core starts nothing on itself before the jump.
LEMMA OwnCoreIdle ==
  ASSUME TypeInv, CoresInv, pc \in Recording
  PROVE  running[ProcessorID] = NoContent
<1>1. \A cpu : ProcessorID \in Cores(cpu) => cpu = ProcessorID
  BY DEF Cores, ProcessorID, CPU_A53_0, CPU_R5_0, CPU_R5_1
<1>2. ~StartedFromList(ProcessorID)
  BY <1>1 DEF StartedFromList
<1>3. ProcessorID \in Core /\ ProcessorID \notin R5Cores
  BY DEF Core, R5Cores, ProcessorID, CPU_A53_0, CPU_R5_0, CPU_R5_1
<1> QED
  BY <1>2, <1>3 DEF CoresInv

\* The cores of the entry at hand do not run.
LEMMA EntryIdle ==
  ASSUME \A i \in ImageIndex : OwnCores(Images[i]), TypeInv, HandoffInv, ListInv, CoresInv,
         pc = "CPU", MoreEntries, Eligible, Entry.cpu # ProcessorID, NEW c \in Cores(Entry.cpu),
         c \in Core
  PROVE  running[c] = NoContent
<1> SUFFICES ASSUME running[c] # NoContent PROVE FALSE
  OBVIOUS
<1>1. LoadsOrStarts /\ pc \in Recording
  BY DEF LoadsOrStarts, Recording, AfterEvent
<1>2. /\ CpuIndex \in Nat /\ FsblInstance.handoff \in Seq(HandoffEntry)
      /\ CpuIndex + 1 \in DOMAIN FsblInstance.handoff
      /\ Entry = FsblInstance.handoff[CpuIndex + 1]
  BY DEF TypeInv, TypeOK, Instance, MoreEntries, Entry
<1>3. CASE c \in R5Cores /\ MasterOnly
  BY <1>1, <1>2, <1>3, NoR5Entry
<1>4. CASE StartedFromList(c)
  <2>1. PICK k \in DOMAIN FsblInstance.handoff :
          LeftBehind(k) /\ c \in Cores(FsblInstance.handoff[k].cpu)
    BY <1>4 DEF StartedFromList
  <2>2. k = CpuIndex + 1
    BY <1>1, <1>2, <2>1, EntriesApart
  <2>3. EarlyHandoff => CpuIndexEarlyHandoff = CpuIndex
    BY DEF CoresInv
  <2> QED
    BY <1>2, <2>1, <2>2, <2>3 DEF LeftBehind, Eligible, Entry, InLoop, LoadingPcs
<1> QED
  BY <1>1, <1>3, <1>4 DEF CoresInv

(***************************************************************************)
(* The partition loop lengthens the list and starts nothing.               *)
(***************************************************************************)
LEMMA LoopCoresInv ==
  ASSUME TypeInv, CoresInv, LoopStep
  PROVE  CoresInv'
<1>1. /\ UNCHANGED <<running, CpuIndexEarlyHandoff>> /\ MasterOnly' = MasterOnly
      /\ InLoop /\ pc' \in LoadingPcs \cup {"ERR", "HUNG"}
  BY LoopKeeps
     DEF LoopStep, PartitionHeaderValidation, PartitionCopy, DeviceCopy, PartitionValidation,
         PlValidation, PlLoad, MeasurePartition, CheckPmuFw, WaitForPmuFw, loadUnchanged,
         MasterOnly
<1>2. FsblInstance \in Instance /\ Hdr \in PartitionHeader
  BY HdrType DEF TypeInv, TypeOK
<1>3. \A k \in DOMAIN FsblInstance.handoff :
        k \in DOMAIN FsblInstance'.handoff /\ FsblInstance'.handoff[k] = FsblInstance.handoff[k]
  <2>1. CASE FsblInstance'.handoff = FsblInstance.handoff
    BY <2>1
  <2>2. CASE FsblInstance'.handoff = AddHandoff(Hdr).handoff
    BY <1>2, <2>2 DEF AddHandoff, AppendHandoff, Instance
  <2> QED
    BY <2>1, <2>2, LoopKeeps
<1>4. CASE pc' \in {"ERR", "HUNG"}
  BY <1>4 DEF CoresInv, Recording, BeforeEvent, AfterEvent
<1>5. CASE pc' \in LoadingPcs
  <2>1. InLoop' /\ pc \in Recording /\ pc \notin {"HANDOFF", "CPU"}
        /\ pc' \notin {"STAGE1", "HANDOFF", "CPU"}
    BY <1>1, <1>5 DEF InLoop, LoadingPcs, Recording, BeforeEvent, AfterEvent
  <2>2. ASSUME NEW k \in DOMAIN FsblInstance.handoff, LeftBehind(k)
        PROVE  LeftBehind(k)'
    BY <1>1, <1>3, <2>1, <2>2 DEF LeftBehind, CpuNeedsEarlyHandoff
  <2>3. \A c \in Core : StartedFromList(c) => StartedFromList(c)'
    BY <1>3, <2>2 DEF StartedFromList
  <2> QED
    BY <1>1, <2>1, <2>3 DEF CoresInv
<1> QED
  BY <1>1, <1>4, <1>5

(***************************************************************************)
(* Stage 4: an entry is left behind with the step that starts it.          *)
(***************************************************************************)
LEMMA PassOver ==
  ASSUME TypeInv, CoresInv, pc = "CPU", MoreEntries, AfterEntry, UNCHANGED FsblInstance
  PROVE  /\ pc' = "CPU" /\ EarlyHandoff' => CpuIndex' = CpuIndexEarlyHandoff'
         /\ \A k \in DOMAIN FsblInstance.handoff : LeftBehind(k) => LeftBehind(k)'
         /\ Eligible /\ Entry.cpu # ProcessorID =>
              \A k \in DOMAIN FsblInstance.handoff : k = CpuIndex + 1 => LeftBehind(k)'
         /\ pc' \in {"HEADER", "HANDOFF", "CPU"}
<1>1. /\ CpuIndex \in Nat /\ CpuIndexEarlyHandoff \in Nat
      /\ FsblInstance.handoff \in Seq(HandoffEntry)
      /\ EarlyHandoff => CpuIndex = CpuIndexEarlyHandoff
  BY DEF TypeInv, TypeOK, CoresInv, Instance
<1>2. \A k \in DOMAIN FsblInstance.handoff : k \in Nat /\ k \in Int
  BY <1>1
<1>3. \A cpu : CpuNeedsEarlyHandoff(cpu)' = CpuNeedsEarlyHandoff(cpu)
  BY DEF CpuNeedsEarlyHandoff
<1>4. CASE EarlyHandoff /\ CpuNeedsEarlyHandoff(Entry.cpu) /\ PartitionNum < LastPartition
  BY <1>1, <1>2, <1>3, <1>4 DEF AfterEntry, LeftBehind, Goto, InLoop, LoadingPcs, Entry
<1>5. CASE EarlyHandoff /\ CpuNeedsEarlyHandoff(Entry.cpu) /\ ~(PartitionNum < LastPartition)
  BY <1>1, <1>2, <1>3, <1>5 DEF AfterEntry, LeftBehind, Goto, InLoop, LoadingPcs, Entry
<1>6. CASE ~(EarlyHandoff /\ CpuNeedsEarlyHandoff(Entry.cpu))
  <2>1. /\ CpuIndex' = CpuIndex + 1 /\ CpuIndexEarlyHandoff' = CpuIndexEarlyHandoff + 1
        /\ UNCHANGED <<pc, EarlyHandoff>> /\ ~InLoop /\ ~InLoop'
    BY <1>6 DEF AfterEntry, InLoop, LoadingPcs
  <2>2. ASSUME NEW k \in DOMAIN FsblInstance.handoff, LeftBehind(k)
        PROVE  LeftBehind(k)'
    BY <1>1, <1>2, <1>3, <2>1, <2>2 DEF LeftBehind
  <2>3. ASSUME Eligible, Entry.cpu # ProcessorID, NEW k \in DOMAIN FsblInstance.handoff,
               k = CpuIndex + 1
        PROVE  LeftBehind(k)'
    <3>1. ~EarlyHandoff
      BY <1>6, <2>3 DEF Eligible
    <3> QED
      BY <1>1, <1>2, <2>1, <2>3, <3>1 DEF LeftBehind
  <2> QED
    BY <1>1, <2>1, <2>2, <2>3
<1> QED
  BY <1>4, <1>5, <1>6

LEMMA HandoffCoresInv ==
  ASSUME TypeInv, CoresInv, HandoffStep
  PROVE  CoresInv'
<1> USE DEF Faulty, Refused, Unanswered, ShaAsserts, Fail, Goto
<1>1. /\ UNCHANGED FsblInstance /\ MasterOnly' = MasterOnly
      /\ pc \in Recording /\ pc' # "STAGE1"
      /\ pc' \in {"HEADER", "HANDOFF", "CPU", "ERR", "HUNG", "DONE", "NOHANDOFF"}
  BY HandoffKeeps DEF MasterOnly, Recording, AfterEvent
<1>2. CpuIndexEarlyHandoff \in Nat /\ \A k \in DOMAIN FsblInstance.handoff : k \in Nat
  BY DEF TypeInv, TypeOK, Instance
<1>3. \A cpu : CpuNeedsEarlyHandoff(cpu)' = CpuNeedsEarlyHandoff(cpu)
  BY DEF CpuNeedsEarlyHandoff
<1>4. CASE pc' \in {"ERR", "HUNG", "DONE", "NOHANDOFF"}
  BY <1>4 DEF CoresInv, Recording, BeforeEvent, AfterEvent
<1>5. ASSUME UNCHANGED running, pc' = "CPU" /\ EarlyHandoff' => CpuIndex' = CpuIndexEarlyHandoff',
             \A k \in DOMAIN FsblInstance.handoff : LeftBehind(k) => LeftBehind(k)'
      PROVE  CoresInv'
  <2>1. \A c \in Core : StartedFromList(c) => StartedFromList(c)'
    BY <1>1, <1>5 DEF StartedFromList
  <2> QED
    BY <1>1, <1>5, <2>1 DEF CoresInv
<1>6. CASE NextPartition
  <2>1. UNCHANGED <<running, CpuIndexEarlyHandoff>> /\ pc = "NEXT" /\ pc' \in {"HEADER", "HANDOFF"}
    BY <1>6 DEF NextPartition
  <2>2. \A k \in DOMAIN FsblInstance.handoff : LeftBehind(k) => LeftBehind(k)'
    BY <1>1, <1>3, <2>1 DEF LeftBehind, InLoop, LoadingPcs
  <2> QED
    BY <1>5, <2>1, <2>2
<1>7. CASE HandoffBegin /\ pc' \notin {"ERR", "HUNG", "NOHANDOFF"}
  <2>1. /\ UNCHANGED <<running, CpuIndexEarlyHandoff, EarlyHandoff>> /\ pc = "HANDOFF"
        /\ pc' = "CPU" /\ (EarlyHandoff => CpuIndex' = CpuIndexEarlyHandoff)
    BY <1>7 DEF HandoffBegin
  <2>2. \A k \in DOMAIN FsblInstance.handoff : LeftBehind(k) => LeftBehind(k)'
    BY <1>1, <1>3, <2>1 DEF LeftBehind, InLoop, LoadingPcs
  <2> QED
    BY <1>5, <2>1, <2>2
<1>8. CASE (SkipEntry \/ OwnEntry) /\ pc' # "ERR"
  <2>1. UNCHANGED running /\ pc = "CPU" /\ MoreEntries /\ AfterEntry
    BY <1>8 DEF SkipEntry, OwnEntry
  <2> QED
    BY <1>1, <1>5, <2>1, PassOver
<1>9. CASE ReleaseCpu /\ pc' \notin {"ERR", "HUNG"}
  <2>1. /\ pc = "CPU" /\ MoreEntries /\ Eligible /\ Entry.cpu # ProcessorID /\ AfterEntry
        /\ \A c \in Core : c \notin Cores(Entry.cpu) => running'[c] = running[c]
    BY <1>9 DEF ReleaseCpu
  <2>2. /\ CpuIndex + 1 \in DOMAIN FsblInstance.handoff
        /\ Entry = FsblInstance.handoff[CpuIndex + 1]
    BY <2>1 DEF TypeInv, TypeOK, Instance, MoreEntries, Entry
  <2>3. \A c \in Cores(Entry.cpu) : StartedFromList(c)'
    <3>1. PICK k \in DOMAIN FsblInstance.handoff : k = CpuIndex + 1
      BY <2>2
    <3>2. LeftBehind(k)' /\ Entry = FsblInstance'.handoff[k]
      BY <1>1, <2>1, <2>2, <3>1, PassOver
    <3> QED
      BY <1>1, <2>1, <3>2 DEF StartedFromList
  <2>4. \A c \in Core : StartedFromList(c) => StartedFromList(c)'
    BY <1>1, <2>1, PassOver DEF StartedFromList
  <2> QED
    BY <1>1, <2>1, <2>3, <2>4, PassOver DEF CoresInv
<1>10. HandoffExit => pc' \in {"DONE", "NOHANDOFF"}
  BY DEF HandoffExit
<1> QED
  BY <1>4, <1>6, <1>7, <1>8, <1>9, <1>10, HandoffKeeps DEF HandoffStep

(***************************************************************************)
(* The start of a boot and resets: an R5 runs on over a restart of the APU *)
(* alone, which is what this boot then is.                                 *)
(***************************************************************************)
LEMMA KeptCoresInv ==
  ASSUME \A c \in Core : running'[c] # NoContent => c \in R5Cores,
         pc' = "STAGE1" /\ (\E c \in Core : running'[c] # NoContent) =>
           GetResetReason' = MASTER_ONLY_RESET,
         pc' \in Recording /\ (\E c \in Core : running'[c] # NoContent) => MasterOnly',
         pc' # "CPU"
  PROVE  CoresInv'
BY DEF CoresInv

LEMMA InitializeCoresInv ==
  ASSUME TypeInv, CoresInv, Initialize
  PROVE  CoresInv'
<1>1. /\ UNCHANGED running /\ pc = "STAGE1" /\ pc' \in {"ERR", "INITHUNG", "PRIMARY"}
      /\ FsblInstance' = [DataSection(GetResetReason).inst EXCEPT !.reset = GetResetReason]
  BY DEF Initialize, hwVars, Refused, Fail, Goto
<1>2. DataSection(GetResetReason).inst \in Instance
  BY DEF DataSection, RestoreData, TypeInv, TypeOK
<1>3. FsblInstance'.reset = GetResetReason
  BY <1>1, <1>2 DEF Instance
<1> QED
  BY <1>1, <1>3, KeptCoresInv DEF CoresInv, MasterOnly

LEMMA BootDeviceCoresInv ==
  ASSUME TypeInv, CoresInv, TableInv, SourceInv, ListInv,
         PrimaryBootDeviceInit \/ ValidateHeader \/ SecondaryBootDeviceInit
  PROVE  CoresInv'
<1>1. /\ UNCHANGED running /\ FsblInstance'.reset = FsblInstance.reset
      /\ pc \in {"PRIMARY", "VALIDATE", "SECONDARY"}
      /\ pc' \notin {"STAGE1", "CPU"}
  <2> USE DEF Faulty, Refused, Unanswered, ShaAsserts, Fail, Goto
  <2>1. CASE PrimaryBootDeviceInit
    BY <2>1 DEF PrimaryBootDeviceInit, dataVars
  <2>2. CASE ValidateHeader
    BY <2>2, ValidateHeaderKeeps DEF TypeInv, ValidateHeader, EnterStage3
  <2>3. CASE SecondaryBootDeviceInit
    BY <2>3 DEF SecondaryBootDeviceInit, EnterStage3, TypeInv, TypeOK, Instance
  <2> QED
    BY <2>1, <2>2, <2>3
<1>2. pc \in Recording /\ ~InLoop /\ pc \notin {"HANDOFF", "CPU"}
  BY <1>1 DEF Recording, InLoop, LoadingPcs
<1>3. \A c \in Core : running[c] # NoContent => c \in R5Cores /\ MasterOnly
  BY <1>2 DEF CoresInv, StartedFromList, LeftBehind
<1> QED
  BY <1>1, <1>3, KeptCoresInv DEF MasterOnly

LEMMA ResetCoresInv ==
  ASSUME TypeInv, LogInv, Reset
  PROVE  CoresInv'
<1>1. CASE RomLoadsFsbl
  <2>1. pc' \in {"STAGE1", "ROMSTOP"} /\ \A c \in Core : running'[c] = NoContent
    BY <1>1 DEF RomLoadsFsbl, Goto
  <2> QED
    BY <2>1, KeptCoresInv
<1>2. CASE ApuOnlyReset
  <2>1. pc = "DONE" /\ pc' = "STAGE1" /\ resetReg' = [resetReg EXCEPT !.apu = TRUE]
        /\ \A c \in Core : running'[c] # NoContent => c \notin A53Cpus
    BY <1>2 DEF ApuOnlyReset, MayRestart, Goto
  <2>2. \A c \in Core : c \notin A53Cpus => c \in R5Cores
    BY DEF Core, A53Cpus, R5Cores, CPU_A53_0, CPU_A53_3, CPU_R5_0, CPU_R5_1
  <2>3. resetReg \in [psOnly : BOOLEAN, apu : BOOLEAN, wdt : BOOLEAN] /\ ~resetReg.psOnly
    BY <2>1 DEF TypeInv, TypeOK, LogInv
  <2>4. GetResetReason' = MASTER_ONLY_RESET
    BY <2>1, <2>3 DEF GetResetReason
  <2>5. pc' \notin Recording
    BY <2>1 DEF Recording, BeforeEvent, AfterEvent
  <2> QED
    BY <2>1, <2>2, <2>4, <2>5, KeptCoresInv
<1> QED
  BY <1>1, <1>2
     DEF Reset, SoftReset, WdtExpire, SoftwareReset, PsOnlyReset, SystemReset

LEMMA OtherCoresInv ==
  ASSUME CoresInv, OtherStep
  PROVE  CoresInv'
<1>1. /\ UNCHANGED <<FsblInstance, running, resetReg, EarlyHandoff, CpuIndex,
                     CpuIndexEarlyHandoff>>
      /\ pc' = pc \/ pc' \in {"SPIN", "SOFTRESET", "NOHANDOFF"}
  BY OtherKeeps
     DEF OtherStep, ErrorLockDown, PmuAnswers, PmuDies, loadUnchanged, vars, mainVars
<1>2. CASE pc' \in {"SPIN", "SOFTRESET", "NOHANDOFF"}
  BY <1>2 DEF CoresInv, Recording, BeforeEvent, AfterEvent
<1>3. CASE pc' = pc
  <2>1. \A k \in DOMAIN FsblInstance.handoff : LeftBehind(k) => LeftBehind(k)'
    BY <1>1, <1>3 DEF LeftBehind, InLoop, CpuNeedsEarlyHandoff
  <2>2. \A c \in Core : StartedFromList(c) => StartedFromList(c)'
    BY <1>1, <2>1 DEF StartedFromList
  <2> QED
    BY <1>1, <1>3, <2>2 DEF CoresInv, MasterOnly, GetResetReason
<1> QED
  BY <1>1, <1>2, <1>3

LEMMA CoresInvStep ==
  ASSUME TypeInv, LogInv, TableInv, SourceInv, ListInv, CoresInv, [Next]_vars
  PROVE  CoresInv'
BY LoopCoresInv, HandoffCoresInv, InitializeCoresInv, BootDeviceCoresInv, ResetCoresInv,
   OtherCoresInv
   DEF Next, FsblStep, LoopStep, HandoffStep, OtherStep

-----------------------------------------------------------------------------
(***************************************************************************)
(* The record of the chain is what the events in the log are about.  It is *)
(* begun by Tpm_Measure_Rom and made longer by every other measurement.    *)
(***************************************************************************)
Data(L) == [k \in DOMAIN Written(L) |-> Written(L)[k].data]
Longer(L, M) ==
  /\ L.ptr # 0 /\ M.ptr # 0
  /\ Len(M.buf) >= Len(L.buf)
  /\ \A k \in 1 .. Len(L.buf) : M.buf[k] = L.buf[k]

LEMMA LongerData ==
  ASSUME NEW L \in Log, NEW M \in Log, Longer(L, M)
  PROVE  /\ Len(Data(M)) >= Len(Data(L))
         /\ \A i \in DOMAIN Data(L) : Data(M)[i] = Data(L)[i]
<1>1. /\ L.buf \in Seq(Event) /\ M.buf \in Seq(Event)
      /\ Written(L) = L.buf /\ Written(M) = M.buf
  BY DEF Longer, Log, Written
<1>2. /\ Len(L.buf) \in Nat /\ DOMAIN L.buf = 1 .. Len(L.buf)
      /\ Len(M.buf) \in Nat /\ DOMAIN M.buf = 1 .. Len(M.buf)
  BY <1>1
<1>3. Data(L) = [k \in 1 .. Len(L.buf) |-> L.buf[k].data]
  BY <1>1, <1>2 DEF Data
<1>4. Data(M) = [k \in 1 .. Len(M.buf) |-> M.buf[k].data]
  BY <1>1, <1>2 DEF Data
<1>5. Len(Data(L)) = Len(L.buf) /\ Len(Data(M)) = Len(M.buf)
  BY <1>2, <1>3, <1>4
<1>6. \A i \in DOMAIN Data(L) : Data(M)[i] = Data(L)[i]
  BY <1>2, <1>3, <1>4 DEF Longer
<1> QED
  BY <1>5, <1>6 DEF Longer

LEMMA RecordLonger ==
  ASSUME NEW L \in Log, L.ptr # 0, NEW label \in Label, NEW pcr, NEW c
  PROVE  Longer(L, event_log_record(L, label, pcr, c))
<1> DEFINE M == event_log_record(L, label, pcr, c)
           e == [name |-> label, pcr |-> pcr, data |-> c, size |-> EventSize(label)]
<1>1. L.buf \in Seq(Event) /\ L.ptr \in Nat /\ EventSize(label) \in Nat
  BY DEF Log, EventSize, EVENT2_HDR_SIZE, NameLen, Label
<1>2. M.buf = L.buf \o << e >> /\ M.ptr = L.ptr + EventSize(label)
  BY DEF event_log_record, WriteAtPointer, Written
<1> HIDE DEF M, e
<1>3. /\ Len(M.buf) = Len(L.buf) + 1 /\ Len(L.buf) \in Nat
      /\ \A k \in 1 .. Len(L.buf) : M.buf[k] = L.buf[k]
  BY <1>1, <1>2
<1> QED
  BY <1>1, <1>2, <1>3 DEF Longer, M

LEMMA PartitionLonger ==
  ASSUME NEW L \in Log, L.ptr # 0, NEW c
  PROVE  Longer(L, Tpm_Measure_Partition(L, c))
<1> DEFINE M == Tpm_Measure_Partition(L, c)
<1>1. L.partition \in 1 .. 5 /\ Len(L.buf) \in Nat
  BY DEF Log
<1>2. CASE L.partition = 5
  <2>1. M = L
    BY <1>2 DEF Tpm_Measure_Partition, PartitionLabel
  <2> HIDE DEF M
  <2>2. Longer(L, M)
    BY <1>1, <2>1 DEF Longer
  <2> QED
    BY <2>2 DEF M
<1>3. CASE L.partition \in 1 .. 4
  <2> DEFINE label == PartitionLabel[L.partition]
             N == event_log_record(L, label, PartitionPcr[L.partition], c)
  <2>1. M = [N EXCEPT !.partition = @ + 1]
    BY <1>3 DEF Tpm_Measure_Partition, PartitionLabel
  <2>2. label \in Label
    BY <1>3 DEF PartitionLabel, Label, NameLen
  <2>3. Longer(L, N)
    BY <2>2, RecordLonger
  <2>4. N = [buf |-> N.buf, ptr |-> N.ptr, partition |-> N.partition]
    BY DEF event_log_record, WriteAtPointer
  <2> HIDE DEF M, N
  <2>5. M.buf = N.buf /\ M.ptr = N.ptr
    BY <2>1, <2>4
  <2>6. Longer(L, M)
    BY <2>3, <2>5 DEF Longer
  <2> QED
    BY <2>6 DEF M
<1> QED
  BY <1>1, <1>2, <1>3

LEMMA RomBegins ==
  ASSUME NEW L \in Log, L.ptr = 0
  PROVE  Data(Tpm_Measure_Rom(L)) = <<NoContent, NoContent, RomCode>>
<1> DEFINE M == Tpm_Measure_Rom(L)
           id == [name |-> "SPEC_ID", pcr |-> 0, data |-> NoContent, size |-> ID_EVENT_SIZE]
           loc == [name |-> "LOCALITY", pcr |-> 0, data |-> NoContent,
                   size |-> LOC_EVENT_SIZE]
           rom == [name |-> "ROM", pcr |-> 0, data |-> RomCode, size |-> EventSize("ROM")]
           H == event_log_write_header(L, NoContent)
<1>1. H.buf = << >> \o << id, loc >> /\ H.ptr = 176
  BY DEF event_log_write_header, WriteAtPointer, Written, ID_EVENT_SIZE, LOC_EVENT_SIZE
<1>2. M.buf = H.buf \o << rom >> /\ M.ptr = H.ptr + EventSize("ROM")
  BY <1>1 DEF Tpm_Measure_Rom, event_log_record, WriteAtPointer, Written
<1>3. id.data = NoContent /\ loc.data = NoContent /\ rom.data = RomCode
  OBVIOUS
<1> HIDE DEF H, M, id, loc, rom
<1>4. M.ptr # 0
  BY <1>1, <1>2, EventSizes
<1>5. /\ DOMAIN M.buf = 1 .. 3
      /\ M.buf[1] = id /\ M.buf[2] = loc /\ M.buf[3] = rom
  BY <1>1, <1>2
<1>6. Data(M) = [k \in 1 .. 3 |-> M.buf[k].data]
  BY <1>4, <1>5 DEF Data, Written
<1>7. Data(M) = <<NoContent, NoContent, RomCode>>
  BY <1>3, <1>5, <1>6
<1> QED
  BY <1>7 DEF M

(***************************************************************************)
(* The steps of the chain.                                                 *)
(***************************************************************************)
ChainInv == MeasureInv /\ HandoffInv /\ CoresInv

LEMMA ChainVars ==
  ASSUME UNCHANGED running, Data(log') = Data(log),
         pc = "STAGE1" <=> pc' = "STAGE1"
  PROVE  UNCHANGED Chain!vars
BY DEF Data, Chain!vars

LEMMA ChainBegins ==
  ASSUME ChainInv, Initialize
  PROVE  Chain!Begin
<1> DEFINE L == DataSection(GetResetReason).log
<1>1. /\ pc = "STAGE1" /\ pc' \in {"ERR", "INITHUNG", "PRIMARY"} /\ UNCHANGED running
      /\ log' = Tpm_Measure_Rom(L) \/ (log' = L /\ GetResetReason # MASTER_ONLY_RESET)
  BY DEF Initialize, hwVars, Refused, Fail, Goto
<1>2. log \in Log /\ dup.log \in Log /\ LogInv
  BY DEF ChainInv, MeasureInv, TypeInv, TypeOK
<1>3. L \in Log /\ L.ptr = 0 /\ (GetResetReason # MASTER_ONLY_RESET => L = log)
  <2>1. CASE GetResetReason = MASTER_ONLY_RESET
    BY <1>2, <2>1 DEF DataSection, RestoreData, LogInv, Log
  <2>2. CASE GetResetReason # MASTER_ONLY_RESET
    BY <1>1, <1>2, <2>2 DEF DataSection, LogInv, FreshData, RestoredData, GetResetReason
  <2> QED
    BY <2>1, <2>2
<1> HIDE DEF L
<1>4. \/ Data(log') = <<NoContent, NoContent, RomCode>>
      \/ Data(log) = <<>> /\ Data(log') = <<>>
  <2>1. CASE log' = Tpm_Measure_Rom(L)
    BY <1>3, <2>1, RomBegins
  <2>2. CASE log' = L /\ L = log
    <3>1. Written(log) = <<>> /\ Written(log') = <<>>
      BY <1>3, <2>2 DEF Written
    <3> QED
      BY <3>1 DEF Data
  <2> QED
    BY <1>1, <1>3, <2>1, <2>2
<1> QED
  BY <1>1, <1>4 DEF Chain!Begin, Data

LEMMA ChainRecords ==
  ASSUME ChainInv, TypeInv', ValidateHeader \/ PlLoad \/ MeasurePartition
  PROVE  Chain!Record \/ UNCHANGED Chain!vars
<1>1. /\ pc \in Recording /\ pc # "STAGE1" /\ pc' # "STAGE1" /\ UNCHANGED running
  BY DEF ValidateHeader, EnterStage3, PlLoad, MeasurePartition, loadUnchanged, Recording,
         BeforeEvent, Faulty, Refused, Unanswered, ShaAsserts, Fail, Goto
<1>2. log \in Log /\ log' \in Log /\ log.ptr # 0
  BY <1>1 DEF ChainInv, MeasureInv, TypeInv, TypeOK, FormInv
<1>3. running[ProcessorID] = NoContent
  BY <1>1, OwnCoreIdle DEF ChainInv, MeasureInv
<1>4. \/ log' = log
      \/ \E c : log' = Tpm_Measure_Fsbl(log, c)
      \/ \E c : log' = Tpm_Measure_Pl(log, c)
      \/ \E c : log' = Tpm_Measure_Partition(log, c)
  BY DEF ValidateHeader, ReadImageHeader, MeasureFsbl, MeasureFsblOnce, PlLoad, MeasurePl,
         EventForPl, MeasurePartition
<1>5. CASE log' = log
  BY <1>1, <1>5, ChainVars
<1>6. CASE log' # log
  <2>1. "FSBL" \in Label /\ "BITSTREAM" \in Label
    BY DEF Label, NameLen
  <2>2. Longer(log, log')
    BY <1>2, <1>4, <1>6, <2>1, RecordLonger, PartitionLonger
       DEF Tpm_Measure_Fsbl, Tpm_Measure_Pl
  <2>3. /\ Len(Data(log')) >= Len(Data(log))
        /\ \A i \in DOMAIN Data(log) : Data(log')[i] = Data(log)[i]
    BY <1>2, <2>2, LongerData
  <2> QED
    BY <1>1, <1>3, <2>3 DEF Chain!Record, Data
<1> QED
  BY <1>5, <1>6

LEMMA ExplainedAccounted ==
  ASSUME NEW code, Explained(code)
  PROVE  code \in Measured \/ NoDigest \in Measured
BY DEF Explained, KnownUnmeasured, ToldOf, EventsNamed, Measured

LEMMA ChainStarts ==
  ASSUME \A i \in ImageIndex : OwnCores(Images[i]), MeasurableFlash, ChainInv,
         ReleaseCpu \/ HandoffExit
  PROVE  (\E cores \in SUBSET Core : Chain!Start(cores)) \/ UNCHANGED Chain!vars
<1>1. /\ TypeInv /\ SourceInv /\ FormInv /\ ListInv /\ HandoffInv /\ CoresInv /\ NotedInv
      /\ CountInv
  BY DEF ChainInv, MeasureInv
<1>2. /\ pc = "CPU" /\ pc \in Recording /\ pc' # "STAGE1" /\ log' = log
  BY DEF ReleaseCpu, HandoffExit, AfterEntry, handoffUnchanged, Recording, AfterEvent,
         Faulty, Refused, Unanswered, Fail, Goto
<1>3. Measured = {Data(log)[i] : i \in DOMAIN Data(log)}
  <2>1. Written(log) = log.buf
    BY <1>1, <1>2 DEF FormInv, Written
  <2> QED
    BY <2>1 DEF Measured, Data
<1>4. Measured = Chain!Recorded
  BY <1>3 DEF Chain!Recorded, Data
<1>5. running \in [Core -> Content] /\ FsblInstance.handoff \in Seq(HandoffEntry)
      /\ CpuIndex \in Nat
  BY <1>1 DEF TypeInv, TypeOK, Instance
<1>6. ASSUME NEW cores \in SUBSET Core, NEW code, Explained(code),
             \A c \in cores : running[c] = NoContent,
             running' = [c \in Core |-> IF c \in cores THEN code ELSE running[c]]
      PROVE  Chain!Start(cores)
  <2>1. \A c \in cores : running'[c] = code
    BY <1>6
  <2>2. running' = [c \in Core |-> IF c \in cores THEN running'[c] ELSE running[c]]
    BY <1>6, <2>1
  <2>3. /\ pc # "STAGE1" /\ pc' # "STAGE1" /\ log' = log
        /\ \A c \in cores : running[c] = NoContent /\ Chain!Accounted(running'[c])
    BY <1>2, <1>4, <1>6, <2>1, ExplainedAccounted DEF Chain!Accounted
  <2>4. Written(log)' = Written(log)
    BY <2>3 DEF Written
  <2> QED
    BY <2>2, <2>3, <2>4 DEF Chain!Start
<1>7. CASE ReleaseCpu /\ running' # running
  <2> DEFINE code == CodeAt(StartSlot(Entry))
             cores == Core \cap Cores(Entry.cpu)
  <2>1. /\ MoreEntries /\ Eligible /\ Entry.cpu # ProcessorID
        /\ running' = [c \in Core |-> IF c \in Cores(Entry.cpu) THEN code ELSE running[c]]
    BY <1>7 DEF ReleaseCpu
  <2>2. Explained(code)
    BY <1>1, <1>2, <1>5, <2>1, EntryStartsMeasured DEF MoreEntries, Entry
  <2>3. \A c \in cores : running[c] = NoContent
    BY <1>1, <1>2, <2>1, EntryIdle
  <2> HIDE DEF code
  <2>4. running' = [c \in Core |-> IF c \in cores THEN code ELSE running[c]]
    BY <2>1
  <2> HIDE DEF cores
  <2> QED
    <3>1. cores \in SUBSET Core
      BY DEF cores
    <3> QED
      BY <1>6, <2>2, <2>3, <2>4, <3>1
<1>8. CASE HandoffExit /\ runEntry # 0
  <2> DEFINE code == CodeAt(<<2, FsblInstance.handoff[runEntry].exec>>)
  <2>1. running' = [running EXCEPT ![ProcessorID] = code]
    BY <1>8 DEF HandoffExit
  <2>2. Explained(code)
    BY <1>1, <1>2, <1>8, OwnStartsMeasured
  <2>3. ProcessorID \in Core /\ running[ProcessorID] = NoContent
    BY <1>1, <1>2, OwnCoreIdle DEF Core, ProcessorID, CPU_A53_0
  <2> HIDE DEF code
  <2>4. running' = [c \in Core |-> IF c \in {ProcessorID} THEN code ELSE running[c]]
    BY <1>5, <2>1, <2>3
  <2>5. \A c \in {ProcessorID} : running[c] = NoContent
    BY <2>3
  <2>6. {ProcessorID} \in SUBSET Core
    BY <2>3
  <2> QED
    BY <1>6, <2>2, <2>4, <2>5, <2>6
<1>9. CASE running' = running
  BY <1>2, <1>9, ChainVars
<1> QED
  BY <1>7, <1>8, <1>9 DEF HandoffExit

LEMMA ChainResets ==
  ASSUME TypeInv, Reset
  PROVE  Chain!SystemReset \/ Chain!ApplicationReset
<1>1. CASE RomLoadsFsbl
  <2>1. log'.ptr = 0 /\ running' = [c \in Core |-> NoContent] /\ pc' \in {"STAGE1", "ROMSTOP"}
    BY <1>1 DEF RomLoadsFsbl, InitialLog, Goto
  <2>2. Written(log') = <<>>
    BY <2>1 DEF Written
  <2>3. Data(log') = <<>>
    BY <2>2 DEF Data
  <2>4. running' = [c \in Core |-> IF c \in Core THEN NoContent ELSE running[c]]
    BY <2>1
  <2> QED
    BY <2>1, <2>3, <2>4 DEF Chain!SystemReset, Chain!Stopped, Data
<1>2. CASE ApuOnlyReset
  <2>1. /\ pc = "DONE" /\ pc' = "STAGE1" /\ log' = log
        /\ running' = [c \in Core |-> IF c \in A53Cpus THEN NoContent ELSE running[c]]
    BY <1>2 DEF ApuOnlyReset, MayRestart, dataVars, Goto
  <2>2. Data(log') = Data(log)
    BY <2>1
  <2> QED
    BY <2>1, <2>2 DEF Chain!ApplicationReset, Chain!Stopped, Data
<1> QED
  BY <1>1, <1>2
     DEF Reset, SoftReset, WdtExpire, SoftwareReset, PsOnlyReset, SystemReset

\* What records nothing, starts nothing and is no reset.
LEMMA ChainRests ==
  ASSUME \/ PrimaryBootDeviceInit \/ SecondaryBootDeviceInit
         \/ PartitionHeaderValidation \/ PartitionCopy \/ DeviceCopy
         \/ PartitionValidation \/ PlValidation \/ CheckPmuFw \/ WaitForPmuFw
         \/ NextPartition \/ HandoffBegin \/ SkipEntry \/ OwnEntry \/ OtherStep
  PROVE  UNCHANGED Chain!vars
<1> USE DEF Faulty, Refused, Unanswered, ShaAsserts, Fail, Goto
<1>1. UNCHANGED <<log, running>>
  BY DEF PrimaryBootDeviceInit, SecondaryBootDeviceInit, PartitionHeaderValidation,
         PartitionCopy, DeviceCopy, PartitionValidation, PlValidation, CheckPmuFw,
         WaitForPmuFw, NextPartition, HandoffBegin, SkipEntry, OwnEntry, OtherStep,
         ErrorLockDown, PmuAnswers, PmuDies, loadUnchanged, handoffUnchanged, dataVars,
         hwVars, vars
<1>2. pc = "STAGE1" <=> pc' = "STAGE1"
  <2>1. CASE PrimaryBootDeviceInit \/ SecondaryBootDeviceInit
    BY <2>1 DEF PrimaryBootDeviceInit, SecondaryBootDeviceInit, EnterStage3
  <2>2. CASE OtherStep
    BY <2>2
       DEF OtherStep, ErrorLockDown, PmuAnswers, PmuDies, loadUnchanged, vars, mainVars
  <2>3. CASE NextPartition \/ HandoffBegin \/ SkipEntry \/ OwnEntry
    BY <2>3, HandoffKeeps DEF HandoffStep
  <2>4. CASE ~(PrimaryBootDeviceInit \/ SecondaryBootDeviceInit \/ OtherStep
               \/ NextPartition \/ HandoffBegin \/ SkipEntry \/ OwnEntry)
    BY <2>4
       DEF PartitionHeaderValidation, NextAfterHeader, PartitionCopy, DeviceCopy,
           PartitionValidation, PlValidation, CheckPmuFw, WaitForPmuFw
  <2> QED
    BY <2>1, <2>2, <2>3, <2>4
<1>3. Data(log') = Data(log)
  BY <1>1
<1> QED
  BY <1>1, <1>2, <1>3, ChainVars

(***************************************************************************)
(* On a flash of such images in which lockstep does not meet a single R5,  *)
(* the boot loader implements the chain of measured boot (BootIsMeasured): *)
(* nothing is started on a core that runs, or on what was not recorded     *)
(* unless the record shows a measurement that failed, nothing is recorded  *)
(* after the jump, and no record is given up without a reset               *)
(* (Tpm_Measure_Rom, XFsbl_ShaDigest, XFsbl_RestoreData, XFsbl_Handoff).   *)
(***************************************************************************)
THEOREM BootKeepsChain ==
  ASSUME MeasurableFlash, \A i \in ImageIndex : OwnCores(Images[i])
  PROVE  Spec => BootIsMeasured
<1>1. Init => ChainInv /\ Chain!Init
  <2> SUFFICES ASSUME Init PROVE HandoffInv /\ CoresInv /\ Chain!Init
    BY InitMeasureInv DEF ChainInv
  <2>1. HandoffInv
    BY DEF Init, InitialInstance, HandoffInv, OneEach, ValidatedPcs
  <2>2. CoresInv
    BY DEF Init, CoresInv, Recording, BeforeEvent, AfterEvent
  <2>3. log.ptr = 0
    BY DEF Init, InitialLog
  <2>4. Data(log) = <<>>
    BY <2>3 DEF Data, Written
  <2>5. Chain!Init
    BY <2>4 DEF Init, Chain!Init, Data
  <2> QED
    BY <2>1, <2>2, <2>5
<1>2. ChainInv /\ [Next]_vars => ChainInv'
  <2>1. HandoffInv /\ TypeInv /\ [Next]_vars => HandoffInv'
    BY StartHandoffInv, HeaderHandoffInv, LoadHandoffInv, InitializeHandoffInv,
       ResetHandoffInv, OtherHandoffInv
       DEF Next, FsblStep
  <2>2. MeasureInv /\ CoresInv /\ [Next]_vars => CoresInv'
    BY CoresInvStep DEF MeasureInv
  <2>3. MeasureInv /\ [Next]_vars => MeasureInv'
    BY MeasureInvStep
  <2>4. MeasureInv => TypeInv
    BY DEF MeasureInv
  <2> QED
    BY <2>1, <2>2, <2>3, <2>4 DEF ChainInv
<1>3. ChainInv /\ ChainInv' /\ [Next]_vars => [Chain!Next]_(Chain!vars)
  <2> SUFFICES ASSUME ChainInv, ChainInv', [Next]_vars
               PROVE  Chain!Next \/ UNCHANGED Chain!vars
    OBVIOUS
  <2>1. TypeInv /\ TypeInv'
    BY DEF ChainInv, MeasureInv
  <2>2. CASE Initialize
    BY <2>2, ChainBegins DEF Chain!Next
  <2>3. CASE ValidateHeader \/ PlLoad \/ MeasurePartition
    BY <2>1, <2>3, ChainRecords DEF Chain!Next
  <2>4. CASE ReleaseCpu \/ HandoffExit
    BY <2>4, ChainStarts DEF Chain!Next
  <2>5. CASE Reset
    BY <2>1, <2>5, ChainResets DEF Chain!Next
  <2> QED
    BY <2>2, <2>3, <2>4, <2>5, ChainRests DEF Next, FsblStep, OtherStep
<1> QED
  BY <1>1, <1>2, <1>3, PTL DEF Spec, BootIsMeasured, Chain!Spec

-----------------------------------------------------------------------------
(***************************************************************************)
(* A PL that this boot configured is what the last bitstream event tells,  *)
(* if no bitstream is signed: XFsbl_SecPlPartition records nothing.        *)
(***************************************************************************)
UnsignedBitstreams ==
  \A i \in ImageIndex : \A p \in 1 .. (Images[i].n - 1) :
    Images[i].ph[p].owner = 0 /\ Images[i].ph[p].dev = DEVICE_PL => ~Images[i].ph[p].rsa

(***************************************************************************)
(* A reset that this boot takes for one of the system has cleared the PL,  *)
(* and nothing is configured before the partitions are loaded.             *)
(***************************************************************************)
BitstreamEvent(L, c) ==
  \E k \in Labelled(L, "BITSTREAM") :
    /\ \A j \in Labelled(L, "BITSTREAM") : j <= k
    /\ TellsOf(L.buf[k].data, c)
BitstreamInv ==
  /\ pc = "STAGE1" /\ GetResetReason = SYSTEM_RESET => pl = NoContent
  /\ FsblInstance.reset = SYSTEM_RESET =>
       /\ pc \in {"PRIMARY", "VALIDATE", "SECONDARY"} => pl = NoContent
       /\ pc \notin {"STAGE1", "ROMSTOP"} => pl = NoContent \/ BitstreamEvent(log, pl)

\* A record under another label leaves a bitstream's event the last one.
LEMMA PartitionNoBitstream ==
  ASSUME NEW L \in Log, L.ptr # 0, NEW c
  PROVE  LET M == Tpm_Measure_Partition(L, c) IN
         Labelled(M, "BITSTREAM") = Labelled(L, "BITSTREAM")
<1> DEFINE M == Tpm_Measure_Partition(L, c)
           N == event_log_record(L, PartitionLabel[L.partition],
                                 PartitionPcr[L.partition], c)
<1>1. CASE L.partition \in DOMAIN PartitionLabel
  <2>1. PartitionLabel[L.partition] \in Label /\ PartitionLabel[L.partition] # "BITSTREAM"
    BY <1>1 DEF PartitionLabel, Label, NameLen
  <2>2. Labelled(N, "BITSTREAM") = Labelled(L, "BITSTREAM")
    BY <2>1, RecordLabels
  <2>3. N = [buf |-> N.buf, ptr |-> N.ptr, partition |-> N.partition]
    BY DEF event_log_record, WriteAtPointer
  <2>4. M = [N EXCEPT !.partition = @ + 1]
    BY <1>1 DEF Tpm_Measure_Partition
  <2> HIDE DEF M, N
  <2>5. M.buf = N.buf
    BY <2>3, <2>4
  <2>6. Labelled(M, "BITSTREAM") = Labelled(L, "BITSTREAM")
    BY <2>2, <2>5 DEF Labelled
  <2> QED
    BY <2>6 DEF M
<1>2. CASE L.partition \notin DOMAIN PartitionLabel
  BY <1>2 DEF Tpm_Measure_Partition
<1> QED
  BY <1>1, <1>2

LEMMA BitstreamLast ==
  ASSUME NEW L \in Log, L.ptr # 0, NEW c, NEW d, TellsOf(d, c)
  PROVE  BitstreamEvent(Tpm_Measure_Pl(L, d), c)
<1> DEFINE M == event_log_record(L, "BITSTREAM", 2, d)
           last == Len(L.buf) + 1
<1>1. L.buf \in Seq(Event) /\ "BITSTREAM" \in Label
  BY DEF Log, Label, NameLen
<1>2. /\ Labelled(M, "BITSTREAM") = Labelled(L, "BITSTREAM") \cup {last}
      /\ M.buf[last].data = d
  BY <1>1, RecordLabels, RecordKeeps
<1>3. \A k \in Labelled(L, "BITSTREAM") : k <= last
  BY <1>1 DEF Labelled
<1>4. last <= last /\ Tpm_Measure_Pl(L, d) = M
  BY <1>1 DEF Tpm_Measure_Pl
<1> HIDE DEF M, last
<1> QED
  BY <1>2, <1>3, <1>4 DEF BitstreamEvent

\* With the PL's bytes the loop adds their event.
LEMMA LoopConfigures ==
  ASSUME UnsignedBitstreams, TypeInv, FormInv, MarkInv, PassInv, LoopStep
  PROVE  \/ pl' = NoContent \/ BitstreamEvent(log', pl')
         \/ pl' = pl /\ (BitstreamEvent(log, pl) => BitstreamEvent(log', pl))
<1> USE DEF Faulty, Refused, Unanswered, ShaAsserts, Fail, Goto
<1>1. log \in Log /\ log.ptr # 0
  <2>1. pc \in Recording
    BY LoopKeeps DEF InLoop, LoadingPcs, Recording, BeforeEvent, AfterEvent
  <2> QED
    BY <2>1 DEF TypeInv, TypeOK, FormInv
<1>2. CASE MeasurePartition
  <2>1. Labelled(log', "BITSTREAM") = Labelled(log, "BITSTREAM") /\ pl' = pl
    BY <1>1, <1>2, PartitionNoBitstream DEF MeasurePartition
  <2>2. \A k \in Labelled(log, "BITSTREAM") : log'.buf[k] = log.buf[k]
    BY LoopRecords DEF Labelled
  <2> QED
    BY <2>1, <2>2 DEF BitstreamEvent
<1>3. CASE PlLoad /\ MeasurePl
  <2> DEFINE c == IF IsXip(Hdr) THEN NoContent ELSE mem[PartitionSlot]
  <2>1. PICK d \in Digests(c) : log' = Tpm_Measure_Pl(log, d)
    BY <1>3 DEF MeasurePl, EventForPl
  <2>2. pl' = NoContent \/ UNCHANGED <<pl, log>> \/ (c.img = pl'.img /\ c.part = pl'.part)
    <3>1. \/ pl' = NoContent \/ UNCHANGED <<pl, log>>
          \/ ~IsXip(Hdr) /\ Hdr.aes => mem[PartitionSlot] = BytesIn(PartitionNum)
      BY <1>3 DEF PlLoad, DecryptionOK, Intact
    <3>2. pl' = IF IsXip(Hdr) THEN NoContent
                ELSE IF Hdr.aes THEN Payload(FsblInstance.img, PartitionNum, "plain")
                ELSE mem[PartitionSlot]
      BY <1>3 DEF MeasurePl, Configure
    <3> QED
      BY <3>1, <3>2 DEF BytesIn, Payload
  <2> HIDE DEF c
  <2>3. CASE pl' = NoContent \/ UNCHANGED <<pl, log>>
    BY <2>3
  <2>4. CASE c.img = pl'.img /\ c.part = pl'.part
    <3>1. TellsOf(d, pl')
      BY <2>1, <2>4 DEF TellsOf, Digests
    <3> QED
      BY <1>1, <2>1, <3>1, BitstreamLast
  <2> QED
    BY <2>2, <2>3, <2>4
<1>4. CASE PlLoad /\ ~MeasurePl
  BY <1>4 DEF PlLoad
<1>5. CASE PlValidation
  <2>1. InLoop /\ FsblInstance.hdr /\ pc = "CHECK" /\ Hdr.dev = DEVICE_PL
    BY <1>5 DEF PlValidation, InLoop, LoadingPcs, IsPl, TypeInv, Flow
  <2>2. Hdr.owner = 0
    BY <2>1 DEF PassInv, ValidatedPcs, Taken
  <2>3. ~Hdr.rsa
    BY <2>1, <2>2, CurrentPartition DEF UnsignedBitstreams
  <2> QED
    BY <1>5, <2>3 DEF PlValidation
<1>6. CASE ~(MeasurePartition \/ PlLoad \/ PlValidation)
  <2>1. log' = log /\ pl' = pl
    BY <1>6
       DEF LoopStep, PartitionHeaderValidation, PartitionCopy, DeviceCopy,
           PartitionValidation, CheckPmuFw, WaitForPmuFw
  <2> QED
    BY <2>1
<1> QED
  BY <1>2, <1>3, <1>4, <1>5, <1>6

LEMMA LoopBitstreamInv ==
  ASSUME UnsignedBitstreams, TypeInv, FormInv, MarkInv, PassInv, BitstreamInv, LoopStep
  PROVE  BitstreamInv'
<1>1. /\ FsblInstance'.reset = FsblInstance.reset
      /\ InLoop /\ pc' \in LoadingPcs \cup {"ERR", "HUNG"}
  BY LoopKeeps
<1>2. /\ pc \notin {"STAGE1", "ROMSTOP"}
      /\ pc' \notin {"STAGE1", "PRIMARY", "VALIDATE", "SECONDARY"}
  BY <1>1 DEF InLoop, LoadingPcs
<1>3. pl = NoContent \/ BitstreamEvent(log, pl) =>
        pl' = NoContent \/ BitstreamEvent(log', pl')
  BY LoopConfigures
<1>4. BitstreamEvent(log, pl)' = BitstreamEvent(log', pl')
  BY DEF BitstreamEvent
<1> QED
  BY <1>1, <1>2, <1>3, <1>4 DEF BitstreamInv

LEMMA StartBitstreamInv ==
  ASSUME TypeInv, LogInv, BitstreamInv, StartStep
  PROVE  BitstreamInv'
<1> USE DEF Faulty, Refused, Unanswered, ShaAsserts, Fail, Goto
<1>1. CASE Initialize
  <2>1. /\ pc = "STAGE1" /\ pc' \in {"ERR", "INITHUNG", "PRIMARY"} /\ pl' = pl
        /\ FsblInstance'.reset = GetResetReason
    BY <1>1
       DEF Initialize, hwVars, DataSection, RestoreData, TypeInv, TypeOK, Instance
  <2> QED
    BY <2>1 DEF BitstreamInv
<1>2. CASE PrimaryBootDeviceInit \/ ValidateHeader \/ SecondaryBootDeviceInit
  <2>1. /\ pc \in {"PRIMARY", "VALIDATE", "SECONDARY"} /\ pl' = pl /\ pc' # "STAGE1"
        /\ FsblInstance'.reset = FsblInstance.reset
    <3>1. CASE PrimaryBootDeviceInit
      BY <3>1 DEF PrimaryBootDeviceInit, dataVars
    <3>2. CASE ValidateHeader
      BY <3>2, ValidateHeaderKeeps DEF ValidateHeader, EnterStage3, TypeInv
    <3>3. CASE SecondaryBootDeviceInit
      BY <3>3 DEF SecondaryBootDeviceInit, EnterStage3, TypeInv, TypeOK, Instance
    <3> QED
      BY <1>2, <3>1, <3>2, <3>3
  <2> QED
    BY <2>1 DEF BitstreamInv
<1>3. CASE SoftReset \/ WdtExpire \/ SoftwareReset
  <2>1. pl' = NoContent
    BY <1>3 DEF SoftReset, WdtExpire, SoftwareReset, SystemReset
  <2> QED
    BY <2>1 DEF BitstreamInv
<1>4. CASE PsOnlyReset \/ ApuOnlyReset
  <2>1. pc' \in {"STAGE1", "ROMSTOP"} /\ (resetReg'.psOnly \/ resetReg'.apu)
    BY <1>4 DEF PsOnlyReset, ApuOnlyReset, RomLoadsFsbl, TypeInv, TypeOK
  <2> QED
    BY <2>1
       DEF BitstreamInv, GetResetReason, SYSTEM_RESET, PS_ONLY_RESET, MASTER_ONLY_RESET
<1> QED
  BY <1>1, <1>2, <1>3, <1>4 DEF StartStep, Reset

\* The events of later steps change neither.
LEMMA QuietBitstreamInv ==
  ASSUME BitstreamInv, HandoffStep \/ OtherStep
  PROVE  BitstreamInv'
<1>1. /\ FsblInstance' = FsblInstance /\ pl' = pl /\ log' = log /\ resetReg' = resetReg
      /\ \/ pc' = pc
         \/ /\ pc' \notin {"STAGE1", "PRIMARY", "VALIDATE", "SECONDARY"}
            /\ pc \notin {"STAGE1", "ROMSTOP"}
  <2>1. CASE HandoffStep
    <3>1. log' = log
      BY <2>1 DEF HandoffStep, NextPartition, HandoffBegin, SkipEntry, ReleaseCpu,
                  OwnEntry, HandoffExit, handoffUnchanged
    <3> QED
      BY <2>1, <3>1, HandoffKeeps
  <2>2. CASE OtherStep
    BY <2>2 DEF OtherStep, ErrorLockDown, PmuAnswers, PmuDies, vars, dataVars, hwVars,
                regVars, mainVars, loadUnchanged, Goto
  <2> QED
    BY <2>1, <2>2
<1>2. GetResetReason' = GetResetReason
  BY <1>1 DEF GetResetReason
<1> QED
  BY <1>1, <1>2 DEF BitstreamInv

(***************************************************************************)
(* On a flash without a signed bitstream, whatever fails, hangs or is      *)
(* delivered short and however often the FSBL is restarted, the last       *)
(* bitstream event of a boot from a system reset is of the bitstream that  *)
(* it leaves in the PL, encrypted ones and those of an image that is       *)
(* fallen back from included, or the zeros of a SHA3 engine that failed    *)
(* (XFsbl_PlPartitionLoad, Tpm_Measure_Pl, XSecure_Sha3Finish).            *)
(***************************************************************************)
THEOREM BitstreamsMeasured ==
  ASSUME UnsignedBitstreams
  PROVE  Spec => []PlMeasured
<1> DEFINE I == PassingInv /\ BitstreamInv
<1>1. Init => I
  BY InitPassingInv DEF Init, BitstreamInv
<1>2. I /\ [Next]_vars => I'
  <2> SUFFICES ASSUME I, [Next]_vars PROVE I'
    OBVIOUS
  <2>1. BitstreamInv'
    BY NextSteps, LoopBitstreamInv, StartBitstreamInv, QuietBitstreamInv DEF PassingInv
  <2> QED
    BY <2>1, PassingInvStep
<1>3. I => PlMeasured
  <2> SUFFICES ASSUME I, pc = "DONE", pl # NoContent, FsblInstance.reset = SYSTEM_RESET
               PROVE  EventsNamed({"BITSTREAM"}) # {} /\ TellsOf(LastOf("BITSTREAM"), pl)
    BY DEF PlMeasured
  <2>1. Labelled(log, "BITSTREAM") = EventsNamed({"BITSTREAM"})
    BY DEF Labelled, EventsNamed
  <2>2. PICK k \in EventsNamed({"BITSTREAM"}) :
          /\ \A j \in EventsNamed({"BITSTREAM"}) : j <= k
          /\ TellsOf(log.buf[k].data, pl)
    BY <2>1 DEF BitstreamInv, BitstreamEvent
  <2>3. EventsNamed({"BITSTREAM"}) \subseteq Nat
    BY DEF EventsNamed, PassingInv, TypeInv, TypeOK, Log
  <2>4. LastOf("BITSTREAM") = log.buf[k].data
    <3>1. \A i \in EventsNamed({"BITSTREAM"}) :
            (\A j \in EventsNamed({"BITSTREAM"}) : j <= i) => i = k
      BY <2>2, <2>3
    <3> QED
      BY <2>2, <3>1 DEF LastOf
  <2> QED
    BY <2>2, <2>4
<1> QED
  BY <1>1, <1>2, <1>3, PTL DEF Spec

-----------------------------------------------------------------------------
(***************************************************************************)
(* What was loaded survives until the handoff, if the device delivers what *)
(* it was asked for and an image brings the TCM of an R5 in one go.  The   *)
(* condition is on every image, since the one that is booted may come last.*)
(***************************************************************************)
WholeFlash == "short" \notin Faults /\ \A i \in ImageIndex : InOneGo(Images[i])

(***************************************************************************)
(* A restart of the APU alone passes the R5s' partitions over, and relies  *)
(* on what the boot before it loaded.  The PMU firmware's bit tells it,    *)
(* and is set only while no reset of the system is under way: the boot     *)
(* that handed over had stopped the watchdog, and the one that follows     *)
(* does not arm it again.                                                  *)
(***************************************************************************)
ApuInv ==
  /\ resetReg.apu =>
       /\ ~resetReg.psOnly /\ ~wdt /\ pc # "SOFTRESET"
       /\ pc # "STAGE1" => MasterOnly
  /\ MasterOnly => resetReg.apu
  /\ pc = "DONE" => ~wdt

(***************************************************************************)
(* The code that an image brings is kept: a bank it lies in stays marked   *)
(* as initialised until the partitions for another R5 are reached, and     *)
(* none for the same core follows those.                                   *)
(***************************************************************************)
Kept(p) ==
  LET h == CurImage.ph[p] IN
  Brought(h) =>
    /\ mem[LoadedAt(h)] # EccPattern
    /\ InOwnTcm(h) => Cores(h.cpu) \subseteq FsblInstance.ecc \/ OtherTcmSince(p)
AllKept(im) ==
  \A p \in 1 .. (im.n - 1) : Brought(im.ph[p]) => mem[LoadedAt(im.ph[p])] # EccPattern

KeptInv ==
  /\ pc \in AfterEvent /\ FsblInstance.hdr => PartitionNum \in 1 .. LastPartition
  /\ FsblInstance.hdr /\ ~MasterOnly =>
       /\ InLoop => \A p \in 1 .. (PartitionNum - 1) : Kept(p)
       /\ pc \in AfterEvent => \A p \in 1 .. PartitionNum : Kept(p)
       /\ pc = "DONE" => \A p \in 1 .. LastPartition : Kept(p)
       /\ pc \in {"LOAD", "CHECK", "FINISH"} /\ Brought(Hdr) /\ InOwnTcm(Hdr) =>
            Cores(Hdr.cpu) \subseteq FsblInstance.ecc
       /\ pc \in {"CHECK", "FINISH"} /\ Brought(Hdr) => mem[PartitionSlot] # EccPattern
  /\ resetReg.apu /\ Booting => AllKept(BootImage)

-----------------------------------------------------------------------------
LEMMA LoopApuInv ==
  ASSUME TypeInv, ApuInv, LoopStep
  PROVE  ApuInv'
<1>1. /\ FsblInstance'.reset = FsblInstance.reset /\ resetReg' = resetReg
      /\ InLoop /\ pc' \in LoadingPcs \cup {"ERR", "HUNG"}
  BY LoopKeeps
<1>2. wdt' = wdt
  BY DEF LoopStep, PartitionHeaderValidation, PartitionCopy, DeviceCopy,
         PartitionValidation, PlValidation, PlLoad, MeasurePartition, CheckPmuFw,
         WaitForPmuFw, loadUnchanged
<1> QED
  BY <1>1, <1>2 DEF ApuInv, InLoop, LoadingPcs, MasterOnly

LEMMA HandoffApuInv ==
  ASSUME TypeInv, ApuInv, HandoffStep
  PROVE  ApuInv'
<1>1. /\ FsblInstance' = FsblInstance /\ resetReg' = resetReg
      /\ pc \in {"NEXT", "HANDOFF", "CPU"}
      /\ pc' \in {"HEADER", "HANDOFF", "CPU", "ERR", "HUNG", "DONE", "NOHANDOFF"}
  BY HandoffKeeps
<1>2. (wdt' = wdt /\ pc' # "DONE") \/ wdt' = (wdt /\ MasterOnly)
  <2>1. CASE ReleaseCpu \/ SkipEntry \/ OwnEntry
    BY <1>1, <2>1 DEF ReleaseCpu, SkipEntry, OwnEntry, AfterEntry, Faulty, Refused,
                      Unanswered, Fail, Goto
  <2>2. CASE NextPartition \/ HandoffBegin
    BY <2>2 DEF NextPartition, HandoffBegin, Faulty, Refused, Unanswered, Fail, Goto
  <2>3. CASE HandoffExit
    BY <2>3 DEF HandoffExit, StopWdt
  <2> QED
    BY <2>1, <2>2, <2>3 DEF HandoffStep
<1> QED
  BY <1>1, <1>2 DEF ApuInv, MasterOnly, TypeInv, TypeOK

LEMMA OtherApuInv ==
  ASSUME TypeInv, ApuInv, OtherStep
  PROVE  ApuInv'
<1>1. CASE ErrorLockDown
  BY <1>1 DEF ErrorLockDown, StopWdt, Goto, ApuInv, MasterOnly, dataVars, TypeInv, TypeOK
<1>2. CASE PmuAnswers \/ PmuDies \/ UNCHANGED vars
  BY <1>2 DEF PmuAnswers, PmuDies, loadUnchanged, regVars, vars, mainVars, dataVars,
              hwVars, ApuInv, MasterOnly
<1> QED
  BY <1>1, <1>2 DEF OtherStep

LEMMA StartApuInv ==
  ASSUME TypeInv, LogInv, ApuInv, StartStep
  PROVE  ApuInv'
<1> USE DEF Faulty, Refused, Unanswered, ShaAsserts, Fail, Goto
<1>1. CASE Initialize
  <2>1. /\ pc = "STAGE1" /\ pc' \in {"ERR", "INITHUNG", "PRIMARY"} /\ wdt' = wdt
        /\ FsblInstance'.reset = GetResetReason
        /\ resetReg'.apu = resetReg.apu /\ (~resetReg.psOnly => ~resetReg'.psOnly)
    BY <1>1
       DEF Initialize, hwVars, DataSection, RestoreData, ResetValidation, TypeInv, TypeOK,
           Instance
  <2> QED
    BY <2>1
       DEF ApuInv, MasterOnly, GetResetReason, SYSTEM_RESET, PS_ONLY_RESET,
           MASTER_ONLY_RESET
<1>2. CASE PrimaryBootDeviceInit \/ ValidateHeader \/ SecondaryBootDeviceInit
  <2>1. /\ pc \in {"PRIMARY", "VALIDATE", "SECONDARY"} /\ resetReg' = resetReg
        /\ pc' \notin {"STAGE1", "SOFTRESET", "DONE"}
        /\ FsblInstance'.reset = FsblInstance.reset
        /\ wdt' => wdt \/ ~MasterOnly
    <3>1. CASE PrimaryBootDeviceInit
      <4>1. /\ pc = "PRIMARY" /\ resetReg' = resetReg /\ FsblInstance' = FsblInstance
            /\ pc' \in {"VALIDATE", "ERR", "HUNG", "HANDOFF"}
        BY <3>1 DEF PrimaryBootDeviceInit, dataVars, regVars
      <4>2. wdt' = wdt \/ ~MasterOnly
        BY <3>1 DEF PrimaryBootDeviceInit, InitWdt, TypeInv, TypeOK
      <4> QED
        BY <4>1, <4>2
    <3>2. CASE ValidateHeader
      <4>1. pc = "VALIDATE" /\ resetReg' = resetReg /\ wdt' = wdt
        BY <3>2 DEF ValidateHeader, regVars
      <4>2. pc' \in {"SECONDARY", "HEADER", "ERR", "HUNG"}
        BY <3>2 DEF ValidateHeader, EnterStage3
      <4> QED
        BY <3>2, <4>1, <4>2, ValidateHeaderKeeps DEF TypeInv
    <3>3. CASE SecondaryBootDeviceInit
      BY <3>3 DEF SecondaryBootDeviceInit, EnterStage3, TypeInv, TypeOK, Instance, regVars
    <3> QED
      BY <1>2, <3>1, <3>2, <3>3
  <2> QED
    BY <2>1 DEF ApuInv, MasterOnly
<1>3. CASE SoftReset \/ WdtExpire \/ SoftwareReset \/ PsOnlyReset
  <2>1. /\ FsblInstance'.reset = SYSTEM_RESET /\ wdt' = FALSE /\ ~resetReg'.apu
        /\ pc' # "DONE"
    <3>1. ~resetReg'.apu
      BY <1>3 DEF SoftReset, WdtExpire, SoftwareReset, PsOnlyReset, ApuInv, TypeInv, TypeOK
    <3> QED
      BY <1>3, <3>1
         DEF SoftReset, WdtExpire, SoftwareReset, PsOnlyReset, SystemReset, RomLoadsFsbl,
             InitialInstance
  <2> QED
    BY <2>1 DEF ApuInv, MasterOnly, SYSTEM_RESET, MASTER_ONLY_RESET
<1>4. CASE ApuOnlyReset
  <2>1. /\ pc = "DONE" /\ pc' = "STAGE1" /\ wdt' = wdt /\ resetReg'.apu
        /\ resetReg'.psOnly = resetReg.psOnly
    BY <1>4 DEF ApuOnlyReset, MayRestart, TypeInv, TypeOK
  <2> QED
    BY <2>1 DEF ApuInv, LogInv
<1> QED
  BY <1>1, <1>2, <1>3, <1>4 DEF StartStep, Reset

-----------------------------------------------------------------------------
\* Elsewhere the loop writes payloads only.
LEMMA LoopWritesPayload ==
  ASSUME "short" \notin Faults, TypeInv, PassInv, LoopStep
  PROVE  \/ /\ pc = "COPY" /\ ~IsXip(Hdr) /\ NeedsEccInit(DestCpu, Hdr.load)
            /\ mem' = EccFill(DestCpu) /\ FsblInstance'.ecc = Cores(DestCpu)
         \/ /\ FsblInstance'.ecc = FsblInstance.ecc
            /\ \A s \in Slot : mem'[s] = mem[s] \/ mem'[s] # EccPattern
<1> USE DEF Faulty, Refused, Unanswered, ShaAsserts, Fail, Goto
<1>1. mem \in [Slot -> Content] /\ PartitionSlot \in Slot
  BY BytesTypes DEF TypeInv, TypeOK
<1>2. \A f \in {"plain", "cipher"} :
        Payload(FsblInstance.img, PartitionNum, f) # EccPattern
  BY DEF Payload, EccPattern
<1>3. BytesIn(PartitionNum) # EccPattern
  BY <1>2 DEF BytesIn
<1>4. CASE DeviceCopy
  <2>1. /\ mem' = mem \/ mem' = [mem EXCEPT ![PartitionSlot] = BytesIn(PartitionNum)]
        /\ FsblInstance' = FsblInstance
    BY <1>4 DEF DeviceCopy
  <2> QED
    BY <1>1, <1>3, <2>1
<1>5. CASE PartitionValidation
  <2>1. /\ \/ mem' = mem
           \/ mem' = [mem EXCEPT ![PartitionSlot] =
                        Payload(FsblInstance.img, PartitionNum, "plain")]
        /\ FsblInstance' = FsblInstance
    BY <1>5 DEF PartitionValidation
  <2> QED
    BY <1>1, <1>2, <2>1
<1>6. CASE ~(DeviceCopy \/ PartitionValidation)
  <2>1. \/ mem' = mem /\ FsblInstance'.ecc = FsblInstance.ecc
        \/ /\ PartitionCopy /\ ~IsXip(Hdr) /\ NeedsEccInit(DestCpu, Hdr.load)
           /\ mem' = EccFill(DestCpu) /\ FsblInstance'.ecc = Cores(DestCpu)
    BY <1>6
       DEF LoopStep, PartitionHeaderValidation, PartitionCopy, ConfigureMemory,
           TcmEccInitStatus, PlValidation, PlLoad, MeasurePartition, CheckPmuFw,
           WaitForPmuFw, AddHandoff, AppendHandoff, TypeInv, TypeOK, Instance
  <2> QED
    BY <2>1 DEF PartitionCopy
<1> QED
  BY <1>4, <1>5, <1>6

LEMMA LoopKept ==
  ASSUME WholeFlash, TypeInv, MarkInv, PassInv, LoopStep, FsblInstance.hdr,
         NEW p \in 1 .. (PartitionNum - 1), Kept(p)
  PROVE  Kept(p)'
<1> DEFINE h == CurImage.ph[p]
<1>1. CurImage' = CurImage /\ PartitionNum' = PartitionNum /\ InLoop
  BY LoopKeeps, LoopHeader
<1>2. /\ PartitionNum \in 1 .. LastPartition /\ LastPartition \in Nat
      /\ FsblInstance.img \in ImageIndex /\ CurImage = Images[FsblInstance.img]
  BY <1>1, CurrentPartition
<1>3. OtherTcmSince(p)' = OtherTcmSince(p)
  BY <1>1 DEF OtherTcmSince
<1> SUFFICES ASSUME Brought(h)
             PROVE  /\ mem'[LoadedAt(h)] # EccPattern
                    /\ InOwnTcm(h) =>
                         Cores(h.cpu) \subseteq FsblInstance'.ecc \/ OtherTcmSince(p)
  BY <1>1, <1>3 DEF Kept
<1>4. /\ mem[LoadedAt(h)] # EccPattern
      /\ InOwnTcm(h) => Cores(h.cpu) \subseteq FsblInstance.ecc \/ OtherTcmSince(p)
  BY DEF Kept
<1>5. LoadedAt(h) \in Slot
  <2>1. p \in PartitionIndex /\ PH(p) = h
    BY <1>2 DEF PH, PartitionIndex, XIH_MAX_PARTITIONS, TypeInv, TypeOK
  <2>2. h.load \in Address
    BY <2>1, HeaderTypes DEF TypeInv, PartitionHeader
  <2> QED
    BY <2>2, SlotTypes DEF LoadedAt
<1>6. CASE /\ pc = "COPY" /\ ~IsXip(Hdr) /\ NeedsEccInit(DestCpu, Hdr.load)
           /\ mem' = EccFill(DestCpu) /\ FsblInstance'.ecc = Cores(DestCpu)
  <2>1. InOneGo(CurImage)
    BY <1>2 DEF WholeFlash
  <2> QED
    BY <1>4, <1>6, <2>1, FillSparesPassed DEF Brought
<1>7. CASE /\ FsblInstance'.ecc = FsblInstance.ecc
           /\ \A s \in Slot : mem'[s] = mem[s] \/ mem'[s] # EccPattern
  BY <1>4, <1>5, <1>7
<1> QED
  BY <1>6, <1>7, LoopWritesPayload DEF WholeFlash

\* The bytes of the partition at hand come over the pattern.
LEMMA CurrentBrought ==
  ASSUME WholeFlash, TypeInv, LoopStep, pc' \in {"CHECK", "FINISH"}, Brought(Hdr),
         pc \in {"CHECK", "FINISH"} => mem[PartitionSlot] # EccPattern
  PROVE  mem'[PartitionSlot] # EccPattern
<1> USE DEF Faulty, Refused, Unanswered, ShaAsserts, Fail, Goto
<1>1. mem \in [Slot -> Content] /\ PartitionSlot \in Slot
  BY BytesTypes DEF TypeInv, TypeOK
<1>2. \A f \in {"plain", "cipher"} :
        Payload(FsblInstance.img, PartitionNum, f) # EccPattern
  BY DEF Payload, EccPattern
<1>3. CASE DeviceCopy
  <2>1. mem' = [mem EXCEPT ![PartitionSlot] = BytesIn(PartitionNum)]
    BY <1>3 DEF DeviceCopy, WholeFlash
  <2> QED
    BY <1>1, <1>2, <2>1 DEF BytesIn
<1>4. CASE PartitionValidation
  <2>1. pc = "CHECK" /\ (\/ mem' = mem
                        \/ mem' = [mem EXCEPT ![PartitionSlot] =
                                     Payload(FsblInstance.img, PartitionNum, "plain")])
    BY <1>4 DEF PartitionValidation
  <2> QED
    BY <1>1, <1>2, <2>1
<1>5. CASE ~(DeviceCopy \/ PartitionValidation)
  <2>1. ~IsPl /\ ~IsXip(Hdr)
    BY DEF Brought, IsPl
  <2> QED
    BY <1>5, <2>1
       DEF LoopStep, PartitionHeaderValidation, NextAfterHeader, PartitionCopy,
           PlValidation, PlLoad, MeasurePartition, CheckPmuFw, WaitForPmuFw
<1> QED
  BY <1>3, <1>4, <1>5

LEMMA CurrentKept ==
  ASSUME TypeInv, MarkInv, PassInv, KeptInv, LoopStep, FsblInstance.hdr, ~MasterOnly,
         pc' \in AfterEvent, NEW p, p = PartitionNum
  PROVE  Kept(p)'
<1> USE DEF Faulty, Refused, Unanswered, ShaAsserts, Fail, Goto
<1>1. /\ CurImage' = CurImage /\ PartitionNum' = PartitionNum /\ InLoop
      /\ FsblInstance'.reset = FsblInstance.reset
  BY LoopKeeps, LoopHeader
<1>2. PartitionNum \in Nat \ {0} /\ Hdr = CurImage.ph[p]
  BY <1>1, CurrentPartition
<1> SUFFICES ASSUME Brought(Hdr)
             PROVE  /\ mem'[LoadedAt(Hdr)] # EccPattern
                    /\ InOwnTcm(Hdr) => \/ Cores(Hdr.cpu) \subseteq FsblInstance'.ecc
                                        \/ OtherTcmSince(p)'
  BY <1>1, <1>2 DEF Kept
<1>3. CASE PartitionHeaderValidation
  <2>1. HeaderStatus(Hdr, FsblInstance.reset, EfuseEncOnly) = "NOT_OWNER"
    BY <1>3 DEF PartitionHeaderValidation, NextAfterHeader, AfterEvent
  <2> QED
    BY <2>1 DEF HeaderStatus, ValidatePartitionHeader, NotForThisReset, MasterOnly, Brought
<1>4. CASE PartitionCopy \/ DeviceCopy \/ PartitionValidation
  BY <1>4 DEF PartitionCopy, DeviceCopy, PartitionValidation, AfterEvent
<1>5. CASE PlValidation \/ PlLoad
  <2>1. IsPl
    BY <1>5 DEF PlValidation, PlLoad, PassInv
  <2> QED
    BY <2>1 DEF IsPl, Brought
<1>6. CASE MeasurePartition
  <2>1. pc = "FINISH" /\ mem' = mem /\ FsblInstance'.ecc = FsblInstance.ecc
    BY <1>6 DEF MeasurePartition, TypeInv, TypeOK, AddHandoff, AppendHandoff, Instance
  <2> QED
    BY <2>1, LoopHeader DEF KeptInv
<1>7. CASE CheckPmuFw \/ WaitForPmuFw
  <2>1. UNCHANGED <<mem, FsblInstance>> /\ pc \in AfterEvent
    BY <1>7 DEF CheckPmuFw, WaitForPmuFw, AfterEvent
  <2>2. p \in 1 .. PartitionNum
    BY <1>2
  <2>3. Kept(p)
    BY <2>1, <2>2 DEF KeptInv
  <2>4. OtherTcmSince(p)' = OtherTcmSince(p)
    BY <1>1 DEF OtherTcmSince
  <2> QED
    BY <1>2, <2>1, <2>3, <2>4 DEF Kept
<1> QED
  BY <1>3, <1>4, <1>5, <1>6, <1>7 DEF LoopStep

\* After a restart of the APU alone the loop fills no bank.
LEMMA LoopAllKept ==
  ASSUME WholeFlash, TypeInv, SourceInv, PassInv, ApuInv, KeptInv, LoopStep, resetReg.apu
  PROVE  AllKept(BootImage)'
<1>1. /\ InLoop /\ multiboot' = multiboot
  BY LoopKeeps
<1>2. Booting /\ BootImage' = BootImage /\ MasterOnly
  BY <1>1 DEF Booting, InLoop, LoadingPcs, BootImage, ApuInv
<1>3. AllKept(BootImage)
  BY <1>2 DEF KeptInv
<1>4. CASE mem' = mem
  BY <1>2, <1>3, <1>4 DEF AllKept
<1>5. CASE mem' # mem
  <2>1. pc \in {"COPY", "LOAD", "CHECK"}
    BY <1>5 DEF LoopStep, PartitionHeaderValidation, PartitionCopy, DeviceCopy,
           PartitionValidation, PlValidation, PlLoad, MeasurePartition, CheckPmuFw,
           WaitForPmuFw
  <2>2. FsblInstance.hdr /\ CurImage = BootImage
    BY <1>2, <2>1 DEF TypeInv, Flow, LoadingPcs, SourceInv
  <2>3. \A s \in Slot : mem'[s] = mem[s] \/ mem'[s] # EccPattern
    <3>1. pc = "COPY" => Hdr.cpu \in A53Cpus
      BY <1>2 DEF PassInv, ValidatedPcs, Taken, NotForThisReset, MasterOnly
    <3>2. ~(pc = "COPY" /\ NeedsEccInit(DestCpu, Hdr.load))
      BY <3>1
         DEF NeedsEccInit, InTcm, DestCpu, DestinationCpu, A53Cpus, R5Cpus, ProcessorID,
             CPU_A53_0, CPU_A53_3, CPU_R5_0, CPU_R5_1, CPU_R5_L
    <3> QED
      BY <3>2, LoopWritesPayload DEF WholeFlash
  <2>4. ASSUME NEW p \in 1 .. (CurImage.n - 1)
        PROVE  LoadedAt(CurImage.ph[p]) \in Slot
    <3>0. CurImage.n \in 2 .. XIH_MAX_PARTITIONS
      BY <2>2 DEF TypeInv, Flow, HeadersOK, CurImage
    <3>1. p \in PartitionIndex /\ PH(p) = CurImage.ph[p]
      BY <2>2, <3>0 DEF PH, PartitionIndex, XIH_MAX_PARTITIONS
    <3>2. CurImage.ph[p].load \in Address
      BY <3>1, HeaderTypes DEF TypeInv, PartitionHeader
    <3> QED
      BY <3>2, SlotTypes DEF LoadedAt
  <2> QED
    BY <1>2, <1>3, <2>2, <2>3, <2>4 DEF AllKept
<1> QED
  BY <1>4, <1>5

LEMMA LoopKeptInv ==
  ASSUME WholeFlash, TypeInv, SourceInv, MarkInv, PassInv, ApuInv, KeptInv, LoopStep
  PROVE  KeptInv'
<1>1. /\ FsblInstance'.hdr = FsblInstance.hdr /\ PartitionNum' = PartitionNum
      /\ FsblInstance'.reset = FsblInstance.reset /\ resetReg' = resetReg
      /\ Hdr' = Hdr /\ LastPartition' = LastPartition /\ PartitionSlot' = PartitionSlot
      /\ InLoop /\ pc' \in LoadingPcs \cup {"ERR", "HUNG"}
  BY LoopKeeps, LoopHeader
<1>2. MasterOnly' = MasterOnly
  BY <1>1 DEF MasterOnly
<1>3. ASSUME FsblInstance.hdr, ~MasterOnly, NEW p \in 1 .. (PartitionNum - 1)
      PROVE  Kept(p)'
  BY <1>1, <1>3, LoopKept DEF KeptInv
<1>4. ASSUME FsblInstance.hdr, ~MasterOnly, pc' \in AfterEvent,
             NEW p \in 1 .. PartitionNum
      PROVE  Kept(p)'
  <2>1. PartitionNum \in Nat
    BY <1>1, <1>4, CurrentPartition
  <2>2. CASE p = PartitionNum
    BY <1>4, <2>2, CurrentKept
  <2>3. CASE p # PartitionNum
    BY <1>3, <1>4, <2>1, <2>3
  <2> QED
    BY <2>2, <2>3
<1>5. ASSUME FsblInstance.hdr, ~MasterOnly
      PROVE  /\ pc' \in {"LOAD", "CHECK", "FINISH"} /\ Brought(Hdr) /\ InOwnTcm(Hdr) =>
                  Cores(Hdr.cpu) \subseteq FsblInstance'.ecc
             /\ pc' \in {"CHECK", "FINISH"} /\ Brought(Hdr) =>
                  mem'[PartitionSlot] # EccPattern
  BY <1>5, CurrentMarked, CurrentBrought DEF KeptInv
<1>6. FsblInstance.hdr => PartitionNum \in 1 .. LastPartition
  BY <1>1, CurrentPartition
<1>7. resetReg.apu => AllKept(BootImage)'
  BY LoopAllKept
<1>8. InOwnTcm(Hdr)' = InOwnTcm(Hdr) /\ Brought(Hdr)' = Brought(Hdr)
  BY <1>1
<1> QED
  BY <1>1, <1>2, <1>3, <1>4, <1>5, <1>6, <1>7, <1>8 DEF KeptInv, LoadingPcs

LEMMA HandoffKeptInv ==
  ASSUME TypeInv, SourceInv, MarkInv, KeptInv, HandoffStep
  PROVE  KeptInv'
<1>1. /\ UNCHANGED <<FsblInstance, mem, resetReg, multiboot>> /\ CurImage' = CurImage
      /\ LastPartition' = LastPartition /\ pc \in AfterEvent
      /\ MasterOnly' = MasterOnly /\ BootImage' = BootImage
      /\ pc' \in {"HEADER", "HANDOFF", "CPU", "ERR", "HUNG", "DONE", "NOHANDOFF"}
  BY HandoffKeeps DEF CurImage, LastPartition, AfterEvent, MasterOnly, BootImage
<1>2. /\ PartitionNum \in Nat
      /\ pc' = "HEADER" => PartitionNum' = PartitionNum + 1
      /\ pc' # "HEADER" => PartitionNum' = PartitionNum
  BY HandoffMoves DEF TypeInv, TypeOK, PartitionIndex, XIH_MAX_PARTITIONS
<1>3. ASSUME FsblInstance.hdr, ~MasterOnly, NEW p \in 1 .. PartitionNum
      PROVE  Kept(p)'
  <2>1. Kept(p)
    BY <1>1, <1>3 DEF KeptInv
  <2>2. OtherTcmSince(p) => OtherTcmSince(p)'
    BY <1>1, <1>2 DEF OtherTcmSince
  <2> QED
    BY <1>1, <2>1, <2>2 DEF Kept
<1>4. FsblInstance.hdr /\ pc' = "DONE" => PartitionNum >= LastPartition
  <2>1. pc' = "DONE" => pc = "CPU" /\ runEntry # 0
    BY DEF HandoffStep, NextPartition, HandoffBegin, SkipEntry, ReleaseCpu, OwnEntry,
           HandoffExit, AfterEntry, Faulty, Refused, Unanswered, Fail, Goto
  <2> QED
    BY <2>1 DEF MarkInv
<1>5. /\ FsblInstance.hdr => PartitionNum \in 1 .. LastPartition
      /\ resetReg.apu => AllKept(BootImage)
  BY <1>1 DEF KeptInv, Booting, AfterEvent
<1>6. resetReg.apu => AllKept(BootImage)'
  BY <1>1, <1>5 DEF AllKept
<1>7. FsblInstance.hdr /\ ~MasterOnly =>
        /\ pc' = "HEADER" => \A p \in 1 .. (PartitionNum' - 1) : Kept(p)'
        /\ pc' \in AfterEvent => \A p \in 1 .. PartitionNum' : Kept(p)'
        /\ pc' = "DONE" => \A p \in 1 .. LastPartition' : Kept(p)'
  <2> SUFFICES ASSUME FsblInstance.hdr, ~MasterOnly
               PROVE  /\ pc' = "HEADER" => \A p \in 1 .. (PartitionNum' - 1) : Kept(p)'
                      /\ pc' \in AfterEvent => \A p \in 1 .. PartitionNum' : Kept(p)'
                      /\ pc' = "DONE" => \A p \in 1 .. LastPartition' : Kept(p)'
    OBVIOUS
  <2>1. pc' = "HEADER" => PartitionNum' - 1 = PartitionNum
    BY <1>2
  <2>2. pc' \in AfterEvent => PartitionNum' = PartitionNum
    BY <1>2 DEF AfterEvent
  <2>3. pc' = "DONE" => LastPartition' = PartitionNum
    <3>1. CurImage.n \in 2 .. XIH_MAX_PARTITIONS
      BY DEF TypeInv, Flow, HeadersOK, CurImage
    <3>2. LastPartition \in Nat
      BY <3>1 DEF LastPartition, XIH_MAX_PARTITIONS
    <3> QED
      BY <1>1, <1>4, <1>5, <3>2
  <2>4. \A p \in 1 .. PartitionNum : Kept(p)'
    BY <1>3
  <2>5. CASE pc' = "HEADER"
    BY <2>1, <2>4, <2>5 DEF AfterEvent
  <2>6. CASE pc' \in AfterEvent
    BY <2>2, <2>4, <2>6 DEF AfterEvent
  <2>7. CASE pc' = "DONE"
    BY <2>3, <2>4, <2>7 DEF AfterEvent
  <2> QED
    BY <2>5, <2>6, <2>7
<1> QED
  BY <1>1, <1>2, <1>5, <1>6, <1>7 DEF KeptInv, InLoop, LoadingPcs, AfterEvent

LEMMA OtherKeptInv ==
  ASSUME KeptInv, OtherStep
  PROVE  KeptInv'
<1>1. /\ UNCHANGED <<FsblInstance, mem, resetReg, PartitionNum>>
      /\ \/ UNCHANGED <<pc, multiboot>>
         \/ pc' \in {"SPIN", "SOFTRESET"}
         \/ pc' = "NOHANDOFF" /\ pc = "ERR" /\ UNCHANGED multiboot
  <2>1. CASE ErrorLockDown
    BY <2>1, OtherKeeps DEF ErrorLockDown, Goto
  <2>2. CASE PmuAnswers \/ PmuDies \/ UNCHANGED vars
    BY <2>2, OtherKeeps DEF PmuAnswers, PmuDies, loadUnchanged, regVars, vars, mainVars
  <2> QED
    BY <2>1, <2>2 DEF OtherStep
<1>2. /\ CurImage' = CurImage /\ Hdr' = Hdr /\ LastPartition' = LastPartition
      /\ MasterOnly' = MasterOnly /\ PartitionSlot' = PartitionSlot
  BY <1>1 DEF CurImage, Hdr, PH, LastPartition, MasterOnly, PartitionSlot, DestCpu
<1>3. ASSUME NEW p PROVE Kept(p)' = Kept(p)
  BY <1>1, <1>2 DEF Kept, OtherTcmSince
<1>4. ASSUME multiboot' = multiboot
      PROVE  BootImage' = BootImage /\ AllKept(BootImage)' = AllKept(BootImage)
  BY <1>1, <1>4 DEF BootImage, AllKept
<1> QED
  BY <1>1, <1>2, <1>3, <1>4 DEF KeptInv, InLoop, LoadingPcs, AfterEvent, Booting

LEMMA StartKeptInv ==
  ASSUME TypeInv, TableInv, SourceInv, MarkInv, ApuInv, ApuInv', KeptInv, StartStep
  PROVE  KeptInv'
<1> USE DEF Faulty, Refused, Unanswered, ShaAsserts, Fail, Goto
<1>1. \/ pc' \in {"ERR", "INITHUNG", "HUNG", "PRIMARY", "VALIDATE", "SECONDARY",
                  "STAGE1", "ROMSTOP"}
      \/ pc' = "HEADER" /\ PartitionNum' = 1
      \/ pc' = "HANDOFF" /\ ~FsblInstance'.hdr
  BY StartMoves
<1>2. resetReg'.apu /\ Booting' => AllKept(BootImage)'
  <2> SUFFICES ASSUME resetReg'.apu PROVE AllKept(BootImage)'
    OBVIOUS
  <2>1. mem' = mem /\ multiboot' = multiboot
    BY DEF StartStep, Initialize, PrimaryBootDeviceInit, ValidateHeader,
           SecondaryBootDeviceInit, regVars, hwVars, Reset, SoftReset, WdtExpire,
           SoftwareReset, PsOnlyReset, ApuOnlyReset, SystemReset, RomLoadsFsbl, MainRestarts
  <2>2. AllKept(BootImage)
    <3>1. CASE ApuOnlyReset
      <4>1. pc = "DONE" /\ Booting
        BY <3>1 DEF ApuOnlyReset, MayRestart, Booting
      <4>2. FsblInstance.hdr /\ CurImage = BootImage
        BY <4>1 DEF MarkInv, SourceInv
      <4>3. CASE MasterOnly
        BY <4>1, <4>3 DEF ApuInv, KeptInv
      <4>4. CASE ~MasterOnly
        <5>1. \A p \in 1 .. LastPartition : Kept(p)
          BY <4>1, <4>2, <4>4 DEF KeptInv
        <5> QED
          BY <4>2, <5>1 DEF Kept, AllKept, LastPartition
      <4> QED
        BY <4>3, <4>4
    <3>2. CASE SoftReset \/ WdtExpire \/ SoftwareReset \/ PsOnlyReset
      <4>1. ~resetReg'.apu
        BY <3>2 DEF SoftReset, WdtExpire, SoftwareReset, PsOnlyReset, ApuInv, TypeInv, TypeOK
      <4> QED
        BY <4>1
    <3>3. CASE Initialize \/ PrimaryBootDeviceInit \/ ValidateHeader
               \/ SecondaryBootDeviceInit
      <4>1. Booting /\ resetReg.apu
        BY <3>3
           DEF Initialize, ResetValidation, PrimaryBootDeviceInit, ValidateHeader,
               SecondaryBootDeviceInit, regVars, Booting, TypeInv, TypeOK
      <4> QED
        BY <4>1 DEF KeptInv
    <3> QED
      BY <3>1, <3>2, <3>3 DEF StartStep, Reset
  <2> QED
    BY <2>1, <2>2 DEF AllKept, BootImage
<1> QED
  BY <1>1, <1>2 DEF KeptInv, InLoop, LoadingPcs, AfterEvent

(***************************************************************************)
(* On a flash of images that bring the TCM of an R5 in one go, from a      *)
(* device that delivers what it is asked for: when the FSBL hands over,    *)
(* the pattern that initialised a bank lies where no partition was put,    *)
(* whatever else fails, and also when the APU alone was restarted and the  *)
(* R5s' partitions are those of the boot before (XFsbl_TcmEccInit,         *)
(* XFsbl_ConfigureMemory).                                                 *)
(***************************************************************************)
THEOREM LoadedCodeKept ==
  ASSUME WholeFlash
  PROVE  Spec => []LoadedCodeSurvives
<1> DEFINE I == PassingInv /\ ApuInv /\ KeptInv
<1>1. Init => I
  <2> SUFFICES ASSUME Init PROVE I
    OBVIOUS
  <2>1. ApuInv
    BY DEF Init, ApuInv, MasterOnly, InitialInstance, SYSTEM_RESET, MASTER_ONLY_RESET
  <2>2. KeptInv
    BY DEF Init, KeptInv, AfterEvent, InLoop, LoadingPcs
  <2> QED
    BY <2>1, <2>2, InitPassingInv
<1>2. I /\ [Next]_vars => I'
  <2> SUFFICES ASSUME I, [Next]_vars PROVE I'
    OBVIOUS
  <2>1. ApuInv'
    BY NextSteps, LoopApuInv, HandoffApuInv, StartApuInv, OtherApuInv DEF PassingInv
  <2>2. KeptInv'
    BY <2>1, NextSteps, LoopKeptInv, HandoffKeptInv, StartKeptInv, OtherKeptInv
       DEF PassingInv
  <2> QED
    BY <2>1, <2>2, PassingInvStep
<1>3. I => LoadedCodeSurvives
  <2> SUFFICES ASSUME I, pc = "HANDOFF", NEW p \in 1 .. PartitionNum, Brought(PH(p))
               PROVE  mem[LoadedAt(PH(p))] # EccPattern
    BY DEF LoadedCodeSurvives, Brought, LoadedAt
  <2>1. FsblInstance.hdr
    BY DEF PH, ZeroHeader, Brought, IsXip
  <2>2. PH(p) = CurImage.ph[p] /\ CurImage = BootImage
    BY <2>1 DEF PassingInv, PH, SourceInv, Booting
  <2>3. p \in 1 .. (CurImage.n - 1)
    <3>1. PartitionNum \in 1 .. LastPartition
      BY <2>1 DEF KeptInv, AfterEvent
    <3>2. CurImage.n - 1 \in Nat
      BY <2>1 DEF PassingInv, TypeInv, Flow, HeadersOK, CurImage
    <3> QED
      BY <3>1, <3>2 DEF LastPartition
  <2>4. CASE MasterOnly
    BY <2>2, <2>3, <2>4 DEF ApuInv, KeptInv, Booting, AllKept
  <2>5. CASE ~MasterOnly
    BY <2>1, <2>2, <2>5 DEF KeptInv, AfterEvent, Kept
  <2> QED
    BY <2>4, <2>5
<1> QED
  BY <1>1, <1>2, <1>3, PTL DEF Spec

-----------------------------------------------------------------------------
(***************************************************************************)
(* The labels tell the partitions by their order, if the device delivers   *)
(* what it was asked for.  At the place of a partition's measurement its   *)
(* bytes are in memory, decrypted.                                         *)
(***************************************************************************)
BytesInv ==
  /\ pc = "CHECK" /\ ~IsXip(Hdr) /\ ~IsPl => mem[PartitionSlot] = BytesIn(PartitionNum)
  /\ pc = "FINISH" => LoadedBytes = DigestOf(PartitionNum)

(***************************************************************************)
(* The partition events tell the image's partitions up to n: the k-th      *)
(* label is used as soon as there is a k-th one to measure, and then for   *)
(* what the driver made of its bytes, or for the zeros of a failed engine. *)
(***************************************************************************)
At(n, k) == {q \in MeasuredTo(n) : Rank(q) = k}
TellsRank(n, k) ==
  IF At(n, k) = {} THEN Under(log, k) = {}
  ELSE \E p \in At(n, k) : \E d \in Digests(DigestOf(p)) : Under(log, k) = {d}
LabelledTo(n) == \A k \in 1 .. 4 : TellsRank(n, k)
LabelInv ==
  /\ pc \in BeforeEvent /\ FsblInstance.hdr => LabelledTo(PartitionNum - 1)
  /\ pc \in AfterEvent /\ FsblInstance.hdr => LabelledTo(PartitionNum)
  /\ pc = "DONE" => LabelledTo(LastPartition)

LEMMA LoopBytesInv ==
  ASSUME "short" \notin Faults, TypeInv, BytesInv, LoopStep
  PROVE  BytesInv'
<1> USE DEF Faulty, Refused, Unanswered, ShaAsserts, Fail, Goto
<1>1. /\ Hdr' = Hdr /\ IsPl' = IsPl /\ PartitionSlot' = PartitionSlot
      /\ BytesIn(PartitionNum)' = BytesIn(PartitionNum) /\ PartitionNum' = PartitionNum
      /\ FsblInstance'.img = FsblInstance.img /\ FsblInstance'.hdr = FsblInstance.hdr
  BY LoopKeeps, LoopHeader
<1>2. CASE PartitionCopy
  <2>1. /\ pc' \in {"CHECK", "LOAD", "ERR", "HUNG"}
        /\ pc' = "CHECK" => IsXip(Hdr) \/ IsPl
    BY <1>2 DEF PartitionCopy
  <2> QED
    BY <1>1, <2>1 DEF BytesInv
<1>3. CASE DeviceCopy
  <2>1. /\ pc' \in {"CHECK", "ERR", "HUNG"}
        /\ pc' = "CHECK" => mem' = [mem EXCEPT ![PartitionSlot] = BytesIn(PartitionNum)]
    BY <1>3 DEF DeviceCopy
  <2>2. pc' = "CHECK" => mem'[PartitionSlot] = BytesIn(PartitionNum)
    BY <2>1, BytesTypes DEF TypeInv, TypeOK
  <2> QED
    BY <1>1, <2>1, <2>2 DEF BytesInv
<1>4. CASE PartitionValidation
  <2>1. /\ pc = "CHECK" /\ ~IsPl /\ pc' \in {"FINISH", "ERR", "HUNG"}
        /\ pc' = "FINISH" =>
             mem' = IF Hdr.aes
                    THEN [mem EXCEPT ![PartitionSlot] =
                            Payload(FsblInstance.img, PartitionNum, "plain")]
                    ELSE mem
    BY <1>4 DEF PartitionValidation
  <2>2. Hdr = PH(PartitionNum)
    BY DEF Hdr
  <2>3. ~IsXip(Hdr) => mem[PartitionSlot] = BytesIn(PartitionNum)
    BY <2>1 DEF BytesInv
  <2>4. pc' = "FINISH" /\ ~IsXip(Hdr) =>
          mem'[PartitionSlot] = Payload(FsblInstance.img, PartitionNum, "plain")
    <3>1. PartitionSlot \in Slot
      BY BytesTypes DEF TypeInv, TypeOK
    <3> QED
      BY <2>1, <2>2, <2>3, <3>1 DEF BytesIn, TypeInv, TypeOK
  <2>5. LoadedBytes' = IF IsXip(Hdr) THEN NoContent ELSE mem'[PartitionSlot]
    BY <1>1 DEF LoadedBytes
  <2>6. DigestOf(PartitionNum)' =
          IF IsXip(Hdr) THEN NoContent ELSE Payload(FsblInstance.img, PartitionNum, "plain")
    BY <1>1, <2>2 DEF DigestOf, Hdr, PH
  <2> QED
    BY <2>1, <2>4, <2>5, <2>6 DEF BytesInv
<1>5. CASE ~(PartitionCopy \/ DeviceCopy \/ PartitionValidation)
  <2>1. pc' \notin {"CHECK", "FINISH"}
    BY <1>5
       DEF LoopStep, PartitionHeaderValidation, NextAfterHeader, PlValidation,
           PlLoad, MeasurePartition, CheckPmuFw, WaitForPmuFw
  <2> QED
    BY <2>1 DEF BytesInv
<1> QED
  BY <1>2, <1>3, <1>4, <1>5

LEMMA OtherBytesInv ==
  ASSUME TypeInv, TableInv, BytesInv, HandoffStep \/ StartStep \/ OtherStep
  PROVE  BytesInv'
<1>1. CASE OtherStep
  <2>1. /\ UNCHANGED <<FsblInstance, mem, PartitionNum>>
        /\ pc' = pc \/ pc' \notin {"CHECK", "FINISH"}
    BY <1>1, OtherKeeps
  <2> QED
    BY <2>1
       DEF BytesInv, Hdr, PH, IsPl, PartitionSlot, DestCpu, BytesIn, LoadedBytes,
           DigestOf, CurImage
<1>2. CASE HandoffStep \/ StartStep
  <2>1. pc' \notin {"CHECK", "FINISH"}
    BY <1>2, HandoffKeeps, StartMoves
  <2> QED
    BY <2>1 DEF BytesInv
<1> QED
  BY <1>1, <1>2

-----------------------------------------------------------------------------
LEMMA SameLabels ==
  ASSUME FsblInstance'.hdr = FsblInstance.hdr, FsblInstance'.img = FsblInstance.img,
         FsblInstance'.reset = FsblInstance.reset, NEW n, LabelledTo(n),
         \A k \in 1 .. 4 : Under(log', k) = Under(log, k)
  PROVE  LabelledTo(n)'
<1>1. \A m : MeasuredTo(m)' = MeasuredTo(m) /\ Rank(m)' = Rank(m) /\ DigestOf(m)' = DigestOf(m)
  BY SamePasses
<1>2. \A k : At(n, k)' = At(n, k)
  BY <1>1 DEF At
<1>3. ASSUME NEW k \in 1 .. 4
      PROVE  TellsRank(n, k)'
  <2>1. TellsRank(n, k) /\ Under(log', k) = Under(log, k)
    BY DEF LabelledTo
  <2> QED
    BY <1>1, <1>2, <2>1 DEF TellsRank
<1> QED
  BY <1>3 DEF LabelledTo

\* The measurement of the partition at hand takes the next label, if there is one.
LEMMA MeasureLabels ==
  ASSUME TypeInv, FormInv, MarkInv, PassInv, CountInv, BytesInv, MeasurePartition,
         pc' = "PMUFW", FsblInstance.hdr, NEW n, n = PartitionNum, LabelledTo(n - 1)
  PROVE  LabelledTo(n)'
<1>1. pc = "FINISH" /\ InLoop /\ LoopStep
  BY DEF MeasurePartition, InLoop, LoadingPcs, LoopStep
<1>2. /\ FsblInstance'.hdr = FsblInstance.hdr /\ FsblInstance'.img = FsblInstance.img
      /\ FsblInstance'.reset = FsblInstance.reset
  BY <1>1, LoopKeeps
<1>3. n \in Nat \ {0} /\ n \in MeasuredTo(n)
  <2>1. n \in 1 .. LastPartition /\ LastPartition \in Nat
    BY <1>1, CurrentPartition
  <2>2. Hdr = PH(n)
    BY DEF Hdr
  <2> QED
    BY <1>1, <2>1, <2>2 DEF PassInv, ValidatedPcs, Taken, IsPl, MeasuredTo
<1>4. /\ Rank(n - 1) \in Nat /\ Rank(n) = Rank(n - 1) + 1
      /\ MeasuredTo(n) = MeasuredTo(n - 1) \cup {n}
  BY <1>3, MeasuredMore DEF Rank
<1>5. log.partition = IF Rank(n - 1) < 4 THEN Rank(n) ELSE 5
  BY <1>1, <1>4 DEF CountInv, CountedTo, CounterBehind, PartitionLabel, BeforeEvent
<1>6. /\ \A k : k # Rank(n) => At(n, k) = At(n - 1, k)
      /\ n \in At(n, Rank(n))
  BY <1>3, <1>4 DEF At
<1>7. \A m : MeasuredTo(m)' = MeasuredTo(m) /\ Rank(m)' = Rank(m) /\ DigestOf(m)' = DigestOf(m)
  BY <1>2, SamePasses
<1>8. \A k : At(n, k)' = At(n, k)
  BY <1>7 DEF At
<1>9. LoadedBytes = DigestOf(n)
  BY <1>1 DEF BytesInv
<1>10. ASSUME NEW k \in 1 .. 4
       PROVE  TellsRank(n, k)'
  <2>1. CASE k = log.partition
    <3>1. k = Rank(n)
      BY <1>4, <1>5, <2>1
    <3>2. \E d \in Digests(DigestOf(n)) : Under(log', k) = {d}
      BY <1>9, <2>1, PartitionRecords
    <3> QED
      BY <1>6, <1>7, <1>8, <3>1, <3>2 DEF TellsRank
  <2>2. CASE k # log.partition
    <3>1. k # Rank(n)
      BY <1>4, <1>5, <2>2
    <3>2. Under(log', k) = Under(log, k)
      BY <2>2, PartitionRecords
    <3>3. TellsRank(n - 1, k)
      BY DEF LabelledTo
    <3>4. At(n, k)' = At(n - 1, k)
      BY <1>6, <1>8, <3>1
    <3> QED
      BY <1>7, <3>2, <3>3, <3>4 DEF TellsRank
  <2> QED
    BY <2>1, <2>2
<1> QED
  BY <1>10 DEF LabelledTo

LEMMA LoopLabelInv ==
  ASSUME TypeInv, FormInv, MarkInv, PassInv, CountInv, BytesInv, LabelInv, LoopStep
  PROVE  LabelInv'
<1>1. /\ PartitionNum' = PartitionNum
      /\ FsblInstance'.hdr = FsblInstance.hdr /\ FsblInstance'.img = FsblInstance.img
      /\ FsblInstance'.reset = FsblInstance.reset
      /\ InLoop /\ pc' \in LoadingPcs \cup {"ERR", "HUNG"}
  BY LoopKeeps
<1>2. SUFFICES ASSUME FsblInstance.hdr, NEW n, n = PartitionNum
               PROVE  /\ pc' \in BeforeEvent => LabelledTo(n - 1)'
                      /\ pc' \in AfterEvent => LabelledTo(n)'
  <2>1. FsblInstance.hdr =>
          /\ pc' \in BeforeEvent => LabelledTo(PartitionNum - 1)'
          /\ pc' \in AfterEvent => LabelledTo(PartitionNum)'
    BY <1>1, <1>2
  <2> QED
    BY <1>1, <2>1 DEF LabelInv, LoadingPcs
<1>3. n \in Nat \ {0}
  BY <1>1, <1>2, CurrentPartition
<1>4. /\ pc \in BeforeEvent => LabelledTo(n - 1)
      /\ pc \in AfterEvent => LabelledTo(n)
      /\ pc \in BeforeEvent \cup AfterEvent
  BY <1>1, <1>2 DEF LabelInv, InLoop, LoadingPcs, BeforeEvent, AfterEvent
<1>5. CASE MeasurePartition
  <2>1. pc = "FINISH" /\ pc' \in {"PMUFW", "HUNG"}
    BY <1>5, PartitionRecords
  <2> QED
    BY <1>2, <1>4, <1>5, <2>1, MeasureLabels DEF BeforeEvent, AfterEvent
<1>6. CASE ~MeasurePartition
  <2>1. \A k \in 1 .. 4 : Under(log', k) = Under(log, k)
    BY <1>6, LoopRecords
  <2>2. \A m : LabelledTo(m) => LabelledTo(m)'
    BY <1>1, <2>1, SameLabels
  <2>3. /\ pc' \in BeforeEvent => pc \in BeforeEvent
        /\ pc \in BeforeEvent /\ pc' \in AfterEvent => n \notin MeasuredTo(n)
    BY <1>2, <1>6, PassedUnmeasured
  <2>4. CASE pc \in BeforeEvent /\ pc' \in AfterEvent
    <3>1. MeasuredTo(n) = MeasuredTo(n - 1)
      BY <1>3, <2>3, <2>4, MeasuredMore
    <3>2. LabelledTo(n)
      BY <1>4, <2>4, <3>1 DEF LabelledTo, TellsRank, At
    <3>3. pc' \notin BeforeEvent
      BY <2>4 DEF BeforeEvent, AfterEvent
    <3> QED
      BY <2>2, <3>2, <3>3
  <2>5. CASE ~(pc \in BeforeEvent /\ pc' \in AfterEvent)
    <3>1. /\ pc' \in BeforeEvent => LabelledTo(n - 1)
          /\ pc' \in AfterEvent => LabelledTo(n)
      BY <1>4, <2>3, <2>5
    <3> QED
      BY <2>2, <3>1
  <2> QED
    BY <2>4, <2>5
<1> QED
  BY <1>5, <1>6

\* The jump is taken behind the last partition.
LEMMA HandoffLabelInv ==
  ASSUME TypeInv, MarkInv, MarkInv', CountInv, LabelInv, HandoffStep
  PROVE  LabelInv'
<1>1. /\ UNCHANGED <<FsblInstance, log>> /\ LastPartition' = LastPartition
      /\ pc \in {"NEXT", "HANDOFF", "CPU"} /\ pc \in AfterEvent
      /\ pc' \in {"HEADER", "HANDOFF", "CPU", "ERR", "HUNG", "DONE", "NOHANDOFF"}
  BY HandoffKeeps, HandoffLog DEF LastPartition, CurImage, AfterEvent
<1>2. /\ PartitionNum \in Nat
      /\ pc' = "HEADER" => PartitionNum' = PartitionNum + 1
      /\ pc' # "HEADER" => PartitionNum' = PartitionNum
  BY HandoffMoves DEF TypeInv, TypeOK, PartitionIndex, XIH_MAX_PARTITIONS
<1>3. pc' = "DONE" => FsblInstance.hdr /\ PartitionNum >= LastPartition
  <2>1. pc' = "DONE" => HandoffExit /\ pc = "CPU" /\ runEntry # 0
    BY DEF HandoffStep, NextPartition, HandoffBegin, SkipEntry, ReleaseCpu, OwnEntry,
           HandoffExit, AfterEntry, Faulty, Refused, Unanswered, Fail, Goto
  <2> QED
    BY <1>1, <2>1 DEF MarkInv
<1>4. SUFFICES ASSUME FsblInstance.hdr, NEW n, n = PartitionNum, NEW last, last = LastPartition
               PROVE  LabelledTo(n)' /\ (pc' = "DONE" => n = last)
  <2>1. pc' = "HEADER" => PartitionNum' - 1 = PartitionNum
    BY <1>2
  <2>2. PICK n : n = PartitionNum
    OBVIOUS
  <2>3. FsblInstance.hdr => LabelledTo(n)' /\ (pc' = "DONE" => n = LastPartition)
    BY <1>4, <2>2
  <2>4. FsblInstance.hdr =>
          /\ pc' = "HEADER" => LabelledTo(PartitionNum - 1)'
          /\ pc' \in AfterEvent => LabelledTo(PartitionNum)'
          /\ pc' = "DONE" => LabelledTo(LastPartition)'
    BY <1>1, <1>2, <2>1, <2>2, <2>3 DEF AfterEvent
  <2> QED
    BY <1>1, <1>3, <2>4 DEF LabelInv, BeforeEvent
<1>5. n \in 1 .. last /\ LabelledTo(n)
  BY <1>1, <1>4 DEF LabelInv, CountInv
<1>6. LabelledTo(n)'
  BY <1>1, <1>5, SameLabels
<1>7. pc' = "DONE" => n = last
  <2>1. last \in Nat
    BY <1>4, LastNat
  <2> QED
    BY <1>3, <1>4, <1>5, <2>1
<1> QED
  BY <1>6, <1>7

LEMMA StartLabelInv ==
  ASSUME TypeInv, LogInv, TableInv, FormInv', StartStep
  PROVE  LabelInv'
<1>1. CASE ~(pc' = "HEADER" /\ PartitionNum' = 1)
  BY <1>1, StartMoves DEF LabelInv, BeforeEvent, AfterEvent
<1>2. CASE pc' = "HEADER" /\ PartitionNum' = 1
  <2>1. log'.partition = 1 /\ Formed(log')
    BY <1>2, FirstLabel DEF FormInv, Recording, BeforeEvent
  <2>2. \A k : At(0, k)' = {}
    BY DEF At, MeasuredTo
  <2>3. ASSUME NEW k \in 1 .. 4
        PROVE  Under(log', k) = {}
    <3>1. Labelled(log', PartitionLabel[k]) = {}
      BY <2>1 DEF Formed
    <3> QED
      BY <3>1 DEF Under
  <2>4. LabelledTo(0)'
    BY <2>2, <2>3 DEF LabelledTo, TellsRank
  <2>5. PartitionNum' - 1 = 0
    BY <1>2
  <2>6. LabelledTo(PartitionNum - 1)'
    BY <2>4, <2>5
  <2> QED
    BY <1>2, <2>6 DEF LabelInv, BeforeEvent, AfterEvent
<1> QED
  BY <1>1, <1>2

LEMMA OtherLabelInv ==
  ASSUME LabelInv, OtherStep
  PROVE  LabelInv'
<1>1. /\ UNCHANGED <<FsblInstance, log, PartitionNum>>
      /\ LastPartition' = LastPartition
      /\ pc' = pc \/ pc' \in {"SPIN", "SOFTRESET", "NOHANDOFF"}
  <2>1. log' = log
    BY DEF OtherStep, ErrorLockDown, PmuAnswers, PmuDies, vars, dataVars
  <2> QED
    BY <2>1, OtherKeeps DEF LastPartition, CurImage
<1>2. \A n : LabelledTo(n) => LabelledTo(n)'
  BY <1>1, SameLabels
<1>3. PartitionNum' - 1 = PartitionNum - 1
  BY <1>1
<1>4. /\ LabelledTo(PartitionNum - 1) => LabelledTo(PartitionNum - 1)'
      /\ LabelledTo(PartitionNum) => LabelledTo(PartitionNum)'
      /\ LabelledTo(LastPartition) => LabelledTo(LastPartition)'
  BY <1>1, <1>2, <1>3
<1> QED
  BY <1>1, <1>4 DEF LabelInv, BeforeEvent, AfterEvent

(***************************************************************************)
(* If the device delivers what it was asked for, which partition is told   *)
(* under which label when the FSBL hands over follows from the image and   *)
(* the kind of reset, for every image and whatever was refused, fell back, *)
(* hung or was restarted before.  What stands there is the digest of the   *)
(* partition's bytes, or the zeros of a SHA3 engine that failed            *)
(* (Tpm_Measure_Partition, XFsbl_ShaDigest).                               *)
(***************************************************************************)
THEOREM LabelsFollowOrder ==
  ASSUME "short" \notin Faults
  PROVE  Spec => []LabelsGoByOrder
<1> DEFINE I == PassingInv /\ CountInv /\ BytesInv /\ LabelInv
<1>1. Init => I
  BY InitPassingInv DEF Init, CountInv, BytesInv, LabelInv, BeforeEvent, AfterEvent
<1>2. I /\ [Next]_vars => I'
  <2> SUFFICES ASSUME I, [Next]_vars PROVE I'
    OBVIOUS
  <2>1. PassingInv' /\ FormInv' /\ MarkInv'
    BY PassingInvStep DEF PassingInv
  <2>2. CountInv'
    BY NextSteps, LoopCountInv, HandoffCountInv, StartCountInv, OtherCountInv
       DEF PassingInv
  <2>3. BytesInv'
    BY NextSteps, LoopBytesInv, OtherBytesInv DEF PassingInv
  <2>4. LabelInv'
    BY <2>1, NextSteps, LoopLabelInv, HandoffLabelInv, StartLabelInv, OtherLabelInv
       DEF PassingInv
  <2> QED
    BY <2>1, <2>2, <2>3, <2>4
<1>3. I => LabelsGoByOrder
  <2> SUFFICES ASSUME I, pc = "DONE", NEW k \in 1 .. 4
               PROVE  IF MeasuredAs(k) = {} THEN ToldOf(k) = {}
                      ELSE \E p \in MeasuredAs(k) :
                             \E d \in Digests(DigestOf(p)) : ToldOf(k) = {d}
    BY DEF LabelsGoByOrder, PartitionLabel
  <2>1. MeasuredAs(k) = At(LastPartition, k)
    BY DEF MeasuredAs, At
  <2>2. ToldOf(k) = Under(log, k)
    BY ToldUnder
  <2>3. TellsRank(LastPartition, k)
    BY DEF LabelInv, LabelledTo
  <2> QED
    BY <2>1, <2>2, <2>3 DEF TellsRank
<1> QED
  BY <1>1, <1>2, <1>3, PTL DEF Spec
=============================================================================
