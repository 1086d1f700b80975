----------------------------- MODULE PlMeasure -----------------------------
(***************************************************************************)
(* Loading an unsigned bitstream while it is hashed, fsbl_measured_pl.c,   *)
(* and what its caller does with the result, xfsbl_partition_load.c.       *)
(*                                                                         *)
(* The secure stream switch routes the words a DMA channel reads to the    *)
(* PCAP, to the AES engine and from there to the PCAP, and to the SHA3     *)
(* engine.  A word is where it was read and whether it was then as made;   *)
(* another master may write to DDR at any time, ReadBuffer lies in OCM.    *)
(* An encrypted bitstream is a secure header and its GCM tag, then each    *)
(* encrypted block followed by the header of the next one and a tag; a     *)
(* header names the length of the block that follows, the last one 0.      *)
(***************************************************************************)
EXTENDS Integers, Sequences

CONSTANTS
  SHA3_BLOCK_LEN,    \* words the SHA3 engine takes at a time
  READ_BUFFER_SIZE,  \* words in ReadBuffer
  HDR_SIZE,          \* words of a secure header
  TAG_SIZE,          \* words of a GCM tag, and of an IV
  Bitstreams,        \* those looked at
  MaxWrites          \* bound on writes by other masters

(***************************************************************************)
(* A bitstream: its size in the partition header, which nothing protects,  *)
(* the blocks it was encrypted in (none: plain), the words the PL needs to *)
(* start, which may come before trailing no-ops, whether the board has DDR *)
(* to load it to, and what may fail: "dma", "sha", "key" or "flash".       *)
(***************************************************************************)
Bitstream ==
  [size : Nat \ {0}, encrypted : BOOLEAN, blocks : Seq(Nat \ {0}), starts : Nat,
   ddr : BOOLEAN, faults : SUBSET {"dma", "sha", "key", "flash"}]

ASSUME PlMeasureSizes ==
  /\ SHA3_BLOCK_LEN \in Nat \ {0} /\ READ_BUFFER_SIZE \in Nat \ {0}
  /\ HDR_SIZE \in Nat \ {0} /\ TAG_SIZE \in Nat \ {0} /\ MaxWrites \in Nat
  /\ Bitstreams \subseteq Bitstream
  /\ \A b \in Bitstreams : b.encrypted => b.ddr

VARIABLES
  bitstream,       \* the one that is loaded
  pc,              \* where the load is
  changed,         \* words of DDR that are not as made
  writes,          \* writes by other masters so far
  sss,             \* what feeds the PCAP, the AES and the SHA3 engine
  SrcAddr,         \* the next word to be read
  left,            \* words a DMA transfer has still to read
  RemainingBytes,  \* words still to be loaded in chunks
  NextBlkLen, CurrentImgLen, BlockCnt,  \* the block loop of Pl_Measure_Encrypted
  clean,           \* the AES engine saw only what was encrypted
  sha,             \* what the SHA3 engine took: number of words, and the data
  Sha3Len,         \* what the driver believes it took
  pl,              \* words the PL has taken
  Status,          \* "OK" or "ERROR"
  PartitionDigest,
  log              \* events recorded

readVars == <<SrcAddr, left, RemainingBytes>>
aesVars == <<NextBlkLen, CurrentImgLen, BlockCnt, clean>>
shaVars == <<sha, Sha3Len>>
envVars == <<bitstream, changed, writes>>
endVars == <<Status, PartitionDigest, log>>
vars == <<envVars, pc, sss, readVars, aesVars, shaVars, pl, endVars>>

-----------------------------------------------------------------------------
(***************************************************************************)
(* The streams: what goes where.                                           *)
(***************************************************************************)
Unrouted == [pcap |-> "NONE", aes |-> "NONE", sha |-> "NONE"]
ToSha(s) == s.sha = "DMA"
ToPcap(s) == s.pcap = "DMA" \/ (s.pcap = "AES" /\ s.aes = "DMA")
NoWords == [words |-> 0, data |-> <<>>]

AsMade(a) == ~bitstream.ddr \/ a \notin changed
WordAt(a) == [at |-> a, made |-> AsMade(a)]
RangeMade(a, n) == \A i \in a .. (a + n - 1) : AsMade(i)

AbsorbWord(w) ==
  sha' = IF ToSha(sss)
         THEN [words |-> sha.words + 1, data |-> Append(sha.data, w)] ELSE sha
AbsorbOther(n) ==
  sha' = IF ToSha(sss) THEN [sha EXCEPT !.words = sha.words + n] ELSE sha

(***************************************************************************)
(* PartitionDigest starts as zeros, which it stays when XSecure_Sha3Finish *)
(* gives up; its status is not looked at.                                  *)
(***************************************************************************)
None == [data |-> <<>>, words |-> 0, pad |-> -1]

Init ==
  /\ bitstream \in Bitstreams
  /\ pc = "START"
  /\ changed = {} /\ writes = 0
  /\ sss = Unrouted
  /\ SrcAddr = 0 /\ left = 0 /\ RemainingBytes = 0
  /\ NextBlkLen = 0 /\ CurrentImgLen = 0 /\ BlockCnt = 0 /\ clean = TRUE
  /\ sha = NoWords /\ Sha3Len = 0
  /\ pl = <<>>
  /\ Status = "OK" /\ PartitionDigest = None /\ log = <<>>

Sha3Start == sha' = NoWords /\ Sha3Len' = 0
MayFail(f) == f \in bitstream.faults

-----------------------------------------------------------------------------
(***************************************************************************)
(* Pl_Measure_Unencrypted, for which the bitstream is one chunk, and       *)
(* Pl_Measure_Chunked, which copies each chunk to ReadBuffer first.  A     *)
(* mutant takes every chunk for a full one.                                *)
(***************************************************************************)
StartPlain ==
  /\ pc = "START" /\ ~bitstream.encrypted
  /\ Sha3Start
  /\ RemainingBytes' = bitstream.size
  /\ pc' = "CHUNK"
  /\ UNCHANGED <<envVars, sss, SrcAddr, left, aesVars, pl, endVars>>

AlwaysFull == READ_BUFFER_SIZE
ChunkSize ==
  IF bitstream.ddr \/ RemainingBytes < READ_BUFFER_SIZE THEN RemainingBytes
  ELSE READ_BUFFER_SIZE

(***************************************************************************)
(* Pl_Measure_WriteToPcap_with_SHA3: the words go to the PCAP and to the   *)
(* SHA3 engine at once.                                                    *)
(***************************************************************************)
PlainRoute == [pcap |-> "DMA", aes |-> "NONE", sha |-> "DMA"]
SendChunk ==
  /\ pc = "CHUNK" /\ RemainingBytes > 0
  /\ sss' = PlainRoute
  /\ left' = ChunkSize
  /\ RemainingBytes' = RemainingBytes - ChunkSize
  /\ Sha3Len' = Sha3Len + ChunkSize
  /\ pc' = "DMA"
  /\ UNCHANGED <<envVars, SrcAddr, aesVars, sha, pl, endVars>>

ChunkCopyFails ==
  /\ pc = "CHUNK" /\ RemainingBytes > 0
  /\ ~bitstream.ddr /\ MayFail("flash")
  /\ Status' = "ERROR" /\ pc' = "FINISH"
  /\ UNCHANGED <<envVars, sss, readVars, aesVars, shaVars, pl, PartitionDigest, log>>

ChunksEnd ==
  /\ pc = "CHUNK" /\ RemainingBytes = 0
  /\ pc' = "FINISH"
  /\ UNCHANGED <<envVars, sss, readVars, aesVars, shaVars, pl, endVars>>

(***************************************************************************)
(* A word of data goes through the switch.                                 *)
(***************************************************************************)
DmaWord ==
  /\ pc = "DMA" /\ left > 0
  /\ AbsorbWord(WordAt(SrcAddr))
  /\ pl' = IF ToPcap(sss) THEN Append(pl, WordAt(SrcAddr)) ELSE pl
  /\ clean' = (clean /\ AsMade(SrcAddr))
  /\ SrcAddr' = SrcAddr + 1 /\ left' = left - 1
  /\ UNCHANGED <<envVars, pc, sss, RemainingBytes, NextBlkLen, CurrentImgLen, BlockCnt,
                 Sha3Len, endVars>>

DmaDone ==
  /\ pc = "DMA" /\ left = 0
  /\ pc' = IF bitstream.encrypted THEN "HEADER" ELSE "CHUNK"
  /\ UNCHANGED <<envVars, sss, readVars, aesVars, shaVars, pl, endVars>>

(***************************************************************************)
(* A transfer that never ends is given up by the AES driver; the wait of   *)
(* Pl_Measure_WriteToPcap_with_SHA3 has no limit.                          *)
(***************************************************************************)
DmaStalls ==
  /\ MayFail("dma")
  /\ \/ /\ pc \in {"DMA", "IV", "HEADER", "TAG"} /\ bitstream.encrypted
        /\ Status' = "ERROR" /\ pc' = "FINISH"
     \/ /\ pc = "DMA" /\ ~bitstream.encrypted
        /\ pc' = "HANGS" /\ UNCHANGED Status
  /\ UNCHANGED <<envVars, sss, readVars, aesVars, shaVars, pl, PartitionDigest, log>>

-----------------------------------------------------------------------------
(***************************************************************************)
(* Pl_Measure_Encrypted: the switch is set before the first block.         *)
(***************************************************************************)
EncryptedRoute == [pcap |-> "AES", aes |-> "DMA", sha |-> "DMA"]
StartEncrypted ==
  /\ pc = "START" /\ bitstream.encrypted
  /\ sss' = EncryptedRoute
  /\ Sha3Start
  /\ pc' = "IV"
  /\ UNCHANGED <<envVars, readVars, aesVars, pl, endVars>>

(***************************************************************************)
(* XSecure_AesDecryptBlk: IV, data unless it is the first header, header   *)
(* and tag.  What the header decrypts to goes to the key and IV registers, *)
(* so the PCAP takes data only; the SHA3 engine takes all.                 *)
(***************************************************************************)
PushIv ==
  /\ pc = "IV"
  /\ AbsorbOther(TAG_SIZE)
  /\ left' = NextBlkLen
  /\ pc' = IF BlockCnt = 0 THEN "HEADER" ELSE "DMA"
  /\ UNCHANGED <<envVars, sss, SrcAddr, RemainingBytes, aesVars, Sha3Len, pl, endVars>>

PushHeader ==
  /\ pc = "HEADER"
  /\ AbsorbOther(HDR_SIZE)
  /\ clean' = (clean /\ RangeMade(SrcAddr, HDR_SIZE))
  /\ SrcAddr' = SrcAddr + HDR_SIZE
  /\ pc' = "TAG"
  /\ UNCHANGED <<envVars, sss, left, RemainingBytes, NextBlkLen, CurrentImgLen, BlockCnt,
                 Sha3Len, pl, endVars>>

(***************************************************************************)
(* The tag is compared when the block is already in the PL.                *)
(***************************************************************************)
PushTag ==
  /\ pc = "TAG"
  /\ AbsorbOther(TAG_SIZE)
  /\ clean' = (clean /\ RangeMade(SrcAddr, TAG_SIZE))
  /\ SrcAddr' = SrcAddr + TAG_SIZE
  /\ pc' = "CHECK"
  /\ UNCHANGED <<envVars, sss, left, RemainingBytes, NextBlkLen, CurrentImgLen, BlockCnt,
                 Sha3Len, pl, endVars>>

NamedLen ==
  IF BlockCnt < Len(bitstream.blocks) THEN bitstream.blocks[BlockCnt + 1] ELSE 0

TagOk == clean
LengthOk ==
  LET length == CurrentImgLen + NamedLen IN
  IF NamedLen = 0 THEN length = bitstream.size ELSE length <= bitstream.size

NextBlock ==
  /\ pc = "CHECK" /\ TagOk /\ LengthOk /\ NamedLen # 0
  /\ NextBlkLen' = NamedLen
  /\ CurrentImgLen' = CurrentImgLen + NamedLen
  /\ BlockCnt' = BlockCnt + 1
  /\ pc' = "IV"
  /\ UNCHANGED <<envVars, sss, readVars, clean, shaVars, pl, endVars>>

LastBlock ==
  /\ pc = "CHECK" /\ TagOk /\ LengthOk /\ NamedLen = 0
  /\ NextBlkLen' = 0
  /\ pc' = "FINISH"
  /\ UNCHANGED <<envVars, sss, readVars, CurrentImgLen, BlockCnt, clean, shaVars, pl, endVars>>

(***************************************************************************)
(* A mutant stops for a wrong tag only.                                    *)
(***************************************************************************)
TagFails ==
  /\ pc = "CHECK" /\ ~TagOk
  /\ Status' = "ERROR" /\ pc' = "FINISH"
  /\ UNCHANGED <<envVars, sss, readVars, aesVars, shaVars, pl, PartitionDigest, log>>
DecryptionFails ==
  /\ pc = "CHECK" /\ ~(TagOk /\ LengthOk)
  /\ Status' = "ERROR" /\ pc' = "FINISH"
  /\ UNCHANGED <<envVars, sss, readVars, aesVars, shaVars, pl, PartitionDigest, log>>

-----------------------------------------------------------------------------
(***************************************************************************)
(* XSecure_Sha3Finish: XSecure_SssCfg sets the whole switch, so that the   *)
(* padding goes to the SHA3 engine alone; its length follows from Sha3Len. *)
(* A mutant of the switch keeps what fed the PCAP.  Then the keys are      *)
(* cleared, whose failure takes the place of the status.                   *)
(***************************************************************************)
ShaAdded == [sss EXCEPT !.sha = "DMA"]
ShaOnly == [Unrouted EXCEPT !.sha = "DMA"]
PadWord == [at |-> -1, made |-> FALSE]
Finish ==
  /\ pc = "FINISH"
  /\ sss' = ShaOnly
  /\ pl' = IF ToPcap(sss') THEN Append(pl, PadWord) ELSE pl
  /\ \/ PartitionDigest' = [data |-> sha.data, words |-> sha.words,
                            pad |-> Sha3Len % SHA3_BLOCK_LEN]
     \/ MayFail("sha") /\ UNCHANGED PartitionDigest
  /\ \/ UNCHANGED Status
     \/ bitstream.encrypted /\ MayFail("key") /\ Status' = "ERROR"
  /\ pc' = "RETURN"
  /\ UNCHANGED <<envVars, readVars, aesVars, shaVars, log>>

(***************************************************************************)
(* Tpm_Measure_Pl records the event; after an error it does not.           *)
(***************************************************************************)
RecordEvent ==
  /\ pc = "RETURN" /\ Status = "OK"
  /\ log' = Append(log, PartitionDigest)
  /\ pc' = "WAIT"
  /\ UNCHANGED <<envVars, sss, readVars, aesVars, shaVars, pl, Status, PartitionDigest>>

(***************************************************************************)
(* XFsbl_PartitionValidation resets the PL when the decryption failed; it  *)
(* does not look at the status of a plain bitstream.                       *)
(***************************************************************************)
ResetPl ==
  /\ pc = "RETURN" /\ Status = "ERROR" /\ bitstream.encrypted
  /\ pl' = <<>>
  /\ pc' = "REFUSED"
  /\ UNCHANGED <<envVars, sss, readVars, aesVars, shaVars, endVars>>

IgnoreError ==
  /\ pc = "RETURN" /\ Status = "ERROR" /\ ~bitstream.encrypted
  /\ pc' = "WAIT"
  /\ UNCHANGED <<envVars, sss, readVars, aesVars, shaVars, pl, endVars>>

(***************************************************************************)
(* XFsbl_PLWaitForDone: the PL starts when it has what it needs; whether   *)
(* it starts on words that were changed is left open.                      *)
(***************************************************************************)
MayStart == Len(pl) >= bitstream.starts
MustStart == MayStart /\ \A i \in 1 .. bitstream.starts : pl[i].made

PlDone ==
  /\ pc = "WAIT" /\ MayStart
  /\ pc' = "RUNS"
  /\ UNCHANGED <<envVars, sss, readVars, aesVars, shaVars, pl, endVars>>

PlNotDone ==
  /\ pc = "WAIT" /\ ~MustStart
  /\ pc' = "NOT DONE"
  /\ UNCHANGED <<envVars, sss, readVars, aesVars, shaVars, pl, endVars>>

-----------------------------------------------------------------------------
Running == pc \notin {"RUNS", "NOT DONE", "REFUSED", "HANGS"}
Memory == 0 .. (bitstream.size + (Len(bitstream.blocks) + 1) * (HDR_SIZE + TAG_SIZE))
OtherMasterWrites(a) ==
  /\ Running /\ bitstream.ddr /\ writes < MaxWrites
  /\ changed' = IF a \in changed THEN changed \ {a} ELSE changed \cup {a}
  /\ writes' = writes + 1
  /\ UNCHANGED <<bitstream, pc, sss, readVars, aesVars, shaVars, pl, endVars>>

Step ==
  \/ StartPlain \/ SendChunk \/ ChunkCopyFails \/ ChunksEnd
  \/ StartEncrypted \/ PushIv \/ PushHeader \/ PushTag
  \/ NextBlock \/ LastBlock \/ DecryptionFails
  \/ DmaWord \/ DmaDone \/ DmaStalls
  \/ Finish \/ RecordEvent \/ ResetPl \/ IgnoreError \/ PlDone \/ PlNotDone

Next == Step \/ \E a \in Memory : OtherMasterWrites(a)

Spec == Init /\ [][Next]_vars
FairSpec == Spec /\ WF_vars(Step)

-----------------------------------------------------------------------------
(***************************************************************************)
(* The variables keep their types.                                         *)
(***************************************************************************)
Words == Seq([at : Int, made : BOOLEAN])
Digests == [data : Words, words : Nat, pad : Int]
PlMeasureTypeOK ==
  /\ bitstream \in Bitstreams
  /\ pc \in {"START", "CHUNK", "DMA", "IV", "HEADER", "TAG", "CHECK", "FINISH", "RETURN",
             "WAIT", "RUNS", "NOT DONE", "REFUSED", "HANGS"}
  /\ changed \subseteq Nat /\ writes \in 0 .. MaxWrites
  /\ sss \in [pcap : {"NONE", "DMA", "AES"}, aes : {"NONE", "DMA"}, sha : {"NONE", "DMA"}]
  /\ SrcAddr \in Nat /\ left \in Nat /\ RemainingBytes \in Nat
  /\ NextBlkLen \in Nat /\ CurrentImgLen \in Nat /\ BlockCnt \in Nat /\ clean \in BOOLEAN
  /\ sha \in [words : Nat, data : Words] /\ Sha3Len \in Nat /\ pl \in Words
  /\ Status \in {"OK", "ERROR"}
  /\ PartitionDigest \in Digests /\ log \in Seq(Digests)

(***************************************************************************)
(* Whatever other masters write and whatever fails, the event is of        *)
(* exactly the words the PL has taken and of all of them, an encrypted     *)
(* bitstream runs as it was made or is cleared from the PL, and only a     *)
(* plain one whose copy from flash failed may run without its event        *)
(* (Tpm_Measure_Pl, XFsbl_PartitionValidation).                            *)
(***************************************************************************)
Promise == INSTANCE MeasuredLoad WITH
  encrypted <- bitstream.encrypted,
  size <- bitstream.size,
  frail <- bitstream.faults,
  status <- IF pc = "RUNS" THEN "running"
            ELSE IF pc \in {"REFUSED", "NOT DONE"} THEN "refused" ELSE "loading"
MeasuredAsPromised == Promise!Spec

(***************************************************************************)
(* A load comes to its end, unless a transfer of the plain path stalls     *)
(* (Pl_Measure_Chunked, Pl_Measure_Encrypted).                             *)
(***************************************************************************)
LoadEnds == <>(~Running)

(***************************************************************************)
(* "reads final hash on complete data": the padding of a message fits its  *)
(* length, as SHA3 wants it (XSecure_Sha3Finish for Pl_Measure_Encrypted). *)
(***************************************************************************)
DigestOfCompleteData ==
  \A i \in DOMAIN log :
    log[i] # None => log[i].pad = log[i].words % SHA3_BLOCK_LEN
=============================================================================
