-------------------------- MODULE PlMeasureProofs --------------------------
(***************************************************************************)
(* Loading an unsigned bitstream keeps the promise of MeasuredLoad for     *)
(* every bitstream, buffer, fault and number of writes by other masters.   *)
(***************************************************************************)
EXTENDS PlMeasure, TLAPS

\* What is known of a bitstream.
LEMMA BitstreamFacts ==
  ASSUME bitstream \in Bitstreams
  PROVE  /\ bitstream.size \in Nat \ {0} /\ bitstream.encrypted \in BOOLEAN
         /\ bitstream.blocks \in Seq(Nat \ {0}) /\ bitstream.starts \in Nat
         /\ bitstream.ddr \in BOOLEAN
         /\ bitstream.encrypted => bitstream.ddr
<1>1. bitstream \in Bitstream
  BY PlMeasureSizes
<1>. QED
  BY <1>1, PlMeasureSizes DEF Bitstream

\* A word is an address and a truth value.
LEMMA WordTypes ==
  ASSUME bitstream \in Bitstreams, NEW a \in Nat
  PROVE  WordAt(a) \in [at : Int, made : BOOLEAN] /\ AsMade(a) \in BOOLEAN
<1>1. AsMade(a) \in BOOLEAN
  BY BitstreamFacts DEF AsMade
<1>. QED
  BY <1>1 DEF WordAt

\* The length a header names.
LEMMA NamedLenType ==
  ASSUME bitstream \in Bitstreams, BlockCnt \in Nat
  PROVE  NamedLen \in Nat
<1>1. bitstream.blocks \in Seq(Nat \ {0}) /\ Len(bitstream.blocks) \in Nat
  BY BitstreamFacts
<1>2. CASE BlockCnt < Len(bitstream.blocks)
  <2>1. BlockCnt + 1 \in 1 .. Len(bitstream.blocks)
    BY <1>1, <1>2
  <2>. QED
    BY <1>1, <1>2, <2>1 DEF NamedLen
<1>3. CASE ~(BlockCnt < Len(bitstream.blocks))
  BY <1>3 DEF NamedLen
<1>. QED
  BY <1>2, <1>3

\* A chunk is a part of what remains.
LEMMA ChunkFacts ==
  ASSUME bitstream \in Bitstreams, RemainingBytes \in Nat, RemainingBytes > 0
  PROVE  ChunkSize \in 1 .. RemainingBytes
  BY PlMeasureSizes DEF ChunkSize

\* What the load starts with.
LEMMA EmptyTypes ==
  <<>> \in Words /\ None \in Digests /\ NoWords \in [words : Nat, data : Words]
<1>1. <<>> \in Words
  BY DEF Words
<1>. QED
  BY <1>1 DEF None, NoWords, Digests

\* What the SHA3 engine takes has its type.
LEMMA AbsorbTypes ==
  ASSUME PlMeasureTypeOK, NEW n \in Nat, NEW w \in [at : Int, made : BOOLEAN],
         AbsorbOther(n) \/ AbsorbWord(w)
  PROVE  sha' \in [words : Nat, data : Words]
<1>1. sha \in [words : Nat, data : Words]
  BY DEF PlMeasureTypeOK
<1>2. sha = [words |-> sha.words, data |-> sha.data] /\ sha.words \in Nat /\ sha.data \in Words
  BY <1>1
<1>3. [sha EXCEPT !.words = sha.words + n] \in [words : Nat, data : Words]
  BY <1>1, <1>2
<1>4. Append(sha.data, w) \in Words
  BY <1>2 DEF Words
<1>5. [words |-> sha.words + 1, data |-> Append(sha.data, w)] \in [words : Nat, data : Words]
  BY <1>2, <1>4
<1>. QED
  BY <1>1, <1>3, <1>5 DEF AbsorbOther, AbsorbWord

-----------------------------------------------------------------------------
(***************************************************************************)
(* Every step keeps the types.                                             *)
(***************************************************************************)
LEMMA NextTypes == PlMeasureTypeOK /\ [Next]_vars => PlMeasureTypeOK'
<1>. SUFFICES ASSUME PlMeasureTypeOK, [Next]_vars
              PROVE  PlMeasureTypeOK'
  OBVIOUS
<1>. USE PlMeasureSizes
<1>1. bitstream \in Bitstreams /\ NoWords \in [words : Nat, data : Words]
  BY EmptyTypes DEF PlMeasureTypeOK
<1>2. CASE StartPlain
  BY <1>1, <1>2, BitstreamFacts
  DEF StartPlain, Sha3Start, PlMeasureTypeOK, envVars, readVars, aesVars, shaVars, endVars
<1>3. CASE SendChunk
  <2>1. ChunkSize \in 1 .. RemainingBytes
    BY <1>3, ChunkFacts DEF SendChunk, PlMeasureTypeOK
  <2>. QED
    BY <1>3, <2>1
    DEF SendChunk, PlainRoute, PlMeasureTypeOK, envVars, readVars, aesVars, shaVars, endVars
<1>4. CASE ChunkCopyFails \/ ChunksEnd \/ DmaDone \/ DmaStalls
  BY <1>4
  DEF ChunkCopyFails, ChunksEnd, DmaDone, DmaStalls, PlMeasureTypeOK, envVars, readVars, aesVars,
      shaVars, endVars
<1>5. CASE DmaWord
  <2>1. SrcAddr \in Nat /\ left \in Nat /\ clean \in BOOLEAN /\ pl \in Words
    BY DEF PlMeasureTypeOK
  <2>2. WordAt(SrcAddr) \in [at : Int, made : BOOLEAN] /\ AsMade(SrcAddr) \in BOOLEAN
    BY <1>1, <2>1, WordTypes
  <2>3. sha' \in [words : Nat, data : Words]
    BY <1>5, <2>2, AbsorbTypes DEF DmaWord
  <2>4. pl' \in Words
    <3>1. Append(pl, WordAt(SrcAddr)) \in Words
      BY <2>1, <2>2 DEF Words
    <3>. QED
      BY <1>5, <2>1, <3>1 DEF DmaWord
  <2>5. clean' \in BOOLEAN /\ SrcAddr' \in Nat /\ left' \in Nat
    BY <1>5, <2>1, <2>2 DEF DmaWord
  <2>. QED
    BY <1>5, <2>3, <2>4, <2>5
    DEF DmaWord, PlMeasureTypeOK, envVars, endVars
<1>6. CASE StartEncrypted
  BY <1>1, <1>6
  DEF StartEncrypted, EncryptedRoute, Sha3Start, PlMeasureTypeOK, envVars, readVars, aesVars,
      shaVars, endVars
<1>7. ASSUME NEW n \in Nat, AbsorbOther(n)
      PROVE  sha' \in [words : Nat, data : Words]
  <2>1. [at |-> 0, made |-> TRUE] \in [at : Int, made : BOOLEAN]
    OBVIOUS
  <2>. QED
    BY <1>7, <2>1, AbsorbTypes
<1>8. CASE PushIv
  <2>1. sha' \in [words : Nat, data : Words]
    BY <1>7, <1>8 DEF PushIv
  <2>. QED
    BY <1>8, <2>1 DEF PushIv, PlMeasureTypeOK, envVars, readVars, aesVars, endVars
<1>9. CASE PushHeader
  <2>1. sha' \in [words : Nat, data : Words]
    BY <1>7, <1>9 DEF PushHeader
  <2>2. clean' \in BOOLEAN /\ SrcAddr' \in Nat
    BY <1>9 DEF PushHeader, RangeMade, PlMeasureTypeOK
  <2>. QED
    BY <1>9, <2>1, <2>2 DEF PushHeader, PlMeasureTypeOK, envVars, endVars
<1>10. CASE PushTag
  <2>1. sha' \in [words : Nat, data : Words]
    BY <1>7, <1>10 DEF PushTag
  <2>2. clean' \in BOOLEAN /\ SrcAddr' \in Nat
    BY <1>10 DEF PushTag, RangeMade, PlMeasureTypeOK
  <2>. QED
    BY <1>10, <2>1, <2>2 DEF PushTag, PlMeasureTypeOK, envVars, endVars
<1>11. CASE NextBlock \/ LastBlock \/ DecryptionFails
  <2>1. NamedLen \in Nat /\ CurrentImgLen \in Nat /\ BlockCnt \in Nat
    BY NamedLenType DEF PlMeasureTypeOK
  <2>2. CurrentImgLen + NamedLen \in Nat /\ BlockCnt + 1 \in Nat
    BY <2>1
  <2>3. CASE NextBlock
    BY <2>1, <2>2, <2>3
    DEF NextBlock, PlMeasureTypeOK, envVars, readVars, shaVars, endVars
  <2>4. CASE LastBlock
    BY <2>4
    DEF LastBlock, PlMeasureTypeOK, envVars, readVars, shaVars, endVars
  <2>5. CASE DecryptionFails
    BY <2>5
    DEF DecryptionFails, PlMeasureTypeOK, envVars, readVars, aesVars, shaVars
  <2>. QED
    BY <1>11, <2>3, <2>4, <2>5
<1>12. CASE Finish
  <2>1. pl' \in Words
    <3>1. PadWord \in [at : Int, made : BOOLEAN]
      BY DEF PadWord
    <3>2. pl \in Words
      BY DEF PlMeasureTypeOK
    <3>3. Append(pl, PadWord) \in Words
      BY <3>1, <3>2 DEF Words
    <3>. QED
      BY <1>12, <3>2, <3>3 DEF Finish
  <2>2. PartitionDigest' \in Digests
    <3>1. Sha3Len \in Nat
      BY DEF PlMeasureTypeOK
    <3>2. (Sha3Len % SHA3_BLOCK_LEN) \in Int
      BY <3>1
    <3>. QED
      BY <1>12, <3>2 DEF Finish, PlMeasureTypeOK, Digests
  <2>3. sss' \in [pcap : {"NONE", "DMA", "AES"}, aes : {"NONE", "DMA"}, sha : {"NONE", "DMA"}]
    BY <1>12 DEF Finish, ShaOnly, Unrouted
  <2>. QED
    BY <1>12, <2>1, <2>2, <2>3
    DEF Finish, PlMeasureTypeOK, envVars, readVars, aesVars, shaVars
<1>13. CASE RecordEvent
  <2>1. log' \in Seq(Digests)
    BY <1>13 DEF RecordEvent, PlMeasureTypeOK
  <2>. QED
    BY <1>13, <2>1 DEF RecordEvent, PlMeasureTypeOK, envVars, readVars, aesVars, shaVars
<1>14. CASE ResetPl \/ IgnoreError \/ PlDone \/ PlNotDone
  <2>1. <<>> \in Words
    BY DEF Words
  <2>. QED
    BY <1>14, <2>1
    DEF ResetPl, IgnoreError, PlDone, PlNotDone, PlMeasureTypeOK, envVars, readVars, aesVars,
        shaVars, endVars
<1>15. ASSUME NEW a \in Memory, OtherMasterWrites(a)
       PROVE  PlMeasureTypeOK'
  <2>1. a \in Nat
    BY <1>1, BitstreamFacts DEF Memory
  <2>2. /\ changed \subseteq Nat /\ writes \in 0 .. MaxWrites /\ MaxWrites \in Nat
        /\ changed' = IF a \in changed THEN changed \ {a} ELSE changed \cup {a}
        /\ writes < MaxWrites /\ writes' = writes + 1
    BY <1>15 DEF OtherMasterWrites, PlMeasureTypeOK
  <2>3. changed' \subseteq Nat
    BY <2>1, <2>2
  <2>4. writes' \in 0 .. MaxWrites
    BY <2>2
  <2>. QED
    BY <1>15, <2>3, <2>4 DEF OtherMasterWrites, PlMeasureTypeOK, readVars, aesVars, shaVars, endVars
<1>16. CASE UNCHANGED vars
  BY <1>16 DEF vars, PlMeasureTypeOK, envVars, readVars, aesVars, shaVars, endVars
<1>. QED
  BY <1>2, <1>3, <1>4, <1>5, <1>6, <1>8, <1>9, <1>10, <1>11, <1>12, <1>13, <1>14, <1>15, <1>16
  DEF Next, Step

\* The load starts with these types.
LEMMA InitTypes == Init => PlMeasureTypeOK
<1>1. <<>> \in Seq(Digests)
  OBVIOUS
<1>. QED
  BY <1>1, EmptyTypes, PlMeasureSizes DEF Init, PlMeasureTypeOK, Unrouted

(***************************************************************************)
(* The load keeps its types (Tpm_Measure_Pl and what it calls).            *)
(***************************************************************************)
THEOREM PlMeasureTypeCorrect == Spec => []PlMeasureTypeOK
  BY InitTypes, NextTypes, PTL DEF Spec

-----------------------------------------------------------------------------
(***************************************************************************)
(* What holds while a bitstream is loaded: the path taken fits the         *)
(* bitstream, the switch feeds both engines, the SHA3 engine has taken the *)
(* data the PL has taken, the lengths add up, what an undisturbed          *)
(* decryption sent is as made, and there is no event before the end.       *)
(***************************************************************************)
Ending == {"FINISH", "RETURN"}
Over == {"WAIT", "RUNS", "NOT DONE"}
Block == {"IV", "HEADER", "TAG", "CHECK"}

PathInv ==
  /\ bitstream.encrypted => pc \notin {"CHUNK", "HANGS"}
  /\ ~bitstream.encrypted => pc \notin Block \cup {"REFUSED"}
RouteInv ==
  /\ pc \in Block => sss = EncryptedRoute
  /\ pc = "DMA" => sss = IF bitstream.encrypted THEN EncryptedRoute ELSE PlainRoute
StreamInv ==
  /\ pc = "START" => pl = <<>> /\ left = 0 /\ NextBlkLen = 0 /\ CurrentImgLen = 0
  /\ pc \in {"CHUNK", "DMA", "FINISH"} \cup Block => sha.data = pl
PlainLengths ==
  ~bitstream.encrypted =>
    /\ pc \in {"CHUNK", "DMA"} => /\ RemainingBytes + left + Len(pl) = bitstream.size
                                 /\ sha.words = Len(pl) /\ Sha3Len = Len(pl) + left
    /\ pc = "CHUNK" => left = 0
    /\ pc = "FINISH" /\ Status = "OK" => Sha3Len = sha.words
EncryptedLengths ==
  bitstream.encrypted =>
    /\ pc = "IV" => CurrentImgLen = Len(pl) + NextBlkLen /\ (BlockCnt = 0 => NextBlkLen = 0)
    /\ pc = "DMA" => CurrentImgLen = Len(pl) + left
    /\ pc \in {"HEADER", "TAG", "CHECK"} => CurrentImgLen = Len(pl)
WholeInv == pc \in Ending /\ Status = "OK" => Promise!Whole
MadeInv ==
  bitstream.encrypted =>
    /\ pc \in {"DMA"} \cup Block /\ clean => Promise!AsMade
    /\ pc \in Ending /\ Status = "OK" => Promise!AsMade
DigestInv ==
  /\ pc \notin {"RETURN", "REFUSED"} \cup Over => PartitionDigest = None
  /\ pc = "RETURN" =>
       \/ PartitionDigest = None /\ MayFail("sha")
       \/ /\ PartitionDigest # None /\ PartitionDigest.data = pl
          /\ ~bitstream.encrypted /\ Status = "OK" => Promise!PaddingFits(PartitionDigest)
StatusInv ==
  /\ pc \notin Ending \cup Over \cup {"REFUSED"} => Status = "OK"
  /\ Status = "ERROR" /\ ~bitstream.encrypted => MayFail("flash")
LogInv ==
  /\ pc \notin Over => log = <<>>
  /\ pc \in Over /\ log = <<>> => ~bitstream.encrypted /\ MayFail("flash")

MeasureInv ==
  /\ PlMeasureTypeOK
  /\ PathInv /\ RouteInv /\ StreamInv /\ PlainLengths /\ EncryptedLengths
  /\ WholeInv /\ MadeInv /\ DigestInv /\ StatusInv /\ LogInv

\* What the types say of the parts the invariant is about.
LEMMA PartTypes ==
  ASSUME MeasureInv
  PROVE  /\ bitstream \in Bitstreams /\ bitstream.encrypted \in BOOLEAN
         /\ bitstream.size \in Nat \ {0}
         /\ pl \in Words /\ Len(pl) \in Nat /\ sha.data \in Words /\ sha.words \in Nat
         /\ Sha3Len \in Nat /\ left \in Nat /\ RemainingBytes \in Nat
         /\ NextBlkLen \in Nat /\ CurrentImgLen \in Nat /\ BlockCnt \in Nat
         /\ SrcAddr \in Nat /\ clean \in BOOLEAN
<1>1. bitstream \in Bitstreams /\ pl \in Words /\ sha \in [words : Nat, data : Words]
  BY DEF MeasureInv, PlMeasureTypeOK
<1>2. Len(pl) \in Nat
  BY <1>1 DEF Words
<1>. QED
  BY <1>1, <1>2, BitstreamFacts DEF MeasureInv, PlMeasureTypeOK

(***************************************************************************)
(* Every step keeps the invariant.                                         *)
(***************************************************************************)
LEMMA NextKeepsInv == MeasureInv /\ [Next]_vars => MeasureInv'
<1>. SUFFICES ASSUME MeasureInv, [Next]_vars
              PROVE  MeasureInv'
  OBVIOUS
<1>1. PlMeasureTypeOK'
  BY NextTypes DEF MeasureInv
<1>t. /\ bitstream.encrypted \in BOOLEAN /\ bitstream.size \in Nat \ {0}
      /\ pl \in Words /\ Len(pl) \in Nat /\ sha.data \in Words /\ sha.words \in Nat
      /\ Sha3Len \in Nat /\ left \in Nat /\ RemainingBytes \in Nat
      /\ NextBlkLen \in Nat /\ CurrentImgLen \in Nat /\ BlockCnt \in Nat
      /\ SrcAddr \in Nat /\ clean \in BOOLEAN
  BY PartTypes
<1>. USE DEF MeasureInv, PathInv, RouteInv, StreamInv, PlainLengths, EncryptedLengths,
             WholeInv, MadeInv, DigestInv, StatusInv, LogInv, Ending, Over, Block,
             Promise!Whole, Promise!AsMade, MayFail
<1>. USE DEF envVars, readVars, aesVars, shaVars, endVars
<1>2. CASE StartPlain
  <2>1. /\ pc = "START" /\ ~bitstream.encrypted /\ pl = <<>> /\ left = 0
        /\ pc' = "CHUNK" /\ RemainingBytes' = bitstream.size
        /\ sha'.words = 0 /\ sha'.data = <<>> /\ Sha3Len' = 0
        /\ UNCHANGED <<bitstream, left, pl, Status, PartitionDigest, log>>
    BY <1>2 DEF StartPlain, Sha3Start, NoWords
  <2>2. bitstream.size \in Nat /\ Len(<<>>) = 0
    BY <1>t
  <2>. QED
    BY <1>1, <2>1, <2>2
<1>3. CASE SendChunk
  <2>1. /\ pc = "CHUNK" /\ pc' = "DMA" /\ sss' = PlainRoute
        /\ left' = ChunkSize /\ RemainingBytes' = RemainingBytes - ChunkSize
        /\ Sha3Len' = Sha3Len + ChunkSize
        /\ UNCHANGED <<bitstream, sha, pl, Status, PartitionDigest, log>>
    BY <1>3 DEF SendChunk
  <2>2. ~bitstream.encrypted /\ left = 0
    BY <2>1
  <2>3. ChunkSize \in 1 .. RemainingBytes
    BY <1>3, <1>t, ChunkFacts DEF SendChunk, PlMeasureTypeOK
  <2>4. PlainLengths'
    BY <1>t, <2>1, <2>2, <2>3
  <2>. QED
    BY <1>1, <2>1, <2>2, <2>4
<1>4. CASE ChunkCopyFails
  BY <1>1, <1>4, <1>t DEF ChunkCopyFails
<1>5. CASE ChunksEnd
  BY <1>1, <1>5, <1>t DEF ChunksEnd
<1>6. CASE DmaDone
  BY <1>1, <1>6, <1>t DEF DmaDone
<1>7. CASE DmaStalls
  BY <1>1, <1>7, <1>t DEF DmaStalls
<1>8. CASE DmaWord
  <2>. DEFINE w == WordAt(SrcAddr)
  <2>1. /\ pc = "DMA" /\ left > 0 /\ left' = left - 1
        /\ sha'.words = sha.words + 1 /\ sha'.data = Append(sha.data, w)
        /\ pl' = Append(pl, w)
        /\ clean' = (clean /\ AsMade(SrcAddr))
        /\ UNCHANGED <<bitstream, pc, sss, RemainingBytes, NextBlkLen, CurrentImgLen,
                      BlockCnt, Sha3Len, Status, PartitionDigest, log>>
    BY <1>8 DEF DmaWord, AbsorbWord, ToSha, ToPcap, PlainRoute, EncryptedRoute
  <2>2. w.made = AsMade(SrcAddr)
    BY DEF WordAt
  <2>. HIDE DEF w
  <2>3. /\ Len(pl') = Len(pl) + 1 /\ pl'[Len(pl) + 1] = w
        /\ \A i \in 1 .. Len(pl) : pl'[i] = pl[i]
    BY <2>1, <1>t DEF Words
  <2>4. clean' /\ (\A i \in 1 .. Len(pl) : pl[i].made) => \A i \in 1 .. Len(pl') : pl'[i].made
    <3>. SUFFICES ASSUME clean', \A i \in 1 .. Len(pl) : pl[i].made, NEW i \in 1 .. Len(pl')
                  PROVE  pl'[i].made
      OBVIOUS
    <3>1. CASE i = Len(pl) + 1
      BY <2>1, <2>2, <2>3, <3>1
    <3>2. CASE i # Len(pl) + 1
      <4>1. i \in 1 .. Len(pl)
        BY ONLY <2>3, <3>2, <1>t, i \in 1 .. Len(pl')
      <4>. QED
        BY <2>3, <4>1
    <3>. QED
      BY <3>1, <3>2
  <2>. QED
    <3>1. PathInv' /\ RouteInv' /\ StreamInv'
      BY <2>1
    <3>2. PlainLengths'
      <4>. SUFFICES ASSUME ~bitstream.encrypted
                    PROVE  /\ RemainingBytes + (left - 1) + Len(pl') = bitstream.size
                           /\ sha.words + 1 = Len(pl') /\ Sha3Len = Len(pl') + (left - 1)
        BY <2>1
      <4>1. /\ RemainingBytes + left + Len(pl) = bitstream.size
            /\ sha.words = Len(pl) /\ Sha3Len = Len(pl) + left
        BY <2>1
      <4>2. Len(pl') = Len(pl) + 1
        BY <2>3
      <4>. QED
        BY ONLY <1>t, <4>1, <4>2
    <3>4. EncryptedLengths'
      <4>. SUFFICES ASSUME bitstream.encrypted
                    PROVE  CurrentImgLen = Len(pl') + (left - 1)
        BY <2>1
      <4>1. CurrentImgLen = Len(pl) + left /\ Len(pl') = Len(pl) + 1
        BY <2>1, <2>3
      <4>. QED
        BY ONLY <1>t, <4>1
    <3>5. WholeInv'
      BY <2>1
    <3>3. MadeInv' /\ StatusInv' /\ LogInv' /\ DigestInv'
      BY <2>1, <2>4
    <3>. QED
      BY <1>1, <3>1, <3>2, <3>3, <3>4, <3>5
<1>9. CASE StartEncrypted
  BY <1>1, <1>9, <1>t DEF StartEncrypted, Sha3Start, NoWords
<1>10. CASE PushIv
  BY <1>1, <1>10, <1>t DEF PushIv, AbsorbOther, ToSha, EncryptedRoute
<1>11. CASE PushHeader
  BY <1>1, <1>11, <1>t DEF PushHeader, AbsorbOther, ToSha, EncryptedRoute
<1>12. CASE PushTag
  BY <1>1, <1>12, <1>t DEF PushTag, AbsorbOther, ToSha, EncryptedRoute
<1>13. CASE NextBlock
  BY <1>1, <1>13, <1>t DEF NextBlock
<1>14. CASE LastBlock
  BY <1>1, <1>14, <1>t DEF LastBlock, TagOk, LengthOk
<1>15. CASE DecryptionFails
  BY <1>1, <1>15, <1>t DEF DecryptionFails
<1>16. CASE Finish
  <2>1. /\ pc = "FINISH" /\ pc' = "RETURN" /\ sss' = ShaOnly
        /\ \/ PartitionDigest' = [data |-> sha.data, words |-> sha.words,
                                  pad |-> Sha3Len % SHA3_BLOCK_LEN]
           \/ MayFail("sha") /\ PartitionDigest' = PartitionDigest
        /\ Status' = Status \/ (bitstream.encrypted /\ Status' = "ERROR")
        /\ UNCHANGED <<bitstream, left, RemainingBytes, NextBlkLen, CurrentImgLen, BlockCnt,
                      clean, sha, Sha3Len, log>>
    BY <1>16 DEF Finish
  <2>2. pl' = pl
    BY <1>16 DEF Finish, ToPcap, ShaOnly, Unrouted
  <2>3. PartitionDigest = None /\ sha.data = pl
    BY <2>1
  <2>4. (Sha3Len % SHA3_BLOCK_LEN) \in Nat
    <3>1. Sha3Len \in Nat /\ SHA3_BLOCK_LEN \in Nat \ {0}
      BY <1>t, PlMeasureSizes
    <3>. QED
      BY ONLY <3>1
  <2>5. DigestInv'
    <3>1. CASE MayFail("sha") /\ PartitionDigest' = PartitionDigest
      BY <2>1, <2>3, <3>1
    <3>2. CASE PartitionDigest' = [data |-> sha.data, words |-> sha.words,
                                   pad |-> Sha3Len % SHA3_BLOCK_LEN]
      <4>1. /\ PartitionDigest'.data = pl /\ PartitionDigest'.words = sha.words
            /\ PartitionDigest'.pad = Sha3Len % SHA3_BLOCK_LEN
        BY <2>3, <3>2
      <4>2. PartitionDigest' # None
        <5>1. None.pad = -1
          BY DEF None
        <5>. QED
          BY ONLY <2>4, <4>1, <5>1
      <4>3. ~bitstream.encrypted /\ Status' = "OK"
              => PartitionDigest'.pad = PartitionDigest'.words % SHA3_BLOCK_LEN
        BY <2>1, <4>1
      <4>. QED
        BY <2>1, <2>2, <4>1, <4>2, <4>3 DEF Promise!PaddingFits
    <3>. QED
      BY <2>1, <3>1, <3>2
  <2>. QED
    BY <1>1, <2>1, <2>2, <2>5, <1>t
<1>17. CASE RecordEvent
  BY <1>1, <1>17, <1>t DEF RecordEvent
<1>18. CASE ResetPl
  BY <1>1, <1>18, <1>t DEF ResetPl
<1>19. CASE IgnoreError
  BY <1>1, <1>19, <1>t DEF IgnoreError
<1>20. CASE PlDone
  BY <1>1, <1>20, <1>t DEF PlDone
<1>21. CASE PlNotDone
  BY <1>1, <1>21, <1>t DEF PlNotDone
<1>e. ASSUME UNCHANGED <<bitstream, pc, sss, readVars, aesVars, shaVars, pl, endVars>>
      PROVE  MeasureInv'
  <2>1. PathInv' /\ RouteInv' /\ StreamInv'
    BY <1>e
  <2>2. PlainLengths' /\ EncryptedLengths' /\ WholeInv'
    BY <1>e
  <2>3. MadeInv' /\ StatusInv' /\ LogInv'
    BY <1>e
  <2>4. DigestInv'
    BY <1>e
  <2>. QED
    BY <1>1, <2>1, <2>2, <2>3, <2>4
<1>22. ASSUME NEW a \in Memory, OtherMasterWrites(a)
      PROVE  MeasureInv'
  BY <1>e, <1>22 DEF OtherMasterWrites
<1>23. CASE UNCHANGED vars
  BY <1>e, <1>23 DEF vars
<1>. QED
  BY <1>2, <1>3, <1>4, <1>5, <1>6, <1>7, <1>8, <1>9, <1>10, <1>11, <1>12, <1>13, <1>14,
     <1>15, <1>16, <1>17, <1>18, <1>19, <1>20, <1>21, <1>22, <1>23
  DEF Next, Step

-----------------------------------------------------------------------------
\* A word that goes through the switch adds to what is loaded.
LEMMA WordPromised ==
  ASSUME MeasureInv, DmaWord
  PROVE  Promise!Load
<1>1. /\ pc = "DMA" /\ pl \in Words /\ log = <<>>
      /\ UNCHANGED <<bitstream, pc, log>>
      /\ pl' = pl \/ pl' = Append(pl, WordAt(SrcAddr))
  BY PartTypes DEF DmaWord, envVars, endVars, MeasureInv, LogInv, Over
<1>2. Len(pl') >= Len(pl) /\ \A i \in 1 .. Len(pl) : pl'[i] = pl[i]
  BY <1>1 DEF Words
<1>. QED
  BY <1>1, <1>2 DEF Promise!Load, Promise!asked

\* The event that is recorded is the one that was promised.
LEMMA EventPromised ==
  ASSUME MeasureInv, RecordEvent
  PROVE  Promise!Record
<1>1. /\ pc = "RETURN" /\ Status = "OK" /\ pc' = "WAIT" /\ log = <<>>
      /\ log' = Append(log, PartitionDigest)
      /\ UNCHANGED <<bitstream, pl>>
  BY DEF RecordEvent, envVars, MeasureInv, LogInv, Over
<1>2. Len(log') = 1 /\ log'[1] = PartitionDigest
  BY <1>1
<1>3. Promise!Whole /\ (bitstream.encrypted => Promise!AsMade)
  BY <1>1 DEF MeasureInv, WholeInv, MadeInv, Ending
<1>4. \/ PartitionDigest = None /\ "sha" \in bitstream.faults
      \/ /\ PartitionDigest # None /\ PartitionDigest.data = pl
         /\ ~bitstream.encrypted => Promise!PaddingFits(PartitionDigest)
  BY <1>1 DEF MeasureInv, DigestInv, MayFail
<1>. QED
  BY <1>1, <1>2, <1>3, <1>4 DEF Promise!Record, Promise!asked

(***************************************************************************)
(* Every step is one of the promise, or changes nothing it is about.       *)
(***************************************************************************)
LEMMA StepPromised == MeasureInv /\ [Next]_vars => [Promise!Next]_(Promise!vars)
<1>. SUFFICES ASSUME MeasureInv, [Next]_vars
              PROVE  [Promise!Next]_(Promise!vars)
  OBVIOUS
<1>. USE DEF envVars, readVars, aesVars, shaVars, endVars
<1>1. ASSUME UNCHANGED <<bitstream, pl, log>>,
             pc \notin {"RUNS", "REFUSED", "NOT DONE"}, pc' \notin {"RUNS", "REFUSED", "NOT DONE"}
      PROVE  UNCHANGED Promise!vars
  BY <1>1 DEF Promise!vars
<1>2. CASE StartPlain \/ SendChunk \/ ChunkCopyFails \/ ChunksEnd
  BY <1>1, <1>2 DEF StartPlain, SendChunk, ChunkCopyFails, ChunksEnd
<1>3. CASE StartEncrypted \/ PushIv \/ PushHeader \/ PushTag
  BY <1>1, <1>3 DEF StartEncrypted, PushIv, PushHeader, PushTag
<1>4. CASE NextBlock \/ LastBlock \/ DecryptionFails
  BY <1>1, <1>4 DEF NextBlock, LastBlock, DecryptionFails
<1>5. CASE DmaDone \/ DmaStalls
  BY <1>1, <1>5 DEF DmaDone, DmaStalls
<1>6. CASE DmaWord
  BY <1>6, WordPromised DEF Promise!Next
<1>7. CASE Finish
  <2>1. pl' = pl
    BY <1>7 DEF Finish, ToPcap, ShaOnly, Unrouted
  <2>. QED
    BY <1>1, <1>7, <2>1 DEF Finish
<1>8. CASE RecordEvent
  BY <1>8, EventPromised DEF Promise!Next
<1>9. CASE ResetPl
  <2>1. /\ pc = "RETURN" /\ pc' = "REFUSED" /\ bitstream.encrypted /\ pl' = <<>>
        /\ log = <<>> /\ UNCHANGED <<bitstream, log>>
    BY <1>9 DEF ResetPl, MeasureInv, LogInv, Over
  <2>. QED
    BY <2>1 DEF Promise!Next, Promise!Refuse, Promise!asked
<1>10. CASE IgnoreError
  BY <1>1, <1>10 DEF IgnoreError
<1>11. CASE PlDone
  <2>1. /\ pc = "WAIT" /\ pc' = "RUNS" /\ UNCHANGED <<bitstream, pl, log>>
        /\ log # <<>> \/ (~bitstream.encrypted /\ "flash" \in bitstream.faults)
    BY <1>11 DEF PlDone, MeasureInv, LogInv, Over, MayFail
  <2>. QED
    BY <2>1 DEF Promise!Next, Promise!Run, Promise!asked
<1>12. CASE PlNotDone
  <2>1. /\ pc = "WAIT" /\ pc' = "NOT DONE" /\ UNCHANGED <<bitstream, pl, log>>
        /\ log = <<>> => ~bitstream.encrypted
    BY <1>12 DEF PlNotDone, MeasureInv, LogInv, Over
  <2>. QED
    BY <2>1 DEF Promise!Next, Promise!Refuse, Promise!asked
<1>13. ASSUME NEW a \in Memory, OtherMasterWrites(a)
       PROVE  UNCHANGED Promise!vars
  BY <1>13 DEF OtherMasterWrites, Promise!vars
<1>14. CASE UNCHANGED vars
  BY <1>14 DEF vars, Promise!vars
<1>. QED
  BY <1>2, <1>3, <1>4, <1>5, <1>6, <1>7, <1>8, <1>9, <1>10, <1>11, <1>12, <1>13, <1>14
  DEF Next, Step

\* The invariant holds before the load.
LEMMA InitInv == Init => MeasureInv
<1>. SUFFICES ASSUME Init
              PROVE  MeasureInv
  OBVIOUS
<1>1. PlMeasureTypeOK
  BY InitTypes
<1>2. pc = "START" /\ pl = <<>> /\ left = 0 /\ NextBlkLen = 0 /\ CurrentImgLen = 0
      /\ PartitionDigest = None /\ Status = "OK" /\ log = <<>>
  BY DEF Init
<1>. QED
  BY <1>1, <1>2
  DEF MeasureInv, PathInv, RouteInv, StreamInv, PlainLengths, EncryptedLengths, WholeInv,
      MadeInv, DigestInv, StatusInv, LogInv, Ending, Over, Block

(***************************************************************************)
(* For every bitstream and whatever other masters write, Tpm_Measure_Pl    *)
(* and XFsbl_PartitionValidation keep the promise of measured boot: what   *)
(* the log has an event of is what the PL has taken, all of it, but for    *)
(* the zeros of a hash engine that failed, and what fails to decrypt does  *)
(* not stay in the PL (XSecure_Sha3Finish).                                *)
(***************************************************************************)
THEOREM MeasuringKeepsPromise == Spec => MeasuredAsPromised
<1>1. Init => Promise!Init
  BY DEF Init, Promise!Init
<1>. QED
  BY <1>1, InitInv, NextKeepsInv, StepPromised, PTL
  DEF Spec, MeasuredAsPromised, Promise!Spec
=============================================================================
