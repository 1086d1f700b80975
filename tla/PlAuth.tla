------------------------------- MODULE PlAuth -------------------------------
(***************************************************************************)
(* Loading a signed bitstream, XFsbl_SecPlPartition.  Each block is read   *)
(* twice, chunk by chunk: once to check its signature, while the digest    *)
(* after each chunk is kept, and once more to send it to the PL, each      *)
(* chunk only when the digest after it is the one that was kept.           *)
(***************************************************************************)
EXTENDS PlDecrypt

(***************************************************************************)
(* The head of the block loop: the block's certificate, its length, and    *)
(* whether the hash buffer holds its chunks.  Two mutants take the last    *)
(* block for a whole one, and let one hash too many through.               *)
(***************************************************************************)
WholeBlock(b) == [b EXCEPT !.Len = bitstream.blockSize, !.IsLastBlock = IsLast(b)]
Block(b) == [b EXCEPT !.Len = BlockLen(b), !.IsLastBlock = IsLast(b)]
ChunksOf(len) == (len + ChunkSize - 1) \div ChunkSize
HashsFitButOne(len) == ChunksOf(len) <= NoOfHashs + 1
HashsFit(len) == ChunksOf(len) <= NoOfHashs

NextBlock ==
  /\ pc = "BLOCK"
  /\ IF blk.SrcAddress < AcOfset
     THEN /\ AuthCertBuf' = Copy(blk.CurrentAcOffset, AcSize)
          /\ blk' = Block(blk)
          /\ pc' = IF HashsFit(Block(blk).Len) THEN "SPK" ELSE "FAIL"
     ELSE pc' = "DONE" /\ UNCHANGED blockVars
  /\ UNCHANGED <<hashVars, engineVars, envVars>>

(***************************************************************************)
(* XFsbl_SpkVer looks at the head of the certificate.                      *)
(***************************************************************************)
SpkVer ==
  /\ pc = "SPK"
  /\ pc' = IF AuthCertBuf[1].signed THEN "SIGN" ELSE "FAIL"
  /\ chunk' = 0 /\ sha' = <<>>
  /\ UNCHANGED <<blockVars, HashsOfChunks, ChunkBuffer, engineVars, envVars>>

(***************************************************************************)
(* The driver feeds the engine whole blocks and keeps the rest for the     *)
(* next update; XSecure_Sha3_ReadHash reads what the engine has so far.    *)
(***************************************************************************)
Digested(words) == SubSeq(words, 1, Len(words) - (Len(words) % ShaBlock))

(***************************************************************************)
(* XFsbl_PlSignVer: one chunk, the digest after it stored at its place.    *)
(***************************************************************************)
StoreHash(hash) ==
  [i \in DOMAIN HashsOfChunks \cup {chunk} |-> IF i = chunk THEN hash ELSE HashsOfChunks[i]]

HashChunk ==
  /\ pc = "SIGN"
  /\ ChunkBuffer' = Copy(ChunkAddress, ChunkLen)
  /\ sha' = sha \o ChunkBuffer'
  /\ HashsOfChunks' = StoreHash(Digested(sha'))
  /\ chunk' = chunk + 1
  /\ pc' = IF chunk + 1 < NoOfChunks THEN "SIGN" ELSE "SIGNATURE"
  /\ UNCHANGED <<blockVars, engineVars, envVars>>

(***************************************************************************)
(* A certificate signs the block it was made for, and itself.  Here the    *)
(* digest is the finished one, of all words.                               *)
(***************************************************************************)
SignatureOK ==
  LET k == (AuthCertBuf[1].at - AcOfset) \div AcSize
  IN /\ AuthCertBuf = SignedWords(AcOfset + k * AcSize, AcSize)
     /\ sha = SignedWords(k * bitstream.blockSize, SignedLen(k))

PlSignVer ==
  /\ pc = "SIGNATURE"
  /\ pc' = IF SignatureOK THEN "REAUTH" ELSE "FAIL"
  /\ chunk' = 0 /\ sha' = <<>>
  /\ UNCHANGED <<blockVars, HashsOfChunks, ChunkBuffer, engineVars, envVars>>

(***************************************************************************)
(* XFsbl_ReAuthenticationBlock: a chunk is read again, compared and sent   *)
(* from the buffer it was hashed in.  The words behind the last whole SHA3 *)
(* block are sent before the next chunk's digest covers them, and at the   *)
(* end of a data block nothing does: what XSecure_Sha3Finish returns there *)
(* is compared with nothing.  Two mutants compare only how much was        *)
(* hashed, and send what memory holds by then.                             *)
(***************************************************************************)
SameLength(hash) == Len(hash) = Len(HashsOfChunks[chunk])
SameHash(hash) == hash = HashsOfChunks[chunk]

ReAuthenticate ==
  /\ pc = "REAUTH"
  /\ ChunkBuffer' = Copy(ChunkAddress, ChunkLen)
  /\ sha' = sha \o ChunkBuffer'
  /\ pc' = IF SameHash(Digested(sha')) THEN "SEND" ELSE "FAIL"
  /\ UNCHANGED <<blockVars, chunk, HashsOfChunks, engineVars, envVars>>

WordsInMemory == Copy(ChunkAddress, ChunkLen)
WordsToSend == ChunkBuffer

SendChunk ==
  /\ pc = "SEND" /\ ~IsEncrypted
  /\ sent' = sent \o WordsToSend
  /\ NextChunk
  /\ UNCHANGED <<AuthCertBuf, sha, HashsOfChunks, ChunkBuffer, aes, rest, envVars>>

(***************************************************************************)
(* A copy, an engine or a key check refuses.                               *)
(***************************************************************************)
Running == pc \notin {"DONE", "FAIL", "REFUSED"}
Refuse ==
  /\ Running
  /\ fault' = TRUE
  /\ pc' = "FAIL"
  /\ UNCHANGED <<blockVars, hashVars, engineVars, bitstream, changed, writes>>

(***************************************************************************)
(* The caller, XFsbl_PartitionValidation, resets the PL.                   *)
(***************************************************************************)
ResetPl ==
  /\ pc = "FAIL"
  /\ sent' = <<>>
  /\ pc' = "REFUSED"
  /\ UNCHANGED <<blockVars, hashVars, aes, rest, envVars>>

(***************************************************************************)
(* Another master writes a word, or writes back what was there.            *)
(***************************************************************************)
OtherMasterWrites(i) ==
  /\ Running /\ writes < MaxWrites
  /\ changed' = IF i \in changed THEN changed \ {i} ELSE changed \cup {i}
  /\ writes' = writes + 1
  /\ UNCHANGED <<pc, blockVars, hashVars, engineVars, bitstream, fault>>

-----------------------------------------------------------------------------
LoadStep ==
  \/ NextBlock
  \/ SpkVer
  \/ HashChunk
  \/ PlSignVer
  \/ ReAuthenticate
  \/ SendChunk
  \/ DecryptChunk
  \/ ResetPl

Next ==
  \/ LoadStep
  \/ Refuse
  \/ \E i \in Memory : OtherMasterWrites(i)

Spec == Init /\ [][Next]_vars

-----------------------------------------------------------------------------
(***************************************************************************)
(* The variables keep their types; the hash buffer is never overrun, which *)
(* the number of chunks of a block of 16 MB or more would do.              *)
(***************************************************************************)
Words == Seq([at : Nat, signed : BOOLEAN])
AesStates == [SizeofData : Nat, NextBlkLen : Nat, SecureHdr : Words,
              KeySel : {"DEV", "KUP"}, block : Nat]
PlTypeOK ==
  /\ pc \in {"BLOCK", "SPK", "SIGN", "SIGNATURE", "REAUTH", "SEND", "DECRYPT",
             "DONE", "FAIL", "REFUSED"}
  /\ bitstream \in Bitstreams
  /\ changed \subseteq Memory /\ writes \in 0 .. MaxWrites /\ fault \in BOOLEAN
  /\ blk \in [SrcAddress : Nat, CurrentAcOffset : Nat, Index : Nat, Len : Nat,
              IsLastBlock : BOOLEAN]
  /\ {AuthCertBuf, sha, ChunkBuffer, rest, sent} \subseteq Words
  /\ chunk \in 0 .. NoOfHashs
  /\ DOMAIN HashsOfChunks \subseteq 0 .. (NoOfHashs - 1)
  /\ aes \in AesStates

(***************************************************************************)
(* Place i of the data lies in this SHA3 block of its data block; the      *)
(* digests of the chunks leave out what is no whole SHA3 block.            *)
(***************************************************************************)
BlockOf(i) == i \div bitstream.blockSize
ShaBlockEnd(i) == ((i % bitstream.blockSize) \div ShaBlock + 1) * ShaBlock
CoveredAt(i) == BlockOf(i) * bitstream.blockSize + ShaBlockEnd(i)
IsCovered(i) == ShaBlockEnd(i) <= SignedLen(BlockOf(i))

(***************************************************************************)
(* Whatever was written to memory between the two readings of              *)
(* XFsbl_PlSignVer and XFsbl_ReAuthenticationBlock, every word that went   *)
(* to the PL came from the place it took, and was as signed once the last  *)
(* word of its SHA3 block was sent too.  What is left unguarded are the    *)
(* words behind the last whole SHA3 block of a data block, for good, and   *)
(* those of a chunk until the next one is compared.                        *)
(***************************************************************************)
AsSigned(i) == sent[i + 1] = [at |-> i, signed |-> TRUE]
SignedWhenCompared ==
  \A i \in 0 .. (Len(sent) - 1) :
    /\ sent[i + 1].at = i
    /\ IsCovered(i) /\ CoveredAt(i) <= Len(sent) => AsSigned(i)

(***************************************************************************)
(* A bitstream that nobody tampered with is only refused for a block that  *)
(* has more chunks than the hash buffer has room for, or for a device: the *)
(* lengths of blocks, chunks and encrypted blocks that                     *)
(* XFsbl_SecPlPartition and XFsbl_DecrptPl work out apart agree.           *)
(***************************************************************************)
IntactIsLoaded ==
  pc = "FAIL" =>
    \/ writes > 0
    \/ fault
    \/ \E k \in 0 .. (NoOfBlocks - 1) : ~HashsFit(SignedLen(k))

(***************************************************************************)
(* When XFsbl_SecPlPartition reports success, the last header was reached: *)
(* no part of a header is left over and no block is left open.             *)
(***************************************************************************)
DecryptedToTheEnd ==
  pc = "DONE" /\ IsEncrypted =>
    /\ aes.block = Len(bitstream.ends)
    /\ aes.SizeofData = 0
    /\ aes.SecureHdr = <<>>

(***************************************************************************)
(* Loading implements what AuthenticatedLoad promises: a bitstream in the  *)
(* PL with success is the signed one but for what no digest of a chunk     *)
(* covers, and the signed one throughout when it was encrypted, since the  *)
(* tags cover every word.                                                  *)
(***************************************************************************)
Promise == INSTANCE AuthenticatedLoad WITH
  total <- bitstream.len,
  unguarded <- {i \in 0 .. (bitstream.len - 1) : ~IsEncrypted /\ ~IsCovered(i)},
  loaded <- Len(sent),
  foreign <- {i \in 0 .. (Len(sent) - 1) : ~AsSigned(i)},
  status <- CASE pc = "DONE" -> "configured"
              [] pc = "REFUSED" -> "refused"
              [] OTHER -> "loading"
LoadsAsPromised == Promise!Spec

(***************************************************************************)
(* "re-authenticates the each chunk of the block and compares with the     *)
(* stored hash": what is sent of a chunk is what was signed                *)
(* (XFsbl_ReAuthenticationBlock).                                          *)
(***************************************************************************)
ChunksAreReauthenticated ==
  pc = "SEND" => \A j \in DOMAIN ChunkBuffer : ChunkBuffer[j].signed
=============================================================================
