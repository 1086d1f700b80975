------------------------------ MODULE PlState ------------------------------
(***************************************************************************)
(* A signed bitstream in memory and the state of the code that loads it,   *)
(* xfsbl_plpartition_valid.c.                                              *)
(*                                                                         *)
(* Memory is a row of words: the data from 0 on, then one certificate for  *)
(* each block.  A word is where it was read and whether it was then as     *)
(* signed; another master, such as an R5 that was released early, may      *)
(* write to memory at any time, ChunkBuffer and AuthCertBuf lie in OCM.    *)
(***************************************************************************)
EXTENDS Integers, Sequences

CONSTANTS ChunkSize,   \* READ_BUFFER_SIZE
          AcSize,      \* XFSBL_AUTH_CERT_MIN_SIZE
          HdrSize,     \* secure header and GCM tag
          ShaBlock,    \* XSECURE_SHA3_BLOCK_LEN
          NoOfHashs,   \* hashes that fit HASH_BUFFER_SIZE
          Bitstreams,  \* [len, blockSize, ends]: where secure headers end
          MaxWrites    \* bound on writes by other masters

(***************************************************************************)
(* An encrypted bitstream is a secure header, then each encrypted block    *)
(* followed by the header of the next one; the last header names length 0  *)
(* and ends the data.  A plain one has no headers.                         *)
(*                                                                         *)
(* A chunk cut off at the end of a block is still no shorter than a secure *)
(* header: with chunks of 56 KB and blocks of 4, 8, 16, ... MB at least    *)
(* 8 KB remain.                                                            *)
(***************************************************************************)
LaidOut(b) ==
  /\ Len(b.ends) >= 2
  /\ b.ends[1] = HdrSize /\ b.ends[Len(b.ends)] = b.len
  /\ \A i \in 2 .. Len(b.ends) : b.ends[i - 1] + HdrSize < b.ends[i]
  /\ \A i \in 1 .. Len(b.ends) : b.ends[i] <= b.len

ASSUME PlSizes ==
  /\ ChunkSize \in Nat \ {0} /\ HdrSize \in 1 .. ChunkSize
  /\ AcSize \in Nat /\ AcSize >= 2 /\ ShaBlock \in Nat \ {0}
  /\ NoOfHashs \in Nat \ {0} /\ MaxWrites \in Nat
  /\ \A b \in Bitstreams :
       /\ b.len \in Nat \ {0} /\ b.blockSize \in Nat \ {0}
       /\ b.blockSize % ChunkSize \notin 1 .. (HdrSize - 1)
       /\ b.ends \in Seq(Nat)
       /\ b.ends # <<>> => LaidOut(b)

VARIABLES
  pc,             \* where the load is
  bitstream,      \* the one that is loaded
  changed,        \* words of memory that are not as signed
  writes,         \* writes by other masters so far
  fault,          \* whether a device or engine has failed
  blk,            \* the block loop of XFsbl_SecPlPartition
  AuthCertBuf,    \* the block's certificate
  chunk,          \* Index of the chunk loops
  sha,            \* words the SHA3 driver was given since its start
  HashsOfChunks,  \* what the digest read after each chunk is of
  ChunkBuffer,    \* the chunk at hand
  aes,            \* decryption of an encrypted bitstream
  rest,           \* words of the chunk still to be decrypted
  sent            \* words that went to the PCAP or to the AES engine

blockVars == <<blk, AuthCertBuf>>
hashVars == <<chunk, sha, HashsOfChunks, ChunkBuffer>>
engineVars == <<aes, rest, sent>>
envVars == <<bitstream, changed, writes, fault>>
vars == <<pc, blockVars, hashVars, engineVars, envVars>>

(***************************************************************************)
(* Layout of the bitstream, as the image tool makes it: blocks of          *)
(* blockSize, the last one what remains; certificates after all data.      *)
(***************************************************************************)
AcOfset == bitstream.len
NoOfBlocks == (bitstream.len + bitstream.blockSize - 1) \div bitstream.blockSize
TotalLen == bitstream.len + NoOfBlocks * AcSize
Memory == 0 .. (TotalLen - 1)
IsEncrypted == bitstream.ends # <<>>
SignedLen(k) ==
  IF k + 1 < NoOfBlocks THEN bitstream.blockSize
  ELSE bitstream.len - k * bitstream.blockSize

(***************************************************************************)
(* Header k, from 0 on, ends here and names the length of the next block.  *)
(***************************************************************************)
HeaderEnd(k) == bitstream.ends[k + 1]
BlockLenIn(k) ==
  IF k + 1 < Len(bitstream.ends) THEN HeaderEnd(k + 1) - HdrSize - HeaderEnd(k) ELSE 0

(***************************************************************************)
(* XFsbl_CopyData, through the ADMA of a system with DDR.                  *)
(***************************************************************************)
Word(i) == [at |-> i, signed |-> i \notin changed]
Copy(addr, n) == [j \in 1 .. n |-> Word(addr + j - 1)]
SignedWords(addr, n) == [j \in 1 .. n |-> [at |-> addr + j - 1, signed |-> TRUE]]

-----------------------------------------------------------------------------
(***************************************************************************)
(* The length of a block: for the last one, what is left of the partition  *)
(* without the certificates.  Chunks: full ones, the last what is left.    *)
(***************************************************************************)
IsLast(b) == b.SrcAddress + bitstream.blockSize > AcOfset
BlockLen(b) ==
  IF IsLast(b)
  THEN TotalLen - b.Index * AcSize - (b.Index - 1) * bitstream.blockSize
  ELSE bitstream.blockSize
NoOfChunks ==
  IF blk.Len > ChunkSize
  THEN (blk.Len \div ChunkSize) + (IF blk.Len % ChunkSize > 0 THEN 1 ELSE 0)
  ELSE 1
ChunkLen ==
  IF chunk = NoOfChunks - 1 THEN blk.Len - ChunkSize * chunk ELSE ChunkSize
ChunkAddress == blk.SrcAddress + ChunkSize * chunk

Init ==
  /\ pc = "BLOCK"
  /\ bitstream \in Bitstreams
  /\ changed = {} /\ writes = 0 /\ fault = FALSE
  /\ blk = [SrcAddress |-> 0, CurrentAcOffset |-> AcOfset, Index |-> 1,
            Len |-> bitstream.blockSize, IsLastBlock |-> FALSE]
  /\ AuthCertBuf = <<>>
  /\ chunk = 0 /\ sha = <<>> /\ HashsOfChunks = <<>> /\ ChunkBuffer = <<>>
  /\ aes = [SizeofData |-> 0, NextBlkLen |-> 0, SecureHdr |-> <<>>,
            KeySel |-> "DEV", block |-> 0]
  /\ rest = <<>> /\ sent = <<>>

(***************************************************************************)
(* The end of a pass of the chunk loop, and with the last chunk of a pass  *)
(* of the block loop.                                                      *)
(***************************************************************************)
NextChunk ==
  /\ chunk' = chunk + 1
  /\ IF chunk + 1 < NoOfChunks
     THEN pc' = "REAUTH" /\ UNCHANGED blk
     ELSE IF blk.IsLastBlock
     THEN pc' = "DONE" /\ UNCHANGED blk
     ELSE /\ pc' = "BLOCK"
          /\ blk' = [blk EXCEPT !.SrcAddress = @ + bitstream.blockSize,
                                !.CurrentAcOffset = @ + AcSize,
                                !.Index = @ + 1]
=============================================================================
