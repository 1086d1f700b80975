----------------------------- MODULE PlDecrypt -----------------------------
(***************************************************************************)
(* Decryption of an encrypted bitstream, chunk by chunk.  The borders of   *)
(* the chunks know nothing of the encrypted blocks: a chunk may end inside *)
(* data, between data and header, or inside a header, whose part is kept   *)
(* in SecureHdr for the next chunk.                                        *)
(***************************************************************************)
EXTENDS PlState

decryptUnchanged == <<AuthCertBuf, sha, HashsOfChunks, ChunkBuffer, envVars>>

From(s, n) == SubSeq(s, n + 1, Len(s))

(***************************************************************************)
(* The engine accepts a header when the tag fits: everything it was fed    *)
(* since the last one, and this header, is what was encrypted, and the key *)
(* is the right one.                                                       *)
(***************************************************************************)
GcmTagOK(fed) ==
  /\ fed = SignedWords(0, HeaderEnd(aes.block))
  /\ aes.KeySel = (IF aes.block = 0 THEN "DEV" ELSE "KUP")

(***************************************************************************)
(* A header opens the next block: the key moves to the key update register *)
(* and the engine tells the length of the block, XFsbl_DecrptSetUpNextBlk. *)
(***************************************************************************)
OpenBlock ==
  LET n == BlockLenIn(aes.block)
  IN aes' = [SizeofData |-> n, NextBlkLen |-> n, SecureHdr |-> <<>>,
             KeySel |-> "KUP", block |-> aes.block + 1]

(***************************************************************************)
(* A header, and whether the loop goes on in this chunk after it.  The     *)
(* loop ends with the chunk, and at the header that names length 0; a      *)
(* mutant takes the next chunk after every header.                         *)
(***************************************************************************)
Decrypt(hdr, after, more) ==
  /\ sent' = sent \o hdr
  /\ IF GcmTagOK(sent \o hdr)
     THEN /\ OpenBlock
          /\ rest' = after
          /\ IF more THEN pc' = "DECRYPT" /\ UNCHANGED <<chunk, blk>> ELSE NextChunk
     ELSE pc' = "FAIL" /\ UNCHANGED <<aes, rest, chunk, blk>>

NothingLeft(after) == FALSE
MoreToDecrypt(after) == after # <<>> /\ BlockLenIn(aes.block) # 0

(***************************************************************************)
(* XFsbl_DecrptPlChunks: the first chunk starts with the secure header.    *)
(***************************************************************************)
FirstChunk ==
  /\ pc = "SEND" /\ IsEncrypted
  /\ aes.NextBlkLen = 0
  /\ Decrypt(SubSeq(ChunkBuffer, 1, HdrSize), From(ChunkBuffer, HdrSize), TRUE)
  /\ UNCHANGED decryptUnchanged

(***************************************************************************)
(* A chunk that starts inside a header.                                    *)
(***************************************************************************)
HeaderInThisChunk == SubSeq(ChunkBuffer, 1, HdrSize - Len(aes.SecureHdr))
HeaderFromBoth == aes.SecureHdr \o HeaderInThisChunk

SplitHeader ==
  /\ pc = "SEND" /\ IsEncrypted
  /\ aes.NextBlkLen # 0 /\ aes.SecureHdr # <<>>
  /\ LET after == From(ChunkBuffer, Len(HeaderInThisChunk))
     IN Decrypt(HeaderFromBoth, after, MoreToDecrypt(after))
  /\ UNCHANGED decryptUnchanged

OtherChunk ==
  /\ pc = "SEND" /\ IsEncrypted
  /\ aes.NextBlkLen # 0 /\ aes.SecureHdr = <<>>
  /\ rest' = ChunkBuffer
  /\ pc' = "DECRYPT"
  /\ UNCHANGED <<decryptUnchanged, blk, chunk, aes, sent>>

-----------------------------------------------------------------------------
(***************************************************************************)
(* The loop of XFsbl_DecrptPl.  The words left all belong to the block at  *)
(* hand.                                                                   *)
(***************************************************************************)
DataToTheEnd ==
  /\ pc = "DECRYPT"
  /\ aes.SizeofData # 0 /\ Len(rest) <= aes.SizeofData
  /\ sent' = sent \o rest
  /\ aes' = [aes EXCEPT !.SizeofData = @ - Len(rest)]
  /\ rest' = <<>>
  /\ NextChunk
  /\ UNCHANGED decryptUnchanged

(***************************************************************************)
(* The block ends in this chunk: what follows is a header, or part of one. *)
(***************************************************************************)
KeepHeader(part) == [aes EXCEPT !.SizeofData = 0, !.SecureHdr = part]

DataThenHeader ==
  /\ pc = "DECRYPT"
  /\ aes.SizeofData # 0 /\ Len(rest) > aes.SizeofData
  /\ sent' = sent \o SubSeq(rest, 1, aes.SizeofData)
  /\ LET after == From(rest, aes.SizeofData)
     IN IF Len(after) < HdrSize
        THEN aes' = KeepHeader(after) /\ rest' = <<>> /\ NextChunk
        ELSE aes' = KeepHeader(<<>>) /\ rest' = after /\ UNCHANGED <<pc, chunk, blk>>
  /\ UNCHANGED decryptUnchanged

WholeHeader ==
  /\ pc = "DECRYPT"
  /\ aes.SizeofData = 0
  /\ LET after == From(rest, HdrSize)
     IN Decrypt(SubSeq(rest, 1, HdrSize), after, MoreToDecrypt(after))
  /\ UNCHANGED decryptUnchanged

DecryptChunk ==
  \/ FirstChunk
  \/ SplitHeader
  \/ OtherChunk
  \/ DataToTheEnd
  \/ DataThenHeader
  \/ WholeHeader
=============================================================================
