------------------------------ MODULE MCPlAuth ------------------------------
(***************************************************************************)
(* Bitstreams for PlAuth: plain ones whose data end before, at and after   *)
(* the borders of chunks and blocks, encrypted ones whose headers fall on  *)
(* every place of a chunk, and one whose block has too many chunks.  And   *)
(* one block of two chunks that are no whole SHA3 blocks.                  *)
(***************************************************************************)
EXTENDS PlAuth

EndsOf(e) ==
  LET end[i \in 0 .. Len(e)] == IF i = 0 THEN HdrSize ELSE end[i - 1] + e[i] + HdrSize
  IN [i \in 1 .. Len(e) + 1 |-> end[i - 1]]
PlainBits == {[len |-> n, blockSize |-> 7, ends |-> <<>>] : n \in 1 .. 15}
EncLens == {<<a>> : a \in 1 .. 6} \cup {<<a, b>> : a \in 1 .. 5, b \in {1, 4}}
           \cup {<<2, a, 3>> : a \in 1 .. 4}
EncryptedBits ==
  {[len |-> EndsOf(e)[Len(e) + 1], blockSize |-> 7, ends |-> EndsOf(e)] : e \in EncLens}
BigBlocks == {[len |-> n, blockSize |-> 16, ends |-> <<>>] : n \in {6, 8, 9, 17}}
MCBitstreams == PlainBits \cup EncryptedBits \cup BigBlocks
TwoChunks == {[len |-> 8, blockSize |-> 8, ends |-> <<>>]}
=============================================================================
