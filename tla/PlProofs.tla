------------------------------ MODULE PlProofs ------------------------------
(***************************************************************************)
(* What loading a signed bitstream guarantees, for every layout of blocks, *)
(* chunks and headers and any number of writes by other masters.           *)
(***************************************************************************)
EXTENDS PlAuth, SequenceTheorems, TLAPS

(***************************************************************************)
(* A block lies inside the data; its length is what is left of them, or    *)
(* blockSize, and the hash buffer has room for its chunks.                 *)
(***************************************************************************)
InBlock == {"SPK", "SIGN", "SIGNATURE", "REAUTH", "SEND", "DECRYPT"}
BlockInv ==
  /\ blk.Index # 0 /\ blk.SrcAddress <= bitstream.len
  /\ blk.SrcAddress = (blk.Index - 1) * bitstream.blockSize
  /\ pc \in InBlock =>
       /\ blk.SrcAddress < bitstream.len
       /\ blk.IsLastBlock = IsLast(blk)
       /\ blk.Len = (IF IsLast(blk) THEN bitstream.len - blk.SrcAddress
                     ELSE bitstream.blockSize)
       /\ NoOfChunks <= NoOfHashs

(***************************************************************************)
(* A row of words from place a on, of which those at the places in F are   *)
(* not as signed.  Of the second reading F is all that matters: what was   *)
(* sent, kept and compared are parts of one row.                           *)
(***************************************************************************)
Row(F, a, n) == [j \in 1 .. n |-> [at |-> a + j - 1, signed |-> a + j - 1 \notin F]]
IsRow(F, s, a) == s = Row(F, a, Len(s))

(***************************************************************************)
(* The digests that were kept are those of the words that were signed; the *)
(* second reading, F, agrees with those of the chunks it compared.         *)
(***************************************************************************)
ChunkEnd(c) == IF c = NoOfChunks - 1 THEN blk.Len ELSE ChunkSize * (c + 1)
HashInv(F) ==
  /\ pc \in {"SIGN", "REAUTH", "SEND", "DECRYPT"} => chunk \in 0 .. (NoOfChunks - 1)
  /\ pc \in {"SIGN", "SIGNATURE"} =>
       /\ \A j \in 1 .. Len(sha) : sha[j].at = blk.SrcAddress + j - 1
       /\ \A c \in 0 .. (chunk - 1) :
            /\ c \in DOMAIN HashsOfChunks
            /\ HashsOfChunks[c] = Digested(SubSeq(sha, 1, ChunkEnd(c)))
  /\ pc = "SIGN" => Len(sha) = ChunkSize * chunk
  /\ pc = "SIGNATURE" => chunk = NoOfChunks /\ Len(sha) = blk.Len
  /\ pc \in {"REAUTH", "SEND", "DECRYPT"} =>
       \A c \in 0 .. (NoOfChunks - 1) :
         HashsOfChunks[c] = Digested(SignedWords(blk.SrcAddress, ChunkEnd(c)))
  /\ pc = "REAUTH" => sha = Row(F, blk.SrcAddress, ChunkSize * chunk)
  /\ pc \in {"SEND", "DECRYPT"} => sha = Row(F, blk.SrcAddress, ChunkEnd(chunk))
  /\ pc = "SEND" => ChunkBuffer = Row(F, ChunkAddress, ChunkLen)

(***************************************************************************)
(* What was sent, what is kept of a split header and what is left of the   *)
(* chunk join without a gap, up to where the loops are.                    *)
(***************************************************************************)
Loading == pc \notin {"FAIL", "REFUSED"}
ReadSoFar ==
  CASE pc \in {"REAUTH", "SEND"} -> ChunkAddress
    [] pc = "DECRYPT" -> ChunkAddress + ChunkLen
    [] pc = "DONE" -> bitstream.len
    [] OTHER -> blk.SrcAddress
SentInv(F) ==
  /\ IsRow(F, sent, 0)
  /\ Loading =>
       /\ IsRow(F, aes.SecureHdr, Len(sent))
       /\ pc # "DECRYPT" => Len(sent) + Len(aes.SecureHdr) = ReadSoFar
  /\ pc = "DECRYPT" =>
       /\ IsEncrypted /\ aes.SecureHdr = <<>>
       /\ IsRow(F, rest, Len(sent))
       /\ Len(sent) + Len(rest) = ReadSoFar

(***************************************************************************)
(* The engine is as far into the encrypted blocks as words were sent.      *)
(***************************************************************************)
AesInv ==
  /\ Loading /\ ~IsEncrypted => aes.SecureHdr = <<>>
  /\ Loading /\ IsEncrypted =>
       /\ aes.block \in 0 .. Len(bitstream.ends)
       /\ aes.NextBlkLen = (IF aes.block = 0 THEN 0 ELSE BlockLenIn(aes.block - 1))
       /\ aes.SizeofData \in 0 .. aes.NextBlkLen
       /\ Len(sent) = (IF aes.block = 0 THEN 0
                       ELSE HeaderEnd(aes.block - 1) + aes.NextBlkLen - aes.SizeofData)
       /\ Len(aes.SecureHdr) < HdrSize
       /\ aes.SecureHdr # <<>> => aes.SizeofData = 0 /\ aes.block # 0
  /\ pc = "DECRYPT" =>
       /\ aes.block \in 1 .. (Len(bitstream.ends) - 1)
       /\ aes.SizeofData = 0 => Len(rest) >= HdrSize

PlInv(F) ==
  /\ PlTypeOK
  /\ BlockInv
  /\ HashInv(F)
  /\ SentInv(F)
  /\ AesInv

(***************************************************************************)
(* A place found not as signed lies in what was compared so far, and in no *)
(* SHA3 block that was compared to its end; nor before the last header the *)
(* engine accepted, since the tag covers all that came before it.  Without *)
(* writes there is none.                                                   *)
(***************************************************************************)
Compared == IF pc = "SEND" THEN ChunkAddress + ChunkLen ELSE ReadSoFar
NoneCovered(F, n) == \A i \in F : IsCovered(i) => CoveredAt(i) > n
GuardInv(F) ==
  /\ writes = 0 => changed = {} /\ F = {}
  /\ F \subseteq Nat /\ NoneCovered(F, Len(sent))
  /\ Loading => NoneCovered(F, Compared) /\ \A i \in F : i < Compared
  /\ Loading /\ IsEncrypted /\ aes.block # 0 => \A i \in F : i >= HeaderEnd(aes.block - 1)

LoadInv == \E F \in SUBSET Nat : PlInv(F) /\ GuardInv(F)

-----------------------------------------------------------------------------
(***************************************************************************)
(* Rows of words.                                                          *)
(***************************************************************************)
LEMMA RowLen ==
  ASSUME NEW F, NEW a \in Nat, NEW n \in Nat
  PROVE  Row(F, a, n) \in Words /\ Len(Row(F, a, n)) = n
BY DEF Row, Words

LEMMA RowWords ==
  ASSUME NEW F, NEW a \in Nat, NEW n \in Nat
  PROVE  \A j \in 1 .. n :
           Row(F, a, n)[j] = [at |-> a + j - 1, signed |-> a + j - 1 \notin F]
BY DEF Row

\* What was signed is a row, and so is what a copy reads from memory.
LEMMA SignedIsRow ==
  ASSUME NEW a \in Nat, NEW n \in Nat
  PROVE  SignedWords(a, n) = Row({}, a, n) /\ Copy(a, n) = Row(changed, a, n)
BY DEF SignedWords, Copy, Word, Row

LEMMA SignedLen0 ==
  ASSUME NEW a \in Nat, NEW n \in Nat
  PROVE  /\ SignedWords(a, n) \in Words
         /\ Len(SignedWords(a, n)) = n
         /\ \A j \in 1 .. n : SignedWords(a, n)[j] = [at |-> a + j - 1, signed |-> TRUE]
BY DEF SignedWords, Words

LEMMA CopyType ==
  ASSUME NEW a \in Nat, NEW n \in Nat
  PROVE  /\ Copy(a, n) \in Words
         /\ Len(Copy(a, n)) = n
         /\ \A j \in 1 .. n : Copy(a, n)[j] = Word(a + j - 1)
BY DEF Copy, Word, Words

\* Rows that hold the same words in all their places are the same.
LEMMA SameRow ==
  ASSUME NEW F, NEW G, NEW a \in Nat, NEW n \in Nat,
         \A i \in a .. (a + n - 1) : i \in F <=> i \in G
  PROVE  Row(F, a, n) = Row(G, a, n)
<1>1. \A j \in 1 .. n : a + j - 1 \in a .. (a + n - 1)
  OBVIOUS
<1> QED
  BY <1>1 DEF Row

(***************************************************************************)
(* Rows that follow each other join.                                       *)
(***************************************************************************)
LEMMA JoinRow ==
  ASSUME NEW F, NEW a \in Nat, NEW m \in Nat, NEW n \in Nat
  PROVE  Row(F, a, m) \o Row(F, a + m, n) = Row(F, a, m + n)
<1> DEFINE s == Row(F, a, m)
           t == Row(F, a + m, n)
           u == Row(F, a, m + n)
           R == [at : Nat, signed : BOOLEAN]
<1>1. /\ s \in Seq(R) /\ Len(s) = m
      /\ \A j \in 1 .. m : s[j] = [at |-> a + j - 1, signed |-> a + j - 1 \notin F]
  BY RowLen, RowWords DEF Words
<1>2. /\ t \in Seq(R) /\ Len(t) = n
      /\ \A j \in 1 .. n : t[j] = [at |-> a + m + j - 1, signed |-> a + m + j - 1 \notin F]
  BY RowLen, RowWords, a + m \in Nat DEF Words
<1>3. /\ u \in Seq(R) /\ Len(u) = m + n
      /\ \A j \in 1 .. (m + n) : u[j] = [at |-> a + j - 1, signed |-> a + j - 1 \notin F]
  BY RowLen, RowWords, m + n \in Nat DEF Words
<1> HIDE DEF s, t, u, R
<1>4. /\ s \o t \in Seq(R)
      /\ Len(s \o t) = m + n
      /\ \A i \in 1 .. (m + n) : (s \o t)[i] = IF i <= m THEN s[i] ELSE t[i - m]
  BY <1>1, <1>2, ConcatProperties
<1>5. ASSUME NEW i \in 1 .. (m + n)
      PROVE  (s \o t)[i] = u[i]
  <2>1. CASE i <= m
    <3>1. i \in 1 .. m
      BY <2>1
    <3>2. (s \o t)[i] = s[i] /\ s[i] = [at |-> a + i - 1, signed |-> a + i - 1 \notin F]
      BY <2>1, <3>1, <1>1, <1>4
    <3> QED
      BY <3>2, <1>3
  <2>2. CASE ~(i <= m)
    <3>1. i - m \in 1 .. n /\ a + m + (i - m) - 1 = a + i - 1
      BY <2>2
    <3> QED
      BY <2>2, <3>1, <1>2, <1>3, <1>4
  <2> QED
    BY <2>1, <2>2
<1>6. s \o t = u
  BY <1>3, <1>4, <1>5, SeqEqual
<1> QED
  BY <1>6 DEF s, t, u

LEMMA JoinSigned ==
  ASSUME NEW a \in Nat, NEW m \in Nat, NEW n \in Nat
  PROVE  SignedWords(a, m) \o SignedWords(a + m, n) = SignedWords(a, m + n)
<1>1. a + m \in Nat /\ m + n \in Nat
  OBVIOUS
<1>2. /\ SignedWords(a, m) = Row({}, a, m) /\ SignedWords(a + m, n) = Row({}, a + m, n)
      /\ SignedWords(a, m + n) = Row({}, a, m + n)
  BY <1>1, SignedIsRow
<1>3. Row({}, a, m) \o Row({}, a + m, n) = Row({}, a, m + n)
  BY JoinRow
<1> QED
  BY <1>2, <1>3

(***************************************************************************)
(* A part of a row is a row.                                               *)
(***************************************************************************)
LEMMA PartRow ==
  ASSUME NEW F, NEW a \in Nat, NEW n \in Nat, NEW i \in 1 .. (n + 1), NEW j \in (i - 1) .. n
  PROVE  SubSeq(Row(F, a, n), i, j) = Row(F, a + i - 1, j - i + 1)
<1> DEFINE s == Row(F, a, n)
           u == Row(F, a + i - 1, j - i + 1)
           R == [at : Nat, signed : BOOLEAN]
<1>1. /\ s \in Seq(R) /\ Len(s) = n
      /\ \A k \in 1 .. n : s[k] = [at |-> a + k - 1, signed |-> a + k - 1 \notin F]
  BY RowLen, RowWords DEF Words
<1>2. /\ u \in Seq(R) /\ Len(u) = j - i + 1
      /\ \A k \in 1 .. (j - i + 1) :
           u[k] = [at |-> a + i - 1 + k - 1, signed |-> a + i - 1 + k - 1 \notin F]
  BY RowLen, RowWords, a + i - 1 \in Nat, j - i + 1 \in Nat DEF Words
<1>3. \A k \in i .. j : s[k] \in R
  BY <1>1
<1>4. /\ SubSeq(s, i, j) \in Seq(R)
      /\ Len(SubSeq(s, i, j)) = IF i <= j THEN j - i + 1 ELSE 0
      /\ \A k \in 1 .. j - i + 1 : SubSeq(s, i, j)[k] = s[i + k - 1]
  <2> HIDE DEF s, R
  <2> QED
    BY <1>3, SubSeqProperties
<1> HIDE DEF s, u, R
<1>5. ASSUME NEW k \in 1 .. (j - i + 1)
      PROVE  SubSeq(s, i, j)[k] = u[k]
  <2>1. i + k - 1 \in 1 .. n /\ a + (i + k - 1) - 1 = a + i - 1 + k - 1
    OBVIOUS
  <2> QED
    BY <1>1, <1>2, <1>4, <2>1
<1>6. Len(SubSeq(s, i, j)) = Len(u)
  BY <1>2, <1>4
<1>7. SubSeq(s, i, j) = u
  BY <1>2, <1>4, <1>5, <1>6, SeqEqual
<1> QED
  BY <1>7 DEF s, u

\* The first words of a row are a row.
LEMMA FrontRow ==
  ASSUME NEW F, NEW a \in Nat, NEW n \in Nat, NEW m \in 0 .. n
  PROVE  SubSeq(Row(F, a, n), 1, m) = Row(F, a, m)
<1>1. 1 \in 1 .. (n + 1) /\ m \in (1 - 1) .. n
  OBVIOUS
<1>2. SubSeq(Row(F, a, n), 1, m) = Row(F, a + 1 - 1, m - 1 + 1)
  BY <1>1, PartRow
<1>3. a + 1 - 1 = a /\ m - 1 + 1 = m
  OBVIOUS
<1> QED
  BY <1>2, <1>3

\* What is left after the first words is a row.
LEMMA RestRow ==
  ASSUME NEW F, NEW a \in Nat, NEW n \in Nat, NEW m \in 0 .. n
  PROVE  From(Row(F, a, n), m) = Row(F, a + m, n - m)
<1> DEFINE i == m + 1
<1>1. i \in 1 .. (n + 1) /\ n \in (i - 1) .. n
  OBVIOUS
<1>2. a + i - 1 = a + m /\ n - i + 1 = n - m
  OBVIOUS
<1>3. From(Row(F, a, n), m) = SubSeq(Row(F, a, n), i, n)
  BY RowLen DEF From
<1> HIDE DEF i
<1>4. SubSeq(Row(F, a, n), i, n) = Row(F, a + i - 1, n - i + 1)
  BY <1>1, PartRow
<1> QED
  BY <1>2, <1>3, <1>4

-----------------------------------------------------------------------------
(***************************************************************************)
(* Division of lengths into blocks and chunks.                             *)
(***************************************************************************)
LEMMA Division ==
  ASSUME NEW x \in Nat, NEW d \in Nat \ {0}
  PROVE  /\ x \div d \in Nat /\ x % d \in 0 .. (d - 1)
         /\ x = d * (x \div d) + (x % d)
  BY SMTT(30)

\* Multiples of a length are at least that length apart.
LEMMA ProductOrder ==
  ASSUME NEW d \in Nat \ {0}, NEW i \in Int, NEW j \in Int, i < j
  PROVE  d * i + d <= d * j
<1>1. j - i >= 1 /\ d * (j - i) >= d
  BY SMTT(30)
<1> QED
  BY <1>1, SMTT(30)

\* Rounding a quotient up: the least count of pieces that covers a length.
LEMMA RoundedUp ==
  ASSUME NEW x \in Nat, NEW d \in Nat \ {0}, NEW i \in Nat \ {0},
         d * (i - 1) < x, x <= d * i
  PROVE  (x + d - 1) \div d = i
<1> DEFINE n == (x + d - 1) \div d
<1>1. /\ n \in Nat /\ (x + d - 1) % d \in 0 .. (d - 1)
      /\ x + d - 1 = d * n + ((x + d - 1) % d)
  BY Division, x + d - 1 \in Nat
<1> HIDE DEF n
<1>2. d * n \in Int /\ d * i \in Int /\ d * (i - 1) \in Int /\ d * i = d * (i - 1) + d
  BY <1>1
<1>3. ~(i < n)
  <2> SUFFICES ASSUME i < n PROVE FALSE
    OBVIOUS
  <2>1. d * i + d <= d * n
    BY <1>1, ProductOrder
  <2> QED
    BY <2>1, <1>1, <1>2
<1>4. ~(n < i)
  <2> SUFFICES ASSUME n < i PROVE FALSE
    OBVIOUS
  <2>1. d * n + d <= d * i
    BY <1>1, ProductOrder
  <2> QED
    BY <2>1, <1>1, <1>2
<1>5. n = i
  BY <1>1, <1>3, <1>4
<1> QED
  BY <1>5 DEF n

(***************************************************************************)
(* The two ways of working out the length of the last block agree: the     *)
(* loop's, from the length of the partition, is what is left of the data.  *)
(***************************************************************************)
LEMMA BlockLength ==
  ASSUME PlTypeOK, BlockInv, blk.SrcAddress < bitstream.len
  PROVE  BlockLen(blk) = (IF IsLast(blk) THEN bitstream.len - blk.SrcAddress
                          ELSE bitstream.blockSize)
<1> DEFINE i == blk.Index
           d == bitstream.blockSize
           x == bitstream.len
<1>1. i \in Nat \ {0} /\ d \in Nat \ {0} /\ x \in Nat \ {0} /\ AcSize \in Nat
  BY PlSizes DEF BlockInv, PlTypeOK
<1>2. blk.SrcAddress = (i - 1) * d /\ (i - 1) * d \in Nat
  BY DEF BlockInv, PlTypeOK
<1>3. SUFFICES ASSUME IsLast(blk)
               PROVE  BlockLen(blk) = x - blk.SrcAddress
  BY DEF BlockLen
<1>4. d * (i - 1) < x /\ x <= d * i
  <2>1. (i - 1) * d = d * (i - 1) /\ d * (i - 1) + d = d * i
    BY <1>1, SMTT(30)
  <2> QED
    BY <2>1, <1>1, <1>2, <1>3 DEF IsLast, AcOfset
<1>5. NoOfBlocks = i
  <2> HIDE DEF i, d, x
  <2>1. (x + d - 1) \div d = i
    BY <1>1, <1>4, RoundedUp
  <2> QED
    BY <2>1 DEF NoOfBlocks, x, d
<1>6. BlockLen(blk) = (x + i * AcSize) - i * AcSize - (i - 1) * d
  BY <1>3, <1>5 DEF BlockLen, TotalLen
<1> HIDE DEF i, d, x
<1> QED
  <2>1. i * AcSize \in Int /\ (i - 1) * d \in Int
    BY <1>1
  <2> QED
    BY <2>1, <1>1, <1>2, <1>6

(***************************************************************************)
(* Every chunk but the last is full, none is empty, and none is shorter    *)
(* than a header unless the data end with it.                              *)
(***************************************************************************)
LEMMA NumberOfChunks ==
  ASSUME bitstream \in Bitstreams, blk.Len \in Nat \ {0}
  PROVE  /\ NoOfChunks \in Nat \ {0}
         /\ ChunkSize * (NoOfChunks - 1) < blk.Len
         /\ blk.Len <= ChunkSize * NoOfChunks
         /\ blk.Len = bitstream.blockSize =>
              blk.Len - ChunkSize * (NoOfChunks - 1) >= HdrSize
<1> DEFINE q == blk.Len \div ChunkSize
           r == blk.Len % ChunkSize
           n == NoOfChunks
<1>1. ChunkSize \in Nat \ {0} /\ HdrSize \in 1 .. ChunkSize
  BY PlSizes
<1>2. q \in Nat /\ r \in 0 .. (ChunkSize - 1) /\ blk.Len = ChunkSize * q + r
  BY <1>1, Division
<1>3. blk.Len = bitstream.blockSize => r \notin 1 .. (HdrSize - 1)
  BY PlSizes
<1>4. n = IF blk.Len > ChunkSize THEN q + (IF r > 0 THEN 1 ELSE 0) ELSE 1
  BY DEF NoOfChunks
<1> HIDE DEF q, r, n
<1>5. ChunkSize * q \in Nat
  BY <1>1, <1>2
<1>6. CASE blk.Len > ChunkSize /\ r > 0
  <2>1. n = q + 1 /\ n - 1 = q /\ ChunkSize * n = ChunkSize * q + ChunkSize
    BY <1>1, <1>2, <1>4, <1>6
  <2>2. n \in Nat \ {0} /\ ChunkSize * (n - 1) = ChunkSize * q
    BY <1>2, <2>1
  <2> QED
    BY <1>1, <1>2, <1>3, <1>5, <1>6, <2>1, <2>2 DEF n
<1>7. CASE blk.Len > ChunkSize /\ r = 0
  <2>1. n = q /\ q # 0
    BY <1>1, <1>2, <1>4, <1>7
  <2>2. ChunkSize * (n - 1) = ChunkSize * q - ChunkSize
    BY <1>1, <1>2, <2>1
  <2> QED
    BY <1>1, <1>2, <1>5, <1>7, <2>1, <2>2 DEF n
<1>8. CASE ~(blk.Len > ChunkSize)
  <2>1. n = 1 /\ ChunkSize * (n - 1) = 0 /\ ChunkSize * n = ChunkSize
    BY <1>1, <1>4, <1>8
  <2>2. r = IF blk.Len < ChunkSize THEN blk.Len ELSE 0
    <3>1. CASE q = 0
      BY <3>1, <1>1, <1>2, <1>8
    <3>2. CASE q # 0
      <4>1. ChunkSize * 0 + ChunkSize <= ChunkSize * q
        BY <3>2, <1>1, <1>2, ProductOrder
      <4> QED
        BY <4>1, <1>1, <1>2, <1>5, <1>8
    <3> QED
      BY <3>1, <3>2
  <2> QED
    BY <1>1, <1>2, <1>3, <1>8, <2>1, <2>2 DEF n
<1> QED
  BY <1>2, <1>6, <1>7, <1>8

\* A chunk lies in its block and is no longer than ChunkSize.
LEMMA ChunkBounds ==
  ASSUME PlTypeOK, BlockInv, pc \in InBlock,
         NEW c \in 0 .. (NoOfChunks - 1)
  PROVE  /\ ChunkSize * c \in Nat /\ ChunkEnd(c) \in Nat
         /\ blk.Len \in Nat \ {0} /\ blk.SrcAddress + blk.Len <= bitstream.len
         /\ ChunkEnd(c) - ChunkSize * c \in 1 .. ChunkSize
         /\ ChunkEnd(c) <= blk.Len
         /\ c # NoOfChunks - 1 =>
              ChunkEnd(c) = ChunkSize * c + ChunkSize /\ ChunkEnd(c) = ChunkSize * (c + 1)
         /\ \/ ChunkEnd(c) - ChunkSize * c >= HdrSize
            \/ blk.SrcAddress + ChunkEnd(c) = bitstream.len
<1> DEFINE n == NoOfChunks
<1>1. /\ ChunkSize \in Nat \ {0} /\ HdrSize \in 1 .. ChunkSize
      /\ bitstream.len \in Nat \ {0} /\ bitstream.blockSize \in Nat \ {0}
  BY PlSizes DEF PlTypeOK
<1>2. /\ blk.Len \in Nat \ {0} /\ blk.SrcAddress + blk.Len <= bitstream.len
      /\ \/ blk.Len = bitstream.blockSize
         \/ blk.SrcAddress + blk.Len = bitstream.len
  BY <1>1 DEF BlockInv, PlTypeOK, IsLast, AcOfset
<1>3. /\ n \in Nat \ {0} /\ ChunkSize * (n - 1) < blk.Len /\ blk.Len <= ChunkSize * n
      /\ blk.Len = bitstream.blockSize => blk.Len - ChunkSize * (n - 1) >= HdrSize
  BY <1>2, NumberOfChunks DEF PlTypeOK
<1>4. blk.SrcAddress \in Nat
  BY DEF PlTypeOK
<1>5. ChunkEnd(c) = IF c = n - 1 THEN blk.Len ELSE ChunkSize * (c + 1)
  BY DEF ChunkEnd
<1> HIDE DEF n
<1>6. ChunkSize * c \in Nat /\ ChunkSize * n \in Int /\ ChunkSize * (n - 1) \in Int
  BY <1>1, <1>3 DEF n
<1>7. CASE c = n - 1
  <2>1. ChunkSize * n = ChunkSize * (n - 1) + ChunkSize
    BY <1>1, <1>3
  <2> QED
    BY <1>1, <1>2, <1>3, <1>4, <1>5, <1>6, <1>7, <2>1 DEF n
<1>8. CASE c # n - 1
  <2>1. ChunkSize * (c + 1) = ChunkSize * c + ChunkSize
    BY <1>1
  <2>2. c \in Int /\ n - 1 \in Int /\ c < n - 1
    BY <1>3, <1>8 DEF n
  <2>3. ChunkSize * c + ChunkSize <= ChunkSize * (n - 1)
    BY <1>1, <2>2, ProductOrder
  <2> QED
    BY <1>1, <1>2, <1>3, <1>4, <1>5, <1>6, <1>8, <2>1, <2>3 DEF n
<1> QED
  BY <1>7, <1>8

(***************************************************************************)
(* The check on the hash buffer counts the chunks the loops will run over. *)
(***************************************************************************)
LEMMA ChunksCounted ==
  bitstream \in Bitstreams /\ blk.Len \in Nat \ {0} => ChunksOf(blk.Len) = NoOfChunks
<1> SUFFICES ASSUME bitstream \in Bitstreams, blk.Len \in Nat \ {0}
             PROVE  ChunksOf(blk.Len) = NoOfChunks
  OBVIOUS
<1>1. /\ NoOfChunks \in Nat \ {0}
      /\ ChunkSize * (NoOfChunks - 1) < blk.Len /\ blk.Len <= ChunkSize * NoOfChunks
  BY NumberOfChunks
<1>2. ChunkSize \in Nat \ {0}
  BY PlSizes
<1> QED
  BY <1>1, <1>2, RoundedUp DEF ChunksOf

-----------------------------------------------------------------------------
(***************************************************************************)
(* The invariant holds when the load begins.                               *)
(***************************************************************************)
LEMMA InitInv ==
  ASSUME Init
  PROVE  PlInv({}) /\ GuardInv({})
<1> USE DEF Init
<1>1. bitstream.len \in Nat \ {0} /\ bitstream.blockSize \in Nat \ {0}
  BY PlSizes
<1>2. <<>> \in Words /\ Row({}, 0, 0) = <<>>
  BY DEF Words, Row
<1>3. PlTypeOK
  <2>1. MaxWrites \in Nat /\ NoOfHashs \in Nat \ {0}
    BY PlSizes
  <2>2. aes \in AesStates
    BY <1>2 DEF AesStates
  <2>3. blk \in [SrcAddress : Nat, CurrentAcOffset : Nat, Index : Nat, Len : Nat,
                 IsLastBlock : BOOLEAN]
    BY <1>1 DEF AcOfset
  <2>4. DOMAIN HashsOfChunks \subseteq 0 .. (NoOfHashs - 1)
    OBVIOUS
  <2>5. {AuthCertBuf, sha, ChunkBuffer, rest, sent} \subseteq Words
    BY <1>2
  <2>6. changed \subseteq Memory /\ fault \in BOOLEAN
    OBVIOUS
  <2> QED
    BY <2>1, <2>2, <2>3, <2>4, <2>5, <2>6 DEF PlTypeOK
<1>4. BlockInv
  BY <1>1 DEF BlockInv, InBlock
<1>5. HashInv({})
  BY DEF HashInv
<1>6. SentInv({})
  BY <1>2 DEF SentInv, IsRow, ReadSoFar
<1>7. AesInv
  <2>1. bitstream.ends \in Seq(Nat) /\ HdrSize \in Nat \ {0}
    BY PlSizes
  <2> QED
    BY <2>1 DEF AesInv, IsEncrypted
<1>8. GuardInv({})
  BY DEF GuardInv, NoneCovered
<1> QED
  BY <1>3, <1>4, <1>5, <1>6, <1>7, <1>8 DEF PlInv

(***************************************************************************)
(* The head of the block loop.                                             *)
(***************************************************************************)
LEMMA NextBlockInv ==
  ASSUME NEW F, PlInv(F), NextBlock
  PROVE  PlInv(F)'
<1> USE DEF PlInv, NextBlock, hashVars, engineVars, envVars, blockVars
<1>1. /\ bitstream.len \in Nat \ {0} /\ bitstream.blockSize \in Nat \ {0}
      /\ AcSize \in Nat /\ ChunkSize \in Nat \ {0}
  BY PlSizes DEF PlTypeOK
<1>2. CASE blk.SrcAddress < AcOfset
  <2>1. /\ blk' = [blk EXCEPT !.Len = BlockLen(blk), !.IsLastBlock = IsLast(blk)]
        /\ AuthCertBuf' = Copy(blk.CurrentAcOffset, AcSize)
        /\ pc' = IF HashsFit(BlockLen(blk)) THEN "SPK" ELSE "FAIL"
    BY <1>2 DEF Block, PlTypeOK
  <2>2. /\ BlockLen(blk) = IF IsLast(blk) THEN bitstream.len - blk.SrcAddress
                           ELSE bitstream.blockSize
        /\ BlockLen(blk) \in Nat \ {0}
    BY <1>1, <1>2, BlockLength DEF AcOfset, PlTypeOK
  <2>3. /\ blk'.SrcAddress = blk.SrcAddress /\ blk'.Index = blk.Index
        /\ blk'.Len = BlockLen(blk) /\ blk'.IsLastBlock = IsLast(blk)
        /\ blk' \in [SrcAddress : Nat, CurrentAcOffset : Nat, Index : Nat, Len : Nat,
                     IsLastBlock : BOOLEAN]
    <3>1. IsLast(blk) \in BOOLEAN
      BY DEF IsLast
    <3> HIDE DEF NextBlock, PlInv
    <3> QED
      BY <2>1, <2>2, <3>1 DEF PlTypeOK, PlInv
  <2>4. PlTypeOK'
    <3>1. AuthCertBuf' \in Words
      BY <1>1, <2>1, CopyType DEF PlTypeOK
    <3> QED
      BY <2>1, <2>3, <3>1 DEF PlTypeOK, Memory, TotalLen, NoOfBlocks
  <2>5. BlockInv'
    <3>1. pc' = "SPK" => (NoOfChunks <= NoOfHashs)'
      <4>1. (ChunksOf(blk.Len) = NoOfChunks)'
        <5>1. bitstream' \in Bitstreams /\ blk'.Len \in Nat \ {0}
          BY <2>2, <2>3, <2>4 DEF PlTypeOK
        <5>2. (bitstream \in Bitstreams /\ blk.Len \in Nat \ {0}
                 => ChunksOf(blk.Len) = NoOfChunks)'
          BY ChunksCounted, PTL
        <5> QED
          BY <5>1, <5>2
      <4> QED
        BY <2>1, <2>3, <4>1 DEF HashsFit, ChunksOf
    <3> QED
      BY <1>1, <1>2, <2>1, <2>2, <2>3, <3>1 DEF BlockInv, IsLast, AcOfset, InBlock
  <2>6. HashInv(F)'
    BY <2>1 DEF HashInv
  <2>7. SentInv(F)'
    BY <2>1, <2>3 DEF SentInv, ReadSoFar, Loading
  <2>8. AesInv'
    BY <2>1 DEF AesInv, Loading, IsEncrypted, BlockLenIn, HeaderEnd
  <2> QED
    BY <2>4, <2>5, <2>6, <2>7, <2>8
<1>3. CASE ~(blk.SrcAddress < AcOfset)
  <2>1. pc' = "DONE" /\ UNCHANGED blockVars
    BY <1>3
  <2>2. blk.SrcAddress = bitstream.len
    BY <1>1, <1>3 DEF BlockInv, AcOfset, PlTypeOK
  <2>3. PlTypeOK'
    BY <2>1 DEF PlTypeOK, Memory, TotalLen, NoOfBlocks
  <2>4. BlockInv'
    BY <2>1 DEF BlockInv, InBlock
  <2>5. HashInv(F)'
    BY <2>1 DEF HashInv
  <2>6. SentInv(F)'
    BY <2>1, <2>2 DEF SentInv, ReadSoFar, Loading
  <2>7. AesInv'
    BY <2>1 DEF AesInv, Loading, IsEncrypted, BlockLenIn, HeaderEnd
  <2> QED
    BY <2>3, <2>4, <2>5, <2>6, <2>7
<1> QED
  BY <1>2, <1>3

(***************************************************************************)
(* Checking the signature: the SPK, the chunks, the signature itself.      *)
(***************************************************************************)
LEMMA ThisChunk ==
  ASSUME PlTypeOK, BlockInv, pc \in InBlock, chunk \in 0 .. (NoOfChunks - 1)
  PROVE  /\ ChunkSize * chunk \in Nat /\ ChunkAddress \in Nat /\ ChunkLen \in 1 .. ChunkSize
         /\ ChunkSize \in Nat \ {0} /\ HdrSize \in 1 .. ChunkSize
         /\ ChunkAddress = blk.SrcAddress + ChunkSize * chunk
         /\ ChunkEnd(chunk) = ChunkSize * chunk + ChunkLen /\ ChunkEnd(chunk) \in Nat
         /\ ChunkAddress + ChunkLen <= bitstream.len /\ bitstream.len \in Nat
         /\ ChunkLen >= HdrSize \/ ChunkAddress + ChunkLen = bitstream.len
         /\ chunk # NoOfChunks - 1 => ChunkEnd(chunk) = ChunkSize * (chunk + 1)
         /\ chunk = NoOfChunks - 1 => ChunkEnd(chunk) = blk.Len
         /\ NoOfChunks \in Nat \ {0} /\ NoOfChunks <= NoOfHashs
<1>1. blk.SrcAddress \in Nat /\ chunk \in Nat /\ bitstream \in Bitstreams /\ blk.Len \in Nat
  BY DEF PlTypeOK
<1>2. ChunkSize \in Nat \ {0} /\ HdrSize \in 1 .. ChunkSize /\ bitstream.len \in Nat
  BY <1>1, PlSizes
<1>3. /\ ChunkSize * chunk \in Nat /\ ChunkEnd(chunk) \in Nat
      /\ blk.Len \in Nat \ {0} /\ blk.SrcAddress + blk.Len <= bitstream.len
      /\ ChunkEnd(chunk) - ChunkSize * chunk \in 1 .. ChunkSize
      /\ ChunkEnd(chunk) <= blk.Len
      /\ chunk # NoOfChunks - 1 =>
           /\ ChunkEnd(chunk) = ChunkSize * chunk + ChunkSize
           /\ ChunkEnd(chunk) = ChunkSize * (chunk + 1)
      /\ \/ ChunkEnd(chunk) - ChunkSize * chunk >= HdrSize
         \/ blk.SrcAddress + ChunkEnd(chunk) = bitstream.len
  BY ChunkBounds
<1>4. NoOfChunks \in Nat \ {0} /\ NoOfChunks <= NoOfHashs
  BY <1>1, <1>3, NumberOfChunks DEF BlockInv
<1>5. chunk = NoOfChunks - 1 => ChunkEnd(chunk) = blk.Len
  BY DEF ChunkEnd
<1>6. ChunkLen = ChunkEnd(chunk) - ChunkSize * chunk
  BY <1>2, <1>3, <1>5 DEF ChunkLen
<1>7. ChunkAddress = blk.SrcAddress + ChunkSize * chunk
  BY DEF ChunkAddress
<1> QED
  BY <1>1, <1>2, <1>3, <1>4, <1>5, <1>6, <1>7

\* XFsbl_SpkVer starts the hash anew.
LEMMA SpkVerInv ==
  ASSUME NEW F, PlInv(F), SpkVer
  PROVE  PlInv(F)'
<1> USE DEF PlInv, SpkVer, engineVars, envVars, blockVars
<1>1. PlTypeOK'
  <2>1. <<>> \in Words /\ 0 \in 0 .. NoOfHashs
    BY PlSizes DEF Words
  <2> QED
    BY <2>1 DEF PlTypeOK, Memory, TotalLen, NoOfBlocks
<1>2. BlockInv'
  BY DEF BlockInv, InBlock, IsLast, AcOfset, NoOfChunks
<1>3. NoOfChunks \in Nat \ {0} /\ NoOfChunks' = NoOfChunks /\ ChunkSize \in Nat
  <2>1. bitstream \in Bitstreams /\ blk.Len \in Nat \ {0}
    BY PlSizes DEF BlockInv, InBlock, PlTypeOK, IsLast, AcOfset
  <2> QED
    BY <2>1, NumberOfChunks, PlSizes DEF NoOfChunks
<1>4. HashInv(F)'
  BY <1>3 DEF HashInv, Words
<1>5. SentInv(F)'
  BY DEF SentInv, ReadSoFar, Loading
<1>6. AesInv'
  BY DEF AesInv, Loading, IsEncrypted, BlockLenIn, HeaderEnd
<1> QED
  BY <1>1, <1>2, <1>4, <1>5, <1>6

(***************************************************************************)
(* The beginning of a row does not change when the row grows.              *)
(***************************************************************************)
LEMMA SameBeginning ==
  ASSUME NEW s \in Words, NEW t \in Words, NEW n \in 0 .. Len(s)
  PROVE  SubSeq(s \o t, 1, n) = SubSeq(s, 1, n)
BY DEF Words

\* A row is its own longest beginning.
LEMMA WholeRow ==
  ASSUME NEW s \in Words
  PROVE  SubSeq(s, 1, Len(s)) = s
BY DEF Words

\* A chunk is hashed and its digest kept, signed or not.
LEMMA HashChunkInv ==
  ASSUME NEW F, PlInv(F), HashChunk
  PROVE  PlInv(F)'
<1> USE DEF PlInv, HashChunk, engineVars, envVars, blockVars
<1>1. /\ pc \in InBlock /\ chunk \in 0 .. (NoOfChunks - 1) /\ Len(sha) = ChunkSize * chunk
      /\ sha \in Words /\ blk.SrcAddress \in Nat /\ NoOfHashs \in Nat
  BY PlSizes DEF HashInv, InBlock, PlTypeOK
<1>2. /\ ChunkSize * chunk \in Nat /\ ChunkAddress \in Nat /\ ChunkLen \in 1 .. ChunkSize
      /\ ChunkSize \in Nat \ {0} /\ NoOfChunks \in Nat \ {0} /\ NoOfChunks <= NoOfHashs
      /\ ChunkAddress = blk.SrcAddress + ChunkSize * chunk
      /\ ChunkEnd(chunk) = ChunkSize * chunk + ChunkLen /\ ChunkEnd(chunk) \in Nat
      /\ chunk # NoOfChunks - 1 => ChunkEnd(chunk) = ChunkSize * (chunk + 1)
      /\ chunk = NoOfChunks - 1 => ChunkEnd(chunk) = blk.Len
  BY <1>1, ThisChunk
<1> DEFINE read == Copy(ChunkAddress, ChunkLen)
<1>3. /\ read \in Words /\ Len(read) = ChunkLen
      /\ \A j \in 1 .. ChunkLen : read[j].at = ChunkAddress + j - 1
  <2>1. ChunkAddress \in Nat /\ ChunkLen \in Nat
    BY <1>2
  <2>2. /\ read \in Words /\ Len(read) = ChunkLen
        /\ \A j \in 1 .. ChunkLen : read[j] = Word(ChunkAddress + j - 1)
    BY <2>1, CopyType
  <2> HIDE DEF read
  <2> QED
    BY <2>2 DEF Word
<1>4. ChunkBuffer' = read /\ sha' = sha \o read /\ chunk' = chunk + 1
  OBVIOUS
<1> HIDE DEF read
<1>5. /\ sha' \in Words /\ Len(sha') = ChunkEnd(chunk)
      /\ \A j \in 1 .. Len(sha') : sha'[j] = IF j <= Len(sha) THEN sha[j] ELSE read[j - Len(sha)]
  <2>1. /\ sha \o read \in Words /\ Len(sha \o read) = Len(sha) + Len(read)
        /\ \A j \in 1 .. Len(sha) + Len(read) :
             (sha \o read)[j] = IF j <= Len(sha) THEN sha[j] ELSE read[j - Len(sha)]
    BY <1>1, <1>3, ConcatProperties DEF Words
  <2>2. Len(sha) + Len(read) = ChunkEnd(chunk)
    BY <1>1, <1>2, <1>3
  <2> QED
    BY <1>4, <2>1, <2>2
<1>6. ASSUME NEW j \in 1 .. Len(sha')
      PROVE  sha'[j].at = blk.SrcAddress + j - 1
  <2>1. CASE j <= Len(sha)
    <3>1. j \in 1 .. Len(sha) /\ sha'[j] = sha[j]
      BY <1>1, <1>2, <1>5, <2>1
    <3> QED
      BY <3>1 DEF HashInv
  <2>2. CASE ~(j <= Len(sha))
    <3>1. j - Len(sha) \in 1 .. ChunkLen /\ sha'[j] = read[j - Len(sha)]
      BY <1>1, <1>2, <1>5, <2>2
    <3>2. Len(sha) \in Nat /\ ChunkAddress = blk.SrcAddress + Len(sha)
      BY <1>1, <1>2
    <3>3. j \in Nat /\ blk.SrcAddress \in Nat
      BY <1>1, <1>5
    <3>4. ChunkAddress + (j - Len(sha)) - 1 = blk.SrcAddress + j - 1
      BY ONLY <3>2, <3>3
    <3> QED
      BY <1>3, <3>1, <3>4
  <2> QED
    BY <2>1, <2>2
<1>7. NoOfChunks' = NoOfChunks /\ \A c : ChunkEnd(c)' = ChunkEnd(c)
  BY DEF NoOfChunks, ChunkEnd
<1>8. /\ DOMAIN HashsOfChunks' = DOMAIN HashsOfChunks \cup {chunk}
      /\ HashsOfChunks'[chunk] = Digested(sha')
      /\ \A c \in DOMAIN HashsOfChunks : c # chunk => HashsOfChunks'[c] = HashsOfChunks[c]
  BY DEF StoreHash
<1>9. ASSUME NEW c \in 0 .. (chunk' - 1)
      PROVE  /\ c \in DOMAIN HashsOfChunks'
             /\ HashsOfChunks'[c] = Digested(SubSeq(sha', 1, ChunkEnd(c)))
  <2>1. CASE c = chunk
    BY <1>5, <1>8, <2>1, WholeRow
  <2>2. CASE c # chunk
    <3>1. c \in 0 .. (chunk - 1) /\ chunk \in Nat
      BY <1>1, <1>4, <2>2
    <3>2. /\ c \in DOMAIN HashsOfChunks
          /\ HashsOfChunks[c] = Digested(SubSeq(sha, 1, ChunkEnd(c)))
      BY <3>1 DEF HashInv
    <3>3. ChunkEnd(c) \in 0 .. Len(sha)
      <4>1. ChunkEnd(c) = ChunkSize * (c + 1)
        BY <1>1, <1>2, <3>1 DEF ChunkEnd
      <4>2. ChunkSize * (c + 1) \in Nat /\ ChunkSize * (c + 1) <= ChunkSize * chunk
        <5>1. CASE c + 1 = chunk
          BY <5>1, <1>2
        <5>2. CASE c + 1 < chunk
          <6>1. ChunkSize * (c + 1) + ChunkSize <= ChunkSize * chunk
            BY <5>2, <1>2, <3>1, ProductOrder
          <6> QED
            BY <6>1, <1>2, <3>1
        <5> QED
          BY <5>1, <5>2, <3>1
      <4> QED
        BY <4>1, <4>2, <1>1, <1>2
    <3>4. SubSeq(sha', 1, ChunkEnd(c)) = SubSeq(sha, 1, ChunkEnd(c))
      BY <1>1, <1>3, <1>4, <3>3, SameBeginning
    <3> QED
      BY <1>8, <2>2, <3>2, <3>4
  <2> QED
    BY <2>1, <2>2
<1>10. PlTypeOK'
  <2>1. chunk \in 0 .. (NoOfHashs - 1) /\ chunk + 1 \in 0 .. NoOfHashs
    BY ONLY <1>1, <1>2
  <2>2. chunk' \in 0 .. NoOfHashs /\ DOMAIN HashsOfChunks' \subseteq 0 .. (NoOfHashs - 1)
    BY <1>4, <1>8, <2>1 DEF PlTypeOK
  <2> QED
    BY <1>3, <1>4, <1>5, <2>2 DEF PlTypeOK, Memory, TotalLen, NoOfBlocks
<1>11. BlockInv'
  BY DEF BlockInv, InBlock, IsLast, AcOfset, NoOfChunks
<1>12. HashInv(F)'
  <2>1. pc' = "SIGN" => chunk' \in 0 .. (NoOfChunks - 1) /\ Len(sha') = ChunkSize * chunk'
    <3>1. pc' = "SIGN" => chunk + 1 < NoOfChunks
      OBVIOUS
    <3>2. chunk + 1 < NoOfChunks => chunk # NoOfChunks - 1 /\ chunk + 1 \in 0 .. (NoOfChunks - 1)
      BY ONLY <1>1, <1>2
    <3> QED
      BY ONLY <1>2, <1>4, <1>5, <3>1, <3>2
  <2>2. pc' = "SIGNATURE" => chunk' = NoOfChunks /\ Len(sha') = blk.Len
    <3>1. pc' = "SIGNATURE" => ~(chunk + 1 < NoOfChunks)
      OBVIOUS
    <3>2. ~(chunk + 1 < NoOfChunks) => chunk = NoOfChunks - 1 /\ chunk + 1 = NoOfChunks
      BY ONLY <1>1, <1>2
    <3> QED
      BY ONLY <1>2, <1>4, <1>5, <3>1, <3>2
  <2>3. pc' \in {"SIGN", "SIGNATURE"}
    OBVIOUS
  <2>4. \A j \in 1 .. Len(sha') : sha'[j].at = blk'.SrcAddress + j - 1
    BY <1>6
  <2>5. \A c \in 0 .. (chunk' - 1) :
          /\ c \in DOMAIN HashsOfChunks'
          /\ HashsOfChunks'[c] = Digested(SubSeq(sha', 1, ChunkEnd(c)'))
    BY <1>7, <1>9
  <2> HIDE DEF HashChunk
  <2> QED
    BY <2>1, <2>2, <2>3, <2>4, <2>5, <1>7 DEF HashInv, HashChunk, blockVars
<1>13. SentInv(F)'
  BY DEF SentInv, ReadSoFar, Loading
<1>14. AesInv'
  BY DEF AesInv, Loading, IsEncrypted, BlockLenIn, HeaderEnd
<1> QED
  BY <1>10, <1>11, <1>12, <1>13, <1>14

(***************************************************************************)
(* A row that a certificate covers is signed, and its places are known.    *)
(***************************************************************************)
LEMMA SignedRow ==
  ASSUME NEW s \in Words, NEW a \in Nat, NEW b, NEW n,
         \A j \in 1 .. Len(s) : s[j].at = a + j - 1,
         s = SignedWords(b, n)
  PROVE  s = SignedWords(a, Len(s))
<1> DEFINE R == [at : Nat, signed : BOOLEAN]
           u == SignedWords(a, Len(s))
<1>1. s \in Seq(R) /\ Len(s) \in Nat /\ DOMAIN s = 1 .. Len(s)
  BY DEF Words
<1>2. \A j \in DOMAIN s : s[j].signed = TRUE
  BY DEF SignedWords
<1>3. /\ u \in Seq(R) /\ Len(u) = Len(s)
      /\ \A j \in 1 .. Len(s) : u[j] = [at |-> a + j - 1, signed |-> TRUE]
  BY <1>1, SignedLen0 DEF Words
<1> HIDE DEF u
<1>4. ASSUME NEW j \in 1 .. Len(s)
      PROVE  s[j] = u[j]
  <2>1. s[j] \in R /\ s[j].at = a + j - 1 /\ s[j].signed = TRUE
    <3>1. s[j] \in R
      <4> HIDE DEF R
      <4> QED
        BY <1>1, ElementOfSeq
    <3>2. s[j].signed = TRUE
      <4>1. j \in DOMAIN s
        BY <1>1
      <4> QED
        BY <1>2, <4>1
    <3> QED
      BY <3>1, <3>2
  <2>2. s[j] = [at |-> a + j - 1, signed |-> TRUE]
    BY <2>1
  <2> QED
    BY <1>3, <2>2
<1> HIDE DEF R
<1>5. s = u
  BY <1>1, <1>3, <1>4, SeqEqual
<1> QED
  BY <1>5 DEF u

\* When the signature is right, so is every digest that was kept.
LEMMA PlSignVerInv ==
  ASSUME NEW F, PlInv(F), PlSignVer
  PROVE  PlInv(F)'
<1> USE DEF PlInv, PlSignVer, engineVars, envVars, blockVars
<1>1. /\ pc = "SIGNATURE" /\ pc \in InBlock /\ chunk = NoOfChunks /\ Len(sha) = blk.Len
      /\ sha \in Words /\ blk.SrcAddress \in Nat
      /\ \A j \in 1 .. Len(sha) : sha[j].at = blk.SrcAddress + j - 1
      /\ \A c \in 0 .. (chunk - 1) :
           HashsOfChunks[c] = Digested(SubSeq(sha, 1, ChunkEnd(c)))
  BY DEF HashInv, InBlock, PlTypeOK
<1>2. PlTypeOK'
  <2>1. <<>> \in Words /\ 0 \in 0 .. NoOfHashs
    BY PlSizes DEF Words
  <2> QED
    BY <2>1 DEF PlTypeOK, Memory, TotalLen, NoOfBlocks
<1>3. BlockInv'
  BY DEF BlockInv, InBlock, IsLast, AcOfset, NoOfChunks
<1>4. NoOfChunks \in Nat \ {0} /\ ChunkSize \in Nat
  <2>1. bitstream \in Bitstreams /\ blk.Len \in Nat \ {0}
    BY PlSizes DEF BlockInv, InBlock, PlTypeOK, IsLast, AcOfset
  <2> QED
    BY <2>1, NumberOfChunks, PlSizes
<1>5. CASE SignatureOK
  <2>1. sha = SignedWords(blk.SrcAddress, Len(sha))
    BY <1>1, <1>5, SignedRow DEF SignatureOK
  <2>2. ASSUME NEW c \in 0 .. (NoOfChunks - 1)
        PROVE  HashsOfChunks[c] = Digested(SignedWords(blk.SrcAddress, ChunkEnd(c)))
    <3>1. ChunkEnd(c) \in Nat /\ ChunkEnd(c) <= Len(sha) /\ Len(sha) \in Nat
      BY <1>1, ChunkBounds
    <3>2. SubSeq(sha, 1, ChunkEnd(c)) = SignedWords(blk.SrcAddress, ChunkEnd(c))
      <4>1. sha = Row({}, blk.SrcAddress, Len(sha))
        BY <1>1, <2>1, <3>1, SignedIsRow
      <4>2. SubSeq(Row({}, blk.SrcAddress, Len(sha)), 1, ChunkEnd(c))
              = Row({}, blk.SrcAddress, ChunkEnd(c))
        <5>1. ChunkEnd(c) \in 0 .. Len(sha)
          BY <3>1
        <5> QED
          BY <1>1, <3>1, <5>1, FrontRow
      <4>3. SignedWords(blk.SrcAddress, ChunkEnd(c)) = Row({}, blk.SrcAddress, ChunkEnd(c))
        BY <1>1, <3>1, SignedIsRow
      <4> QED
        BY <4>1, <4>2, <4>3
    <3> QED
      BY <1>1, <3>2
  <2>3. sha' = Row(F, blk.SrcAddress, ChunkSize * 0)
    BY <1>4 DEF Row
  <2>4. HashInv(F)'
    <3>1. pc' = "REAUTH" /\ chunk' = 0 /\ NoOfChunks' = NoOfChunks
      BY <1>5 DEF NoOfChunks
    <3>2. \A c : ChunkEnd(c)' = ChunkEnd(c)
      BY DEF ChunkEnd, NoOfChunks
    <3> QED
      BY <1>4, <2>2, <2>3, <3>1, <3>2 DEF HashInv
  <2>5. SentInv(F)'
    <3>1. pc' = "REAUTH" /\ chunk' = 0
      BY <1>5
    <3>2. ReadSoFar' = ReadSoFar
      <4>1. ReadSoFar' = blk.SrcAddress + ChunkSize * 0
        BY <3>1 DEF ReadSoFar, ChunkAddress
      <4> QED
        BY <1>1, <1>4, <4>1 DEF ReadSoFar
    <3> QED
      BY <1>1, <3>1, <3>2 DEF SentInv, Loading
  <2>6. AesInv'
    BY <1>5 DEF AesInv, Loading, IsEncrypted, BlockLenIn, HeaderEnd
  <2> QED
    BY <1>2, <1>3, <2>4, <2>5, <2>6
<1>6. CASE ~SignatureOK
  <2>1. pc' = "FAIL"
    BY <1>6
  <2> QED
    BY <1>2, <1>3, <2>1 DEF HashInv, SentInv, AesInv, Loading
<1> QED
  BY <1>5, <1>6

-----------------------------------------------------------------------------
(***************************************************************************)
(* What the digest of a chunk covers.                                      *)
(***************************************************************************)
LEMMA OneQuotient ==
  ASSUME NEW x \in Nat, NEW d \in Nat \ {0}, NEW q \in Nat, NEW r \in 0 .. (d - 1),
         x = d * q + r
  PROVE  x \div d = q /\ x % d = r
<1> DEFINE p == x \div d
           m == x % d
<1>1. p \in Nat /\ m \in 0 .. (d - 1) /\ x = d * p + m
  BY Division
<1> HIDE DEF p, m
<1>2. d * p \in Int /\ d * q \in Int
  BY <1>1
<1>3. ~(p < q)
  <2> SUFFICES ASSUME p < q PROVE FALSE
    OBVIOUS
  <2>1. d * p + d <= d * q
    BY <1>1, ProductOrder
  <2> QED
    BY <1>1, <1>2, <2>1
<1>4. ~(q < p)
  <2> SUFFICES ASSUME q < p PROVE FALSE
    OBVIOUS
  <2>1. d * q + d <= d * p
    BY <1>1, ProductOrder
  <2> QED
    BY <1>1, <1>2, <2>1
<1>5. p = q /\ m = r
  BY <1>1, <1>2, <1>3, <1>4
<1> QED
  BY <1>5 DEF p, m

\* Two rows with the same digest hold the same words in whole SHA3 blocks.
LEMMA DigestedWord ==
  ASSUME NEW s \in Words, NEW t \in Words, Digested(s) = Digested(t), Len(t) = Len(s),
         NEW r \in Nat, (r \div ShaBlock + 1) * ShaBlock <= Len(s)
  PROVE  s[r + 1] = t[r + 1]
<1> DEFINE S == ShaBlock
           n == Len(s)
           q == n \div S
           k == r \div S
           m == n - (n % S)
<1>1. S \in Nat \ {0} /\ n \in Nat
  BY PlSizes DEF Words
<1>2. q \in Nat /\ n % S \in 0 .. (S - 1) /\ n = S * q + (n % S)
  BY <1>1, Division
<1>3. k \in Nat /\ r % S \in 0 .. (S - 1) /\ r = S * k + (r % S)
  BY <1>1, Division
<1>4. Digested(s) = SubSeq(s, 1, m) /\ Digested(t) = SubSeq(t, 1, m)
  BY DEF Digested
<1>5. (k + 1) * S <= n
  OBVIOUS
<1> HIDE DEF S, n, q, k
<1>6. (k + 1) * S = S * k + S /\ S * k \in Int /\ S * q \in Int
  BY <1>1, <1>2, <1>3, SMTT(30)
<1>7. ~(q < k + 1)
  <2> SUFFICES ASSUME q < k + 1 PROVE FALSE
    OBVIOUS
  <2>1. CASE q = k
    BY <2>1, <1>1, <1>2, <1>5, <1>6
  <2>2. CASE q < k
    <3>1. S * q + S <= S * k
      BY <2>2, <1>1, <1>2, <1>3, ProductOrder
    <3> QED
      BY <3>1, <1>1, <1>2, <1>5, <1>6
  <2> QED
    BY <2>1, <2>2, <1>2, <1>3
<1>8. S * k + S <= S * q
  BY <1>1, <1>2, <1>3, <1>7, ProductOrder
<1>9. m = S * q /\ m \in 0 .. n /\ r + 1 \in 1 .. m
  BY <1>1, <1>2, <1>3, <1>6, <1>8
<1> HIDE DEF m
<1>10. ASSUME NEW w \in Words, Len(w) = n
       PROVE  SubSeq(w, 1, m)[r + 1] = w[r + 1]
  <2>1. m \in 0 .. Len(w) /\ r + 1 \in 1 .. m
    BY <1>9, <1>10
  <2> QED
    BY <2>1, <1>10 DEF Words
<1> QED
  BY <1>4, <1>10 DEF n

\* Where a place of the block at hand lies in it.
LEMMA PlaceInBlock ==
  ASSUME PlTypeOK, BlockInv, pc \in InBlock,
         NEW i \in Nat, blk.SrcAddress <= i, i < blk.SrcAddress + blk.Len
  PROVE  /\ BlockOf(i) * bitstream.blockSize = blk.SrcAddress
         /\ i % bitstream.blockSize = i - blk.SrcAddress
<1> DEFINE d == bitstream.blockSize
           k == blk.Index - 1
           a == blk.SrcAddress
<1>1. /\ d \in Nat \ {0} /\ bitstream.len \in Nat /\ k \in Nat /\ a \in Nat
      /\ a = k * d /\ blk.Len \in Nat
  BY PlSizes DEF PlTypeOK, BlockInv
<1>2. blk.Len <= d /\ a <= i /\ i < a + blk.Len
  BY <1>1 DEF BlockInv, IsLast, AcOfset
<1> HIDE DEF d, k, a
<1>3. i - a \in 0 .. (d - 1)
  BY <1>1, <1>2
<1>4. k * d = d * k /\ d * k \in Nat
  BY <1>1
<1>5. i = d * k + (i - a)
  BY <1>1, <1>4
<1>6. i \div d = k /\ i % d = i - a
  <2> DEFINE r == i - a
  <2>1. d \in Nat \ {0} /\ k \in Nat /\ r \in 0 .. (d - 1) /\ i = d * k + r
    BY <1>1, <1>3, <1>5
  <2> HIDE DEF r
  <2>2. i \div d = k /\ i % d = r
    BY <2>1, OneQuotient
  <2> QED
    BY <2>2 DEF r
<1> QED
  BY <1>1, <1>6 DEF BlockOf, d, k, a

(***************************************************************************)
(* A block of the loop is one of those that were signed, and as long.      *)
(***************************************************************************)
LEMMA BlockIsSigned ==
  ASSUME PlTypeOK, BlockInv, blk.SrcAddress < bitstream.len
  PROVE  /\ blk.Index - 1 \in 0 .. (NoOfBlocks - 1)
         /\ SignedLen(blk.Index - 1) = (IF IsLast(blk) THEN bitstream.len - blk.SrcAddress
                                        ELSE bitstream.blockSize)
<1> DEFINE i == blk.Index
           d == bitstream.blockSize
           x == bitstream.len
           n == NoOfBlocks
<1>1. i \in Nat \ {0} /\ d \in Nat \ {0} /\ x \in Nat \ {0}
  BY PlSizes DEF BlockInv, PlTypeOK
<1>2. blk.SrcAddress = (i - 1) * d /\ (i - 1) * d \in Nat /\ (i - 1) * d < x
  BY DEF BlockInv, PlTypeOK
<1>3. IsLast(blk) <=> (i - 1) * d + d > x
  BY <1>2 DEF IsLast, AcOfset
<1>4. SignedLen(i - 1) = (IF (i - 1) + 1 < n THEN d ELSE x - (i - 1) * d)
  BY DEF SignedLen
<1>5. n = (x + d - 1) \div d
  BY DEF NoOfBlocks
<1> HIDE DEF i, d, x, n
<1>6. (i - 1) * d = d * (i - 1) /\ d * (i - 1) + d = d * i /\ d * i \in Int
  BY <1>1, SMTT(30)
<1>7. CASE IsLast(blk)
  <2>1. d * (i - 1) < x /\ x <= d * i
    BY <1>1, <1>2, <1>3, <1>6, <1>7
  <2>2. n = i
    BY <1>1, <1>5, <2>1, RoundedUp
  <2> QED
    BY <1>1, <1>2, <1>4, <1>7, <2>2 DEF i, d, x, n
<1>8. CASE ~IsLast(blk)
  <2> DEFINE r == (x + d - 1) % d
  <2>1. d * i <= x
    BY <1>1, <1>2, <1>3, <1>6, <1>8
  <2>2. n \in Nat /\ r \in 0 .. (d - 1) /\ x + d - 1 = d * n + r
    BY <1>1, <1>5, Division, x + d - 1 \in Nat
  <2> HIDE DEF r
  <2>3. d * n \in Int
    BY <1>1, <2>2
  <2>4. ~(n < i)
    <3> SUFFICES ASSUME n < i PROVE FALSE
      OBVIOUS
    <3>1. d * n + d <= d * i
      BY <1>1, <2>2, ProductOrder
    <3> QED
      BY <1>1, <1>6, <2>1, <2>2, <2>3, <3>1
  <2>5. (i - 1) + 1 = i /\ i - 1 \in 0 .. (n - 1)
    BY <1>1, <2>2, <2>4
  <2>6. CASE i < n
    BY <1>4, <1>8, <2>5, <2>6 DEF i, d, x, n
  <2>7. CASE i = n
    <3>1. x - (i - 1) * d = d
      BY <1>1, <1>2, <1>6, <2>1, <2>2, <2>3, <2>7
    <3> QED
      BY <1>4, <1>8, <2>5, <2>7, <3>1 DEF i, d, x, n
  <2> QED
    BY <1>1, <2>2, <2>4, <2>6, <2>7
<1> QED
  BY <1>7, <1>8

\* The end of a SHA3 block.
LEMMA CoveredIsInt ==
  ASSUME PlTypeOK, NEW i \in Nat
  PROVE  CoveredAt(i) \in Int /\ ShaBlockEnd(i) \in Int
<1> DEFINE d == bitstream.blockSize
           r == i % d
<1>1. d \in Nat \ {0} /\ ShaBlock \in Nat \ {0}
  BY PlSizes DEF PlTypeOK
<1>2. i \div d \in Nat /\ r \in Nat
  BY <1>1, Division
<1>3. /\ ShaBlockEnd(i) = (r \div ShaBlock + 1) * ShaBlock
      /\ CoveredAt(i) = (i \div d) * d + ShaBlockEnd(i)
  BY DEF ShaBlockEnd, CoveredAt, BlockOf
<1> HIDE DEF d, r
<1>4. r \div ShaBlock \in Nat
  BY <1>1, <1>2, Division
<1>5. (r \div ShaBlock + 1) * ShaBlock \in Int /\ (i \div d) * d \in Int
  BY <1>1, <1>2, <1>4
<1> QED
  BY <1>3, <1>5

\* In a block before the one at hand what is covered ends with the block.
LEMMA CoveredBefore ==
  ASSUME PlTypeOK, BlockInv, pc \in InBlock,
         NEW i \in Nat, i < blk.SrcAddress, IsCovered(i)
  PROVE  CoveredAt(i) <= blk.SrcAddress
<1> DEFINE d == bitstream.blockSize
           k == blk.Index - 1
           a == blk.SrcAddress
           q == BlockOf(i)
<1>1. /\ d \in Nat \ {0} /\ k \in Nat /\ a \in Nat /\ a = k * d
      /\ a < bitstream.len
  BY PlSizes DEF PlTypeOK, BlockInv
<1>2. q \in Nat /\ i % d \in 0 .. (d - 1) /\ i = d * q + (i % d)
  BY <1>1, Division DEF BlockOf
<1>3. k \in 0 .. (NoOfBlocks - 1)
  BY <1>1, BlockIsSigned
<1>4. NoOfBlocks \in Int
  <2> DEFINE x == bitstream.len + d - 1
  <2>1. x \in Nat
    <3>1. bitstream \in Bitstreams
      BY DEF PlTypeOK
    <3>2. bitstream.len \in Nat
      BY <3>1, PlSizes
    <3> QED
      BY <1>1, <3>2
  <2>2. NoOfBlocks = x \div d
    BY DEF NoOfBlocks
  <2> HIDE DEF x, d
  <2>3. x \div d \in Nat
    BY <1>1, <2>1, Division
  <2> QED
    BY <2>2, <2>3
<1>5. ShaBlockEnd(i) \in Int
  BY CoveredIsInt
<1>6. CoveredAt(i) = q * d + ShaBlockEnd(i) /\ ShaBlockEnd(i) <= SignedLen(q)
  BY DEF CoveredAt, IsCovered
<1>7. SignedLen(q) = IF q + 1 < NoOfBlocks THEN d ELSE bitstream.len - q * d
  BY DEF SignedLen
<1>8. i < a
  OBVIOUS
<1> HIDE DEF d, k, a, q
<1>9. q * d = d * q /\ k * d = d * k /\ d * q \in Int /\ d * k \in Int
  BY <1>1, <1>2
<1>10. ~(k <= q)
  <2> SUFFICES ASSUME k <= q PROVE FALSE
    OBVIOUS
  <2>1. CASE k = q
    BY <2>1, <1>1, <1>2, <1>8, <1>9
  <2>2. CASE k < q
    <3>1. d * k + d <= d * q
      BY <2>2, <1>1, <1>2, ProductOrder
    <3> QED
      BY <3>1, <1>1, <1>2, <1>8, <1>9
  <2> QED
    BY <2>1, <2>2, <1>1, <1>2
<1>11. d * q + d <= d * k
  BY <1>1, <1>2, <1>10, ProductOrder
<1>12. SignedLen(q) = d
  BY <1>1, <1>2, <1>3, <1>4, <1>7, <1>10
<1> QED
  BY <1>1, <1>5, <1>6, <1>9, <1>11, <1>12 DEF a

(***************************************************************************)
(* The layout of an encrypted bitstream.                                   *)
(***************************************************************************)
LEMMA Layout ==
  ASSUME bitstream \in Bitstreams, IsEncrypted,
         NEW k \in 0 .. (Len(bitstream.ends) - 1)
  PROVE  /\ bitstream.len \in Nat /\ HdrSize \in Nat \ {0} /\ HdrSize <= bitstream.len
         /\ Len(bitstream.ends) \in Nat /\ Len(bitstream.ends) >= 2
         /\ HeaderEnd(k) \in Nat /\ HeaderEnd(k) <= bitstream.len
         /\ BlockLenIn(k) \in Nat
         /\ k + 1 < Len(bitstream.ends) =>
              /\ BlockLenIn(k) # 0
              /\ HeaderEnd(k) + BlockLenIn(k) + HdrSize <= bitstream.len
         /\ k + 1 = Len(bitstream.ends) =>
              BlockLenIn(k) = 0 /\ HeaderEnd(k) = bitstream.len
<1> DEFINE e == bitstream.ends
<1>1. /\ bitstream.len \in Nat /\ HdrSize \in Nat \ {0}
      /\ e \in Seq(Nat) /\ LaidOut(bitstream)
  BY PlSizes DEF IsEncrypted
<1>2. /\ Len(e) \in Nat /\ Len(e) >= 2
      /\ e[1] = HdrSize /\ e[Len(e)] = bitstream.len
      /\ \A i \in 2 .. Len(e) : e[i - 1] + HdrSize < e[i]
      /\ \A i \in 1 .. Len(e) : e[i] <= bitstream.len /\ e[i] \in Nat
  BY <1>1 DEF LaidOut
<1>3. HeaderEnd(k) = e[k + 1] /\ k + 1 \in 1 .. Len(e)
  BY <1>2 DEF HeaderEnd
<1>4. HdrSize <= bitstream.len
  BY <1>1, <1>2
<1>5. CASE k + 1 < Len(e)
  <2>1. BlockLenIn(k) = e[k + 2] - HdrSize - e[k + 1]
    <3>1. k + 1 + 1 = k + 2
      OBVIOUS
    <3> QED
      BY <1>5, <3>1 DEF BlockLenIn, HeaderEnd
  <2>2. k + 2 \in 2 .. Len(e) /\ (k + 2) - 1 = k + 1
    BY <1>2, <1>5
  <2>3. e[k + 1] + HdrSize < e[k + 2] /\ e[k + 2] <= bitstream.len /\ e[k + 2] \in Nat
    BY <1>2, <2>2
  <2>4. HeaderEnd(k) \in Nat /\ HeaderEnd(k) <= bitstream.len
    BY <1>2, <1>3
  <2> DEFINE x == HeaderEnd(k)
             y == e[k + 2]
  <2>5. /\ BlockLenIn(k) = y - HdrSize - x /\ x + HdrSize < y /\ y <= bitstream.len
        /\ x \in Nat /\ y \in Nat
    BY <1>3, <2>1, <2>3, <2>4
  <2> HIDE DEF x, y
  <2>6. BlockLenIn(k) \in Nat /\ BlockLenIn(k) # 0 /\ x + BlockLenIn(k) + HdrSize <= bitstream.len
    BY ONLY <1>1, <2>5
  <2> QED
    BY <1>1, <1>2, <1>4, <1>5, <2>4, <2>6 DEF x
<1>6. CASE k + 1 = Len(e)
  BY <1>1, <1>2, <1>3, <1>4, <1>6 DEF BlockLenIn
<1> QED
  BY <1>2, <1>3, <1>5, <1>6

(***************************************************************************)
(* The second reading adds to F what it finds not as signed in the chunk;  *)
(* where the digest is the kept one, none of it lies in a whole SHA3 block *)
(* that was hashed.                                                        *)
(***************************************************************************)
FoundIn(F) ==
  F \cup {i \in changed : ChunkAddress <= i /\ i < ChunkAddress + ChunkLen}

LEMMA ReadAgain ==
  ASSUME NEW F, PlInv(F), GuardInv(F), ReAuthenticate
  PROVE  /\ ChunkBuffer' = Row(FoundIn(F), ChunkAddress, ChunkLen)
         /\ sha' = Row(FoundIn(F), blk.SrcAddress, ChunkEnd(chunk))
         /\ IsRow(FoundIn(F), sent, 0) /\ IsRow(FoundIn(F), aes.SecureHdr, Len(sent))
         /\ ChunkBuffer' \in Words /\ sha' \in Words /\ Len(sha') = ChunkEnd(chunk)
         /\ FoundIn(F) \subseteq Nat
<1> DEFINE G == FoundIn(F)
<1>1. /\ pc = "REAUTH" /\ pc \in InBlock /\ chunk \in 0 .. (NoOfChunks - 1)
      /\ sha = Row(F, blk.SrcAddress, ChunkSize * chunk) /\ blk.SrcAddress \in Nat
      /\ ChunkBuffer' = Copy(ChunkAddress, ChunkLen) /\ sha' = sha \o ChunkBuffer'
  BY DEF PlInv, ReAuthenticate, HashInv, InBlock, PlTypeOK
<1>2. /\ ChunkSize * chunk \in Nat /\ ChunkAddress \in Nat /\ ChunkLen \in Nat
      /\ ChunkAddress = blk.SrcAddress + ChunkSize * chunk
      /\ ChunkEnd(chunk) = ChunkSize * chunk + ChunkLen /\ ChunkEnd(chunk) \in Nat
  BY <1>1, ThisChunk DEF PlInv
<1>3. /\ IsRow(F, sent, 0) /\ IsRow(F, aes.SecureHdr, Len(sent))
      /\ Len(sent) \in Nat /\ Len(aes.SecureHdr) \in Nat
      /\ Len(sent) + Len(aes.SecureHdr) = ChunkAddress
  BY <1>1 DEF PlInv, SentInv, Loading, ReadSoFar, PlTypeOK, AesStates, Words
<1>4. /\ F \subseteq Nat /\ \A i \in F : i < ChunkAddress
  BY <1>1 DEF GuardInv, Loading, Compared, ReadSoFar
<1>5. changed \subseteq Nat
  <2>1. changed \subseteq Memory
    BY DEF PlInv, PlTypeOK
  <2> QED
    BY <2>1 DEF Memory
<1>6. G \subseteq Nat /\ \A i \in Nat : i < ChunkAddress => (i \in F <=> i \in G)
  <2>1. G \subseteq Nat
    BY <1>4, <1>5 DEF FoundIn
  <2>2. ASSUME NEW i \in Nat, i < ChunkAddress
        PROVE  i \in F <=> i \in G
    <3>1. ~(ChunkAddress <= i)
      BY <1>2, <2>2
    <3> QED
      BY <3>1 DEF FoundIn
  <2> QED
    BY <2>1, <2>2
<1>7. \A i \in ChunkAddress .. (ChunkAddress + ChunkLen - 1) : i \in changed <=> i \in G
  <2> SUFFICES ASSUME NEW i \in ChunkAddress .. (ChunkAddress + ChunkLen - 1)
               PROVE  i \in changed <=> i \in G
    OBVIOUS
  <2>1. i \in Nat /\ ChunkAddress <= i /\ i < ChunkAddress + ChunkLen
    BY <1>2
  <2>2. i \notin F
    BY <1>2, <1>4, <2>1
  <2> QED
    BY <2>1, <2>2 DEF FoundIn
<1> HIDE DEF G
<1>8. ASSUME NEW a \in Nat, NEW n \in Nat, a + n <= ChunkAddress
      PROVE  Row(F, a, n) = Row(G, a, n)
  <2>1. \A i \in a .. (a + n - 1) : i \in Nat /\ i < ChunkAddress
    BY <1>2, <1>8
  <2>2. \A i \in a .. (a + n - 1) : i \in F <=> i \in G
    BY <1>6, <2>1
  <2> QED
    BY <2>2, SameRow
<1>9. ChunkBuffer' = Row(G, ChunkAddress, ChunkLen)
  <2>1. ChunkBuffer' = Row(changed, ChunkAddress, ChunkLen)
    BY <1>1, <1>2, SignedIsRow
  <2>2. Row(changed, ChunkAddress, ChunkLen) = Row(G, ChunkAddress, ChunkLen)
    BY <1>2, <1>7, SameRow
  <2> QED
    BY <2>1, <2>2
<1>10. sha' = Row(G, blk.SrcAddress, ChunkEnd(chunk))
  <2> DEFINE n == ChunkSize * chunk
  <2>1. sha = Row(G, blk.SrcAddress, n)
    <3>1. blk.SrcAddress + n <= ChunkAddress /\ n \in Nat
      BY <1>1, <1>2
    <3> QED
      BY <1>1, <3>1, <1>8
  <2>2. sha' = Row(G, blk.SrcAddress, n) \o Row(G, blk.SrcAddress + n, ChunkLen)
    BY <1>1, <1>2, <1>9, <2>1
  <2>4. n \in Nat /\ ChunkLen \in Nat /\ n + ChunkLen = ChunkEnd(chunk)
    BY <1>2 DEF n
  <2> HIDE DEF n
  <2>3. Row(G, blk.SrcAddress, n) \o Row(G, blk.SrcAddress + n, ChunkLen)
          = Row(G, blk.SrcAddress, n + ChunkLen)
    <3>1. blk.SrcAddress \in Nat
      BY <1>1
    <3> QED
      BY <2>4, <3>1, JoinRow
  <2> QED
    BY <2>2, <2>3, <2>4
<1>11. IsRow(G, sent, 0) /\ IsRow(G, aes.SecureHdr, Len(sent))
  <2>1. Row(F, 0, Len(sent)) = Row(G, 0, Len(sent))
    <3>1. 0 + Len(sent) <= ChunkAddress
      BY <1>2, <1>3
    <3> QED
      BY <1>3, <3>1, <1>8
  <2>2. Row(F, Len(sent), Len(aes.SecureHdr)) = Row(G, Len(sent), Len(aes.SecureHdr))
    <3>1. Len(sent) + Len(aes.SecureHdr) <= ChunkAddress
      BY <1>2, <1>3
    <3> QED
      BY <1>3, <3>1, <1>8
  <2> QED
    BY <1>3, <2>1, <2>2 DEF IsRow
<1>12. ChunkBuffer' \in Words /\ sha' \in Words /\ Len(sha') = ChunkEnd(chunk)
  <2>1. Row(G, ChunkAddress, ChunkLen) \in Words
    BY <1>2, RowLen
  <2>2. /\ Row(G, blk.SrcAddress, ChunkEnd(chunk)) \in Words
        /\ Len(Row(G, blk.SrcAddress, ChunkEnd(chunk))) = ChunkEnd(chunk)
    BY <1>1, <1>2, RowLen
  <2> QED
    BY <1>9, <1>10, <2>1, <2>2
<1> QED
  BY <1>6, <1>9, <1>10, <1>11, <1>12 DEF G

\* What the digests let through.
LEMMA NothingCoveredFound ==
  ASSUME NEW F, PlInv(F), GuardInv(F), ReAuthenticate, SameHash(Digested(sha')),
         NEW i \in FoundIn(F), IsCovered(i), CoveredAt(i) <= ChunkAddress + ChunkLen
  PROVE  FALSE
<1>1. /\ pc = "REAUTH" /\ pc \in InBlock /\ chunk \in 0 .. (NoOfChunks - 1)
      /\ blk.SrcAddress \in Nat /\ PlTypeOK /\ BlockInv
      /\ Digested(sha') = Digested(SignedWords(blk.SrcAddress, ChunkEnd(chunk)))
  BY DEF PlInv, ReAuthenticate, HashInv, InBlock, PlTypeOK, SameHash
<1>2. /\ ChunkSize * chunk \in Nat /\ ChunkAddress \in Nat /\ ChunkLen \in Nat
      /\ ChunkAddress = blk.SrcAddress + ChunkSize * chunk
      /\ ChunkEnd(chunk) = ChunkSize * chunk + ChunkLen /\ ChunkEnd(chunk) \in Nat
      /\ ChunkEnd(chunk) <= blk.Len /\ blk.Len \in Nat
  <2>1. ChunkEnd(chunk) <= blk.Len /\ blk.Len \in Nat
    BY <1>1, ChunkBounds
  <2> QED
    BY <1>1, <2>1, ThisChunk
<1>3. FoundIn(F) \subseteq Nat /\ i \in Nat
  BY ReadAgain
<1>4. i < ChunkAddress + ChunkLen
  <2>1. \A j \in F : j < ChunkAddress
    BY <1>1 DEF GuardInv, Loading, Compared, ReadSoFar
  <2>2. F \subseteq Nat
    BY DEF GuardInv
  <2> QED
    BY <1>2, <2>1, <2>2 DEF FoundIn
<1>5. CASE i < blk.SrcAddress
  <2>1. i \in F
    BY <1>2, <1>3, <1>1, <1>5 DEF FoundIn
  <2>2. CoveredAt(i) <= blk.SrcAddress
    BY <1>1, <1>3, <1>5, CoveredBefore
  <2>3. CoveredAt(i) > ChunkAddress
    BY <1>1, <2>1 DEF GuardInv, NoneCovered, Loading, Compared, ReadSoFar
  <2>4. CoveredAt(i) \in Int
    BY <1>1, <1>3, CoveredIsInt
  <2> QED
    BY <1>1, <1>2, <2>2, <2>3, <2>4
<1>6. CASE ~(i < blk.SrcAddress)
  <2> DEFINE r == i - blk.SrcAddress
             u == SignedWords(blk.SrcAddress, ChunkEnd(chunk))
  <2>1. r \in Nat /\ r + 1 \in 1 .. ChunkEnd(chunk) /\ i < blk.SrcAddress + blk.Len
    BY <1>1, <1>2, <1>3, <1>4, <1>6
  <2>2. BlockOf(i) * bitstream.blockSize = blk.SrcAddress /\ i % bitstream.blockSize = r
    BY <1>1, <1>3, <1>6, <2>1, PlaceInBlock
  <2>3. ShaBlockEnd(i) = (r \div ShaBlock + 1) * ShaBlock
    BY <2>2 DEF ShaBlockEnd
  <2>4. CoveredAt(i) = blk.SrcAddress + ShaBlockEnd(i)
    BY <2>2 DEF CoveredAt
  <2>5. CoveredAt(i) \in Int /\ ShaBlockEnd(i) \in Int
    BY <1>1, <1>3, CoveredIsInt
  <2>6. (r \div ShaBlock + 1) * ShaBlock <= ChunkEnd(chunk)
    BY <1>1, <1>2, <2>3, <2>4, <2>5
  <2>7. u \in Words /\ Len(u) = ChunkEnd(chunk) /\ u[r + 1].signed = TRUE
    <3> HIDE DEF r, u
    <3>1. /\ u \in Words /\ Len(u) = ChunkEnd(chunk)
          /\ \A j \in 1 .. ChunkEnd(chunk) :
               u[j] = [at |-> blk.SrcAddress + j - 1, signed |-> TRUE]
      BY <1>1, <1>2, SignedLen0 DEF u
    <3> QED
      BY <2>1, <3>1
  <2>8. /\ sha' \in Words /\ Len(sha') = ChunkEnd(chunk)
        /\ sha' = Row(FoundIn(F), blk.SrcAddress, ChunkEnd(chunk))
    BY ReadAgain
  <2> HIDE DEF r, u
  <2>9. sha'[r + 1] = u[r + 1]
    BY <1>1, <2>1, <2>6, <2>7, <2>8, DigestedWord DEF u
  <2>10. sha'[r + 1].signed = (blk.SrcAddress + (r + 1) - 1 \notin FoundIn(F))
    <3>1. sha'[r + 1] = [at |-> blk.SrcAddress + (r + 1) - 1,
                         signed |-> blk.SrcAddress + (r + 1) - 1 \notin FoundIn(F)]
      <4>1. \A j \in 1 .. ChunkEnd(chunk) :
              Row(FoundIn(F), blk.SrcAddress, ChunkEnd(chunk))[j]
                = [at |-> blk.SrcAddress + j - 1,
                   signed |-> blk.SrcAddress + j - 1 \notin FoundIn(F)]
        BY DEF Row
      <4> QED
        BY <2>1, <2>8, <4>1
    <3> QED
      BY <3>1
  <2>11. blk.SrcAddress + (r + 1) - 1 = i
    BY <1>1, <1>3 DEF r
  <2> QED
    BY <2>7, <2>9, <2>10, <2>11
<1> QED
  BY <1>5, <1>6

(***************************************************************************)
(* The second reading.                                                     *)
(***************************************************************************)
LEMMA ReAuthenticateInv ==
  ASSUME NEW F \in SUBSET Nat, PlInv(F), GuardInv(F), ReAuthenticate
  PROVE  \E G \in SUBSET Nat : PlInv(G)' /\ GuardInv(G)'
<1>0. FoundIn(F) \in SUBSET Nat
  BY ReadAgain
<1> PICK G \in SUBSET Nat : G = FoundIn(F)
  BY <1>0
<1>1. /\ pc = "REAUTH" /\ pc \in InBlock /\ chunk \in 0 .. (NoOfChunks - 1)
      /\ UNCHANGED <<blk, AuthCertBuf, chunk, HashsOfChunks, aes, rest, sent, bitstream,
                     changed, writes, fault>>
      /\ pc' = IF SameHash(Digested(sha')) THEN "SEND" ELSE "FAIL"
  BY DEF PlInv, ReAuthenticate, HashInv, InBlock, blockVars, engineVars, envVars
<1>2. /\ ChunkBuffer' = Row(G, ChunkAddress, ChunkLen)
      /\ sha' = Row(G, blk.SrcAddress, ChunkEnd(chunk))
      /\ IsRow(G, sent, 0) /\ IsRow(G, aes.SecureHdr, Len(sent))
      /\ ChunkBuffer' \in Words /\ sha' \in Words /\ G \subseteq Nat
  BY ReadAgain
<1>7. NoOfBlocks' = NoOfBlocks
  BY <1>1 DEF NoOfBlocks
<1>3. PlTypeOK'
  BY <1>1, <1>2 DEF PlInv, PlTypeOK, Memory, TotalLen, NoOfBlocks
<1>4. BlockInv'
  BY <1>1 DEF PlInv, BlockInv, InBlock, IsLast, AcOfset, NoOfChunks
<1>5. CASE pc' = "SEND"
  <2>1. NoOfChunks' = NoOfChunks /\ \A c : ChunkEnd(c)' = ChunkEnd(c)
    BY <1>1 DEF NoOfChunks, ChunkEnd
  <2>2. ChunkAddress' = ChunkAddress /\ ChunkLen' = ChunkLen
    BY <1>1 DEF ChunkAddress, ChunkLen, NoOfChunks
  <2>3. HashInv(G)'
    <3>1. \A c \in 0 .. (NoOfChunks - 1) :
            HashsOfChunks[c] = Digested(SignedWords(blk.SrcAddress, ChunkEnd(c)))
      BY <1>1 DEF PlInv, HashInv
    <3>2. /\ ChunkEnd(chunk)' = ChunkEnd(chunk)
          /\ (\A c \in 0 .. (NoOfChunks - 1) :
                HashsOfChunks[c] = Digested(SignedWords(blk.SrcAddress, ChunkEnd(c))))'
      BY <1>1, <2>1, <3>1
    <3>3. pc' \notin {"SIGN", "SIGNATURE", "REAUTH"}
      BY <1>5
    <3> QED
      BY <1>1, <1>2, <1>5, <2>1, <2>2, <3>2, <3>3 DEF HashInv
  <2>4. SentInv(G)'
    <3>1. Len(sent) + Len(aes.SecureHdr) = ChunkAddress
      BY <1>1 DEF PlInv, SentInv, Loading, ReadSoFar
    <3>2. ReadSoFar' = ChunkAddress
      BY <1>5, <2>2 DEF ReadSoFar
    <3>3. IsRow(G, sent, 0)' /\ IsRow(G, aes.SecureHdr, Len(sent))'
      BY <1>1, <1>2 DEF IsRow
    <3>4. pc' # "DECRYPT"
      BY <1>5
    <3>5. (Len(sent) + Len(aes.SecureHdr))' = ReadSoFar'
      BY <1>1, <3>1, <3>2
    <3> HIDE DEF ReadSoFar
    <3> QED
      BY <3>3, <3>4, <3>5 DEF SentInv
  <2>5. AesInv'
    BY <1>1, <1>5 DEF PlInv, AesInv, Loading, IsEncrypted, BlockLenIn, HeaderEnd
  <2>6. /\ Len(sent) \in Nat /\ Len(aes.SecureHdr) \in Nat /\ ChunkLen \in Nat
        /\ Len(sent) + Len(aes.SecureHdr) = ChunkAddress /\ ChunkAddress \in Nat
    <3>1. ChunkLen \in Nat /\ ChunkAddress \in Nat
      BY <1>1, ThisChunk DEF PlInv
    <3> QED
      BY <1>1, <3>1 DEF PlInv, SentInv, Loading, ReadSoFar, PlTypeOK, AesStates, Words
  <2>7. /\ F \subseteq Nat /\ NoneCovered(F, Len(sent)) /\ \A i \in F : i < ChunkAddress
        /\ IsEncrypted /\ aes.block # 0 => \A i \in F : i >= HeaderEnd(aes.block - 1)
        /\ writes = 0 => changed = {} /\ F = {}
    BY <1>1 DEF GuardInv, Loading, Compared, ReadSoFar
  <2>8. NoneCovered(G, ChunkAddress + ChunkLen)
    <3> SUFFICES ASSUME NEW i \in G, IsCovered(i)
                 PROVE  CoveredAt(i) > ChunkAddress + ChunkLen
      BY DEF NoneCovered
    <3>1. CoveredAt(i) \in Int
      BY <1>2, CoveredIsInt DEF PlInv
    <3>2. SameHash(Digested(sha'))
      BY <1>1, <1>5
    <3>3. ASSUME CoveredAt(i) <= ChunkAddress + ChunkLen
          PROVE  FALSE
      BY <3>2, <3>3, NothingCoveredFound
    <3> QED
      BY <2>6, <3>1, <3>3
  <2>9. NoneCovered(G, Len(sent))
    <3> SUFFICES ASSUME NEW i \in G, IsCovered(i) PROVE CoveredAt(i) > Len(sent)
      BY DEF NoneCovered
    <3>1. CoveredAt(i) \in Int /\ CoveredAt(i) > ChunkAddress + ChunkLen
      BY <1>2, <2>8, CoveredIsInt DEF PlInv, NoneCovered
    <3> QED
      BY <2>6, <3>1
  <2>10. \A i \in G : i < ChunkAddress + ChunkLen
    BY <2>6, <2>7 DEF FoundIn
  <2>11. IsEncrypted /\ aes.block # 0 => \A i \in G : i >= HeaderEnd(aes.block - 1)
    <3> SUFFICES ASSUME IsEncrypted, aes.block # 0, NEW i \in changed,
                        ChunkAddress <= i, i < ChunkAddress + ChunkLen
                 PROVE  i >= HeaderEnd(aes.block - 1)
      BY <2>7 DEF FoundIn
    <3>1. i \in G
      BY DEF FoundIn
    <3>2. /\ bitstream \in Bitstreams /\ Len(bitstream.ends) \in Nat
          /\ aes.block \in 0 .. Len(bitstream.ends)
          /\ Len(sent) = HeaderEnd(aes.block - 1) + aes.NextBlkLen - aes.SizeofData
          /\ aes.NextBlkLen = BlockLenIn(aes.block - 1)
          /\ aes.SizeofData \in 0 .. aes.NextBlkLen
      BY <1>1, PlSizes DEF PlInv, PlTypeOK, AesInv, Loading
    <3>3. HeaderEnd(aes.block - 1) \in Nat /\ BlockLenIn(aes.block - 1) \in Nat
      <4>1. aes.block - 1 \in 0 .. (Len(bitstream.ends) - 1)
        BY <3>2
      <4> QED
        BY <3>2, <4>1, Layout
    <3> HIDE DEF HeaderEnd, BlockLenIn
    <3> QED
      BY <1>2, <2>6, <3>1, <3>2, <3>3
  <2>12. writes = 0 => G = {}
    BY <2>7 DEF FoundIn
  <2>13. Compared' = ChunkAddress + ChunkLen
    BY <1>5, <2>2 DEF Compared
  <2>15. GuardInv(G)'
    <3>1. NoneCovered(G, Len(sent))' /\ NoneCovered(G, Compared)'
      <4>1. \A i : IsCovered(i)' = IsCovered(i) /\ CoveredAt(i)' = CoveredAt(i)
        BY <1>1, <1>7 DEF IsCovered, CoveredAt, ShaBlockEnd, BlockOf, SignedLen
      <4> QED
        BY <1>1, <2>8, <2>9, <2>13, <4>1 DEF NoneCovered
    <3>2. /\ IsEncrypted' = IsEncrypted
          /\ HeaderEnd(aes.block - 1)' = HeaderEnd(aes.block - 1)
      BY <1>1 DEF IsEncrypted, HeaderEnd
    <3>3. writes' = 0 => changed' = {} /\ G = {}
      BY <1>1, <2>7, <2>12
    <3>4. \A i \in G : i < Compared'
      BY <2>10, <2>13
    <3>5. IsEncrypted' /\ aes'.block # 0 => \A i \in G : i >= HeaderEnd(aes.block - 1)'
      BY <1>1, <2>11, <3>2
    <3> QED
      BY <3>1, <3>3, <3>4, <3>5 DEF GuardInv
  <2>16. PlInv(G)'
    BY <1>3, <1>4, <2>3, <2>4, <2>5 DEF PlInv
  <2>17. G \in SUBSET Nat
    BY <1>2
  <2> QED
    BY <2>15, <2>16, <2>17
<1>6. CASE pc' = "FAIL"
  <2>1. PlInv(F)'
    BY <1>1, <1>3, <1>4, <1>6 DEF PlInv, HashInv, SentInv, AesInv, Loading, IsRow
  <2>2. GuardInv(F)'
    <3>1. \A i : IsCovered(i)' = IsCovered(i) /\ CoveredAt(i)' = CoveredAt(i)
      BY <1>1, <1>7 DEF IsCovered, CoveredAt, ShaBlockEnd, BlockOf, SignedLen
    <3>2. NoneCovered(F, Len(sent))'
      BY <1>1, <3>1 DEF GuardInv, NoneCovered
    <3>3. ~Loading'
      BY <1>6 DEF Loading
    <3> QED
      BY <1>1, <3>2, <3>3 DEF GuardInv
  <2> QED
    BY <2>1, <2>2
<1> QED
  BY <1>1, <1>5, <1>6

-----------------------------------------------------------------------------
(***************************************************************************)
(* What was compared stays the same while it is sent.                      *)
(***************************************************************************)
SameCompared == pc' # "FAIL" => Compared' = Compared

(***************************************************************************)
(* The end of a chunk: when all of it was sent or kept, the loops go on    *)
(* with the words that follow.                                             *)
(***************************************************************************)
LEMMA NextChunkInv ==
  ASSUME NEW F, PlInv(F), pc \in {"SEND", "DECRYPT"}, NextChunk, UNCHANGED decryptUnchanged,
         sent' \in Words, rest' \in Words, aes' \in AesStates,
         IsRow(F, sent', 0), IsRow(F, aes'.SecureHdr, Len(sent')),
         Len(sent') + Len(aes'.SecureHdr) = ChunkAddress + ChunkLen
  PROVE  /\ PlTypeOK' /\ BlockInv' /\ HashInv(F)' /\ SentInv(F)'
         /\ pc' \in {"BLOCK", "REAUTH", "DONE"} /\ SameCompared
<1> USE DEF PlInv, decryptUnchanged, envVars
<1>1. /\ pc \in InBlock /\ chunk \in 0 .. (NoOfChunks - 1) /\ blk.SrcAddress \in Nat
      /\ sha = Row(F, blk.SrcAddress, ChunkEnd(chunk))
      /\ \A c \in 0 .. (NoOfChunks - 1) :
           HashsOfChunks[c] = Digested(SignedWords(blk.SrcAddress, ChunkEnd(c)))
  BY DEF HashInv, InBlock, PlTypeOK
<1>2. /\ ChunkSize * chunk \in Nat /\ ChunkSize \in Nat \ {0} /\ ChunkLen \in Nat
      /\ ChunkAddress = blk.SrcAddress + ChunkSize * chunk
      /\ ChunkEnd(chunk) = ChunkSize * chunk + ChunkLen
      /\ chunk # NoOfChunks - 1 => ChunkEnd(chunk) = ChunkSize * (chunk + 1)
      /\ chunk = NoOfChunks - 1 => ChunkEnd(chunk) = blk.Len
      /\ NoOfChunks \in Nat \ {0} /\ NoOfChunks <= NoOfHashs
  BY <1>1, ThisChunk
<1>3. chunk' = chunk + 1 /\ chunk' \in 0 .. NoOfHashs
  <2>1. chunk' = chunk + 1
    BY DEF NextChunk
  <2>2. NoOfHashs \in Nat
    BY PlSizes
  <2> HIDE DEF PlInv, decryptUnchanged
  <2> QED
    BY <1>1, <1>2, <2>1, <2>2
<1>0. ASSUME SentInv(F)', pc' \in {"BLOCK", "REAUTH", "DONE"}
      PROVE  SameCompared
  <2>1. /\ Len(sent') + Len(aes'.SecureHdr) = ReadSoFar'
        /\ Compared' = ReadSoFar'
    BY <1>0 DEF SentInv, Loading, Compared
  <2>2. Compared = ChunkAddress + ChunkLen
    BY DEF Compared, ReadSoFar
  <2> QED
    BY <2>1, <2>2 DEF SameCompared
<1>4. CASE chunk + 1 < NoOfChunks
  <2>1. pc' = "REAUTH" /\ UNCHANGED blk
    BY <1>4 DEF NextChunk
  <2>2. PlTypeOK'
    BY <1>3, <2>1 DEF PlTypeOK, Memory, TotalLen, NoOfBlocks
  <2>3. BlockInv'
    BY <1>1, <2>1 DEF BlockInv, InBlock, IsLast, AcOfset, NoOfChunks
  <2>4. HashInv(F)'
    <3>1. NoOfChunks' = NoOfChunks /\ \A c : ChunkEnd(c)' = ChunkEnd(c)
      BY <2>1 DEF NoOfChunks, ChunkEnd
    <3>2. chunk' \in 0 .. (NoOfChunks - 1) /\ ChunkSize * chunk' = ChunkEnd(chunk)
      BY <1>1, <1>2, <1>3, <1>4
    <3> QED
      BY <1>1, <2>1, <3>1, <3>2 DEF HashInv
  <2>5. SentInv(F)'
    <3>1. ReadSoFar' = blk.SrcAddress + ChunkSize * chunk'
      BY <2>1 DEF ReadSoFar, ChunkAddress
    <3>2. ReadSoFar' = ChunkAddress + ChunkLen
      <4>1. ChunkSize * chunk' = ChunkEnd(chunk)
        BY <1>1, <1>2, <1>3, <1>4
      <4> QED
        BY <1>1, <1>2, <3>1, <4>1
    <3> QED
      BY <2>1, <3>2 DEF SentInv, Loading, IsRow
  <2> QED
    BY <1>0, <2>1, <2>2, <2>3, <2>4, <2>5
<1>5. CASE ~(chunk + 1 < NoOfChunks)
  <2>1. chunk = NoOfChunks - 1 /\ ChunkAddress + ChunkLen = blk.SrcAddress + blk.Len
    BY <1>1, <1>2, <1>5
  <2>2. /\ bitstream.len \in Nat /\ bitstream.blockSize \in Nat \ {0} /\ AcSize \in Nat
        /\ blk.Index \in Nat /\ blk.CurrentAcOffset \in Nat
        /\ blk.SrcAddress = (blk.Index - 1) * bitstream.blockSize
    BY PlSizes DEF PlTypeOK, BlockInv
  <2>3. CASE blk.IsLastBlock
    <3>1. pc' = "DONE" /\ UNCHANGED blk
      BY <1>5, <2>3 DEF NextChunk
    <3>2. ChunkAddress + ChunkLen = bitstream.len
      <4>1. blk.Len = bitstream.len - blk.SrcAddress
        BY <1>1, <2>3 DEF BlockInv
      <4> HIDE DEF PlInv, decryptUnchanged
      <4> QED
        BY <1>1, <2>1, <2>2, <4>1
    <3>3. PlTypeOK'
      BY <1>3, <3>1 DEF PlTypeOK, Memory, TotalLen, NoOfBlocks
    <3>4. BlockInv' /\ HashInv(F)'
      BY <3>1 DEF BlockInv, HashInv, InBlock
    <3>5. SentInv(F)'
      BY <3>1, <3>2 DEF SentInv, Loading, IsRow, ReadSoFar
    <3> QED
      BY <1>0, <3>1, <3>3, <3>4, <3>5
  <2>4. CASE ~blk.IsLastBlock
    <3>1. /\ pc' = "BLOCK"
          /\ blk' = [blk EXCEPT !.SrcAddress = @ + bitstream.blockSize,
                                !.CurrentAcOffset = @ + AcSize, !.Index = @ + 1]
      BY <1>5, <2>4 DEF NextChunk
    <3>2. /\ blk'.SrcAddress = blk.SrcAddress + bitstream.blockSize
          /\ blk'.Index = blk.Index + 1
          /\ blk' \in [SrcAddress : Nat, CurrentAcOffset : Nat, Index : Nat, Len : Nat,
                       IsLastBlock : BOOLEAN]
      <4>1. blk \in [SrcAddress : Nat, CurrentAcOffset : Nat, Index : Nat, Len : Nat,
                     IsLastBlock : BOOLEAN]
        BY DEF PlTypeOK
      <4>2. /\ blk.SrcAddress + bitstream.blockSize \in Nat
            /\ blk.CurrentAcOffset + AcSize \in Nat /\ blk.Index + 1 \in Nat
        <5>1. /\ blk.SrcAddress \in Nat /\ bitstream.blockSize \in Nat /\ AcSize \in Nat
              /\ blk.CurrentAcOffset \in Nat /\ blk.Index \in Nat
          BY <1>1, <2>2
        <5> QED
          BY ONLY <5>1
      <4> HIDE DEF PlInv, decryptUnchanged
      <4> QED
        BY <3>1, <4>1, <4>2
    <3>3. /\ blk'.SrcAddress <= bitstream.len
          /\ ChunkAddress + ChunkLen = blk'.SrcAddress
      <4>1. ~IsLast(blk) /\ blk.Len = bitstream.blockSize
        BY <1>1, <2>4 DEF BlockInv
      <4> HIDE DEF PlInv, decryptUnchanged
      <4> QED
        BY <1>1, <2>1, <2>2, <3>2, <4>1 DEF IsLast, AcOfset
    <3>4. PlTypeOK'
      BY <1>3, <3>1, <3>2 DEF PlTypeOK, Memory, TotalLen, NoOfBlocks
    <3>5. blk'.SrcAddress = (blk'.Index - 1) * bitstream.blockSize
      <4> DEFINE i == blk.Index
                 d == bitstream.blockSize
      <4>1. i \in Nat /\ d \in Nat
        BY <2>2
      <4> HIDE DEF i, d
      <4>2. ((i + 1) - 1) * d = (i - 1) * d + d
        BY <4>1, SMTT(30)
      <4> QED
        BY <2>2, <3>2, <4>2 DEF i, d
    <3>6. BlockInv' /\ HashInv(F)'
      BY <2>2, <3>1, <3>2, <3>3, <3>5 DEF BlockInv, HashInv, InBlock
    <3>7. SentInv(F)'
      BY <3>1, <3>3 DEF SentInv, Loading, IsRow, ReadSoFar
    <3> QED
      BY <1>0, <3>1, <3>4, <3>6, <3>7
  <2> QED
    BY <2>3, <2>4
<1> QED
  BY <1>4, <1>5

\* A chunk of a plain bitstream goes to the PCAP.
LEMMA SendChunkInv ==
  ASSUME NEW F, PlInv(F), SendChunk
  PROVE  PlInv(F)' /\ SameCompared
<1>1. /\ pc = "SEND" /\ pc \in InBlock /\ chunk \in 0 .. (NoOfChunks - 1)
      /\ ChunkBuffer = Row(F, ChunkAddress, ChunkLen)
      /\ aes.SecureHdr = <<>> /\ sent = Row(F, 0, Len(sent)) /\ Len(sent) \in Nat
      /\ Len(sent) + Len(aes.SecureHdr) = ChunkAddress
  BY DEF PlInv, SendChunk, HashInv, InBlock, PlTypeOK, Words, SentInv, AesInv, Loading,
         ReadSoFar, IsRow
<1>2. /\ ChunkAddress \in Nat /\ ChunkLen \in Nat
  BY <1>1, ThisChunk DEF PlInv
<1>3. sent' = Row(F, 0, ChunkAddress + ChunkLen)
  <2>1. Len(sent) = ChunkAddress
    BY <1>1
  <2>2. sent' = Row(F, 0, ChunkAddress) \o Row(F, 0 + ChunkAddress, ChunkLen)
    BY <1>1, <1>2, <2>1 DEF SendChunk, WordsToSend
  <2> QED
    BY <1>2, <2>2, JoinRow
<1>4. /\ sent' \in Words /\ Len(sent') = ChunkAddress + ChunkLen
      /\ IsRow(F, sent', 0) /\ IsRow(F, aes'.SecureHdr, Len(sent'))
      /\ Len(sent') + Len(aes'.SecureHdr) = ChunkAddress + ChunkLen
  <2>1. sent' \in Words /\ Len(sent') = ChunkAddress + ChunkLen
    BY <1>2, <1>3, RowLen, ChunkAddress + ChunkLen \in Nat
  <2>2. aes' = aes /\ Row(F, Len(sent'), 0) = <<>> /\ Len(<<>>) = 0
    BY DEF SendChunk, Row
  <2>3. IsRow(F, sent', 0)
    BY <1>3, <2>1 DEF IsRow
  <2>4. IsRow(F, aes'.SecureHdr, Len(sent'))
    BY <1>1, <2>2 DEF IsRow
  <2>5. Len(sent') + Len(aes'.SecureHdr) = ChunkAddress + ChunkLen
    <3>1. Len(aes'.SecureHdr) = 0
      BY <1>1, <2>2
    <3> QED
      BY <1>2, <2>1, <3>1
  <2> QED
    BY <2>1, <2>3, <2>4, <2>5
<1>5. UNCHANGED decryptUnchanged /\ rest' \in Words /\ aes' \in AesStates /\ NextChunk
  BY DEF SendChunk, decryptUnchanged, envVars, PlInv, PlTypeOK
<1>6. /\ PlTypeOK' /\ BlockInv' /\ HashInv(F)' /\ SentInv(F)'
      /\ pc' \in {"BLOCK", "REAUTH", "DONE"} /\ SameCompared
  BY <1>1, <1>4, <1>5, NextChunkInv
<1>7. AesInv'
  BY <1>1, <1>6 DEF SendChunk, AesInv, IsEncrypted, envVars
<1> QED
  BY <1>6, <1>7 DEF PlInv

-----------------------------------------------------------------------------
(***************************************************************************)
(* Nothing that was sent is taken back, and no more is sent than was       *)
(* compared.                                                               *)
(***************************************************************************)
SentGrows == Len(sent') >= Len(sent) /\ Len(sent') <= Compared

\* A header was sent after what came before it.
HeaderSent(F) == sent' = Row(F, 0, Len(sent) + HdrSize)

\* The tag of an accepted header covers all that came before it.
TagCovers(F) ==
  \A i \in F \cap Nat : aes'.block = aes.block \/ i >= HeaderEnd(aes'.block - 1)

(***************************************************************************)
(* A header that follows what was sent and lies in the chunk, and what the *)
(* loop does after it.                                                     *)
(***************************************************************************)
LEMMA DecryptInv ==
  ASSUME NEW F, PlInv(F), pc \in {"SEND", "DECRYPT"}, IsEncrypted, UNCHANGED decryptUnchanged,
         aes.block \in 0 .. (Len(bitstream.ends) - 1),
         NEW hdr, hdr = Row(F, Len(sent), HdrSize),
         NEW n \in Nat, Len(sent) + HdrSize + n = ChunkAddress + ChunkLen,
         NEW after, after = Row(F, Len(sent) + HdrSize, n),
         NEW more \in BOOLEAN,
         more => BlockLenIn(aes.block) # 0,
         ~more => n = 0 \/ BlockLenIn(aes.block) = 0,
         Decrypt(hdr, after, more)
  PROVE  /\ PlInv(F)' /\ SentGrows /\ HeaderSent(F)
         /\ SameCompared /\ TagCovers(F)
<1> DEFINE k == aes.block
<1>1. /\ pc \in InBlock /\ chunk \in 0 .. (NoOfChunks - 1)
      /\ bitstream \in Bitstreams /\ sent = Row(F, 0, Len(sent)) /\ Len(sent) \in Nat
  BY DEF PlInv, InBlock, HashInv, PlTypeOK, SentInv, IsRow, Words
<1>2. /\ ChunkAddress \in Nat /\ ChunkLen \in Nat /\ bitstream.len \in Nat
      /\ ChunkAddress + ChunkLen <= bitstream.len
  BY <1>1, ThisChunk DEF PlInv
<1>3. /\ HdrSize \in Nat \ {0} /\ Len(bitstream.ends) \in Nat
      /\ HeaderEnd(k) \in Nat /\ BlockLenIn(k) \in Nat
      /\ k + 1 < Len(bitstream.ends) => BlockLenIn(k) # 0
      /\ k + 1 = Len(bitstream.ends) => BlockLenIn(k) = 0 /\ HeaderEnd(k) = bitstream.len
  BY <1>1, Layout
<1>4. /\ sent' = Row(F, 0, Len(sent) + HdrSize)
      /\ sent' \in Words /\ Len(sent') = Len(sent) + HdrSize
  <2>1. sent' = Row(F, 0, Len(sent)) \o Row(F, 0 + Len(sent), HdrSize)
    BY <1>1 DEF Decrypt
  <2>2. sent' = Row(F, 0, Len(sent) + HdrSize)
    <3>1. Len(sent) \in Nat /\ HdrSize \in Nat /\ 0 \in Nat
      BY <1>1, <1>3
    <3>2. Row(F, 0, Len(sent)) \o Row(F, 0 + Len(sent), HdrSize)
            = Row(F, 0, Len(sent) + HdrSize)
      BY ONLY <3>1, JoinRow
    <3> QED
      BY ONLY <2>1, <3>2
  <2>3. Len(sent) + HdrSize \in Nat
    BY <1>1, <1>3
  <2> QED
    BY <2>2, <2>3, RowLen
<1>5. IsRow(F, sent', 0)
  BY <1>4 DEF IsRow
<1>6. after \in Words /\ Len(after) = n
  BY <1>1, <1>3, RowLen, Len(sent) + HdrSize \in Nat
<1>7. SentGrows
  <2>1. Compared = ChunkAddress + ChunkLen
    BY DEF Compared, ReadSoFar
  <2> QED
    BY <1>1, <1>2, <1>3, <1>4, <2>1 DEF SentGrows
<1>8. ASSUME GcmTagOK(sent \o hdr) PROVE PlInv(F)' /\ SameCompared /\ TagCovers(F)
  <2>1. Len(sent') = HeaderEnd(k)
    <3>1. sent' = SignedWords(0, HeaderEnd(k))
      BY <1>8 DEF GcmTagOK, Decrypt
    <3> QED
      BY <1>3, <3>1, SignedLen0
  <2>2. /\ aes'.SizeofData = BlockLenIn(k) /\ aes'.NextBlkLen = BlockLenIn(k)
        /\ aes'.SecureHdr = <<>> /\ aes'.block = k + 1
        /\ aes' \in AesStates
    <3>1. aes' = [SizeofData |-> BlockLenIn(k), NextBlkLen |-> BlockLenIn(k),
                  SecureHdr |-> <<>>, KeySel |-> "KUP", block |-> k + 1]
      BY <1>8 DEF Decrypt, OpenBlock
    <3>2. <<>> \in Words /\ k + 1 \in Nat
      BY DEF Words
    <3> HIDE DEF k
    <3> QED
      BY <1>3, <3>1, <3>2 DEF AesStates
  <2>3. IsEncrypted' /\ bitstream' = bitstream
    BY DEF decryptUnchanged, envVars, IsEncrypted
  <2>4. /\ aes'.block \in 1 .. Len(bitstream.ends)
        /\ aes'.NextBlkLen = BlockLenIn(aes'.block - 1)
        /\ aes'.SizeofData \in 0 .. aes'.NextBlkLen
        /\ Len(sent') = HeaderEnd(aes'.block - 1) + aes'.NextBlkLen - aes'.SizeofData
    <3>1. k + 1 \in 1 .. Len(bitstream.ends) /\ (k + 1) - 1 = k
      BY <1>3
    <3> HIDE DEF k
    <3> QED
      BY <1>3, <2>1, <2>2, <3>1
  <2>5. /\ Len(aes'.SecureHdr) = 0 /\ Len(aes'.SecureHdr) < HdrSize
        /\ IsRow(F, aes'.SecureHdr, Len(sent'))
    <3>1. Row(F, Len(sent'), 0) = <<>> /\ Len(<<>>) = 0
      BY DEF Row
    <3> QED
      BY <1>3, <2>2, <3>1 DEF IsRow
  <2>6. rest' = after
    BY <1>8 DEF Decrypt
  <2>9. TagCovers(F)
    <3> SUFFICES ASSUME NEW i \in F \cap Nat, ~(i >= HeaderEnd(k)) PROVE FALSE
      <4>1. (k + 1) - 1 = k
        BY <1>3
      <4> HIDE DEF k
      <4> QED
        BY <2>2, <4>1 DEF TagCovers
    <3>1. sent' = SignedWords(0, HeaderEnd(k)) /\ sent' = Row(F, 0, HeaderEnd(k))
      <4>1. sent' = SignedWords(0, HeaderEnd(k))
        BY <1>8 DEF GcmTagOK, Decrypt
      <4> QED
        BY <1>4, <2>1, <4>1
    <3>2. i \in Nat /\ 0 <= i /\ i < 0 + HeaderEnd(k) /\ i + 1 \in 1 .. HeaderEnd(k)
      <4> HIDE DEF k, HeaderEnd
      <4> QED
        BY <1>3
    <3> HIDE DEF k, HeaderEnd
    <3>3. sent'[i + 1].signed = TRUE
      BY <3>1, <3>2 DEF SignedWords
    <3>4. sent'[i + 1].signed = (i \notin F)
      <4>1. 0 + (i + 1) - 1 = i
        BY <3>2
      <4>2. Row(F, 0, HeaderEnd(k))[i + 1]
              = [at |-> 0 + (i + 1) - 1, signed |-> 0 + (i + 1) - 1 \notin F]
        BY <3>2 DEF Row
      <4>3. Row(F, 0, HeaderEnd(k))[i + 1].signed = (0 + (i + 1) - 1 \notin F)
        BY <4>2
      <4> QED
        BY <3>1, <4>1, <4>3
    <3> QED
      BY <3>3, <3>4
  <2>7. CASE more
    <3>1. pc' = "DECRYPT" /\ UNCHANGED <<chunk, blk>>
      BY <1>8, <2>7 DEF Decrypt
    <3>2. PlTypeOK'
      BY <1>4, <1>6, <2>2, <2>6, <3>1
         DEF PlInv, PlTypeOK, decryptUnchanged, envVars, Memory, TotalLen, NoOfBlocks
    <3>3. BlockInv'
      BY <1>1, <3>1 DEF PlInv, BlockInv, decryptUnchanged, envVars, InBlock, IsLast, AcOfset,
                        NoOfChunks
    <3>4. HashInv(F)'
      BY <1>1, <3>1 DEF PlInv, HashInv, decryptUnchanged, envVars, NoOfChunks, ChunkEnd
    <3>5. SentInv(F)'
      <4>1. ReadSoFar' = ChunkAddress + ChunkLen
        BY <3>1 DEF ReadSoFar, ChunkAddress, ChunkLen, NoOfChunks
      <4>2. rest' = Row(F, Len(sent'), Len(rest')) /\ Len(sent') + Len(rest') = ReadSoFar'
        BY <1>4, <1>6, <2>6, <4>1
      <4> QED
        BY <1>5, <2>2, <2>3, <2>5, <3>1, <4>2 DEF SentInv, IsRow, Loading
    <3>6. AesInv'
      <4>1. aes'.block \in 1 .. (Len(bitstream.ends) - 1) /\ aes'.SizeofData # 0
        <5> HIDE DEF k
        <5>1. BlockLenIn(k) # 0 /\ k + 1 # Len(bitstream.ends)
          BY <1>3, <2>7 DEF k
        <5> QED
          BY <1>3, <2>2, <2>4, <5>1
      <4> QED
        BY <2>2, <2>3, <2>4, <2>5, <3>1, <4>1 DEF AesInv, BlockLenIn, HeaderEnd
    <3>7. SameCompared
      BY <3>1 DEF SameCompared, Compared, ReadSoFar, ChunkAddress, ChunkLen, NoOfChunks
    <3> QED
      BY <2>9, <3>2, <3>3, <3>4, <3>5, <3>6, <3>7 DEF PlInv
  <2>8. CASE ~more
    <3>1. NextChunk
      BY <1>8, <2>8 DEF Decrypt
    <3>2. n = 0
      <4>1. CASE BlockLenIn(k) = 0
        <5>1. HeaderEnd(k) = bitstream.len
          <6> HIDE DEF k
          <6>1. k + 1 \in 1 .. Len(bitstream.ends)
            BY <1>3 DEF k
          <6> QED
            BY <1>3, <4>1, <6>1
        <5> QED
          BY <1>1, <1>2, <1>3, <1>4, <2>1, <5>1
      <4> QED
        BY <2>8, <4>1
    <3>3. Len(sent') + Len(aes'.SecureHdr) = ChunkAddress + ChunkLen
      BY <1>1, <1>2, <1>3, <1>4, <2>5, <3>2
    <3>4. /\ PlTypeOK' /\ BlockInv' /\ HashInv(F)' /\ SentInv(F)'
          /\ pc' \in {"BLOCK", "REAUTH", "DONE"} /\ SameCompared
      BY <1>4, <1>5, <1>6, <2>2, <2>5, <2>6, <3>1, <3>3, NextChunkInv
    <3>5. AesInv'
      BY <2>2, <2>3, <2>4, <2>5, <3>4 DEF AesInv, BlockLenIn, HeaderEnd
    <3> QED
      BY <2>9, <3>4, <3>5 DEF PlInv
  <2> QED
    BY <2>7, <2>8
<1>9. ASSUME ~GcmTagOK(sent \o hdr) PROVE PlInv(F)' /\ SameCompared /\ TagCovers(F)
  <2>1. pc' = "FAIL" /\ UNCHANGED <<aes, rest, chunk, blk>>
    BY <1>9 DEF Decrypt
  <2>2. PlTypeOK'
    BY <1>4, <2>1
       DEF PlInv, PlTypeOK, decryptUnchanged, envVars, Memory, TotalLen, NoOfBlocks
  <2>3. BlockInv'
    BY <2>1 DEF PlInv, BlockInv, decryptUnchanged, envVars, InBlock
  <2> QED
    BY <1>5, <2>1, <2>2, <2>3 DEF PlInv, HashInv, SentInv, AesInv, Loading, SameCompared, TagCovers
<1> QED
  BY <1>4, <1>7, <1>8, <1>9 DEF HeaderSent

(***************************************************************************)
(* Where the engine stands when a chunk begins: words are left, so the     *)
(* last header is still to come; before the first one nothing was sent.    *)
(***************************************************************************)
LEMMA ChunkBegins ==
  ASSUME NEW F, PlInv(F), pc = "SEND", IsEncrypted
  PROVE  /\ pc \in InBlock /\ chunk \in 0 .. (NoOfChunks - 1) /\ bitstream \in Bitstreams
         /\ sent = Row(F, 0, Len(sent)) /\ Len(sent) \in Nat
         /\ aes.SecureHdr = Row(F, Len(sent), Len(aes.SecureHdr))
         /\ Len(aes.SecureHdr) \in Nat /\ Len(aes.SecureHdr) < HdrSize
         /\ Len(sent) + Len(aes.SecureHdr) = ChunkAddress
         /\ ChunkBuffer = Row(F, ChunkAddress, ChunkLen)
         /\ ChunkAddress \in Nat /\ ChunkLen \in Nat \ {0} /\ HdrSize \in Nat \ {0}
         /\ ChunkLen >= HdrSize \/ ChunkAddress + ChunkLen = bitstream.len
         /\ bitstream.len \in Nat /\ HdrSize <= bitstream.len
         /\ aes.block \in 0 .. (Len(bitstream.ends) - 1)
         /\ aes.SizeofData \in Nat /\ aes.NextBlkLen \in Nat
         /\ aes.SizeofData <= aes.NextBlkLen
         /\ aes.block = 0 <=> aes.NextBlkLen = 0
         /\ aes.block = 0 => Len(sent) = 0 /\ Len(aes.SecureHdr) = 0
         /\ aes.block # 0 /\ aes.SizeofData = 0 => Len(sent) + HdrSize <= bitstream.len
         /\ aes.SecureHdr # <<>> => aes.SizeofData = 0
<1>1. /\ pc \in InBlock /\ chunk \in 0 .. (NoOfChunks - 1) /\ bitstream \in Bitstreams
      /\ ChunkBuffer = Row(F, ChunkAddress, ChunkLen)
  BY DEF PlInv, InBlock, HashInv, PlTypeOK
<1>2. /\ ChunkAddress \in Nat /\ ChunkLen \in Nat \ {0}
      /\ ChunkAddress + ChunkLen <= bitstream.len
      /\ ChunkLen >= HdrSize \/ ChunkAddress + ChunkLen = bitstream.len
  BY <1>1, ThisChunk DEF PlInv
<1>3. /\ sent = Row(F, 0, Len(sent)) /\ Len(sent) \in Nat
      /\ aes.SecureHdr = Row(F, Len(sent), Len(aes.SecureHdr))
      /\ Len(aes.SecureHdr) \in Nat
      /\ Len(sent) + Len(aes.SecureHdr) = ChunkAddress
  BY DEF PlInv, PlTypeOK, AesStates, Words, SentInv, IsRow, Loading, ReadSoFar
<1>4. /\ aes.block \in 0 .. Len(bitstream.ends)
      /\ aes.NextBlkLen = (IF aes.block = 0 THEN 0 ELSE BlockLenIn(aes.block - 1))
      /\ aes.SizeofData \in 0 .. aes.NextBlkLen
      /\ Len(sent) = (IF aes.block = 0 THEN 0
                      ELSE HeaderEnd(aes.block - 1) + aes.NextBlkLen - aes.SizeofData)
      /\ Len(aes.SecureHdr) < HdrSize
      /\ aes.SecureHdr # <<>> => aes.SizeofData = 0 /\ aes.block # 0
  BY DEF PlInv, AesInv, Loading
<1>5. Len(bitstream.ends) \in Nat /\ Len(bitstream.ends) >= 2
  BY PlSizes DEF IsEncrypted, LaidOut, PlInv, PlTypeOK
<1>6. CASE aes.block = 0
  <2>1. HdrSize \in Nat \ {0} /\ bitstream.len \in Nat /\ HdrSize <= bitstream.len
    BY <1>1, <1>5, Layout, 0 \in 0 .. (Len(bitstream.ends) - 1)
  <2>2. aes.SecureHdr = <<>> /\ Len(aes.SecureHdr) = 0
    BY <1>4, <1>6
  <2> QED
    BY <1>1, <1>2, <1>3, <1>4, <1>5, <1>6, <2>1, <2>2
<1>7. CASE aes.block # 0
  <2> DEFINE k == aes.block - 1
  <2>1. k \in 0 .. (Len(bitstream.ends) - 1) /\ aes.block = k + 1
    BY <1>4, <1>5, <1>7
  <2> HIDE DEF k
  <2>2. /\ bitstream.len \in Nat /\ HdrSize \in Nat \ {0} /\ HdrSize <= bitstream.len
        /\ HeaderEnd(k) \in Nat /\ BlockLenIn(k) \in Nat
        /\ k + 1 < Len(bitstream.ends) =>
             /\ BlockLenIn(k) # 0
             /\ HeaderEnd(k) + BlockLenIn(k) + HdrSize <= bitstream.len
        /\ k + 1 = Len(bitstream.ends) =>
             BlockLenIn(k) = 0 /\ HeaderEnd(k) = bitstream.len
    BY <1>1, <2>1, Layout
  <2>3. /\ aes.NextBlkLen = BlockLenIn(k) /\ aes.SizeofData \in 0 .. BlockLenIn(k)
        /\ Len(sent) = HeaderEnd(k) + BlockLenIn(k) - aes.SizeofData
    BY <1>4, <1>7 DEF k
  <2>4. k + 1 < Len(bitstream.ends)
    <3> SUFFICES ASSUME k + 1 = Len(bitstream.ends) PROVE FALSE
      BY <1>5, <2>1
    <3>1. Len(sent) = bitstream.len
      BY <2>2, <2>3
    <3> QED
      BY ONLY <1>2, <1>3, <2>2, <3>1
  <2>5. aes.SizeofData = 0 => Len(sent) + HdrSize <= bitstream.len
    BY <2>2, <2>3, <2>4
  <2>6. aes.block \in 0 .. (Len(bitstream.ends) - 1)
    BY <1>5, <2>1, <2>4
  <2>7. aes.NextBlkLen \in Nat \ {0} /\ aes.SizeofData \in Nat /\ aes.SizeofData <= aes.NextBlkLen
    BY <2>2, <2>3, <2>4
  <2> QED
    BY <1>1, <1>2, <1>3, <1>4, <1>7, <2>2, <2>5, <2>6, <2>7
<1> QED
  BY <1>6, <1>7

\* The first chunk begins with the secure header.
LEMMA FirstChunkInv ==
  ASSUME NEW F, PlInv(F), FirstChunk
  PROVE  /\ PlInv(F)' /\ SentGrows /\ HeaderSent(F)
         /\ SameCompared /\ TagCovers(F)
<1>1. pc = "SEND" /\ IsEncrypted /\ aes.NextBlkLen = 0 /\ UNCHANGED decryptUnchanged
  BY DEF FirstChunk
<1>2. /\ bitstream \in Bitstreams /\ Len(sent) = 0 /\ aes.block = 0
      /\ ChunkAddress = 0 /\ ChunkBuffer = Row(F, 0, ChunkLen)
      /\ ChunkLen \in Nat \ {0} /\ HdrSize \in Nat \ {0}
      /\ ChunkLen >= HdrSize /\ aes.block \in 0 .. (Len(bitstream.ends) - 1)
  BY <1>1, ChunkBegins
<1>3. SubSeq(ChunkBuffer, 1, HdrSize) = Row(F, 0, HdrSize)
  BY <1>2, FrontRow, HdrSize \in 0 .. ChunkLen
<1>4. From(ChunkBuffer, HdrSize) = Row(F, HdrSize, ChunkLen - HdrSize)
  <2>1. From(ChunkBuffer, HdrSize) = Row(F, 0 + HdrSize, ChunkLen - HdrSize)
    BY <1>2, RestRow, HdrSize \in 0 .. ChunkLen
  <2> QED
    BY <1>2, <2>1
<1>5. BlockLenIn(aes.block) # 0
  <2>1. Len(bitstream.ends) >= 2 /\ Len(bitstream.ends) \in Nat
    BY <1>1, <1>2, Layout
  <2> QED
    BY <1>1, <1>2, <2>1, Layout
<1> DEFINE hdr == SubSeq(ChunkBuffer, 1, HdrSize)
           after == From(ChunkBuffer, HdrSize)
           n == ChunkLen - HdrSize
<1>6. /\ hdr = Row(F, Len(sent), HdrSize) /\ after = Row(F, Len(sent) + HdrSize, n)
      /\ n \in Nat /\ Len(sent) + HdrSize + n = ChunkAddress + ChunkLen
  BY <1>2, <1>3, <1>4
<1>7. Decrypt(hdr, after, TRUE)
  BY DEF FirstChunk
<1> HIDE DEF hdr, after, n
<1> QED
  BY <1>1, <1>2, <1>5, <1>6, <1>7, DecryptInv

\* The header that was cut is put together.
LEMMA SplitHeaderInv ==
  ASSUME NEW F, PlInv(F), SplitHeader
  PROVE  /\ PlInv(F)' /\ SentGrows /\ HeaderSent(F)
         /\ SameCompared /\ TagCovers(F)
<1> DEFINE h == Len(aes.SecureHdr)
           m == HdrSize - h
           n == ChunkLen - m
           hdr == HeaderFromBoth
           after == From(ChunkBuffer, Len(HeaderInThisChunk))
<1>1. /\ pc = "SEND" /\ IsEncrypted /\ UNCHANGED decryptUnchanged
      /\ aes.NextBlkLen # 0 /\ aes.SecureHdr # <<>>
      /\ Decrypt(hdr, after, MoreToDecrypt(after))
  BY DEF SplitHeader
<1>2. /\ bitstream \in Bitstreams /\ Len(sent) \in Nat /\ bitstream.len \in Nat
      /\ aes.SecureHdr = Row(F, Len(sent), h)
      /\ h \in Nat /\ h < HdrSize /\ Len(sent) + h = ChunkAddress
      /\ ChunkBuffer = Row(F, ChunkAddress, ChunkLen)
      /\ ChunkAddress \in Nat /\ ChunkLen \in Nat \ {0} /\ HdrSize \in Nat \ {0}
      /\ ChunkLen >= HdrSize \/ ChunkAddress + ChunkLen = bitstream.len
      /\ aes.block \in 0 .. (Len(bitstream.ends) - 1)
      /\ Len(sent) + HdrSize <= bitstream.len
  BY <1>1, ChunkBegins
<1>3. /\ m \in Nat /\ n \in Nat /\ h + m = HdrSize /\ m \in 0 .. ChunkLen
      /\ ChunkAddress + m = Len(sent) + HdrSize
      /\ Len(sent) + HdrSize + n = ChunkAddress + ChunkLen
      /\ Len(sent) + HdrSize \in Nat
  <2> HIDE DEF h
  <2> QED
    BY ONLY <1>2
<1>4. HeaderInThisChunk = Row(F, ChunkAddress, m) /\ Len(HeaderInThisChunk) = m
  <2>1. HeaderInThisChunk = SubSeq(ChunkBuffer, 1, m)
    BY DEF HeaderInThisChunk
  <2> HIDE DEF m
  <2>3. HeaderInThisChunk = Row(F, ChunkAddress, m)
    <3>1. ChunkAddress \in Nat /\ ChunkLen \in Nat /\ m \in 0 .. ChunkLen
      BY <1>2, <1>3
    <3>2. SubSeq(Row(F, ChunkAddress, ChunkLen), 1, m) = Row(F, ChunkAddress, m)
      BY ONLY <3>1, FrontRow
    <3> QED
      BY <1>2, <2>1, <3>2
  <2> QED
    BY <1>2, <1>3, <2>3, RowLen
<1>5. after = Row(F, Len(sent) + HdrSize, n) /\ Len(after) = n
  <2>1. after = From(ChunkBuffer, m)
    BY <1>4
  <2> HIDE DEF after, m
  <2>2. after = Row(F, ChunkAddress + m, ChunkLen - m)
    <3>1. ChunkAddress \in Nat /\ ChunkLen \in Nat /\ m \in 0 .. ChunkLen
      BY <1>2, <1>3
    <3>2. From(Row(F, ChunkAddress, ChunkLen), m) = Row(F, ChunkAddress + m, ChunkLen - m)
      BY ONLY <3>1, RestRow
    <3> QED
      BY <1>2, <2>1, <3>2
  <2> QED
    BY <1>3, <2>2, RowLen
<1>6. hdr = Row(F, Len(sent), HdrSize)
  <2>1. hdr = Row(F, Len(sent), h) \o Row(F, Len(sent) + h, m)
    BY <1>2, <1>4 DEF HeaderFromBoth
  <2> HIDE DEF h, m, hdr
  <2>2. Len(sent) \in Nat /\ h \in Nat /\ m \in Nat
    BY <1>2, <1>3
  <2>3. Row(F, Len(sent), h) \o Row(F, Len(sent) + h, m) = Row(F, Len(sent), h + m)
    BY ONLY <2>2, JoinRow
  <2> QED
    BY <1>3, <2>1, <2>3
<1>7. /\ MoreToDecrypt(after) \in BOOLEAN
      /\ MoreToDecrypt(after) => BlockLenIn(aes.block) # 0
      /\ ~MoreToDecrypt(after) => n = 0 \/ BlockLenIn(aes.block) = 0
  <2>1. after = <<>> => n = 0
    BY <1>5
  <2> HIDE DEF after, n
  <2> QED
    BY <2>1 DEF MoreToDecrypt
<1> HIDE DEF h, m, n, hdr, after
<1> QED
  BY <1>1, <1>2, <1>3, <1>5, <1>6, <1>7, DecryptInv

\* A chunk that begins with data or with a header.
LEMMA OtherChunkInv ==
  ASSUME NEW F, PlInv(F), OtherChunk
  PROVE  PlInv(F)' /\ SameCompared
<1>1. /\ pc = "SEND" /\ IsEncrypted /\ UNCHANGED <<decryptUnchanged, blk, chunk, aes, sent>>
      /\ aes.NextBlkLen # 0 /\ aes.SecureHdr = <<>>
      /\ rest' = ChunkBuffer /\ pc' = "DECRYPT"
  BY DEF OtherChunk
<1>2. /\ bitstream \in Bitstreams /\ Len(sent) \in Nat /\ bitstream.len \in Nat
      /\ Len(aes.SecureHdr) = 0 /\ Len(sent) + Len(aes.SecureHdr) = ChunkAddress
      /\ ChunkBuffer = Row(F, ChunkAddress, ChunkLen)
      /\ ChunkAddress \in Nat /\ ChunkLen \in Nat \ {0} /\ HdrSize \in Nat \ {0}
      /\ ChunkLen >= HdrSize \/ ChunkAddress + ChunkLen = bitstream.len
      /\ aes.block \in 0 .. (Len(bitstream.ends) - 1) /\ aes.block # 0
      /\ aes.SizeofData = 0 => Len(sent) + HdrSize <= bitstream.len
      /\ pc \in InBlock
  BY <1>1, ChunkBegins
<1>3. Len(sent) = ChunkAddress /\ Len(rest') = ChunkLen /\ rest' = Row(F, Len(sent), ChunkLen)
  <2>1. Len(ChunkBuffer) = ChunkLen
    BY <1>2, RowLen
  <2>2. Len(sent) = ChunkAddress
    BY ONLY <1>2
  <2> QED
    BY <1>1, <1>2, <2>1, <2>2
<1>4. PlTypeOK'
  BY <1>1 DEF PlInv, PlTypeOK, decryptUnchanged, envVars, Memory, TotalLen, NoOfBlocks
<1>5. BlockInv'
  BY <1>1, <1>2 DEF PlInv, BlockInv, decryptUnchanged, envVars, InBlock, IsLast, AcOfset,
                    NoOfChunks
<1>6. HashInv(F)'
  BY <1>1 DEF PlInv, HashInv, decryptUnchanged, envVars, NoOfChunks, ChunkEnd
<1>7. SentInv(F)'
  <2>1. ReadSoFar' = ChunkAddress + ChunkLen
    BY <1>1 DEF ReadSoFar, ChunkAddress, ChunkLen, NoOfChunks
  <2> QED
    BY <1>1, <1>3, <2>1
       DEF PlInv, SentInv, IsRow, Loading, IsEncrypted, decryptUnchanged, envVars
<1>8. AesInv'
  <2>1. aes.SizeofData = 0 => Len(rest') >= HdrSize
    BY ONLY <1>2, <1>3
  <2>2. aes.block \in 1 .. (Len(bitstream.ends) - 1)
    BY <1>2
  <2> QED
    BY <1>1, <2>1, <2>2 DEF PlInv, AesInv, Loading, IsEncrypted, decryptUnchanged, envVars,
                             BlockLenIn, HeaderEnd
<1>9. SameCompared
  BY <1>1 DEF SameCompared, Compared, ReadSoFar, ChunkAddress, ChunkLen, NoOfChunks,
              decryptUnchanged, envVars
<1> QED
  BY <1>4, <1>5, <1>6, <1>7, <1>8, <1>9 DEF PlInv

(***************************************************************************)
(* Inside a chunk: the words left follow what was sent.                    *)
(***************************************************************************)
LEMMA InsideChunk ==
  ASSUME NEW F, PlInv(F), pc = "DECRYPT"
  PROVE  /\ pc \in InBlock /\ chunk \in 0 .. (NoOfChunks - 1) /\ bitstream \in Bitstreams
         /\ IsEncrypted /\ aes \in AesStates /\ aes.SecureHdr = <<>>
         /\ sent = Row(F, 0, Len(sent)) /\ Len(sent) \in Nat
         /\ rest = Row(F, Len(sent), Len(rest)) /\ Len(rest) \in Nat
         /\ Len(sent) + Len(rest) = ChunkAddress + ChunkLen
         /\ HdrSize \in Nat \ {0} /\ Len(bitstream.ends) \in Nat
         /\ aes.block \in 1 .. (Len(bitstream.ends) - 1) /\ aes.block \in Nat
         /\ aes.NextBlkLen = BlockLenIn(aes.block - 1)
         /\ aes.NextBlkLen \in Nat /\ aes.SizeofData \in 0 .. aes.NextBlkLen
         /\ HeaderEnd(aes.block - 1) \in Nat
         /\ Len(sent) = HeaderEnd(aes.block - 1) + aes.NextBlkLen - aes.SizeofData
         /\ aes.SizeofData = 0 => Len(rest) >= HdrSize
<1>1. /\ pc \in InBlock /\ chunk \in 0 .. (NoOfChunks - 1) /\ bitstream \in Bitstreams
      /\ IsEncrypted /\ aes \in AesStates /\ aes.SecureHdr = <<>>
      /\ sent = Row(F, 0, Len(sent)) /\ Len(sent) \in Nat
      /\ rest = Row(F, Len(sent), Len(rest)) /\ Len(rest) \in Nat
      /\ Len(sent) + Len(rest) = ChunkAddress + ChunkLen
  BY DEF PlInv, InBlock, HashInv, PlTypeOK, Words, SentInv, IsRow, ReadSoFar
<1>2. /\ aes.block \in 1 .. (Len(bitstream.ends) - 1) /\ aes.block \in Nat
      /\ aes.NextBlkLen = BlockLenIn(aes.block - 1) /\ aes.NextBlkLen \in Nat
      /\ aes.SizeofData \in 0 .. aes.NextBlkLen
      /\ Len(sent) = HeaderEnd(aes.block - 1) + aes.NextBlkLen - aes.SizeofData
      /\ aes.SizeofData = 0 => Len(rest) >= HdrSize
  BY <1>1 DEF PlInv, AesInv, Loading, AesStates
<1>3. Len(bitstream.ends) \in Nat
  BY <1>1, PlSizes
<1>4. HeaderEnd(aes.block - 1) \in Nat /\ HdrSize \in Nat \ {0}
  <2>1. aes.block - 1 \in 0 .. (Len(bitstream.ends) - 1)
    BY <1>2, <1>3
  <2> QED
    BY <1>1, <2>1, Layout
<1> QED
  BY <1>1, <1>2, <1>3, <1>4

(***************************************************************************)
(* The data of a chunk, or a part of them, are sent.                       *)
(***************************************************************************)
LEMMA SendData ==
  ASSUME NEW F, PlInv(F), pc = "DECRYPT", NEW n \in 0 .. Len(rest),
         sent' = sent \o SubSeq(rest, 1, n)
  PROVE  /\ sent' \in Words /\ Len(sent') = Len(sent) + n /\ IsRow(F, sent', 0)
         /\ From(rest, n) = Row(F, Len(sent'), Len(rest) - n)
         /\ From(rest, n) \in Words /\ Len(From(rest, n)) = Len(rest) - n
<1>1. /\ sent = Row(F, 0, Len(sent)) /\ Len(sent) \in Nat
      /\ rest = Row(F, Len(sent), Len(rest)) /\ Len(rest) \in Nat
  BY InsideChunk
<1>2. n \in Nat /\ Len(sent) + n \in Nat /\ Len(rest) - n \in Nat
  BY <1>1
<1>3. SubSeq(rest, 1, n) = Row(F, Len(sent), n)
  BY <1>1, FrontRow
<1>4. sent' = Row(F, 0, Len(sent) + n)
  <2>1. 0 + Len(sent) = Len(sent)
    BY <1>1
  <2>2. sent \o SubSeq(rest, 1, n) = Row(F, 0, Len(sent)) \o Row(F, Len(sent), n)
    BY <1>1, <1>3, Zenon
  <2>3. sent' = Row(F, 0, Len(sent)) \o Row(F, 0 + Len(sent), n)
    BY <2>1, <2>2, Zenon
  <2>4. Row(F, 0, Len(sent)) \o Row(F, 0 + Len(sent), n) = Row(F, 0, Len(sent) + n)
    <3>1. Len(sent) \in Nat /\ n \in Nat /\ 0 \in Nat
      BY <1>1, <1>2
    <3> QED
      BY ONLY <3>1, JoinRow
  <2> QED
    BY <2>3, <2>4, Zenon
<1>5. sent' \in Words /\ Len(sent') = Len(sent) + n /\ IsRow(F, sent', 0)
  <2>1. /\ Row(F, 0, Len(sent) + n) \in Words
        /\ Len(Row(F, 0, Len(sent) + n)) = Len(sent) + n
    BY <1>2, RowLen
  <2>2. sent' \in Words /\ Len(sent') = Len(sent) + n
    BY ONLY <1>4, <2>1
  <2> QED
    BY <1>4, <2>2 DEF IsRow
<1>6. From(rest, n) = Row(F, Len(sent) + n, Len(rest) - n)
  BY <1>1, RestRow
<1> QED
  BY <1>2, <1>5, <1>6, RowLen

(***************************************************************************)
(* The position of the engine within a block moves with the data.          *)
(***************************************************************************)
LEMMA SameBlockInv ==
  ASSUME bitstream' = bitstream, IsEncrypted', Len(bitstream.ends) \in Nat,
         aes.block \in 1 .. (Len(bitstream.ends) - 1),
         aes.NextBlkLen = BlockLenIn(aes.block - 1),
         aes'.block = aes.block, aes'.NextBlkLen = aes.NextBlkLen,
         aes'.SizeofData \in 0 .. aes.NextBlkLen,
         Len(sent') = HeaderEnd(aes.block - 1) + aes.NextBlkLen - aes'.SizeofData,
         Len(aes'.SecureHdr) < HdrSize,
         aes'.SecureHdr # <<>> => aes'.SizeofData = 0,
         pc' = "DECRYPT" /\ aes'.SizeofData = 0 => Len(rest') >= HdrSize
  PROVE  AesInv'
<1>1. aes.block # 0 /\ aes.block \in 0 .. Len(bitstream.ends)
  OBVIOUS
<1>2. /\ BlockLenIn(aes.block - 1)' = BlockLenIn(aes.block - 1)
      /\ HeaderEnd(aes.block - 1)' = HeaderEnd(aes.block - 1)
  BY DEF BlockLenIn, HeaderEnd
<1> HIDE DEF BlockLenIn, HeaderEnd
<1> QED
  BY <1>1, <1>2 DEF AesInv

\* Data up to the end of the chunk go to the engine.
LEMMA DataToTheEndInv ==
  ASSUME NEW F, PlInv(F), DataToTheEnd
  PROVE  PlInv(F)' /\ SameCompared
<1>1. /\ pc = "DECRYPT" /\ Len(rest) <= aes.SizeofData /\ UNCHANGED decryptUnchanged
      /\ sent' = sent \o rest /\ rest' = <<>> /\ NextChunk
      /\ aes' = [aes EXCEPT !.SizeofData = @ - Len(rest)]
  BY DEF DataToTheEnd
<1>2. /\ IsEncrypted /\ aes \in AesStates /\ aes.SecureHdr = <<>>
      /\ Len(sent) \in Nat /\ Len(rest) \in Nat
      /\ Len(sent) + Len(rest) = ChunkAddress + ChunkLen
      /\ HdrSize \in Nat \ {0} /\ Len(bitstream.ends) \in Nat
      /\ aes.block \in 1 .. (Len(bitstream.ends) - 1) /\ aes.block \in Nat
      /\ aes.NextBlkLen = BlockLenIn(aes.block - 1)
      /\ aes.NextBlkLen \in Nat /\ aes.SizeofData \in 0 .. aes.NextBlkLen
      /\ HeaderEnd(aes.block - 1) \in Nat
      /\ Len(sent) = HeaderEnd(aes.block - 1) + aes.NextBlkLen - aes.SizeofData
  BY <1>1, InsideChunk
<1>3. sent' \in Words /\ Len(sent') = Len(sent) + Len(rest) /\ IsRow(F, sent', 0)
  <2>1. sent' = sent \o SubSeq(rest, 1, Len(rest))
    BY <1>1, WholeRow DEF PlInv, PlTypeOK
  <2>2. Len(rest) \in 0 .. Len(rest)
    BY <1>2
  <2> QED
    BY <1>1, <2>1, <2>2, SendData
<1>4. /\ aes' \in AesStates /\ aes'.SizeofData = aes.SizeofData - Len(rest)
      /\ aes'.SecureHdr = <<>> /\ aes'.block = aes.block /\ aes'.NextBlkLen = aes.NextBlkLen
  <2>1. aes.SizeofData - Len(rest) \in Nat
    BY <1>1, <1>2
  <2> QED
    BY <1>1, <1>2, <2>1 DEF AesStates
<1>5. /\ Len(aes'.SecureHdr) = 0 /\ IsRow(F, aes'.SecureHdr, Len(sent'))
      /\ rest' \in Words
  <2>1. Row(F, Len(sent'), 0) = <<>> /\ Len(<<>>) = 0 /\ <<>> \in Words
    BY DEF Row, Words
  <2> QED
    BY <1>1, <1>4, <2>1 DEF IsRow
<1>6. Len(sent') + Len(aes'.SecureHdr) = ChunkAddress + ChunkLen
  BY <1>2, <1>3, <1>5
<1>7. /\ PlTypeOK' /\ BlockInv' /\ HashInv(F)' /\ SentInv(F)'
      /\ pc' \in {"BLOCK", "REAUTH", "DONE"} /\ SameCompared
  BY <1>1, <1>3, <1>4, <1>5, <1>6, NextChunkInv
<1>8. AesInv'
  <2>1. aes'.SizeofData \in 0 .. aes.NextBlkLen
    <3>1. /\ aes'.SizeofData = aes.SizeofData - Len(rest) /\ Len(rest) <= aes.SizeofData
          /\ aes.NextBlkLen \in Nat /\ aes.SizeofData \in 0 .. aes.NextBlkLen
          /\ Len(rest) \in Nat
      BY <1>1, <1>2, <1>4
    <3> QED
      BY ONLY <3>1
  <2>2. Len(sent') = HeaderEnd(aes.block - 1) + aes.NextBlkLen - aes'.SizeofData
    <3>1. /\ Len(sent) = HeaderEnd(aes.block - 1) + aes.NextBlkLen - aes.SizeofData
          /\ Len(sent') = Len(sent) + Len(rest) /\ aes'.SizeofData = aes.SizeofData - Len(rest)
          /\ HeaderEnd(aes.block - 1) \in Nat /\ aes.NextBlkLen \in Nat
          /\ aes.SizeofData \in Nat /\ Len(rest) \in Nat
      BY <1>2, <1>3, <1>4
    <3> QED
      BY ONLY <3>1
  <2>3. bitstream' = bitstream /\ IsEncrypted'
    BY <1>1, <1>2 DEF decryptUnchanged, envVars, IsEncrypted
  <2>4. Len(aes'.SecureHdr) < HdrSize /\ pc' # "DECRYPT"
    BY <1>2, <1>5, <1>7
  <2> QED
    BY <1>2, <1>4, <2>1, <2>2, <2>3, <2>4, SameBlockInv
<1> QED
  BY <1>7, <1>8 DEF PlInv

\* The encrypted block ends in this chunk.
LEMMA DataThenHeaderInv ==
  ASSUME NEW F, PlInv(F), DataThenHeader
  PROVE  PlInv(F)' /\ SameCompared
<1> DEFINE n == aes.SizeofData
           after == From(rest, n)
<1>1. /\ pc = "DECRYPT" /\ n # 0 /\ Len(rest) > n /\ UNCHANGED decryptUnchanged
      /\ sent' = sent \o SubSeq(rest, 1, n)
      /\ IF Len(after) < HdrSize
         THEN aes' = KeepHeader(after) /\ rest' = <<>> /\ NextChunk
         ELSE aes' = KeepHeader(<<>>) /\ rest' = after /\ UNCHANGED <<pc, chunk, blk>>
  BY DEF DataThenHeader
<1>2. /\ IsEncrypted /\ aes \in AesStates /\ aes.SecureHdr = <<>> /\ pc \in InBlock
      /\ Len(sent) \in Nat /\ Len(rest) \in Nat
      /\ Len(sent) + Len(rest) = ChunkAddress + ChunkLen
      /\ HdrSize \in Nat \ {0} /\ Len(bitstream.ends) \in Nat
      /\ aes.block \in 1 .. (Len(bitstream.ends) - 1) /\ aes.block \in Nat
      /\ aes.NextBlkLen = BlockLenIn(aes.block - 1)
      /\ aes.NextBlkLen \in Nat /\ n \in 0 .. aes.NextBlkLen
      /\ HeaderEnd(aes.block - 1) \in Nat
      /\ Len(sent) = HeaderEnd(aes.block - 1) + aes.NextBlkLen - n
  BY <1>1, InsideChunk
<1>3. n \in 0 .. Len(rest)
  BY <1>1, <1>2
<1>4. /\ sent' \in Words /\ Len(sent') = Len(sent) + n /\ IsRow(F, sent', 0)
      /\ after = Row(F, Len(sent'), Len(rest) - n)
      /\ after \in Words /\ Len(after) = Len(rest) - n
  BY <1>1, <1>3, SendData
<1>5. Len(sent') = HeaderEnd(aes.block - 1) + aes.NextBlkLen - 0
  BY <1>2, <1>4
<1>6. ASSUME NEW part \in Words, aes' = KeepHeader(part)
      PROVE  /\ aes' \in AesStates /\ aes'.SizeofData = 0 /\ aes'.SecureHdr = part
             /\ aes'.block = aes.block /\ aes'.NextBlkLen = aes.NextBlkLen
  BY <1>2, <1>6 DEF KeepHeader, AesStates
<1>7. bitstream' = bitstream /\ IsEncrypted'
  BY <1>1, <1>2 DEF decryptUnchanged, envVars, IsEncrypted
<1>8. <<>> \in Words /\ Len(<<>>) = 0 /\ Row(F, Len(sent'), 0) = <<>>
  BY DEF Words, Row
<1>9. CASE Len(after) < HdrSize
  <2>1. aes' = KeepHeader(after) /\ rest' = <<>> /\ NextChunk
    BY <1>1, <1>9
  <2>2. /\ aes' \in AesStates /\ aes'.SizeofData = 0 /\ aes'.SecureHdr = after
        /\ aes'.block = aes.block /\ aes'.NextBlkLen = aes.NextBlkLen
    BY <1>4, <1>6, <2>1
  <2>3. IsRow(F, aes'.SecureHdr, Len(sent'))
    BY <1>4, <2>2 DEF IsRow
  <2>4. Len(sent') + Len(aes'.SecureHdr) = ChunkAddress + ChunkLen
    <3> HIDE DEF n, after
    <3>1. Len(sent') = Len(sent) + n /\ Len(aes'.SecureHdr) = Len(rest) - n /\ n \in Nat
      BY <1>2, <1>3, <1>4, <2>2
    <3> QED
      BY <1>2, <3>1
  <2>5. /\ PlTypeOK' /\ BlockInv' /\ HashInv(F)' /\ SentInv(F)'
        /\ pc' \in {"BLOCK", "REAUTH", "DONE"} /\ SameCompared
    BY <1>1, <1>4, <1>8, <2>1, <2>2, <2>3, <2>4, NextChunkInv
  <2>6. AesInv'
    <3>1. 0 \in 0 .. aes.NextBlkLen /\ pc' # "DECRYPT"
      BY <1>2, <2>5
    <3> QED
      BY <1>2, <1>5, <1>7, <1>9, <2>2, <3>1, SameBlockInv
  <2> QED
    BY <2>5, <2>6 DEF PlInv
<1>10. CASE ~(Len(after) < HdrSize)
  <2>1. aes' = KeepHeader(<<>>) /\ rest' = after /\ UNCHANGED <<pc, chunk, blk>>
    BY <1>1, <1>10
  <2>2. /\ aes' \in AesStates /\ aes'.SizeofData = 0 /\ aes'.SecureHdr = <<>>
        /\ aes'.block = aes.block /\ aes'.NextBlkLen = aes.NextBlkLen
    BY <1>6, <1>8, <2>1
  <2>3. PlTypeOK'
    BY <1>1, <1>4, <2>1, <2>2
       DEF PlInv, PlTypeOK, decryptUnchanged, envVars, Memory, TotalLen, NoOfBlocks
  <2>4. BlockInv'
    BY <1>1, <2>1 DEF PlInv, BlockInv, decryptUnchanged, envVars, IsLast, AcOfset, NoOfChunks
  <2>5. HashInv(F)'
    BY <1>1, <2>1 DEF PlInv, HashInv, decryptUnchanged, envVars, NoOfChunks, ChunkEnd
  <2>6. SentInv(F)'
    <3>1. ReadSoFar' = ChunkAddress + ChunkLen
      BY <1>1, <1>7, <2>1 DEF ReadSoFar, ChunkAddress, ChunkLen, NoOfChunks
    <3>2. Len(sent') + Len(rest') = ReadSoFar'
      <4> HIDE DEF n, after
      <4>1. Len(sent') = Len(sent) + n /\ Len(rest') = Len(rest) - n /\ n \in Nat
        BY <1>2, <1>3, <1>4, <2>1
      <4> QED
        BY <1>2, <3>1, <4>1
    <3>3. IsRow(F, rest', Len(sent')) /\ IsRow(F, aes'.SecureHdr, Len(sent'))
      BY <1>4, <1>8, <2>1, <2>2 DEF IsRow
    <3> QED
      BY <1>1, <1>4, <1>7, <2>1, <2>2, <3>2, <3>3 DEF SentInv, Loading
  <2>7. AesInv'
    <3>1. Len(rest') >= HdrSize
      BY <1>2, <1>4, <1>10, <2>1
    <3>2. 0 \in 0 .. aes.NextBlkLen /\ Len(aes'.SecureHdr) < HdrSize
      BY <1>2, <1>8, <2>2
    <3> QED
      BY <1>2, <1>5, <1>7, <2>2, <3>1, <3>2, SameBlockInv
  <2>8. SameCompared
    BY <1>1, <1>7, <2>1
       DEF SameCompared, Compared, ReadSoFar, ChunkAddress, ChunkLen, NoOfChunks
  <2> QED
    BY <2>3, <2>4, <2>5, <2>6, <2>7, <2>8 DEF PlInv
<1> QED
  BY <1>9, <1>10

\* A header that lies in one chunk.
LEMMA WholeHeaderInv ==
  ASSUME NEW F, PlInv(F), WholeHeader
  PROVE  /\ PlInv(F)' /\ SentGrows /\ HeaderSent(F)
         /\ SameCompared /\ TagCovers(F)
<1> DEFINE hdr == SubSeq(rest, 1, HdrSize)
           after == From(rest, HdrSize)
           n == Len(rest) - HdrSize
<1>1. /\ pc = "DECRYPT" /\ aes.SizeofData = 0 /\ UNCHANGED decryptUnchanged
      /\ Decrypt(hdr, after, MoreToDecrypt(after))
  BY DEF WholeHeader
<1>2. /\ IsEncrypted /\ Len(sent) \in Nat /\ Len(rest) \in Nat /\ Len(rest) >= HdrSize
      /\ rest = Row(F, Len(sent), Len(rest)) /\ HdrSize \in Nat \ {0}
      /\ Len(sent) + Len(rest) = ChunkAddress + ChunkLen
      /\ aes.block \in 1 .. (Len(bitstream.ends) - 1) /\ Len(bitstream.ends) \in Nat
  BY <1>1, InsideChunk
<1>3. HdrSize \in 0 .. Len(rest) /\ n \in Nat
  BY <1>2
<1>4. hdr = Row(F, Len(sent), HdrSize)
  <2>1. SubSeq(Row(F, Len(sent), Len(rest)), 1, HdrSize) = Row(F, Len(sent), HdrSize)
    BY ONLY <1>2, <1>3, FrontRow
  <2> QED
    BY <1>2, <2>1
<1>5. after = Row(F, Len(sent) + HdrSize, n) /\ Len(after) = n
  <2>1. after = Row(F, Len(sent) + HdrSize, n)
    BY <1>2, <1>3, RestRow
  <2> HIDE DEF after, n
  <2> QED
    BY <1>2, <1>3, <2>1, RowLen, Len(sent) + HdrSize \in Nat
<1>6. Len(sent) + HdrSize + n = ChunkAddress + ChunkLen
  <2>1. Len(sent) + HdrSize + n = Len(sent) + Len(rest)
    BY <1>2
  <2> QED
    BY <1>2, <2>1
<1>7. /\ MoreToDecrypt(after) \in BOOLEAN
      /\ MoreToDecrypt(after) => BlockLenIn(aes.block) # 0
      /\ ~MoreToDecrypt(after) => n = 0 \/ BlockLenIn(aes.block) = 0
  <2>1. after = <<>> => n = 0
    BY <1>5
  <2> HIDE DEF after, n
  <2> QED
    BY <2>1 DEF MoreToDecrypt
<1>8. aes.block \in 0 .. (Len(bitstream.ends) - 1)
  BY <1>2
<1> HIDE DEF hdr, after, n
<1> QED
  BY <1>1, <1>2, <1>3, <1>4, <1>5, <1>6, <1>7, <1>8, DecryptInv

-----------------------------------------------------------------------------
(***************************************************************************)
(* The steps of the caller, of a failing device and of other masters.      *)
(***************************************************************************)
LEMMA RefuseInv ==
  ASSUME NEW F, PlInv(F), Refuse
  PROVE  PlInv(F)'
<1>1. PlTypeOK'
  BY DEF Refuse, PlInv, PlTypeOK, blockVars, hashVars, engineVars, Memory, TotalLen, NoOfBlocks
<1>2. BlockInv' /\ HashInv(F)' /\ SentInv(F)' /\ AesInv'
  BY DEF Refuse, PlInv, BlockInv, InBlock, HashInv, SentInv, IsRow, Loading, AesInv,
         blockVars, hashVars, engineVars
<1> QED
  BY <1>1, <1>2 DEF PlInv

\* Resetting the PL leaves nothing that was sent.
LEMMA ResetPlInv ==
  ASSUME NEW F, PlInv(F), ResetPl
  PROVE  PlInv(F)'
<1>1. <<>> \in Words /\ Row(F, 0, 0) = <<>> /\ Len(<<>>) = 0
  BY DEF Words, Row
<1>2. PlTypeOK'
  BY <1>1
     DEF ResetPl, PlInv, PlTypeOK, blockVars, hashVars, envVars, Memory, TotalLen, NoOfBlocks
<1>3. BlockInv' /\ HashInv(F)' /\ AesInv'
  BY DEF ResetPl, PlInv, BlockInv, InBlock, HashInv, Loading, AesInv, blockVars, hashVars,
         envVars
<1>4. SentInv(F)'
  BY <1>1 DEF ResetPl, SentInv, IsRow, Loading
<1> QED
  BY <1>2, <1>3, <1>4 DEF PlInv

\* The invariant does not speak of what memory holds.
LEMMA OtherMasterWritesInv ==
  ASSUME NEW F, PlInv(F), NEW i \in Memory, OtherMasterWrites(i)
  PROVE  PlInv(F)'
<1>1. UNCHANGED <<pc, blk, AuthCertBuf, chunk, sha, HashsOfChunks, ChunkBuffer, aes, rest, sent,
                  bitstream, fault>>
  BY DEF OtherMasterWrites, blockVars, hashVars, engineVars
<1>2. PlTypeOK'
  <2>1. changed' \subseteq Memory /\ writes' \in 0 .. MaxWrites
    BY PlSizes DEF OtherMasterWrites, PlInv, PlTypeOK
  <2>2. Memory' = Memory
    BY <1>1 DEF Memory, TotalLen, NoOfBlocks
  <2> QED
    BY <1>1, <2>1, <2>2 DEF PlInv, PlTypeOK
<1>3. BlockInv'
  BY <1>1 DEF PlInv, BlockInv, IsLast, AcOfset, NoOfChunks
<1>4. HashInv(F)'
  BY <1>1 DEF PlInv, HashInv, ChunkEnd, NoOfChunks, ChunkAddress, ChunkLen
<1>5. SentInv(F)'
  BY <1>1 DEF PlInv, SentInv, IsRow, Loading, ReadSoFar, ChunkAddress, ChunkLen, NoOfChunks,
              IsEncrypted
<1>6. AesInv'
  BY <1>1 DEF PlInv, AesInv, Loading, IsEncrypted, BlockLenIn, HeaderEnd
<1> QED
  BY <1>2, <1>3, <1>4, <1>5, <1>6 DEF PlInv

\* A step that changes nothing keeps the invariant.
LEMMA StutterInv ==
  ASSUME NEW F, PlInv(F), UNCHANGED vars
  PROVE  PlInv(F)'
<1>1. UNCHANGED <<pc, blk, AuthCertBuf, chunk, sha, HashsOfChunks, ChunkBuffer, aes, rest, sent,
                  bitstream, changed, writes, fault>>
  BY DEF vars, blockVars, hashVars, engineVars, envVars
<1>2. PlTypeOK' /\ BlockInv'
  BY <1>1 DEF PlInv, PlTypeOK, Memory, TotalLen, NoOfBlocks, BlockInv, IsLast, AcOfset, NoOfChunks
<1>3. HashInv(F)'
  BY <1>1 DEF PlInv, HashInv, ChunkEnd, NoOfChunks, ChunkAddress, ChunkLen
<1>4. SentInv(F)'
  BY <1>1 DEF PlInv, SentInv, IsRow, Loading, ReadSoFar, ChunkAddress, ChunkLen, NoOfChunks,
              IsEncrypted
<1>5. AesInv'
  BY <1>1 DEF PlInv, AesInv, Loading, IsEncrypted, BlockLenIn, HeaderEnd
<1> QED
  BY <1>2, <1>3, <1>4, <1>5 DEF PlInv

-----------------------------------------------------------------------------
(***************************************************************************)
(* No more is sent than there is.                                          *)
(***************************************************************************)
LEMMA SentBounded ==
  ASSUME NEW F, PlInv(F), Loading
  PROVE  /\ Len(sent) \in Nat /\ Compared \in Nat
         /\ Len(sent) <= Compared /\ Compared <= bitstream.len
<1>1. /\ bitstream \in Bitstreams /\ Len(sent) \in Nat /\ Len(aes.SecureHdr) \in Nat
      /\ Len(rest) \in Nat /\ blk.SrcAddress \in Nat /\ blk.SrcAddress <= bitstream.len
      /\ pc # "DECRYPT" => Len(sent) + Len(aes.SecureHdr) = ReadSoFar
      /\ pc = "DECRYPT" => Len(sent) + Len(rest) = ReadSoFar
  <2>1. /\ bitstream \in Bitstreams /\ sent \in Words /\ aes \in AesStates /\ rest \in Words
        /\ blk.SrcAddress \in Nat
    BY DEF PlInv, PlTypeOK
  <2>2. Len(sent) \in Nat /\ Len(aes.SecureHdr) \in Nat /\ Len(rest) \in Nat
    BY <2>1 DEF AesStates, Words
  <2> QED
    BY <2>1, <2>2 DEF PlInv, BlockInv, SentInv
<1>2. bitstream.len \in Nat
  BY <1>1, PlSizes
<1>3. ReadSoFar \in Nat /\ ReadSoFar <= bitstream.len
  <2>1. CASE pc \in {"REAUTH", "SEND", "DECRYPT"}
    <3>1. pc \in InBlock /\ chunk \in 0 .. (NoOfChunks - 1)
      BY <2>1 DEF PlInv, HashInv, InBlock
    <3>2. /\ ChunkAddress \in Nat /\ ChunkLen \in 1 .. ChunkSize /\ ChunkSize \in Nat
          /\ ChunkAddress + ChunkLen <= bitstream.len
      BY <3>1, ThisChunk DEF PlInv
    <3>3. ReadSoFar \in {ChunkAddress, ChunkAddress + ChunkLen}
      BY <2>1 DEF ReadSoFar
    <3> QED
      BY <1>2, <3>2, <3>3
  <2>2. CASE pc \notin {"REAUTH", "SEND", "DECRYPT"}
    <3>1. ReadSoFar \in {bitstream.len, blk.SrcAddress}
      BY <2>2 DEF ReadSoFar
    <3> QED
      BY <1>1, <1>2, <3>1
  <2> QED
    BY <2>1, <2>2
<1>4. Len(sent) <= ReadSoFar
  BY <1>1, <1>3
<1>5. CASE pc = "SEND"
  <2>1. pc \in InBlock /\ chunk \in 0 .. (NoOfChunks - 1)
    BY <1>5 DEF PlInv, HashInv, InBlock
  <2>2. /\ ChunkAddress \in Nat /\ ChunkLen \in 1 .. ChunkSize /\ ChunkSize \in Nat
        /\ ChunkAddress + ChunkLen <= bitstream.len
    BY <2>1, ThisChunk DEF PlInv
  <2>3. ReadSoFar = ChunkAddress /\ Compared = ChunkAddress + ChunkLen
    BY <1>5 DEF ReadSoFar, Compared
  <2> QED
    BY <1>1, <1>4, <2>2, <2>3
<1>6. CASE pc # "SEND"
  BY <1>1, <1>3, <1>4, <1>6 DEF Compared
<1> QED
  BY <1>5, <1>6

LEMMA SentIsBounded == \A H : PlInv(H) /\ Loading => Len(sent) <= Compared
BY SentBounded

(***************************************************************************)
(* What the second reading found stays where it is: in what was compared,  *)
(* outside the SHA3 blocks compared to their end, behind the last tag.     *)
(***************************************************************************)
LEMMA GuardKept ==
  ASSUME NEW F, PlInv(F), GuardInv(F), bitstream' = bitstream,
         writes' = 0 => writes = 0 /\ changed' = changed,
         Len(sent') \in Nat,
         Len(sent') <= Len(sent) \/ (Loading /\ Len(sent') <= Compared),
         Loading' => Loading /\ Compared' = Compared /\ TagCovers(F)
  PROVE  GuardInv(F)'
<1>1. /\ F \subseteq Nat /\ NoneCovered(F, Len(sent)) /\ Len(sent) \in Nat
      /\ Loading => /\ NoneCovered(F, Compared) /\ \A i \in F : i < Compared
                    /\ Compared \in Nat
      /\ Loading /\ IsEncrypted /\ aes.block # 0 => \A i \in F : i >= HeaderEnd(aes.block - 1)
      /\ writes = 0 => changed = {} /\ F = {}
  <2>1. Loading => Compared \in Nat
    BY SentBounded
  <2> QED
    BY <2>1 DEF GuardInv, PlInv, PlTypeOK, Words
<1>2. \A i \in F : CoveredAt(i) \in Int
  BY <1>1, CoveredIsInt DEF PlInv
<1>3. NoneCovered(F, Len(sent'))
  <2>1. CASE Len(sent') <= Len(sent)
    BY <1>1, <1>2, <2>1 DEF NoneCovered
  <2>2. CASE Loading /\ Len(sent') <= Compared
    BY <1>1, <1>2, <2>2 DEF NoneCovered
  <2> QED
    BY <2>1, <2>2
<1>4. /\ NoneCovered(F, Len(sent))' /\ (Loading' => NoneCovered(F, Compared)')
  BY <1>1, <1>3
     DEF NoneCovered, IsCovered, CoveredAt, ShaBlockEnd, BlockOf, SignedLen, NoOfBlocks
<1>5. IsEncrypted' = IsEncrypted /\ \A k : HeaderEnd(k)' = HeaderEnd(k)
  BY DEF IsEncrypted, HeaderEnd
<1>6. Loading' /\ IsEncrypted' /\ aes'.block # 0
        => \A i \in F : i >= HeaderEnd(aes'.block - 1)
  BY <1>1, <1>5 DEF TagCovers
<1>7. HeaderEnd(aes.block - 1)' = HeaderEnd(aes'.block - 1)
  BY DEF HeaderEnd
<1> HIDE DEF HeaderEnd, IsEncrypted
<1> QED
  BY <1>1, <1>4, <1>6, <1>7 DEF GuardInv

\* Data that are sent follow what was sent before.
LEMMA DataIsSent ==
  ASSUME NEW F, PlInv(F), SendChunk \/ DataToTheEnd \/ DataThenHeader
  PROVE  Len(sent') >= Len(sent) /\ pc' \notin {"FAIL", "REFUSED"}
<1>1. pc' \notin {"FAIL", "REFUSED"}
  BY DEF SendChunk, DataToTheEnd, DataThenHeader, NextChunk
<1>2. \E w \in Words : sent' = sent \o w
  <2>1. CASE SendChunk
    BY <2>1 DEF SendChunk, WordsToSend, PlInv, PlTypeOK
  <2>2. CASE DataToTheEnd
    BY <2>2 DEF DataToTheEnd, PlInv, PlTypeOK
  <2>3. CASE DataThenHeader
    <3>1. /\ rest \in Words /\ aes.SizeofData \in Nat /\ Len(rest) > aes.SizeofData
          /\ sent' = sent \o SubSeq(rest, 1, aes.SizeofData)
      BY <2>3 DEF DataThenHeader, PlInv, PlTypeOK, AesStates
    <3>2. SubSeq(rest, 1, aes.SizeofData) \in Words
      <4> DEFINE R == [at : Nat, signed : BOOLEAN]
                 n == aes.SizeofData
      <4>1. rest \in Seq(R) /\ n \in Nat /\ Len(rest) \in Nat /\ n <= Len(rest)
        BY <3>1 DEF Words
      <4> HIDE DEF R, n
      <4>2. 1 \in 1 .. (Len(rest) + 1) /\ n \in (1 - 1) .. Len(rest)
        BY ONLY <4>1
      <4>3. SubSeq(rest, 1, n) \in Seq(R)
        BY ONLY <4>1, <4>2, SubSeqProperties
      <4> QED
        BY <4>3 DEF R, n, Words
    <3> QED
      BY <3>1, <3>2
  <2> QED
    BY <2>1, <2>2, <2>3
<1>3. sent \in Words
  BY DEF PlInv, PlTypeOK
<1> QED
  BY <1>1, <1>2, <1>3 DEF Words

\* Every step but the second reading leaves the row as it is.
LEMMA SameRowStep ==
  ASSUME NEW F, PlInv(F), GuardInv(F), [Next]_vars, ~ReAuthenticate
  PROVE  PlInv(F)' /\ GuardInv(F)' /\ bitstream' = bitstream
<1>1. Len(sent) \in Nat
  BY DEF PlInv, PlTypeOK, Words
<1>2. ASSUME PlInv(F)'
      PROVE  /\ Len(sent') \in Nat
             /\ Loading' => Len(sent') <= Compared'
  <2>1. Len(sent') \in Nat
    BY <1>2 DEF PlInv, PlTypeOK, Words
  <2>2. (\A H : PlInv(H) /\ Loading => Len(sent) <= Compared)'
    BY SentIsBounded, PTL
  <2> QED
    BY <1>2, <2>1, <2>2
<1>3. ASSUME PlInv(F)', UNCHANGED <<aes, sent, envVars>>, pc \notin {"SEND", "DECRYPT"},
             pc' \notin {"SEND", "DECRYPT"}, Loading
      PROVE  GuardInv(F)'
  <2>1. Loading' => Compared' = Compared
    <3>1. Compared = Len(sent) + Len(aes.SecureHdr)
      BY <1>3 DEF PlInv, SentInv, Compared
    <3>2. Loading' => Compared' = Len(sent') + Len(aes'.SecureHdr)
      BY <1>3 DEF PlInv, SentInv, Compared
    <3> QED
      BY <1>3, <3>1, <3>2
  <2>2. TagCovers(F)
    BY <1>3 DEF TagCovers
  <2> QED
    BY <1>1, <1>3, <2>1, <2>2, GuardKept DEF envVars
<1>4. CASE NextBlock
  <2>1. PlInv(F)'
    BY <1>4, NextBlockInv
  <2> QED
    BY <1>3, <1>4, <2>1 DEF NextBlock, engineVars, Loading, envVars
<1>5. CASE SpkVer
  <2>1. PlInv(F)'
    BY <1>5, SpkVerInv
  <2> QED
    BY <1>3, <1>5, <2>1 DEF SpkVer, engineVars, Loading, envVars
<1>6. CASE HashChunk
  <2>1. PlInv(F)'
    BY <1>6, HashChunkInv
  <2> QED
    BY <1>3, <1>6, <2>1 DEF HashChunk, engineVars, Loading, envVars
<1>7. CASE PlSignVer
  <2>1. PlInv(F)'
    BY <1>7, PlSignVerInv
  <2> QED
    BY <1>3, <1>7, <2>1 DEF PlSignVer, engineVars, Loading, envVars
<1>8. CASE SendChunk \/ DataToTheEnd \/ DataThenHeader
  <2>1. PlInv(F)' /\ SameCompared
    BY <1>8, SendChunkInv, DataToTheEndInv, DataThenHeaderInv
  <2>2. Len(sent') >= Len(sent) /\ pc' \notin {"FAIL", "REFUSED"}
    BY <1>8, DataIsSent
  <2>3. UNCHANGED envVars /\ Loading /\ aes \in AesStates
    BY <1>8 DEF SendChunk, DataToTheEnd, DataThenHeader, decryptUnchanged, Loading, PlInv, PlTypeOK
  <2>4. aes'.block = aes.block
    BY <1>8, <2>3 DEF SendChunk, DataToTheEnd, DataThenHeader, KeepHeader, AesStates
  <2> QED
    BY <1>2, <2>1, <2>2, <2>3, <2>4, GuardKept DEF SameCompared, TagCovers, Loading, envVars
<1>9. CASE FirstChunk \/ SplitHeader \/ WholeHeader
  <2>1. PlInv(F)' /\ SentGrows /\ SameCompared /\ TagCovers(F)
    BY <1>9, FirstChunkInv, SplitHeaderInv, WholeHeaderInv
  <2>2. UNCHANGED envVars /\ Loading
    BY <1>9 DEF FirstChunk, SplitHeader, WholeHeader, decryptUnchanged, Loading
  <2> QED
    BY <1>2, <2>1, <2>2, GuardKept DEF SentGrows, SameCompared, Loading, envVars
<1>10. CASE OtherChunk
  <2>1. PlInv(F)' /\ SameCompared
    BY <1>10, OtherChunkInv
  <2>2. UNCHANGED <<aes, sent, envVars>> /\ Loading
    BY <1>10 DEF OtherChunk, decryptUnchanged, Loading
  <2> QED
    BY <1>1, <2>1, <2>2, GuardKept DEF SameCompared, TagCovers, Loading, envVars
<1>11. CASE ResetPl
  <2>1. PlInv(F)'
    BY <1>11, ResetPlInv
  <2>2. UNCHANGED envVars /\ ~Loading' /\ Len(sent') = 0
    BY <1>11 DEF ResetPl, Loading
  <2> QED
    BY <1>1, <2>1, <2>2, GuardKept DEF envVars
<1>12. CASE Refuse
  <2>1. PlInv(F)'
    BY <1>12, RefuseInv
  <2>2. UNCHANGED <<bitstream, changed, writes, sent>> /\ ~Loading'
    BY <1>12 DEF Refuse, engineVars, Loading
  <2> QED
    BY <1>1, <2>1, <2>2, GuardKept
<1>13. CASE \E i \in Memory : OtherMasterWrites(i)
  <2>1. PlInv(F)'
    BY <1>13, OtherMasterWritesInv
  <2>2. /\ UNCHANGED <<bitstream, sent, aes, pc, blk, chunk>>
        /\ writes' = writes + 1 /\ writes \in Nat
    BY <1>13 DEF OtherMasterWrites, blockVars, hashVars, engineVars, PlInv, PlTypeOK
  <2>3. writes' # 0
    BY <2>2
  <2>4. Loading' = Loading /\ Compared' = Compared
    BY <2>2 DEF Loading, Compared, ReadSoFar, ChunkAddress, ChunkLen, NoOfChunks
  <2> QED
    BY <1>1, <2>1, <2>2, <2>3, <2>4, GuardKept DEF TagCovers
<1>14. CASE UNCHANGED vars
  <2>1. PlInv(F)'
    BY <1>14, StutterInv
  <2>2. UNCHANGED <<bitstream, changed, writes, sent, aes, pc, blk, chunk>>
    BY <1>14 DEF vars, blockVars, hashVars, engineVars, envVars
  <2>3. Loading' = Loading /\ Compared' = Compared
    BY <2>2 DEF Loading, Compared, ReadSoFar, ChunkAddress, ChunkLen, NoOfChunks
  <2> QED
    BY <1>1, <2>1, <2>2, <2>3, GuardKept DEF TagCovers
<1> QED
  BY <1>4, <1>5, <1>6, <1>7, <1>8, <1>9, <1>10, <1>11, <1>12, <1>13, <1>14
     DEF Next, LoadStep, DecryptChunk

(***************************************************************************)
(* The invariant holds in every state of a load.                           *)
(***************************************************************************)
LEMMA PlInvariant == Spec => []LoadInv
<1>1. Init => LoadInv
  BY InitInv DEF LoadInv
<1>2. LoadInv /\ [Next]_vars => LoadInv'
  <2> SUFFICES ASSUME NEW F \in SUBSET Nat, PlInv(F), GuardInv(F), [Next]_vars
               PROVE  \E G \in SUBSET Nat : PlInv(G)' /\ GuardInv(G)'
    BY DEF LoadInv
  <2>1. CASE ReAuthenticate
    BY <2>1, ReAuthenticateInv
  <2>2. CASE ~ReAuthenticate
    BY <2>2, SameRowStep
  <2> QED
    BY <2>1, <2>2
<1> QED
  BY <1>1, <1>2, PTL DEF Spec

(***************************************************************************)
(* The variables of XFsbl_SecPlPartition keep their types; HashsOfChunks   *)
(* never grows past HASH_BUFFER_SIZE.                                      *)
(***************************************************************************)
THEOREM PlTypeCorrect == Spec => []PlTypeOK
<1>1. LoadInv => PlTypeOK
  BY DEF LoadInv, PlInv
<1> QED
  BY PlInvariant, <1>1, PTL

\* A word that was sent, by the row it is part of.
LEMMA SentWord ==
  ASSUME NEW F, IsRow(F, sent, 0), Len(sent) \in Nat, NEW i \in 0 .. (Len(sent) - 1)
  PROVE  sent[i + 1].at = i /\ (AsSigned(i) <=> i \notin F)
<1>1. i \in Nat /\ i + 1 \in 1 .. Len(sent) /\ 0 + (i + 1) - 1 = i
  OBVIOUS
<1>2. sent[i + 1] = [at |-> 0 + (i + 1) - 1, signed |-> 0 + (i + 1) - 1 \notin F]
  <2>1. Row(F, 0, Len(sent))[i + 1]
          = [at |-> 0 + (i + 1) - 1, signed |-> 0 + (i + 1) - 1 \notin F]
    BY <1>1 DEF Row
  <2> QED
    BY <2>1 DEF IsRow
<1>3. sent[i + 1] = [at |-> i, signed |-> i \notin F]
  BY <1>1, <1>2
<1>4. CASE i \in F
  <2>1. (i \notin F) = FALSE
    BY <1>4
  <2>2. sent[i + 1] = [at |-> i, signed |-> FALSE]
    BY <1>3, <2>1
  <2> QED
    BY <1>4, <2>2 DEF AsSigned
<1>5. CASE i \notin F
  <2>1. (i \notin F) = TRUE
    BY <1>5
  <2>2. sent[i + 1] = [at |-> i, signed |-> TRUE]
    BY <1>3, <2>1
  <2> QED
    BY <1>5, <2>2 DEF AsSigned
<1> QED
  BY <1>4, <1>5

(***************************************************************************)
(* Every word that went to the PL came from the place it took, and was as  *)
(* signed once the last word of its SHA3 block was sent too: what          *)
(* XFsbl_ReAuthenticationBlock reads again is compared with digests of     *)
(* what XFsbl_PlSignVer found signed, in whole SHA3 blocks, however often  *)
(* memory was written in between.                                          *)
(***************************************************************************)
THEOREM ComparedWordsAreSigned == Spec => []SignedWhenCompared
<1>1. LoadInv => SignedWhenCompared
  <2> SUFFICES ASSUME NEW F, PlInv(F), GuardInv(F), NEW i \in 0 .. (Len(sent) - 1)
               PROVE  /\ sent[i + 1].at = i
                      /\ IsCovered(i) /\ CoveredAt(i) <= Len(sent) => AsSigned(i)
    BY DEF LoadInv, SignedWhenCompared
  <2>1. Len(sent) \in Nat /\ PlTypeOK /\ IsRow(F, sent, 0)
    BY DEF PlInv, PlTypeOK, Words, SentInv
  <2>2. i \in Nat /\ i + 1 \in 1 .. Len(sent) /\ 0 + (i + 1) - 1 = i
    BY <2>1
  <2>3. sent[i + 1].at = i /\ (AsSigned(i) <=> i \notin F)
    BY <2>1, SentWord
  <2>4. IsCovered(i) /\ CoveredAt(i) <= Len(sent) => i \notin F
    <3>1. CoveredAt(i) \in Int
      BY <2>1, <2>2, CoveredIsInt
    <3> QED
      BY <2>1, <3>1 DEF GuardInv, NoneCovered
  <2> QED
    BY <2>3, <2>4
<1> QED
  BY PlInvariant, <1>1, PTL

(***************************************************************************)
(* All data were sent when the load is done, no part of a header is left.  *)
(***************************************************************************)
LEMMA AllIsSent ==
  ASSUME NEW F, PlInv(F), pc = "DONE"
  PROVE  /\ Len(sent) = bitstream.len /\ aes.SecureHdr = <<>>
         /\ DecryptedToTheEnd
<1>1. /\ bitstream \in Bitstreams /\ aes.SecureHdr \in Words /\ sent \in Words
      /\ Len(sent) + Len(aes.SecureHdr) = bitstream.len
      /\ IsRow(F, aes.SecureHdr, Len(sent))
  BY DEF PlInv, PlTypeOK, AesStates, SentInv, Loading, ReadSoFar
<1>2. Len(sent) \in Nat /\ Len(aes.SecureHdr) \in Nat /\ bitstream.len \in Nat \ {0}
  BY <1>1, PlSizes DEF Words
<1>3. CASE ~IsEncrypted
  <2>1. aes.SecureHdr = <<>>
    BY <1>3 DEF PlInv, AesInv, Loading
  <2> QED
    BY <1>1, <1>2, <1>3, <2>1 DEF DecryptedToTheEnd
<1>4. CASE IsEncrypted
  <2>1. /\ aes.block \in 0 .. Len(bitstream.ends)
        /\ aes.NextBlkLen = (IF aes.block = 0 THEN 0 ELSE BlockLenIn(aes.block - 1))
        /\ aes.SizeofData \in 0 .. aes.NextBlkLen
        /\ Len(sent) = (IF aes.block = 0 THEN 0
                        ELSE HeaderEnd(aes.block - 1) + aes.NextBlkLen - aes.SizeofData)
        /\ Len(aes.SecureHdr) < HdrSize
        /\ aes.SecureHdr # <<>> => aes.SizeofData = 0 /\ aes.block # 0
    BY <1>4 DEF PlInv, AesInv, Loading
  <2>2. Len(bitstream.ends) \in Nat /\ Len(bitstream.ends) >= 2
        /\ HdrSize \in Nat \ {0} /\ HdrSize <= bitstream.len
    <3>1. 0 \in 0 .. (Len(bitstream.ends) - 1)
      BY <1>1, <1>4, PlSizes DEF LaidOut, IsEncrypted
    <3> QED
      BY <1>1, <1>4, <3>1, Layout
  <2>3. aes.block # 0
    BY <1>1, <1>2, <2>1, <2>2
  <2>4. aes.block - 1 \in 0 .. (Len(bitstream.ends) - 1)
    BY <2>1, <2>2, <2>3
  <2>5. /\ HeaderEnd(aes.block - 1) \in Nat /\ BlockLenIn(aes.block - 1) \in Nat
        /\ aes.block - 1 + 1 < Len(bitstream.ends) =>
             HeaderEnd(aes.block - 1) + BlockLenIn(aes.block - 1) + HdrSize <= bitstream.len
        /\ aes.block - 1 + 1 = Len(bitstream.ends) =>
             BlockLenIn(aes.block - 1) = 0 /\ HeaderEnd(aes.block - 1) = bitstream.len
    BY <1>1, <1>4, <2>4, Layout
  <2>6. aes.block = Len(bitstream.ends)
    <3> HIDE DEF PlInv, HeaderEnd, BlockLenIn
    <3> SUFFICES ASSUME aes.block # Len(bitstream.ends) PROVE FALSE
      OBVIOUS
    <3>1. /\ HeaderEnd(aes.block - 1) + aes.NextBlkLen + HdrSize <= bitstream.len
          /\ Len(sent) = HeaderEnd(aes.block - 1) + aes.NextBlkLen - aes.SizeofData
          /\ aes.NextBlkLen \in Nat /\ aes.SizeofData \in Nat
      BY <2>1, <2>2, <2>3, <2>4, <2>5
    <3>2. /\ HdrSize \in Nat /\ HeaderEnd(aes.block - 1) \in Nat /\ bitstream.len \in Nat
          /\ Len(sent) \in Nat /\ Len(aes.SecureHdr) \in Nat
          /\ Len(aes.SecureHdr) < HdrSize
          /\ Len(sent) + Len(aes.SecureHdr) = bitstream.len
      BY <1>1, <1>2, <2>1, <2>2, <2>5
    <3> QED
      BY ONLY <3>1, <3>2
  <2>7. /\ aes.SizeofData = 0 /\ Len(sent) = bitstream.len
    <3>1. aes.NextBlkLen = 0 /\ HeaderEnd(aes.block - 1) = bitstream.len
      BY <2>1, <2>2, <2>3, <2>5, <2>6
    <3> QED
      BY <1>2, <2>1, <2>3, <3>1
  <2>8. aes.SecureHdr = <<>>
    <3>1. Len(aes.SecureHdr) = 0
      BY <1>1, <1>2, <2>7
    <3> QED
      BY <1>1, <3>1 DEF IsRow, Row
  <2> QED
    BY <2>6, <2>7, <2>8 DEF DecryptedToTheEnd
<1> QED
  BY <1>3, <1>4

(***************************************************************************)
(* XFsbl_SecPlPartition reports success only when XFsbl_DecrptPl went      *)
(* through all encrypted blocks, wherever chunks cut data and headers.     *)
(***************************************************************************)
THEOREM WholeBitstreamIsDecrypted == Spec => []DecryptedToTheEnd
<1>1. LoadInv => DecryptedToTheEnd
  BY AllIsSent DEF LoadInv, DecryptedToTheEnd
<1> QED
  BY PlInvariant, <1>1, PTL

-----------------------------------------------------------------------------
(***************************************************************************)
(* What is foreign among the words sent is what the second reading found.  *)
(***************************************************************************)
Foreign == {i \in 0 .. (Len(sent) - 1) : ~AsSigned(i)}
Unguarded == {i \in 0 .. (bitstream.len - 1) : ~IsEncrypted /\ ~IsCovered(i)}

LEMMA ForeignIsFound ==
  ASSUME NEW F, IsRow(F, sent, 0), sent \in Words
  PROVE  Foreign = F \cap (0 .. (Len(sent) - 1))
<1>1. Len(sent) \in Nat
  BY DEF Words
<1>2. \A i \in 0 .. (Len(sent) - 1) : AsSigned(i) <=> i \notin F
  BY <1>1, SentWord
<1> QED
  BY <1>2 DEF Foreign

\* When the load is done, only what no digest covers is foreign.
LEMMA DoneIsGuarded ==
  ASSUME NEW F, PlInv(F), GuardInv(F), pc = "DONE"
  PROVE  Len(sent) = bitstream.len /\ Foreign \subseteq Unguarded
<1>1. Len(sent) = bitstream.len /\ DecryptedToTheEnd
  BY AllIsSent
<1>2. /\ bitstream \in Bitstreams /\ bitstream.len \in Nat /\ bitstream.blockSize \in Nat \ {0}
      /\ sent \in Words /\ IsRow(F, sent, 0) /\ PlTypeOK
  BY PlSizes DEF PlInv, PlTypeOK, SentInv
<1>3. Foreign = F \cap (0 .. (bitstream.len - 1))
  BY <1>1, <1>2, ForeignIsFound
<1>4. CASE IsEncrypted
  <2>1. Len(bitstream.ends) \in Nat /\ Len(bitstream.ends) >= 2
        /\ HeaderEnd(Len(bitstream.ends) - 1) = bitstream.len
    <3>1. Len(bitstream.ends) \in Nat /\ Len(bitstream.ends) >= 2
      BY <1>2, <1>4, PlSizes DEF LaidOut, IsEncrypted
    <3>2. /\ Len(bitstream.ends) - 1 \in 0 .. (Len(bitstream.ends) - 1)
          /\ (Len(bitstream.ends) - 1) + 1 = Len(bitstream.ends)
      BY <3>1
    <3> QED
      BY <1>2, <1>4, <3>1, <3>2, Layout
  <2>2. aes.block = Len(bitstream.ends)
    BY <1>1, <1>4 DEF DecryptedToTheEnd
  <2>3. \A i \in F : i \in Nat /\ i >= bitstream.len
    BY <1>4, <2>1, <2>2 DEF GuardInv, Loading
  <2>4. F \cap (0 .. (bitstream.len - 1)) = {}
    BY <1>2, <2>3
  <2> QED
    BY <1>1, <1>3, <2>4
<1>5. CASE ~IsEncrypted
  <2> SUFFICES ASSUME NEW i \in F, i \in 0 .. (bitstream.len - 1), IsCovered(i)
               PROVE  FALSE
    <3>1. ASSUME NEW j \in F, j \in 0 .. (bitstream.len - 1)
          PROVE  ~IsCovered(j)
      BY <3>1
    <3>2. Foreign \subseteq Unguarded
      BY <1>3, <1>5, <3>1 DEF Unguarded
    <3> QED
      BY <1>1, <3>2
  <2>1. CoveredAt(i) > bitstream.len
    BY <1>1 DEF GuardInv, NoneCovered
  <2>2. CoveredAt(i) <= bitstream.len
    <3> DEFINE d == bitstream.blockSize
               q == BlockOf(i)
               x == bitstream.len
               n == NoOfBlocks
    <3>1. i \in Nat /\ x \in Nat /\ d \in Nat \ {0}
      BY <1>2
    <3>2. q \in Nat /\ i % d \in 0 .. (d - 1) /\ i = d * q + (i % d)
      BY <3>1, Division DEF BlockOf
    <3>3. ShaBlockEnd(i) \in Int
      BY <1>2, <3>1, CoveredIsInt
    <3>4. CoveredAt(i) = q * d + ShaBlockEnd(i) /\ ShaBlockEnd(i) <= SignedLen(q)
      BY DEF CoveredAt, IsCovered
    <3>5. SignedLen(q) = IF q + 1 < n THEN d ELSE x - q * d
      BY DEF SignedLen
    <3>6. n = (x + d - 1) \div d /\ x + d - 1 \in Nat
      BY <3>1 DEF NoOfBlocks
    <3> HIDE DEF d, q, x, n
    <3>7. n \in Nat /\ (x + d - 1) % d \in 0 .. (d - 1) /\ x + d - 1 = d * n + ((x + d - 1) % d)
      BY <3>1, <3>6, Division
    <3>8. q * d = d * q /\ d * q \in Int /\ d * n \in Int
      BY <3>1, <3>2, <3>7
    <3>9. CASE q + 1 < n
      <4>1. d * (q + 1) + d <= d * n /\ d * (q + 1) = d * q + d
        BY <3>1, <3>2, <3>7, <3>9, ProductOrder
      <4>2. d * n <= x + d - 1
        BY <3>1, <3>7, <3>8
      <4> QED
        BY <3>1, <3>3, <3>4, <3>5, <3>8, <3>9, <4>1, <4>2 DEF x
    <3>10. CASE ~(q + 1 < n)
      BY <3>1, <3>3, <3>4, <3>5, <3>8, <3>10 DEF x
    <3> QED
      BY <3>9, <3>10
  <2>3. CoveredAt(i) \in Int
    BY <1>2, CoveredIsInt
  <2> QED
    BY <1>2, <2>1, <2>2, <2>3
<1> QED
  BY <1>1, <1>4, <1>5

\* The same of all rows, to be used of the state after a step.
LEMMA AllForeignIsFound ==
  \A H : IsRow(H, sent, 0) /\ sent \in Words => Foreign = H \cap (0 .. (Len(sent) - 1))
BY ForeignIsFound

LEMMA LoadIsGuarded ==
  \A H : PlInv(H) /\ GuardInv(H) /\ pc = "DONE"
            => Len(sent) = bitstream.len /\ Foreign \subseteq Unguarded
BY DoneIsGuarded

LEMMA LoadIsBounded == \A H : PlInv(H) /\ Loading => Len(sent) <= bitstream.len
<1> TAKE H
<1> HAVE PlInv(H) /\ Loading
<1>1. Len(sent) \in Nat /\ Compared \in Nat /\ Len(sent) <= Compared /\ Compared <= bitstream.len
  BY SentBounded
<1>2. bitstream.len \in Nat
  BY PlSizes DEF PlInv, PlTypeOK
<1> QED
  BY <1>1, <1>2

(***************************************************************************)
(* A step of the load is a step of the promise.                            *)
(***************************************************************************)
LEMMA PromisedLoad ==
  ASSUME pc \notin {"DONE", "REFUSED"}, pc' # "REFUSED", bitstream' = bitstream,
         Len(sent) \in Nat, Len(sent') \in Nat, bitstream.len \in Nat,
         Len(sent') >= Len(sent), Len(sent') <= bitstream.len,
         Foreign' \cap (0 .. (Len(sent) - 1)) = Foreign,
         pc' = "DONE" => Len(sent') = bitstream.len /\ Foreign' \subseteq Unguarded
  PROVE  Promise!Load
<1>1. Unguarded' = Unguarded
  BY DEF Unguarded, IsEncrypted, IsCovered, ShaBlockEnd, BlockOf, SignedLen, NoOfBlocks
<1>2. Foreign' \subseteq 0 .. (Len(sent') - 1)
  BY DEF Foreign
<1> USE DEF Promise!Load, Promise!Places
<1>3. Len(sent') \in Len(sent) .. bitstream.len
  OBVIOUS
<1> QED
  BY <1>1, <1>2, <1>3 DEF Foreign, Unguarded

\* Every step of the load is one the promise allows.
LEMMA StepPromised ==
  LoadInv /\ LoadInv' /\ [Next]_vars => [Promise!Next]_(Promise!vars)
<1> SUFFICES ASSUME LoadInv, LoadInv', [Next]_vars PROVE [Promise!Next]_(Promise!vars)
  OBVIOUS
<1>1. PICK F \in SUBSET Nat : PlInv(F) /\ GuardInv(F)
  BY DEF LoadInv
<1>2. PICK G \in SUBSET Nat : /\ PlInv(G)' /\ GuardInv(G)'
                              /\ ~ReAuthenticate => G = F
  <2>1. CASE ReAuthenticate
    BY <2>1 DEF LoadInv
  <2>2. CASE ~ReAuthenticate
    BY <1>1, <2>2, SameRowStep
  <2> QED
    BY <2>1, <2>2
<1>3. /\ sent \in Words /\ sent' \in Words /\ bitstream \in Bitstreams
      /\ IsRow(F, sent, 0) /\ IsRow(G, sent', 0)
  BY <1>1, <1>2 DEF PlInv, PlTypeOK, SentInv, IsRow
<1>4. Len(sent) \in Nat /\ Len(sent') \in Nat /\ bitstream.len \in Nat
  BY <1>3, PlSizes DEF Words
<1>5. Foreign = F \cap (0 .. (Len(sent) - 1)) /\ Foreign' = G \cap (0 .. (Len(sent') - 1))
  <2>1. (\A H : IsRow(H, sent, 0) /\ sent \in Words
                 => Foreign = H \cap (0 .. (Len(sent) - 1)))'
    BY AllForeignIsFound, PTL
  <2>2. IsRow(G, sent, 0)'
    BY <1>2 DEF PlInv, SentInv
  <2> QED
    BY <1>1, <1>3, <2>1, <2>2, ForeignIsFound
<1>6. pc' = "DONE" => Len(sent') = bitstream'.len /\ Foreign' \subseteq Unguarded'
  <2>1. (\A H : PlInv(H) /\ GuardInv(H) /\ pc = "DONE"
                 => Len(sent) = bitstream.len /\ Foreign \subseteq Unguarded)'
    BY LoadIsGuarded, PTL
  <2> QED
    BY <1>2, <2>1
<1>7. bitstream' = bitstream
  <2>1. CASE ReAuthenticate
    BY <2>1 DEF ReAuthenticate, envVars
  <2>2. CASE ~ReAuthenticate
    BY <1>1, <2>2, SameRowStep
  <2> QED
    BY <2>1, <2>2
<1>8. Unguarded' = Unguarded
  BY <1>7 DEF Unguarded, IsEncrypted, IsCovered, ShaBlockEnd, BlockOf, SignedLen, NoOfBlocks
<1>9. Loading => Len(sent) <= bitstream.len
  BY <1>1, <1>4, SentBounded
<1>10. Loading' => Len(sent') <= bitstream.len
  <2>1. (\A H : PlInv(H) /\ Loading => Len(sent) <= bitstream.len)'
    BY LoadIsBounded, PTL
  <2> QED
    BY <1>2, <1>4, <1>7, <2>1
<1>11. ASSUME Loading, pc # "DONE", pc' # "REFUSED", sent' = sent
       PROVE  Promise!Load
  <2>1. Foreign' = Foreign
    BY <1>11 DEF Foreign, AsSigned
  <2>2. Foreign' \cap (0 .. (Len(sent) - 1)) = Foreign
    BY <2>1 DEF Foreign
  <2>3. Len(sent') >= Len(sent) /\ Len(sent') <= bitstream.len
    BY <1>4, <1>9, <1>11
  <2> QED
    BY <1>4, <1>6, <1>7, <1>8, <1>11, <2>2, <2>3, PromisedLoad DEF Loading
<1>12. ASSUME Loading, pc # "DONE", pc' # "REFUSED", ~ReAuthenticate,
              Len(sent') >= Len(sent), Len(sent') <= bitstream.len
       PROVE  Promise!Load
  <2>1. Foreign' \cap (0 .. (Len(sent) - 1)) = Foreign
    BY <1>2, <1>4, <1>5, <1>12
  <2> QED
    BY <1>4, <1>6, <1>7, <1>8, <1>12, <2>1, PromisedLoad DEF Loading
<1>13. CASE NextBlock \/ SpkVer \/ HashChunk \/ PlSignVer \/ ReAuthenticate
  <2>1. Loading /\ pc # "DONE" /\ pc' # "REFUSED" /\ sent' = sent
    BY <1>13 DEF NextBlock, SpkVer, HashChunk, PlSignVer, ReAuthenticate, Loading, engineVars
  <2> QED
    BY <1>11, <2>1 DEF Promise!Next
<1>14. CASE SendChunk \/ DataToTheEnd \/ DataThenHeader
  <2>1. Loading /\ pc # "DONE" /\ ~ReAuthenticate
    BY <1>14 DEF SendChunk, DataToTheEnd, DataThenHeader, ReAuthenticate, Loading
  <2>2. Len(sent') >= Len(sent) /\ pc' \notin {"FAIL", "REFUSED"}
    BY <1>1, <1>14, DataIsSent
  <2> QED
    BY <1>10, <1>12, <2>1, <2>2 DEF Promise!Next, Loading
<1>15. CASE FirstChunk \/ SplitHeader \/ WholeHeader
  <2>1. Loading /\ pc # "DONE" /\ pc' # "REFUSED" /\ ~ReAuthenticate
    BY <1>15 DEF FirstChunk, SplitHeader, WholeHeader, Decrypt, NextChunk, ReAuthenticate, Loading
  <2>2. SentGrows
    BY <1>1, <1>15, FirstChunkInv, SplitHeaderInv, WholeHeaderInv
  <2>3. Compared \in Nat /\ Compared <= bitstream.len
    BY <1>1, <2>1, SentBounded
  <2> QED
    BY <1>4, <1>12, <2>1, <2>2, <2>3 DEF Promise!Next, SentGrows
<1>16. CASE OtherChunk \/ Refuse \/ \E i \in Memory : OtherMasterWrites(i)
  <2>1. Loading /\ pc # "DONE" /\ pc' # "REFUSED" /\ sent' = sent
    BY <1>16 DEF OtherChunk, Refuse, OtherMasterWrites, Running, Loading, engineVars
  <2> QED
    BY <1>11, <2>1 DEF Promise!Next
<1>17. CASE ResetPl
  <2>1. pc = "FAIL" /\ pc' = "REFUSED" /\ Len(sent') = 0
    BY <1>17 DEF ResetPl
  <2>2. Foreign' = {}
    BY <2>1 DEF Foreign
  <2> QED
    BY <1>7, <1>8, <2>1, <2>2 DEF Promise!Next, Promise!Refuse, Foreign, Unguarded
<1>18. CASE UNCHANGED vars
  <2>1. pc' = pc /\ sent' = sent
    BY <1>18 DEF vars, engineVars
  <2>2. Foreign' = Foreign
    BY <2>1 DEF Foreign, AsSigned
  <2> QED
    BY <1>7, <1>8, <2>1, <2>2 DEF Promise!vars, Foreign, Unguarded
<1> QED
  BY <1>13, <1>14, <1>15, <1>16, <1>17, <1>18 DEF Next, LoadStep, DecryptChunk

(***************************************************************************)
(* XFsbl_SecPlPartition keeps its promise: the PL takes the stream from    *)
(* its first word on and is configured by all of it, as it was signed but  *)
(* for what no digest of a chunk covers, and throughout when it was        *)
(* encrypted; or XFsbl_PartitionValidation resets it.                      *)
(***************************************************************************)
THEOREM LoadKeepsPromise == Spec => LoadsAsPromised
<1>1. Init => Promise!Init
  <2> SUFFICES ASSUME Init PROVE Promise!Init
    OBVIOUS
  <2>1. sent = <<>> /\ pc = "BLOCK" /\ bitstream.len \in Nat
    BY PlSizes DEF Init
  <2>2. Foreign = {} /\ Unguarded \subseteq 0 .. (bitstream.len - 1)
    BY <2>1 DEF Foreign, Unguarded
  <2> QED
    BY <2>1, <2>2 DEF Promise!Init, Promise!Places, Foreign, Unguarded
<1> QED
  BY <1>1, PlInvariant, StepPromised, PTL DEF Spec, LoadsAsPromised, Promise!Spec

-----------------------------------------------------------------------------
(***************************************************************************)
(* A bitstream nobody tampered with.  Its certificate and what was hashed  *)
(* are as signed as long as nothing was written; the engine has the device *)
(* key for the first header and the updated key for all others.            *)
(***************************************************************************)
RightKey == aes.KeySel = (IF aes.block = 0 THEN "DEV" ELSE "KUP")
ReadIntact ==
  /\ pc \in {"SPK", "SIGN", "SIGNATURE"} =>
       AuthCertBuf = SignedWords(blk.CurrentAcOffset, AcSize)
  /\ pc \in {"SIGN", "SIGNATURE"} => sha = SignedWords(blk.SrcAddress, Len(sha))
IntactInv ==
  /\ writes = 0 => changed = {} /\ ReadIntact
  /\ blk.CurrentAcOffset = AcOfset + (blk.Index - 1) * AcSize
  /\ Loading => RightKey
  /\ IntactIsLoaded

\* A quotient without a remainder.
LEMMA Quotient ==
  ASSUME NEW k \in Nat, NEW d \in Nat \ {0}
  PROVE  (k * d) \div d = k
<1> DEFINE q == (k * d) \div d
           r == (k * d) % d
<1>1. k * d \in Nat /\ k * d = d * k
  OBVIOUS
<1>2. q \in Nat /\ r \in 0 .. (d - 1) /\ k * d = d * q + r
  BY <1>1, Division
<1> HIDE DEF q, r
<1>3. ~(q < k)
  <2> SUFFICES ASSUME q < k PROVE FALSE
    OBVIOUS
  <2>1. d * q + d <= d * k
    BY <1>2, ProductOrder
  <2>2. d * q \in Int /\ d * k \in Int
    BY <1>2
  <2> QED
    BY <1>1, <1>2, <2>1, <2>2
<1>4. ~(k < q)
  <2> SUFFICES ASSUME k < q PROVE FALSE
    OBVIOUS
  <2>1. d * k + d <= d * q
    BY <1>2, ProductOrder
  <2>2. d * q \in Int /\ d * k \in Int
    BY <1>2
  <2> QED
    BY <1>1, <1>2, <2>1, <2>2
<1>5. q = k
  BY <1>2, <1>3, <1>4
<1> QED
  BY <1>5 DEF q

\* What is read while memory is as signed.
LEMMA CopyIntact ==
  ASSUME changed = {}, NEW a \in Nat, NEW n \in Nat
  PROVE  Copy(a, n) = SignedWords(a, n)
BY DEF Copy, SignedWords, Word

(***************************************************************************)
(* Steps that read no more for a signature and refuse nothing: what is     *)
(* left to show is the place of the certificate and the key in use.        *)
(***************************************************************************)
LEMMA IntactKept ==
  ASSUME IntactInv, UNCHANGED envVars, pc' \notin {"SPK", "SIGN", "SIGNATURE", "FAIL"},
         blk'.CurrentAcOffset = AcOfset + (blk'.Index - 1) * AcSize,
         RightKey'
  PROVE  IntactInv'
<1>1. UNCHANGED <<bitstream, changed, writes, fault>>
  BY DEF envVars
<1>2. ReadIntact' /\ IntactIsLoaded'
  BY DEF ReadIntact, IntactIsLoaded
<1>3. AcOfset' = AcOfset
  BY <1>1 DEF AcOfset
<1> QED
  BY <1>1, <1>2, <1>3 DEF IntactInv

\* The certificates lie one behind the other.
LEMMA NextOffset ==
  ASSUME PlTypeOK, IntactInv, UNCHANGED blk \/ NextChunk
  PROVE  blk'.CurrentAcOffset = AcOfset + (blk'.Index - 1) * AcSize
<1>1. blk.CurrentAcOffset = AcOfset + (blk.Index - 1) * AcSize
  BY DEF IntactInv
<1>2. CASE UNCHANGED blk
  BY <1>1, <1>2
<1>3. CASE blk' = [blk EXCEPT !.SrcAddress = @ + bitstream.blockSize,
                              !.CurrentAcOffset = @ + AcSize,
                              !.Index = @ + 1]
  <2>1. blk'.CurrentAcOffset = blk.CurrentAcOffset + AcSize /\ blk'.Index = blk.Index + 1
    BY <1>3 DEF PlTypeOK
  <2>2. AcOfset \in Nat /\ AcSize \in Nat /\ blk.Index \in Nat
    BY PlSizes DEF PlTypeOK, AcOfset
  <2>3. (blk'.Index - 1) * AcSize = (blk.Index - 1) * AcSize + AcSize
    <3>1. blk'.Index - 1 = (blk.Index - 1) + 1 /\ blk.Index - 1 \in Int
      BY <2>1, <2>2
    <3> QED
      BY <2>2, <3>1, SMTT(30)
  <2>4. (blk.Index - 1) * AcSize \in Int
    BY <2>2
  <2> QED
    BY <1>1, <2>1, <2>2, <2>3, <2>4
<1> QED
  BY <1>2, <1>3 DEF NextChunk

-----------------------------------------------------------------------------
\* The head of the block loop refuses only a block with too many chunks.
LEMMA NextBlockIntact ==
  ASSUME NEW F, PlInv(F), IntactInv, NextBlock
  PROVE  IntactInv'
<1>1. /\ pc = "BLOCK" /\ UNCHANGED <<aes, bitstream, changed, writes, fault>>
      /\ AcSize \in Nat /\ bitstream.len \in Nat
  BY PlSizes DEF NextBlock, hashVars, engineVars, envVars, PlInv, PlTypeOK
<1>2. RightKey' /\ AcOfset' = AcOfset /\ UNCHANGED envVars
  BY <1>1 DEF IntactInv, Loading, RightKey, AcOfset, envVars
<1>3. CASE blk.SrcAddress < AcOfset
  <2>1. /\ AuthCertBuf' = Copy(blk.CurrentAcOffset, AcSize)
        /\ blk' = [blk EXCEPT !.Len = BlockLen(blk), !.IsLastBlock = IsLast(blk)]
        /\ pc' = IF HashsFit(blk'.Len) THEN "SPK" ELSE "FAIL"
    BY <1>3 DEF NextBlock, Block
  <2>2. /\ blk'.CurrentAcOffset = blk.CurrentAcOffset /\ blk'.Index = blk.Index
        /\ blk'.Len = BlockLen(blk) /\ blk.CurrentAcOffset \in Nat
    BY <2>1 DEF PlInv, PlTypeOK
  <2>3. writes' = 0 => changed' = {} /\ ReadIntact'
    <3> SUFFICES ASSUME writes = 0 PROVE changed = {} /\ ReadIntact'
      BY <1>1
    <3>1. changed = {}
      BY DEF IntactInv
    <3>2. Copy(blk.CurrentAcOffset, AcSize) = SignedWords(blk.CurrentAcOffset, AcSize)
      BY <1>1, <2>2, <3>1, CopyIntact
    <3>3. AuthCertBuf' = SignedWords(blk'.CurrentAcOffset, AcSize)
      BY <2>1, <2>2, <3>2
    <3> QED
      BY <2>1, <3>1, <3>3 DEF ReadIntact
  <2>4. IntactIsLoaded'
    <3> SUFFICES ASSUME pc' = "FAIL"
                 PROVE  \E k \in 0 .. (NoOfBlocks - 1) : ~HashsFit(SignedLen(k))
      BY <1>1 DEF IntactIsLoaded, NoOfBlocks, SignedLen
    <3>1. /\ blk.Index - 1 \in 0 .. (NoOfBlocks - 1)
          /\ SignedLen(blk.Index - 1) = BlockLen(blk)
      BY <1>3, BlockIsSigned, BlockLength DEF PlInv, AcOfset
    <3>2. ~HashsFit(BlockLen(blk))
      BY <2>1, <2>2
    <3> QED
      BY <3>1, <3>2
  <2> QED
    BY <1>1, <1>2, <2>2, <2>3, <2>4 DEF IntactInv
<1>4. CASE ~(blk.SrcAddress < AcOfset)
  <2>1. pc' = "DONE" /\ blk' = blk
    BY <1>4 DEF NextBlock, blockVars
  <2>2. blk'.CurrentAcOffset = AcOfset + (blk'.Index - 1) * AcSize
    BY <2>1 DEF IntactInv
  <2> QED
    BY <1>2, <2>1, <2>2, IntactKept
<1> QED
  BY <1>3, <1>4

\* The key of an intact certificate is the signed one.
LEMMA SpkVerIntact ==
  ASSUME NEW F, PlInv(F), IntactInv, SpkVer
  PROVE  IntactInv'
<1>1. /\ pc = "SPK" /\ sha' = <<>>
      /\ UNCHANGED <<blk, AuthCertBuf, aes, bitstream, changed, writes, fault>>
      /\ pc' = IF AuthCertBuf[1].signed THEN "SIGN" ELSE "FAIL"
  BY DEF SpkVer, blockVars, engineVars, envVars
<1>2. RightKey' /\ AcOfset' = AcOfset
  BY <1>1 DEF IntactInv, Loading, RightKey, AcOfset
<1>3. ASSUME writes = 0
      PROVE  changed = {} /\ ReadIntact' /\ pc' = "SIGN"
  <2>1. changed = {} /\ AuthCertBuf = SignedWords(blk.CurrentAcOffset, AcSize)
    BY <1>1, <1>3 DEF IntactInv, ReadIntact
  <2>2. AuthCertBuf[1].signed
    BY <2>1, PlSizes DEF SignedWords
  <2>3. sha' = SignedWords(blk'.SrcAddress, Len(sha'))
    BY <1>1, Len(<<>>) = 0 DEF SignedWords
  <2> QED
    BY <1>1, <2>1, <2>2, <2>3 DEF ReadIntact
<1>4. IntactIsLoaded'
  <2>1. writes' \in Nat /\ (pc' = "FAIL" => writes' > 0)
    BY <1>1, <1>3 DEF PlInv, PlTypeOK
  <2> QED
    BY <2>1 DEF IntactIsLoaded
<1> QED
  BY <1>1, <1>2, <1>3, <1>4 DEF IntactInv

\* A chunk of an intact block joins what was hashed before it.
LEMMA HashChunkIntact ==
  ASSUME NEW F, PlInv(F), IntactInv, HashChunk
  PROVE  IntactInv'
<1>1. /\ pc = "SIGN" /\ pc \in InBlock /\ sha' = sha \o Copy(ChunkAddress, ChunkLen)
      /\ UNCHANGED <<blk, AuthCertBuf, aes, bitstream, changed, writes, fault>>
      /\ pc' \in {"SIGN", "SIGNATURE"}
      /\ chunk \in 0 .. (NoOfChunks - 1) /\ Len(sha) = ChunkSize * chunk
      /\ blk.SrcAddress \in Nat
  BY DEF HashChunk, InBlock, blockVars, engineVars, envVars, PlInv, HashInv, PlTypeOK
<1>2. RightKey' /\ AcOfset' = AcOfset /\ IntactIsLoaded'
  BY <1>1 DEF IntactInv, Loading, RightKey, AcOfset, IntactIsLoaded
<1>3. ASSUME writes = 0
      PROVE  changed = {} /\ ReadIntact'
  <2>1. /\ changed = {} /\ AuthCertBuf = SignedWords(blk.CurrentAcOffset, AcSize)
        /\ sha = SignedWords(blk.SrcAddress, Len(sha))
    BY <1>1, <1>3 DEF IntactInv, ReadIntact
  <2>2. /\ ChunkAddress \in Nat /\ ChunkLen \in Nat /\ Len(sha) \in Nat
        /\ ChunkAddress = blk.SrcAddress + Len(sha)
    BY <1>1, ThisChunk DEF PlInv
  <2>3. Copy(ChunkAddress, ChunkLen) = SignedWords(blk.SrcAddress + Len(sha), ChunkLen)
    BY <2>1, <2>2, CopyIntact
  <2> DEFINE n == Len(sha)
  <2>4. sha' = SignedWords(blk.SrcAddress, n) \o SignedWords(blk.SrcAddress + n, ChunkLen)
    BY <1>1, <2>1, <2>3
  <2> HIDE DEF n
  <2>5. n \in Nat
    BY <2>2 DEF n
  <2>6. sha' = SignedWords(blk.SrcAddress, n + ChunkLen)
    BY <1>1, <2>2, <2>4, <2>5, JoinSigned
  <2>7. Len(sha') = n + ChunkLen
    BY <1>1, <2>2, <2>5, <2>6, SignedLen0, n + ChunkLen \in Nat
  <2>8. sha' = SignedWords(blk'.SrcAddress, Len(sha'))
    BY <1>1, <2>6, <2>7
  <2> QED
    BY <1>1, <2>1, <2>8 DEF ReadIntact
<1> QED
  BY <1>1, <1>2, <1>3 DEF IntactInv

\* The signature of an intact block is right.
LEMMA SignatureFits ==
  ASSUME NEW F, PlInv(F), IntactInv, pc = "SIGNATURE", writes = 0
  PROVE  SignatureOK
<1> DEFINE k == blk.Index - 1
<1>1. /\ AuthCertBuf = SignedWords(blk.CurrentAcOffset, AcSize)
      /\ sha = SignedWords(blk.SrcAddress, Len(sha))
      /\ blk.CurrentAcOffset = AcOfset + k * AcSize
  BY DEF IntactInv, ReadIntact
<1>2. /\ pc \in InBlock /\ blk.SrcAddress < bitstream.len /\ Len(sha) = blk.Len
      /\ blk.SrcAddress = k * bitstream.blockSize
      /\ blk.Len = (IF IsLast(blk) THEN bitstream.len - blk.SrcAddress
                    ELSE bitstream.blockSize)
  BY DEF PlInv, BlockInv, HashInv, InBlock
<1>3. blk.Len = SignedLen(k)
  BY <1>2, BlockIsSigned DEF PlInv
<1>4. /\ k \in Nat /\ AcSize \in Nat \ {0} /\ AcSize >= 2 /\ AcOfset \in Nat
      /\ blk.CurrentAcOffset \in Nat
  BY PlSizes DEF PlInv, PlTypeOK, BlockInv, AcOfset
<1>5. AuthCertBuf[1].at = AcOfset + k * AcSize
  <2>1. SignedWords(blk.CurrentAcOffset, AcSize)[1].at = blk.CurrentAcOffset + 1 - 1
    BY <1>4 DEF SignedWords
  <2> QED
    BY <1>1, <1>4, <2>1
<1> HIDE DEF k
<1>6. (AuthCertBuf[1].at - AcOfset) \div AcSize = k
  <2>1. AuthCertBuf[1].at - AcOfset = k * AcSize
    BY <1>4, <1>5
  <2> QED
    BY <1>4, <2>1, Quotient
<1> QED
  BY <1>1, <1>2, <1>3, <1>6 DEF SignatureOK

LEMMA PlSignVerIntact ==
  ASSUME NEW F, PlInv(F), IntactInv, PlSignVer
  PROVE  IntactInv'
<1>1. /\ pc = "SIGNATURE" /\ UNCHANGED <<blk, aes, bitstream, changed, writes, fault>>
      /\ UNCHANGED envVars
      /\ pc' = IF SignatureOK THEN "REAUTH" ELSE "FAIL"
  BY DEF PlSignVer, blockVars, engineVars, envVars
<1>2. RightKey' /\ AcOfset' = AcOfset
  BY <1>1 DEF IntactInv, Loading, RightKey, AcOfset
<1>3. CASE pc' = "REAUTH"
  BY <1>1, <1>2, <1>3, IntactKept DEF IntactInv
<1>4. CASE pc' = "FAIL"
  <2>1. writes \in Nat /\ writes # 0
    BY <1>1, <1>4, SignatureFits DEF PlInv, PlTypeOK
  <2>2. writes' > 0
    BY <1>1, <2>1
  <2> QED
    BY <1>1, <1>2, <1>4, <2>1, <2>2 DEF IntactInv, IntactIsLoaded, Loading
<1> QED
  BY <1>1, <1>3, <1>4

\* The second reading of an intact chunk is like the first.
LEMMA ReAuthenticateIntact ==
  ASSUME NEW F, PlInv(F), GuardInv(F), IntactInv, ReAuthenticate
  PROVE  IntactInv'
<1>1. /\ pc = "REAUTH" /\ pc \in InBlock /\ sha' = sha \o Copy(ChunkAddress, ChunkLen)
      /\ UNCHANGED <<blk, aes, bitstream, changed, writes, fault>> /\ UNCHANGED envVars
      /\ pc' = IF SameHash(Digested(sha')) THEN "SEND" ELSE "FAIL"
      /\ chunk \in 0 .. (NoOfChunks - 1) /\ blk.SrcAddress \in Nat
      /\ sha = Row(F, blk.SrcAddress, ChunkSize * chunk)
      /\ HashsOfChunks[chunk] = Digested(SignedWords(blk.SrcAddress, ChunkEnd(chunk)))
  BY DEF ReAuthenticate, InBlock, blockVars, engineVars, envVars, PlInv, HashInv, PlTypeOK
<1>2. RightKey' /\ AcOfset' = AcOfset
  BY <1>1 DEF IntactInv, Loading, RightKey, AcOfset
<1>3. writes = 0 => SameHash(Digested(sha'))
  <2> SUFFICES ASSUME writes = 0 PROVE sha' = SignedWords(blk.SrcAddress, ChunkEnd(chunk))
    BY <1>1 DEF SameHash
  <2> DEFINE n == ChunkSize * chunk
  <2>1. /\ n \in Nat /\ ChunkLen \in Nat /\ ChunkAddress \in Nat
        /\ ChunkAddress = blk.SrcAddress + n /\ ChunkEnd(chunk) = n + ChunkLen
    BY <1>1, ThisChunk DEF PlInv
  <2>2. Copy(ChunkAddress, ChunkLen) = SignedWords(blk.SrcAddress + n, ChunkLen)
    BY <2>1, CopyIntact DEF IntactInv
  <2>3. sha' = SignedWords(blk.SrcAddress, n) \o SignedWords(blk.SrcAddress + n, ChunkLen)
    <3>1. F = {}
      BY DEF GuardInv
    <3> QED
      BY <1>1, <2>1, <2>2, <3>1, SignedIsRow
  <2> HIDE DEF n
  <2>4. SignedWords(blk.SrcAddress, n) \o SignedWords(blk.SrcAddress + n, ChunkLen)
          = SignedWords(blk.SrcAddress, n + ChunkLen)
    BY <1>1, <2>1, JoinSigned
  <2> QED
    BY <2>1, <2>3, <2>4
<1>4. CASE pc' = "SEND"
  BY <1>1, <1>2, <1>4, IntactKept DEF IntactInv
<1>5. CASE pc' = "FAIL"
  <2>1. writes \in Nat /\ writes # 0
    BY <1>1, <1>3, <1>5 DEF PlInv, PlTypeOK
  <2>2. writes' > 0
    BY <1>1, <2>1
  <2> QED
    BY <1>1, <1>2, <1>5, <2>1, <2>2 DEF IntactInv, IntactIsLoaded, Loading
<1> QED
  BY <1>1, <1>4, <1>5

\* A plain chunk is sent.
LEMMA SendChunkIntact ==
  ASSUME NEW F, PlInv(F), IntactInv, SendChunk
  PROVE  IntactInv'
<1>1. pc = "SEND" /\ NextChunk /\ UNCHANGED aes /\ UNCHANGED envVars
  BY DEF SendChunk
<1>2. pc' \in {"REAUTH", "DONE", "BLOCK"}
  BY <1>1 DEF NextChunk
<1>3. RightKey'
  BY <1>1 DEF IntactInv, Loading, RightKey
<1>4. blk'.CurrentAcOffset = AcOfset + (blk'.Index - 1) * AcSize
  BY <1>1, NextOffset DEF PlInv
<1> QED
  BY <1>1, <1>2, <1>3, <1>4, IntactKept

-----------------------------------------------------------------------------
(***************************************************************************)
(* When a block is used up, the header that follows ends where the layout  *)
(* says: the engine accepts it.                                            *)
(***************************************************************************)
LEMMA TagFits ==
  ASSUME NEW F, PlInv(F), F = {}, RightKey, pc \in {"SEND", "DECRYPT"}, IsEncrypted,
         aes.block \in 0 .. (Len(bitstream.ends) - 1), aes.SizeofData = 0, HeaderSent(F)
  PROVE  GcmTagOK(sent')
<1>1. /\ bitstream \in Bitstreams /\ Len(bitstream.ends) \in Nat /\ HdrSize \in Nat
      /\ LaidOut(bitstream)
  BY PlSizes DEF PlInv, PlTypeOK, IsEncrypted
<1>2. /\ aes.NextBlkLen = (IF aes.block = 0 THEN 0 ELSE BlockLenIn(aes.block - 1))
      /\ Len(sent) = (IF aes.block = 0 THEN 0
                      ELSE HeaderEnd(aes.block - 1) + aes.NextBlkLen - aes.SizeofData)
  BY DEF PlInv, AesInv, Loading
<1>3. Len(sent) + HdrSize = HeaderEnd(aes.block)
  <2>1. CASE aes.block = 0
    BY <1>1, <1>2, <2>1 DEF LaidOut, HeaderEnd
  <2>2. CASE aes.block # 0
    <3> DEFINE k == aes.block - 1
    <3>1. /\ k \in 0 .. (Len(bitstream.ends) - 1) /\ k + 1 = aes.block
          /\ k + 1 < Len(bitstream.ends) /\ k + 1 \in 0 .. (Len(bitstream.ends) - 1)
      BY <1>1, <2>2
    <3>2. Len(sent) = HeaderEnd(k) + BlockLenIn(k) - 0
      BY <1>2, <2>2
    <3> HIDE DEF k
    <3>3. BlockLenIn(k) = HeaderEnd(k + 1) - HdrSize - HeaderEnd(k)
      BY <3>1 DEF BlockLenIn
    <3>4. HeaderEnd(k) \in Nat /\ HeaderEnd(k + 1) \in Nat
      BY <1>1, <3>1, Layout
    <3>5. Len(sent) + HdrSize = HeaderEnd(k + 1)
      BY ONLY <1>1, <3>2, <3>3, <3>4
    <3> QED
      BY <3>1, <3>5
  <2> QED
    BY <2>1, <2>2
<1>4. sent' = SignedWords(0, HeaderEnd(aes.block))
  <2>1. Len(sent) \in Nat
    BY DEF PlInv, PlTypeOK, Words
  <2>2. Len(sent) + HdrSize \in Nat
    BY <1>1, <2>1
  <2> QED
    BY <1>3, <2>2, SignedIsRow DEF HeaderSent
<1> QED
  BY <1>4 DEF GcmTagOK, RightKey

\* A header that is accepted.
LEMMA DecryptIntact ==
  ASSUME NEW F, PlInv(F), GuardInv(F), IntactInv, pc \in {"SEND", "DECRYPT"}, IsEncrypted,
         aes.block \in 0 .. (Len(bitstream.ends) - 1), aes.SizeofData = 0, HeaderSent(F),
         UNCHANGED decryptUnchanged,
         NEW hdr, NEW after, NEW more \in BOOLEAN, Decrypt(hdr, after, more)
  PROVE  IntactInv'
<1>1. writes = 0 => GcmTagOK(sent \o hdr)
  <2>1. sent' = sent \o hdr
    BY DEF Decrypt
  <2>2. RightKey
    BY DEF IntactInv, Loading
  <2> QED
    BY <2>1, <2>2, TagFits DEF GuardInv
<1>2. UNCHANGED envVars
  BY DEF decryptUnchanged
<1>3. CASE GcmTagOK(sent \o hdr)
  <2>1. OpenBlock /\ IF more THEN pc' = "DECRYPT" /\ UNCHANGED <<chunk, blk>> ELSE NextChunk
    BY <1>3 DEF Decrypt
  <2>2. RightKey'
    <3>1. aes'.KeySel = "KUP" /\ aes'.block = aes.block + 1 /\ aes.block + 1 # 0
      BY <2>1 DEF OpenBlock
    <3> QED
      BY <3>1 DEF RightKey
  <2>3. pc' \in {"DECRYPT", "REAUTH", "DONE", "BLOCK"} /\ (UNCHANGED blk \/ NextChunk)
    BY <2>1 DEF NextChunk
  <2>4. blk'.CurrentAcOffset = AcOfset + (blk'.Index - 1) * AcSize
    BY <2>3, NextOffset DEF PlInv
  <2> QED
    BY <1>2, <2>2, <2>3, <2>4, IntactKept
<1>4. CASE ~GcmTagOK(sent \o hdr)
  <2>1. pc' = "FAIL" /\ UNCHANGED blk /\ writes' = writes /\ bitstream' = bitstream
    BY <1>2, <1>4 DEF Decrypt, envVars
  <2>2. writes \in Nat /\ writes # 0
    BY <1>1, <1>4 DEF PlInv, PlTypeOK
  <2>3. writes' > 0
    BY <2>1, <2>2
  <2> QED
    BY <2>1, <2>2, <2>3 DEF IntactInv, IntactIsLoaded, Loading, AcOfset
<1> QED
  BY <1>3, <1>4

\* The steps that decrypt.
LEMMA DecryptChunkIntact ==
  ASSUME NEW F, PlInv(F), GuardInv(F), IntactInv, DecryptChunk
  PROVE  IntactInv'
<1>1. CASE FirstChunk
  <2>1. pc = "SEND" /\ IsEncrypted /\ aes.NextBlkLen = 0 /\ UNCHANGED decryptUnchanged
    BY <1>1 DEF FirstChunk
  <2>2. /\ aes.block \in 0 .. (Len(bitstream.ends) - 1)
        /\ aes.SizeofData \in Nat /\ aes.NextBlkLen \in Nat
        /\ aes.SizeofData <= aes.NextBlkLen
    BY <2>1, ChunkBegins
  <2>3. aes.SizeofData = 0
    BY <2>1, <2>2
  <2>4. HeaderSent(F)
    BY <1>1, FirstChunkInv
  <2>5. Decrypt(SubSeq(ChunkBuffer, 1, HdrSize), From(ChunkBuffer, HdrSize), TRUE)
    BY <1>1 DEF FirstChunk
  <2> QED
    BY <2>1, <2>2, <2>3, <2>4, <2>5, DecryptIntact
<1>2. CASE SplitHeader
  <2> DEFINE after == From(ChunkBuffer, Len(HeaderInThisChunk))
  <2>1. /\ pc = "SEND" /\ IsEncrypted /\ aes.SecureHdr # <<>> /\ UNCHANGED decryptUnchanged
        /\ Decrypt(HeaderFromBoth, after, MoreToDecrypt(after))
    BY <1>2 DEF SplitHeader
  <2>2. aes.block \in 0 .. (Len(bitstream.ends) - 1) /\ aes.SizeofData = 0
    BY <2>1, ChunkBegins
  <2>3. HeaderSent(F)
    BY <1>2, SplitHeaderInv
  <2>4. MoreToDecrypt(after) \in BOOLEAN
    BY DEF MoreToDecrypt
  <2> HIDE DEF after
  <2> QED
    BY <2>1, <2>2, <2>3, <2>4, DecryptIntact
<1>3. CASE WholeHeader
  <2> DEFINE after == From(rest, HdrSize)
  <2>1. /\ pc = "DECRYPT" /\ aes.SizeofData = 0 /\ UNCHANGED decryptUnchanged
        /\ Decrypt(SubSeq(rest, 1, HdrSize), after, MoreToDecrypt(after))
    BY <1>3 DEF WholeHeader
  <2>2. /\ IsEncrypted /\ Len(bitstream.ends) \in Nat
        /\ aes.block \in 1 .. (Len(bitstream.ends) - 1)
    BY <2>1, InsideChunk
  <2>3. aes.block \in 0 .. (Len(bitstream.ends) - 1)
    BY <2>2
  <2>4. HeaderSent(F)
    BY <1>3, WholeHeaderInv
  <2>5. MoreToDecrypt(after) \in BOOLEAN
    BY DEF MoreToDecrypt
  <2> HIDE DEF after
  <2> QED
    BY <2>1, <2>2, <2>3, <2>4, <2>5, DecryptIntact
<1>4. CASE OtherChunk \/ DataToTheEnd \/ DataThenHeader
  <2>1. /\ UNCHANGED envVars /\ (UNCHANGED blk \/ NextChunk)
        /\ pc' \in {"DECRYPT", "REAUTH", "DONE", "BLOCK"}
    BY <1>4 DEF OtherChunk, DataToTheEnd, DataThenHeader, decryptUnchanged, NextChunk
  <2>2. RightKey'
    <3>1. RightKey
      BY <1>4 DEF IntactInv, Loading, OtherChunk, DataToTheEnd, DataThenHeader
    <3>2. aes \in AesStates
      BY DEF PlInv, PlTypeOK
    <3>3. aes'.KeySel = aes.KeySel /\ aes'.block = aes.block
      BY <1>4, <3>2 DEF AesStates, OtherChunk, DataToTheEnd, DataThenHeader, KeepHeader
    <3> QED
      BY <3>1, <3>3 DEF RightKey
  <2>3. blk'.CurrentAcOffset = AcOfset + (blk'.Index - 1) * AcSize
    BY <2>1, NextOffset DEF PlInv
  <2> QED
    BY <2>1, <2>2, <2>3, IntactKept
<1> QED
  BY <1>1, <1>2, <1>3, <1>4 DEF DecryptChunk

-----------------------------------------------------------------------------
\* A device that refuses, the reset of the PL, a write, and no step at all.
LEMMA OutsideIntact ==
  ASSUME NEW F, PlInv(F), IntactInv,
         Refuse \/ ResetPl \/ (\E i \in Memory : OtherMasterWrites(i)) \/ UNCHANGED vars
  PROVE  IntactInv'
<1>1. CASE Refuse
  BY <1>1 DEF Refuse, blockVars, hashVars, engineVars, IntactInv, ReadIntact, RightKey,
              AcOfset, Loading, IntactIsLoaded
<1>2. CASE ResetPl
  BY <1>2 DEF ResetPl, blockVars, hashVars, envVars, IntactInv, ReadIntact, AcOfset, Loading,
              IntactIsLoaded
<1>3. CASE \E i \in Memory : OtherMasterWrites(i)
  <2>1. /\ writes' = writes + 1 /\ writes \in Nat
        /\ UNCHANGED <<pc, blk, aes, bitstream, fault>>
    BY <1>3 DEF OtherMasterWrites, blockVars, hashVars, engineVars, PlInv, PlTypeOK
  <2>2. writes' > 0
    BY <2>1
  <2> QED
    BY <2>1, <2>2 DEF IntactInv, RightKey, AcOfset, Loading, IntactIsLoaded
<1>4. CASE UNCHANGED vars
  BY <1>4 DEF vars, blockVars, hashVars, engineVars, envVars, IntactInv, ReadIntact, RightKey,
              AcOfset, Loading, IntactIsLoaded, NoOfBlocks, SignedLen
<1> QED
  BY <1>1, <1>2, <1>3, <1>4

(***************************************************************************)
(* A bitstream that nobody tampered with is refused only for a block with  *)
(* more chunks than the hash buffer holds, or by a device: the lengths     *)
(* that XFsbl_SecPlPartition and XFsbl_DecrptPl work out apart agree       *)
(* wherever the borders of blocks and chunks fall.                         *)
(***************************************************************************)
THEOREM IntactBitstreamIsLoaded == Spec => []IntactIsLoaded
<1>1. Init => IntactInv
  <2> SUFFICES ASSUME Init PROVE IntactInv
    OBVIOUS
  <2>1. AcOfset \in Nat /\ AcSize \in Nat
    BY PlSizes DEF Init, AcOfset
  <2>2. blk.CurrentAcOffset = AcOfset + (blk.Index - 1) * AcSize
    BY <2>1 DEF Init
  <2> QED
    BY <2>2 DEF Init, IntactInv, ReadIntact, RightKey, IntactIsLoaded
<1>2. LoadInv /\ IntactInv /\ [Next]_vars => IntactInv'
  <2> SUFFICES ASSUME NEW F, PlInv(F), GuardInv(F), IntactInv, [Next]_vars
               PROVE  IntactInv'
    BY DEF LoadInv
  <2> QED
    BY NextBlockIntact, SpkVerIntact, HashChunkIntact, PlSignVerIntact, ReAuthenticateIntact,
       SendChunkIntact, DecryptChunkIntact, OutsideIntact DEF Next, LoadStep
<1>3. IntactInv => IntactIsLoaded
  BY DEF IntactInv
<1> QED
  BY PlInvariant, <1>1, <1>2, <1>3, PTL DEF Spec
=============================================================================
