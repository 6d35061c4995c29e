-------------------------- MODULE EncryptionProofs --------------------------
(***************************************************************************)
(* Proofs about Crypt, Toast and ToastRow: pg_tde_crypt uses the right       *)
(* keystream byte for every data byte, for every offset, every length and    *)
(* every batch size; a slice of a TOAST value, of any size and for any size  *)
(* of chunk and compression header, is fetched whole and decrypted; and rows *)
(* with any number of long values read back as plain statements meant them.  *)
(***************************************************************************)
EXTENDS Crypt, Toast, ToastRow, FiniteSetTheorems, FunctionTheorems, SequenceTheorems,
        WellFoundedInduction, TLAPS

-----------------------------------------------------------------------------
(* pg_tde_crypt                                                             *)

(* Before each batch the next data byte sits Skip bytes into the batch's     *)
(* first block; once the loop is over there is no next data byte.            *)
Aligned ==
  \/ 16 * batch_start_block + Skip = start_offset + data_index
  \/ data_index = data_len /\ batch_start_block >= aes_end_block

CryptInv == TypeOK /\ Aligned /\ SameKeystream /\ WithinBatch

(* What the block arithmetic at the head of the function computes.           *)
LEMMA BlockArithmetic ==
  ASSUME NEW s \in Nat, NEW n \in Nat
  PROVE  /\ s \div 16 \in Nat /\ s % 16 \in 0..15
         /\ s = 16 * (s \div 16) + (s % 16)
         /\ (s + n + 15) \div 16 \in Nat
         /\ 16 * ((s + n + 15) \div 16) >= s + n
         /\ 16 * ((s + n + 15) \div 16) <= s + n + 15
<1>1. s \div 16 \in Nat /\ s % 16 \in 0..15 /\ s = 16 * (s \div 16) + (s % 16)
  OBVIOUS
<1>2. /\ (s + n + 15) \div 16 \in Nat
      /\ 16 * ((s + n + 15) \div 16) >= s + n
      /\ 16 * ((s + n + 15) \div 16) <= s + n + 15
  OBVIOUS
<1>3. QED
  BY <1>1, <1>2

(* The arguments and the derived block numbers, with their ranges.           *)
LEMMA Ranges ==
  ASSUME TypeOK
  PROVE  /\ start_offset \in Nat /\ data_len \in Nat
         /\ aes_start_block \in Nat /\ aes_end_block \in Nat /\ aes_block_no \in 0..15
         /\ start_offset = 16 * aes_start_block + aes_block_no
         /\ 16 * aes_end_block >= start_offset + data_len
         /\ 16 * aes_end_block <= start_offset + data_len + 15
         /\ Skip \in 0..15
<1>1. start_offset \in Nat /\ data_len \in Nat
  BY CryptAssumption DEF TypeOK
<1>2. /\ aes_start_block \in Nat /\ aes_end_block \in Nat /\ aes_block_no \in 0..15
      /\ start_offset = 16 * aes_start_block + aes_block_no
      /\ 16 * aes_end_block >= start_offset + data_len
      /\ 16 * aes_end_block <= start_offset + data_len + 15
  BY <1>1, BlockArithmetic DEF aes_start_block, aes_end_block, aes_block_no
<1>3. Skip \in 0..15
  BY <1>2 DEF Skip
<1>4. QED
  BY <1>1, <1>2, <1>3

(* The invariant holds when the loop is entered.                             *)
LEMMA CryptInit == Init => CryptInv
<1> SUFFICES ASSUME Init PROVE CryptInv
  OBVIOUS
<1>0. /\ start_offset \in Nat /\ data_len \in Nat /\ data_index = 0 /\ batch_no = 0
      /\ batch_start_block = aes_start_block /\ enc_key = [first |-> 0, end |-> 0]
      /\ used = [k \in 0..-1 |-> 0]
  BY CryptAssumption DEF Init
<1>1. /\ aes_start_block \in Nat /\ start_offset = 16 * aes_start_block + aes_block_no
  BY <1>0, BlockArithmetic DEF aes_start_block, aes_block_no
<1>2. TypeOK
  <2>1. used \in [0..(data_index - 1) -> Int]
    BY <1>0
  <2>2. QED
    BY <1>0, <1>1, <2>1 DEF Init, TypeOK
<1>3. Aligned
  BY <1>0, <1>1 DEF Aligned, Skip
<1>4. SameKeystream
  BY <1>0 DEF SameKeystream
<1>5. WithinBatch
  BY <1>0, CryptAssumption DEF WithinBatch
<1>6. QED
  BY <1>2, <1>3, <1>4, <1>5 DEF CryptInv

(* One batch: how far it reaches, and where the next one starts.             *)
LEMMA BatchStep ==
  ASSUME CryptInv, Batch
  PROVE  /\ 16 * batch_start_block + Skip = start_offset + data_index
         /\ current_batch_bytes \in Nat
         /\ data_index' \in 0..data_len
         /\ batch_end_block \in Nat
         /\ batch_end_block - batch_start_block <= NUM_AES_BLOCKS_IN_BATCH
         /\ start_offset + data_index' <= 16 * batch_end_block
         /\ \/ 16 * batch_start_block' = start_offset + data_index'
            \/ data_index' = data_len /\ batch_start_block' >= aes_end_block
<1> DEFINE N == NUM_AES_BLOCKS_IN_BATCH
           b == batch_start_block
           e == batch_end_block
           x == data_index
           s == start_offset
           n == data_len
           w == Skip
           z == aes_end_block
           c == current_batch_bytes
<1>0. TypeOK /\ Aligned /\ b < z
  BY DEF CryptInv, Batch
<1>1. /\ N \in Nat /\ N > 0 /\ b \in Nat /\ x \in Nat /\ x <= n
      /\ s \in Nat /\ n \in Nat /\ z \in Nat /\ w \in 0..15
      /\ 16 * z >= s + n /\ 16 * z <= s + n + 15
  BY <1>0, CryptAssumption, Ranges DEF TypeOK
<1>2. 16 * b + w = s + x
  BY <1>0, <1>1 DEF Aligned
<1>3. e \in Nat /\ e > b /\ e <= b + N /\ e <= z /\ (e = b + N \/ e = z)
  BY <1>0, <1>1 DEF batch_end_block, MinOf
<1>4. /\ c \in Nat /\ c <= n - x /\ c <= (e - b) * 16 - w
      /\ c = (e - b) * 16 - w \/ c = n - x
  BY <1>1, <1>3 DEF current_batch_bytes, MinOf
<1>5. data_index' = x + c /\ batch_start_block' = b + N
  BY DEF Batch
<1> HIDE DEF N, b, e, x, s, n, w, z, c
<1>6. x + c \in 0..n /\ s + (x + c) <= 16 * e
  BY <1>1, <1>2, <1>3, <1>4
<1>7. \/ 16 * (b + N) = s + (x + c)
      \/ x + c = n /\ b + N >= z
  BY <1>1, <1>2, <1>3, <1>4
<1>8. QED
  BY <1>1, <1>2, <1>3, <1>4, <1>5, <1>6, <1>7 DEF N, b, e, x, s, n, w, z, c

(* Every batch preserves the invariant.                                      *)
LEMMA CryptStep == CryptInv /\ [Next]_vars => CryptInv'
<1> SUFFICES ASSUME CryptInv, [Next]_vars PROVE CryptInv'
  OBVIOUS
<1>1. CASE Batch
  <2>0. /\ TypeOK /\ SameKeystream /\ start_offset' = start_offset
        /\ data_len' = data_len /\ NUM_AES_BLOCKS_IN_BATCH \in Nat
    BY <1>1, CryptAssumption DEF CryptInv, Batch
  <2>a. /\ start_offset \in Nat /\ data_len \in Nat /\ data_index \in Nat
        /\ batch_start_block \in Nat /\ Skip \in 0..15 /\ batch_no \in Nat
    BY <2>0, Ranges DEF TypeOK
  <2>b. /\ 16 * batch_start_block + Skip = start_offset + data_index
        /\ current_batch_bytes \in Nat
        /\ data_index' \in 0..data_len
        /\ batch_end_block \in Nat
        /\ batch_end_block - batch_start_block <= NUM_AES_BLOCKS_IN_BATCH
        /\ start_offset + data_index' <= 16 * batch_end_block
        /\ \/ 16 * batch_start_block' = start_offset + data_index'
           \/ data_index' = data_len /\ batch_start_block' >= aes_end_block
    BY <1>1, BatchStep
  <2>u. /\ DOMAIN used' = 0..(data_index' - 1)
        /\ used' = [k \in 0..(data_index' - 1) |-> used'[k]]
        /\ \A k \in 0..(data_index' - 1) : used'[k] = start_offset + k
    <3>1. used' = [k \in 0..(data_index' - 1) |->
                    IF k < data_index THEN used[k]
                    ELSE 16 * batch_start_block + enc_key_index(k)]
      BY <1>1 DEF Batch
    <3>2. ASSUME NEW k \in 0..(data_index' - 1) PROVE used'[k] = start_offset + k
      <4>1. CASE k < data_index
        <5>1. k \in 0..(data_index - 1)
          BY <2>a, <2>b, <4>1
        <5>2. QED
          BY <2>0, <3>1, <4>1, <5>1 DEF SameKeystream
      <4>2. CASE ~(k < data_index)
        <5>1. used'[k] = 16 * batch_start_block + ((k - data_index) + Skip)
          BY <3>1, <4>2 DEF enc_key_index
        <5>2. QED
          BY <2>a, <2>b, <5>1
      <4>3. QED
        BY <4>1, <4>2
    <3>3. QED
      BY <3>1, <3>2
  <2>1. TypeOK'
    <3>1. used' \in [0..(data_index' - 1) -> Int]
      BY <2>u, <2>a, <2>b
    <3>2. enc_key' \in [first : Nat, end : Nat]
      BY <1>1, <2>a, <2>b DEF Batch
    <3>3. batch_start_block' \in Nat /\ batch_no' \in Nat
      BY <1>1, <2>0, <2>a DEF Batch
    <3>4. QED
      BY <2>0, <2>b, <3>1, <3>2, <3>3 DEF TypeOK
  <2>2. Aligned'
    <3>1. batch_no' > 0
      BY <1>1, <2>a DEF Batch
    <3>2. Skip' = 0
      BY <3>1 DEF Skip
    <3>3. aes_end_block' = aes_end_block
      BY <2>0 DEF aes_end_block
    <3>4. batch_start_block' \in Nat
      BY <2>1 DEF TypeOK
    <3>5. QED
      BY <2>0, <2>b, <3>2, <3>3, <3>4 DEF Aligned
  <2>3. SameKeystream'
    BY <2>0, <2>u DEF SameKeystream
  <2>4. WithinBatch'
    <3>1. enc_key'.first = batch_start_block /\ enc_key'.end = batch_end_block
      BY <1>1 DEF Batch
    <3>2. ASSUME data_index' > 0 PROVE used'[data_index' - 1] < 16 * enc_key'.end
      <4>1. PICK d \in Nat : d = data_index' /\ d > 0
        BY <2>a, <2>b, <3>2
      <4>a. d > 0
        BY <4>1
      <4>2. d - 1 \in 0..(d - 1)
        BY <4>a
      <4>b. start_offset + d <= 16 * batch_end_block
        BY <2>b, <4>1
      <4>3. used'[d - 1] = start_offset + (d - 1)
        BY <2>u, <4>1, <4>2
      <4>4. start_offset + (d - 1) < 16 * batch_end_block
        BY <2>a, <2>b, <4>a, <4>b
      <4>5. QED
        BY <3>1, <4>1, <4>3, <4>4
    <3>3. QED
      BY <2>b, <3>1, <3>2 DEF WithinBatch
  <2>5. QED
    BY <2>1, <2>2, <2>3, <2>4 DEF CryptInv
<1>2. CASE UNCHANGED vars
  BY <1>2 DEF vars, CryptInv, TypeOK, Aligned, SameKeystream, WithinBatch, Skip,
              aes_end_block, aes_block_no
<1>3. QED
  BY <1>1, <1>2 DEF Next

(* The invariant holds always.                                             *)
LEMMA CryptInvariance == Spec => []CryptInv
  BY CryptInit, CryptStep, PTL DEF Spec

(* Every byte range is crypted with the keystream of its own position, the   *)
(* buffer is never overrun and the cursors stay in range, for every offset,  *)
(* length and batch size.                                                    *)
THEOREM CryptCorrect == Spec => [](TypeOK /\ SameKeystream /\ WithinBatch)
<1>1. CryptInv => TypeOK /\ SameKeystream /\ WithinBatch
  BY DEF CryptInv
<1>2. QED
  BY <1>1, CryptInvariance, PTL

(* When the loop of pg_tde_crypt over the batches ends, no byte of the data  *)
(* has been left out: rounding aes_end_block up covers the last partial      *)
(* block also when start_offset is in the middle of one.                     *)
THEOREM NothingLeftOut == Spec => []AllCrypted
<1>1. CryptInv => AllCrypted
  <2> SUFFICES ASSUME CryptInv, Done PROVE data_index = data_len
    BY DEF AllCrypted
  <2>1. /\ start_offset \in Nat /\ data_len \in Nat /\ data_index \in 0..data_len
        /\ batch_start_block \in Nat /\ Skip \in 0..15 /\ aes_end_block \in Nat
        /\ 16 * aes_end_block >= start_offset + data_len
        /\ batch_start_block >= aes_end_block
    BY Ranges DEF CryptInv, TypeOK, Done
  <2>2. QED
    BY <2>1 DEF CryptInv, Aligned
<1>2. QED
  BY <1>1, CryptInvariance, PTL

-----------------------------------------------------------------------------
(* Slices of a TOAST value                                                  *)

(* The arguments are those the callers pass, for the whole loop.            *)
Arguments ==
  /\ compressed \in BOOLEAN
  /\ attrsize \in Nat \ {0} /\ slicelength \in Nat \ {0} /\ sliceoffset \in Nat
  /\ sliceoffset + slicelength <= attrsize
  /\ compressed => sliceoffset = 0 /\ slicelength > Header
  /\ present \subseteq startchunk..endchunk

(* What is known of a byte of the slice once its chunk has been read.       *)
ByteFetched(p) ==
  /\ result[p].at = sliceoffset + p
  /\ sliceoffset = 0 => result[p].ks = {}

(* The loop invariant: the chunks before expectedchunk have been read.      *)
ToastInv ==
  /\ ToastTypeOK /\ Arguments
  /\ \A p \in 0..(slicelength - 1) : sliceoffset + p < expectedchunk * Chunk => ByteFetched(p)
  /\ pc = "done" => expectedchunk = endchunk + 1

-----------------------------------------------------------------------------
(* Division by the size of a chunk.                                         *)
LEMMA DivMod ==
  ASSUME NEW n \in Nat, NEW d \in Nat \ {0}
  PROVE  n \div d \in Nat /\ n % d \in 0..(d - 1) /\ n = (n \div d) * d + (n % d)
<1>1. n \div d \in Nat /\ n % d \in 0..(d - 1)
  OBVIOUS
<1>2. n \in Int /\ d \in Int /\ d > 0
  OBVIOUS
<1>3. n = d * (n \div d) + (n % d)
  BY <1>2
<1>4. PICK q \in Nat : q = n \div d
  BY <1>1
<1>5. PICK r \in Nat : r = n % d
  BY <1>1
<1>6. n = d * q + r
  BY <1>3, <1>4, <1>5
<1>7. d * q = q * d
  OBVIOUS
<1>8. QED
  BY <1>1, <1>4, <1>5, <1>6, <1>7

(* Multiples of the size of a chunk.                                        *)
LEMMA MulLess ==
  ASSUME NEW x \in Nat, NEW y \in Nat, NEW d \in Nat \ {0}
  PROVE  /\ x * d \in Nat
         /\ x < y => x * d + d <= y * d
         /\ x * d < y * d + d => x <= y
  OBVIOUS

(* A set of natural numbers that is not empty has a least one.              *)
LEMMA LeastNatural ==
  ASSUME NEW T, T \subseteq Nat, T # {}
  PROVE  \E x \in T : \A y \in T : x <= y
<1> DEFINE R == OpToRel(<, Nat)
<1>1. IsWellFoundedOn(R, Nat)
  BY NatLessThanWellFounded
<1>2. \A x, y \in Nat : y < x => <<y, x>> \in R
  BY DEF OpToRel
<1> HIDE DEF R
<1>3. PICK x \in T : \A y \in T : ~ (<<y, x>> \in R)
  BY <1>1, WFMin, Zenon
<1>4. \A y \in T : ~(y < x)
  BY <1>2, <1>3, Zenon
<1>5. QED
  BY <1>4

(* The chunks of a slice: it begins in startchunk, ends in endchunk, and    *)
(* only the value's last chunk is short.                                    *)
LEMMA SliceChunks ==
  ASSUME Arguments
  PROVE  /\ Chunk \in Nat \ {0} /\ Header \in Nat \ {0} /\ Header < Chunk
         /\ startchunk \in Nat /\ endchunk \in Nat /\ startchunk <= endchunk
         /\ sliceoffset % Chunk \in 0..(Chunk - 1)
         /\ sliceoffset = startchunk * Chunk + (sliceoffset % Chunk)
         /\ (sliceoffset + slicelength - 1) % Chunk \in 0..(Chunk - 1)
         /\ sliceoffset + slicelength - 1
              = endchunk * Chunk + ((sliceoffset + slicelength - 1) % Chunk)
         /\ totalchunks - 1 \in Nat /\ endchunk <= totalchunks - 1
         /\ startchunk * Chunk \in Nat /\ endchunk * Chunk \in Nat
<1> DEFINE last == sliceoffset + slicelength - 1
           top == attrsize - 1
           q == (attrsize - 1) \div Chunk
<1>1. /\ Chunk \in Nat \ {0} /\ Header \in Nat \ {0} /\ Header < Chunk
      /\ sliceoffset \in Nat /\ last \in Nat /\ top \in Nat /\ sliceoffset <= last /\ last <= top
  BY ToastAssumption DEF Arguments, Chunk, Header
<1>2. /\ startchunk \in Nat /\ sliceoffset % Chunk \in 0..(Chunk - 1)
      /\ sliceoffset = startchunk * Chunk + (sliceoffset % Chunk)
  BY <1>1, DivMod DEF startchunk
<1>3. endchunk \in Nat /\ last % Chunk \in 0..(Chunk - 1) /\ last = endchunk * Chunk + (last % Chunk)
  BY <1>1, DivMod DEF endchunk
<1>4. q \in Nat /\ top % Chunk \in 0..(Chunk - 1) /\ top = q * Chunk + (top % Chunk)
  BY <1>1, DivMod
<1>5. startchunk * Chunk \in Nat /\ endchunk * Chunk \in Nat /\ q * Chunk \in Nat
  BY <1>1, <1>2, <1>3, <1>4, MulLess
<1> HIDE DEF last, top, q
<1>6. startchunk * Chunk < endchunk * Chunk + Chunk /\ endchunk * Chunk < q * Chunk + Chunk
  <2> DEFINE s == startchunk * Chunk
             e == endchunk * Chunk
             t == q * Chunk
             rs == sliceoffset % Chunk
             re == last % Chunk
             rt == top % Chunk
  <2>1. /\ Chunk \in Nat /\ s \in Nat /\ e \in Nat /\ t \in Nat
        /\ sliceoffset = s + rs /\ last = e + re /\ top = t + rt
        /\ rs \in 0..(Chunk - 1) /\ re \in 0..(Chunk - 1) /\ rt \in 0..(Chunk - 1)
        /\ sliceoffset <= last /\ last <= top
    BY <1>1, <1>2, <1>3, <1>4, <1>5
  <2> HIDE DEF s, e, t, rs, re, rt
  <2>2. s < e + Chunk /\ e < t + Chunk
    BY <2>1
  <2>3. QED
    BY <2>2 DEF s, e, t
<1>7. startchunk <= endchunk /\ endchunk <= q
  BY <1>1, <1>2, <1>3, <1>4, <1>6, MulLess
<1>8. totalchunks - 1 = q
  BY <1>4 DEF totalchunks, q
<1>9. QED
  BY <1>1, <1>2, <1>3, <1>4, <1>5, <1>7, <1>8 DEF last

(* A chunk of the slice is copied from CopyStart to CopyEnd: all its bytes  *)
(* that belong to the slice.  A compression header, which only chunk 0 has, *)
(* fits between them.                                                       *)
LEMMA ChunkWindow ==
  ASSUME Arguments, NEW c \in startchunk..endchunk
  PROVE  /\ c \in Nat /\ c * Chunk \in Nat
         /\ CopyStart(c) \in 0..(Chunk - 1) /\ CopyEnd(c) \in 0..(Chunk - 1)
         /\ CopyStart(c) <= CopyEnd(c)
         /\ \A p \in 0..(slicelength - 1) :
              c * Chunk <= sliceoffset + p /\ sliceoffset + p < c * Chunk + Chunk
                => /\ c * Chunk + CopyStart(c) <= sliceoffset + p
                   /\ sliceoffset + p <= c * Chunk + CopyEnd(c)
         /\ compressed => CopyStart(c) = 0 /\ (c = 0 => Header <= CopyEnd(c))
<1>1. /\ Chunk \in Nat \ {0} /\ Header \in Nat \ {0} /\ Header < Chunk
      /\ startchunk \in Nat /\ endchunk \in Nat /\ startchunk <= endchunk
      /\ sliceoffset % Chunk \in 0..(Chunk - 1)
      /\ sliceoffset = startchunk * Chunk + (sliceoffset % Chunk)
      /\ (sliceoffset + slicelength - 1) % Chunk \in 0..(Chunk - 1)
      /\ sliceoffset + slicelength - 1
           = endchunk * Chunk + ((sliceoffset + slicelength - 1) % Chunk)
      /\ totalchunks - 1 \in Nat /\ endchunk <= totalchunks - 1
      /\ startchunk * Chunk \in Nat /\ endchunk * Chunk \in Nat
  BY SliceChunks
<1>2. c \in Nat /\ c * Chunk \in Nat
  BY <1>1, MulLess
<1>3. /\ c < endchunk => c * Chunk + Chunk <= endchunk * Chunk
      /\ startchunk < c => startchunk * Chunk + Chunk <= c * Chunk
  BY <1>1, <1>2, MulLess
<1>4. c < endchunk => CopyEnd(c) = Chunk - 1
  BY <1>1, <1>2 DEF CopyEnd, chunksize
<1>5. c = endchunk => CopyEnd(c) = (sliceoffset + slicelength - 1) % Chunk
  BY DEF CopyEnd
<1>6. /\ c = startchunk => CopyStart(c) = sliceoffset % Chunk
      /\ c # startchunk => CopyStart(c) = 0 /\ startchunk < c
  BY <1>1, <1>2 DEF CopyStart
<1>7. c < endchunk \/ c = endchunk
  BY <1>1, <1>2
<1> DEFINE from == CopyStart(c)
           to == CopyEnd(c)
           base == c * Chunk
           first == sliceoffset % Chunk
           last == (sliceoffset + slicelength - 1) % Chunk
<1>8. /\ Chunk \in Nat \ {0} /\ Header \in Nat \ {0} /\ Header < Chunk
      /\ sliceoffset \in Nat /\ slicelength \in Nat \ {0}
      /\ first \in 0..(Chunk - 1) /\ last \in 0..(Chunk - 1) /\ base \in Nat
  BY <1>1, <1>2 DEF Arguments
<1> DEFINE s == startchunk * Chunk
           e == endchunk * Chunk
<1>9. /\ s \in Nat /\ e \in Nat /\ sliceoffset = s + first /\ sliceoffset + slicelength - 1 = e + last
      /\ c < endchunk => to = Chunk - 1 /\ base + Chunk <= e
      /\ c = endchunk => to = last /\ base = e
      /\ c = startchunk => from = first /\ base = s
      /\ c # startchunk => from = 0 /\ s + Chunk <= base
  BY <1>1, <1>3, <1>4, <1>5, <1>6
<1>10. compressed => sliceoffset = 0 /\ slicelength > Header /\ (c = 0 => base = 0)
  BY <1>8 DEF Arguments
<1> HIDE DEF from, to, base, first, last, s, e
<1>11. /\ \/ to = Chunk - 1 /\ base + Chunk <= sliceoffset + slicelength - 1
          \/ to = last /\ base + last = sliceoffset + slicelength - 1
       /\ \/ from = first /\ base + first = sliceoffset
          \/ from = 0 /\ sliceoffset < base
  BY <1>7, <1>8, <1>9
<1>12. from \in 0..(Chunk - 1) /\ to \in 0..(Chunk - 1) /\ from <= to
  BY <1>8, <1>11
<1>13. ASSUME NEW p \in 0..(slicelength - 1), base <= sliceoffset + p, sliceoffset + p < base + Chunk
       PROVE  base + from <= sliceoffset + p /\ sliceoffset + p <= base + to
  BY <1>8, <1>11, <1>13
<1>14. compressed => from = 0 /\ (c = 0 => Header <= to)
  BY <1>8, <1>10, <1>11
<1>15. QED
  BY <1>2, <1>12, <1>13, <1>14 DEF from, to, base

(* XORing a byte with the keystream byte it is XORed with already leaves it *)
(* in the clear; a decrypted byte is still the same byte of the value.      *)
LEMMA DecryptTwice ==
  ASSUME NEW j, NEW k
  PROVE  /\ Decrypted(Stored(j), k).at = j
         /\ Stored(j).ks = {k} => Decrypted(Stored(j), k).ks = {}
  BY DEF Decrypted, Stored

-----------------------------------------------------------------------------
(* Before the first chunk no byte of the slice has been passed.             *)
LEMMA ToastInitInv == ToastInit => ToastInv
<1> SUFFICES ASSUME ToastInit PROVE ToastInv
  OBVIOUS
<1>1. Arguments
  <2>1. present \subseteq startchunk..endchunk
    BY DEF ToastInit
  <2>2. QED
    BY <2>1, ToastAssumption DEF ToastInit, Arguments
<1>2. ToastTypeOK
  <2>1. startchunk \in startchunk..(endchunk + 1)
    BY <1>1, SliceChunks
  <2>2. QED
    BY <2>1 DEF ToastInit, ToastTypeOK
<1>3. ASSUME NEW p \in 0..(slicelength - 1), sliceoffset + p < expectedchunk * Chunk
      PROVE  FALSE
  <2> DEFINE first == startchunk * Chunk
             rest == sliceoffset % Chunk
  <2>1. /\ first \in Nat /\ rest \in Nat /\ sliceoffset = first + rest
        /\ sliceoffset + p < first /\ p \in Nat
    BY <1>1, <1>3, SliceChunks DEF ToastInit
  <2> HIDE DEF first, rest
  <2>2. QED
    BY <2>1
<1>4. QED
  BY <1>1, <1>2, <1>3 DEF ToastInv, ToastInit

(* A chunk is read: the bytes of the slice that it holds are copied, and    *)
(* those of the chunks before it stay as they are.                          *)
LEMMA ReadInv ==
  ASSUME ToastInv, ReadChunk
  PROVE  ToastInv'
<1> DEFINE c == expectedchunk
           base == expectedchunk * Chunk
           from == CopyStart(expectedchunk)
           to == CopyEnd(expectedchunk)
<1>1. /\ UNCHANGED <<compressed, attrsize, sliceoffset, slicelength, present, pc>>
      /\ expectedchunk' = c + 1 /\ CopyChunk(c) /\ pc = "scan" /\ Rest # {}
  BY DEF ReadChunk
<1>2. ToastTypeOK /\ Arguments
  BY DEF ToastInv
<1>3. /\ Chunk \in Nat \ {0} /\ Header \in Nat \ {0} /\ Header < Chunk
      /\ sliceoffset \in Nat /\ slicelength \in Nat \ {0}
      /\ compressed \in BOOLEAN /\ (compressed => sliceoffset = 0)
      /\ startchunk \in Nat /\ endchunk \in Nat
  BY <1>2, SliceChunks DEF Arguments
<1>4. c \in startchunk..endchunk
  <2>1. PICK d \in present : d >= c
    BY <1>1 DEF Rest
  <2>2. d \in startchunk..endchunk /\ c \in startchunk..(endchunk + 1)
    BY <1>2 DEF Arguments, ToastTypeOK
  <2>3. QED
    BY <1>3, <2>1, <2>2
<1>5. /\ c \in Nat /\ base \in Nat
      /\ from \in 0..(Chunk - 1) /\ to \in 0..(Chunk - 1)
      /\ \A p \in 0..(slicelength - 1) :
           base <= sliceoffset + p /\ sliceoffset + p < base + Chunk
             => base + from <= sliceoffset + p /\ sliceoffset + p <= base + to
      /\ compressed => from = 0
  BY <1>2, <1>4, ChunkWindow
<1>6. (c + 1) * Chunk = base + Chunk
  BY <1>3, <1>5
<1>7. c = 0 => base = 0
  BY <1>3
<1>8. c # 0 => base >= Chunk
  <2>1. ASSUME c # 0 PROVE 0 * Chunk + Chunk <= base
    BY <1>3, <1>5, <2>1, MulLess
  <2>2. QED
    BY <1>3, <1>5, <2>1
<1>9. DOMAIN result = 0..(slicelength - 1)
  BY <1>2 DEF ToastTypeOK
<1>10. ASSUME NEW p \in 0..(slicelength - 1), base <= sliceoffset + p, sliceoffset + p < base + Chunk
       PROVE  result'[p].at = sliceoffset + p /\ (sliceoffset = 0 => result'[p].ks = {})
  <2> DEFINE k == ((sliceoffset + p) - base) - chcpystrt(c)
             ks == base - sliceoffset + encrypt_offset(c) + k
  <2>0. p \in DOMAIN result
    BY <1>9
  <2>1. result'[p] = IF k \in 0..(CopyLength(c) - 1) THEN Decrypted(Stored(sliceoffset + p), ks)
                     ELSE IF HasHeader(c) /\ p < Header THEN Stored(base + from + p)
                     ELSE result[p]
    BY <1>1, <2>0 DEF CopyChunk
  <2>2. base + from <= sliceoffset + p /\ sliceoffset + p <= base + to
    BY <1>5, <1>10
  <2>3. p \in Nat
    OBVIOUS
  <2>4. CASE HasHeader(c) /\ p < Header
    <3>1. compressed /\ c = 0 /\ base = 0 /\ sliceoffset = 0 /\ from = 0
      BY <1>3, <1>5, <1>7, <2>4 DEF HasHeader
    <3>2. chcpystrt(c) = Header
      BY <1>3, <2>4, <3>1 DEF chcpystrt
    <3>3. k \notin 0..(CopyLength(c) - 1)
      <4>1. k < 0
        BY <1>3, <2>3, <2>4, <3>1, <3>2
      <4>2. QED
        BY <4>1
    <3>4. result'[p] = Stored(p)
      BY <2>1, <2>3, <2>4, <3>1, <3>3
    <3>5. QED
      BY <2>3, <2>4, <3>1, <3>4 DEF Stored
  <2>5. CASE ~(HasHeader(c) /\ p < Header)
    <3>1. chcpystrt(c) \in Nat /\ CopyLength(c) = to - chcpystrt(c) + 1
      BY <1>3, <1>5 DEF chcpystrt, CopyLength
    <3>2. base + chcpystrt(c) <= sliceoffset + p
      <4>1. CASE HasHeader(c)
        <5>1. chcpystrt(c) = Header /\ base = 0 /\ sliceoffset = 0 /\ p >= Header
          BY <1>3, <1>5, <1>7, <2>3, <2>5, <4>1 DEF HasHeader, chcpystrt
        <5>2. QED
          BY <1>3, <2>3, <5>1
      <4>2. CASE ~HasHeader(c)
        BY <2>2, <4>2 DEF chcpystrt
      <4>3. QED
        BY <4>1, <4>2
    <3>3. k \in 0..(CopyLength(c) - 1)
      BY <1>3, <1>5, <2>2, <2>3, <3>1, <3>2
    <3>4. result'[p] = Decrypted(Stored(sliceoffset + p), ks)
      BY <2>1, <3>3
    <3>5. sliceoffset = 0 => Stored(sliceoffset + p).ks = {ks}
      <4> SUFFICES ASSUME sliceoffset = 0 PROVE Stored(p).ks = {ks}
        BY <2>3
      <4>1. CASE ~compressed
        <5>1. encrypt_offset(c) = from /\ chcpystrt(c) = from
          BY <4>1 DEF encrypt_offset, chcpystrt, HasHeader
        <5>2. ks = p
          BY <1>3, <1>5, <2>3, <5>1
        <5>3. QED
          BY <4>1, <5>2 DEF Stored
      <4>2. CASE compressed /\ c = 0
        <5>1. encrypt_offset(c) = 0 /\ chcpystrt(c) = Header /\ base = 0
          BY <1>3, <1>5, <1>7, <4>2 DEF encrypt_offset, chcpystrt, HasHeader
        <5>2. ks = p - Header /\ ~(p < Header)
          BY <1>3, <2>3, <2>5, <4>2, <5>1 DEF HasHeader
        <5>3. QED
          BY <4>2, <5>2 DEF Stored
      <4>3. CASE compressed /\ c # 0
        <5>1. encrypt_offset(c) = 0 - Header /\ chcpystrt(c) = 0
          BY <1>3, <1>5, <4>3 DEF encrypt_offset, chcpystrt, HasHeader
        <5>2. ks = p - Header /\ ~(p < Header)
          BY <1>3, <1>5, <1>8, <1>10, <2>3, <4>3, <5>1
        <5>3. QED
          BY <4>3, <5>2 DEF Stored
      <4>4. QED
        BY <1>3, <4>1, <4>2, <4>3
    <3> HIDE DEF ks
    <3>6. QED
      BY <3>4, <3>5, DecryptTwice
  <2>6. QED
    BY <2>4, <2>5
<1>11. ASSUME NEW p \in 0..(slicelength - 1), sliceoffset + p < base PROVE result'[p] = result[p]
  <2> DEFINE k == ((sliceoffset + p) - base) - chcpystrt(c)
             ks == base - sliceoffset + encrypt_offset(c) + k
  <2>0. p \in DOMAIN result
    BY <1>9
  <2>1. result'[p] = IF k \in 0..(CopyLength(c) - 1) THEN Decrypted(Stored(sliceoffset + p), ks)
                     ELSE IF HasHeader(c) /\ p < Header THEN Stored(base + from + p)
                     ELSE result[p]
    BY <1>1, <2>0 DEF CopyChunk
  <2>2. ~HasHeader(c)
    BY <1>3, <1>7, <1>11 DEF HasHeader
  <2>3. chcpystrt(c) \in Nat
    BY <1>3, <1>5 DEF chcpystrt
  <2>4. k < 0
    BY <1>3, <1>5, <1>11, <2>3
  <2>5. k \notin 0..(CopyLength(c) - 1)
    BY <2>4
  <2>6. QED
    BY <2>1, <2>2, <2>5
<1>12. \A p \in 0..(slicelength - 1) : sliceoffset + p < expectedchunk' * Chunk => ByteFetched(p)'
  <2> SUFFICES ASSUME NEW p \in 0..(slicelength - 1), sliceoffset + p < base + Chunk
               PROVE  result'[p].at = sliceoffset + p /\ (sliceoffset = 0 => result'[p].ks = {})
    BY <1>1, <1>6 DEF ByteFetched
  <2>1. CASE sliceoffset + p < base
    BY <1>11, <2>1 DEF ToastInv, ByteFetched
  <2>2. CASE base <= sliceoffset + p
    BY <1>10, <2>2
  <2>3. QED
    BY <1>3, <1>5, <2>1, <2>2
<1>13. startchunk' = startchunk /\ endchunk' = endchunk
  BY <1>1 DEF startchunk, endchunk
<1>14. ToastTypeOK'
  <2>1. DOMAIN result' = 0..(slicelength' - 1)
    BY <1>1, <1>9 DEF CopyChunk
  <2>2. expectedchunk' \in startchunk'..(endchunk' + 1)
    BY <1>1, <1>3, <1>4, <1>13
  <2>3. QED
    BY <1>1, <1>2, <2>1, <2>2 DEF ToastTypeOK
<1>15. Arguments'
  BY <1>1, <1>2, <1>13 DEF Arguments
<1>16. QED
  BY <1>1, <1>12, <1>14, <1>15 DEF ToastInv

(* Every step of the scan of the chunks keeps the invariant.                *)
LEMMA ToastStepInv == ToastInv /\ [ToastNext]_toastVars => ToastInv'
<1> SUFFICES ASSUME ToastInv, [ToastNext]_toastVars PROVE ToastInv'
  OBVIOUS
<1>1. CASE ReadChunk
  BY <1>1, ReadInv
<1>2. CASE UnexpectedChunk \/ EndScan \/ UNCHANGED toastVars
  <2>1. /\ UNCHANGED <<compressed, attrsize, sliceoffset, slicelength, present, expectedchunk, result>>
        /\ pc' \in {"scan", "done", "error"}
        /\ pc' = "done" => pc = "done" \/ expectedchunk = endchunk + 1
    BY <1>2 DEF UnexpectedChunk, EndScan, toastVars, ToastInv, ToastTypeOK
  <2>2. startchunk' = startchunk /\ endchunk' = endchunk
    BY <2>1 DEF startchunk, endchunk
  <2>3. ToastTypeOK' /\ Arguments'
    BY <2>1, <2>2 DEF ToastInv, ToastTypeOK, Arguments
  <2>4. \A p \in 0..(slicelength - 1) : ByteFetched(p)' <=> ByteFetched(p)
    BY <2>1 DEF ByteFetched
  <2>5. QED
    BY <2>1, <2>2, <2>3, <2>4 DEF ToastInv
<1>3. QED
  BY <1>1, <1>2 DEF ToastNext

(* The invariant holds always.                                             *)
LEMMA ToastInvariance == ToastSpec => []ToastInv
<1>1. ToastInit => ToastInv
  BY ToastInitInv
<1>2. ToastInv /\ [ToastNext]_toastVars => ToastInv'
  BY ToastStepInv
<1>3. QED
  BY <1>1, <1>2, PTL DEF ToastSpec

(* pg_tde_fetch_toast_slice never looks for a chunk outside the slice, and  *)
(* never writes beyond the result.                                          *)
THEOREM ToastTypeCorrect == ToastSpec => []ToastTypeOK
<1>1. ToastInv => ToastTypeOK
  BY DEF ToastInv
<1>2. QED
  BY <1>1, ToastInvariance, PTL

(* When pg_tde_fetch_toast_slice reports no missing chunk, every byte of    *)
(* the result is the byte of the value that belongs there, and one of a     *)
(* slice from offset 0 is decrypted: compressed or not, in whatever chunk.  *)
THEOREM SliceFetched == ToastSpec => []SliceDecrypted
<1>1. ToastInv => SliceDecrypted
  <2> SUFFICES ASSUME ToastInv, pc = "done", NEW p \in DOMAIN result PROVE ByteFetched(p)
    BY DEF SliceDecrypted, ByteFetched
  <2>1. Arguments /\ p \in 0..(slicelength - 1) /\ expectedchunk = endchunk + 1
    BY DEF ToastInv, ToastTypeOK
  <2> DEFINE base == endchunk * Chunk
             rest == (sliceoffset + slicelength - 1) % Chunk
  <2>2. /\ Chunk \in Nat \ {0} /\ endchunk \in Nat /\ base \in Nat /\ rest \in 0..(Chunk - 1)
        /\ sliceoffset + slicelength - 1 = base + rest
        /\ sliceoffset \in Nat /\ slicelength \in Nat
    BY <2>1, SliceChunks DEF Arguments
  <2>3. (endchunk + 1) * Chunk = base + Chunk
    BY <2>2
  <2> HIDE DEF base, rest
  <2>4. sliceoffset + p < base + Chunk
    BY <2>1, <2>2
  <2>5. QED
    BY <2>1, <2>3, <2>4 DEF ToastInv
<1>2. QED
  BY <1>1, ToastInvariance, PTL

(* The number of bytes that is handed to pg_tde_crypt for a chunk is never  *)
(* negative and never exceeds a chunk, so that decrypted_data holds them.   *)
THEOREM CopiesFit == ToastSpec => []CopyFits
<1>1. ToastInv => CopyFits
  <2> SUFFICES ASSUME ToastInv, Rest # {} PROVE CopyLength(NextChunk) \in 0..Chunk
    BY DEF CopyFits
  <2>1. /\ Arguments /\ Chunk \in Nat \ {0} /\ Header \in Nat \ {0} /\ Header < Chunk
        /\ startchunk \in Nat /\ endchunk \in Nat
    BY SliceChunks DEF ToastInv
  <2>2. Rest \subseteq startchunk..endchunk
    BY <2>1 DEF Rest, Arguments
  <2>3. \E c \in Rest : \A d \in Rest : c <= d
    <3>1. Rest \subseteq Nat
      BY <2>1, <2>2
    <3>2. QED
      BY <3>1, LeastNatural
  <2>4. NextChunk \in Rest
    BY <2>3 DEF NextChunk
  <2>5. PICK c \in startchunk..endchunk : c = NextChunk
    BY <2>2, <2>4
  <2>6. /\ CopyStart(c) \in 0..(Chunk - 1) /\ CopyEnd(c) \in 0..(Chunk - 1)
        /\ CopyStart(c) <= CopyEnd(c)
        /\ compressed => CopyStart(c) = 0 /\ (c = 0 => Header <= CopyEnd(c))
    BY <2>1, ChunkWindow
  <2>7. chcpystrt(c) \in Nat /\ chcpystrt(c) <= CopyEnd(c)
    BY <2>1, <2>6 DEF chcpystrt, HasHeader
  <2>8. CopyLength(c) \in 0..Chunk
    BY <2>1, <2>6, <2>7 DEF CopyLength
  <2>9. QED
    BY <2>5, <2>8
<1>2. QED
  BY <1>1, ToastInvariance, PTL

-----------------------------------------------------------------------------
(* Rows with long values                                                    *)

BytesRec == [text : Text \cup {Empty.text}, enc : BOOLEAN]
ValueRec ==
  [kind : {"null", "inline", "compressed", "external"}, bytes : BytesRec, id : Nat]
RowState == {"mine", "live", "dying", "gone"}
RowRec == [vals : [Attr -> ValueRec], want : [Attr -> New], state : RowState]
EntryRec == [kind : {"inline", "compressed"}, bytes : BytesRec, state : {"mine", "live", "gone"}]
StmtRec ==
  [pc : {"idle", "insert", "update"}, row : Nat, slot : [Attr -> ValueRec],
   want : [Attr -> New]]

RowTypeOK ==
  /\ rows \in Seq(RowRec) /\ toast \in Seq(EntryRec)
  /\ stmt \in StmtRec /\ nstmt \in Nat

(* v, with entries T, reads back as w.                                       *)
Crypted(bytes) == [bytes EXCEPT !.enc = ~@]
Reads(T, v, w) ==
  IF v.kind = "external"
  THEN v.id \in DOMAIN T /\ T[v.id].bytes = Crypted(w.bytes)
  ELSE v.bytes = w.bytes

(* The entries of a row come and stay with it, also when it is deleted.      *)
Lasts(T, s, v) ==
  v.kind = "external" =>
    /\ s = "mine" => T[v.id].state = "mine"
    /\ s \in {"live", "dying"} => T[v.id].state = "live"

ValuesRead(T, vals, want) == \A a \in Attr : Reads(T, vals[a], want[a])
RowFine(T, r) ==
  /\ ValuesRead(T, r.vals, r.want)
  /\ \A a \in Attr : Lasts(T, r.state, r.vals[a])
RowsFine == \A i \in DOMAIN rows : RowFine(toast, rows[i])

StmtFine ==
  /\ stmt.pc # "idle" => ValuesRead(toast, stmt.slot, stmt.want)
  /\ stmt.pc = "update" => stmt.row \in DOMAIN rows /\ Seen(rows[stmt.row].state)

RowsInv == RowTypeOK /\ RowsFine /\ StmtFine

-----------------------------------------------------------------------------
Rank(out, a) == Cardinality({b \in out : b <= a})

(* Ranks number the members of a set of attributes from 1 on.                *)
LEMMA Ranks ==
  ASSUME NEW out \in SUBSET Attr
  PROVE  /\ Cardinality(out) \in Nat
         /\ \A a \in out : Rank(out, a) \in 1..Cardinality(out)
         /\ \A a, b \in out : Rank(out, a) = Rank(out, b) => a = b
         /\ \A i \in 1..Cardinality(out) : \E a \in out : Rank(out, a) = i
<1> DEFINE Upto(a) == {b \in out : b <= a}
           n == Cardinality(out)
<1>1. IsFiniteSet(out) /\ n \in Nat /\ out \subseteq Int
  BY ToastRowAssumption, FS_Subset, FS_CardinalityType
<1>2. ASSUME NEW a \in out
      PROVE  IsFiniteSet(Upto(a)) /\ Cardinality(Upto(a)) \in 1..n
  <2>1. Upto(a) \in SUBSET out /\ a \in Upto(a)
    BY <1>1
  <2>2. IsFiniteSet(Upto(a)) /\ Cardinality(Upto(a)) <= n
    BY <1>1, <2>1, FS_Subset
  <2>3. Cardinality(Upto(a)) \in Nat /\ Cardinality(Upto(a)) # 0
    BY <2>1, <2>2, FS_CardinalityType, FS_EmptySet
  <2> QED
    BY <1>1, <2>2, <2>3
<1>3. ASSUME NEW a \in out, NEW b \in out, a < b
      PROVE  Cardinality(Upto(a)) # Cardinality(Upto(b))
  <2>1. \A c \in out : c <= a => c <= b
    BY <1>1, <1>3
  <2>2. b <= b /\ ~(b <= a)
    BY <1>1, <1>3
  <2>3. Upto(a) \in SUBSET Upto(b) /\ b \in Upto(b) /\ b \notin Upto(a)
    BY <2>1, <2>2
  <2> QED
    BY <1>2, <2>3, FS_Subset
<1>4. \A a, b \in out : Rank(out, a) = Rank(out, b) => a = b
  <2> SUFFICES ASSUME NEW a \in out, NEW b \in out, Rank(out, a) = Rank(out, b), a # b
               PROVE  FALSE
    OBVIOUS
  <2>1. a < b \/ b < a
    BY <1>1
  <2> QED
    BY <1>3, <2>1 DEF Rank
<1>5. \A i \in 1..n : \E a \in out : Rank(out, a) = i
  <2> DEFINE f == [a \in out |-> Rank(out, a)]
  <2>1. f \in [out -> 1..n]
    BY <1>2 DEF Rank
  <2>2. f \in Injection(out, 1..n)
    BY <2>1, <1>4 DEF Injection, IsInjective
  <2>3. IsFiniteSet(1..n) /\ Cardinality(1..n) = n
    <3>1. 1 \in Int /\ n \in Int
      BY <1>1
    <3>2. Cardinality(1..n) = IF 1 > n THEN 0 ELSE n - 1 + 1
      BY <3>1, FS_Interval
    <3> QED
      BY <1>1, <3>1, <3>2, FS_Interval
  <2>4. f \in Surjection(out, 1..n)
    BY <2>2, <2>3, FS_Injection
  <2> QED
    BY <2>4 DEF Surjection
<1> QED
  BY <1>1, <1>2, <1>4, <1>5 DEF Rank

(* Crypted twice, bytes are what they were.                                  *)
LEMMA CryptedTwice ==
  ASSUME NEW bytes \in BytesRec
  PROVE  Crypted(bytes) \in BytesRec /\ Crypted(Crypted(bytes)) = bytes
  BY DEF BytesRec, Crypted

(* The bytes of a value that is not there.                                   *)
LEMMA EmptyBytes == Empty \in BytesRec
<1> DEFINE e == ""
<1>1. Empty = [text |-> e, enc |-> FALSE]
  BY DEF Empty
<1> HIDE DEF e
<1>2. Empty.text = e
  BY <1>1
<1> QED
  BY <1>1, <1>2 DEF BytesRec

(* Values are records.                                                       *)
LEMMA Values ==
  ASSUME NEW kind \in {"null", "inline", "compressed", "external"}, NEW bytes \in BytesRec,
         NEW id \in Nat
  PROVE  /\ Value(kind, bytes, id) \in ValueRec
         /\ Value(kind, bytes, id).kind = kind /\ Value(kind, bytes, id).bytes = bytes
         /\ Value(kind, bytes, id).id = id
  BY DEF Value, ValueRec

(* No statement.                                                             *)
LEMMA IdleFine == Idle \in StmtRec /\ Idle.pc = "idle"
<1>1. Null \in ValueRec
  BY EmptyBytes, Values DEF Null
<1>2. Null \in New
  BY DEF New
<1> QED
  BY <1>1, <1>2 DEF Idle, StmtRec

(* What a statement may bring is plain and lies in the row.                  *)
LEMMA NewPlain ==
  ASSUME NEW w \in New
  PROVE  w \in ValueRec /\ w.kind \in {"null", "inline"} /\ w.bytes \in BytesRec
<1>1. Empty \in BytesRec
  BY EmptyBytes
<1>2. \A t \in Text : Plain(t) \in BytesRec
  BY DEF Plain, BytesRec
<1>3. w = Value("null", Empty, 0) \/ \E t \in Text : w = Value("inline", Plain(t), 0)
  BY DEF New, Null, Inline
<1>4. w.kind \in {"null", "inline"} /\ w.bytes \in BytesRec /\ w = Value(w.kind, w.bytes, 0)
  BY <1>1, <1>2, <1>3 DEF Value
<1> QED
  BY <1>4, Values

(* Entries that are added leave what can be read as it is.                   *)
LEMMA EntriesAdded ==
  ASSUME NEW T, NEW U, DOMAIN T \subseteq DOMAIN U, \A i \in DOMAIN T : U[i] = T[i],
         NEW v, NEW w, Reads(T, v, w)
  PROVE  /\ Reads(U, v, w)
         /\ \A s \in RowState : Lasts(T, s, v) => Lasts(U, s, v)
<1>1. CASE v.kind = "external"
  <2>1. v.id \in DOMAIN T
    BY <1>1 DEF Reads
  <2>2. v.id \in DOMAIN U /\ U[v.id] = T[v.id]
    BY <2>1
  <2> QED
    BY <2>2, Zenon DEF Reads, Lasts
<1>2. CASE v.kind # "external"
  BY <1>2, Zenon DEF Reads, Lasts
<1> QED
  BY <1>1, <1>2

(* A new row and its entries T, behind those there are.                      *)
ReadsBack(T, vals) ==
  /\ vals \in [Attr -> ValueRec] /\ T \in Seq(EntryRec)
  /\ DOMAIN toast \subseteq DOMAIN T /\ \A i \in DOMAIN toast : T[i] = toast[i]
  /\ ValuesRead(T, vals, stmt.want)
  /\ \A a \in Attr : Lasts(T, "mine", vals[a])

(* The toaster: the row reads back as the statement means it, from entries   *)
(* of its own, and no other entry changes, if no value of the old tuple is   *)
(* taken for a toast pointer.                                                *)
LEMMA Toasted ==
  ASSUME RowsInv, stmt.pc # "idle", NEW old, \A a \in Attr : old[a].kind # "external",
         NEW zip \in SUBSET Attr, NEW out \in SUBSET Attr, MayToast(ToToast(old), zip, out),
         NEW new, new = pg_tde_toast_insert_or_update(ToToast(old), old, zip, out)
  PROVE  ReadsBack(new.toast, new.vals)
<1> DEFINE vals == ToToast(old)
           small == Shrunk(vals, zip)
           n == Cardinality(out)
           E == Entries(small, out)
<1>1. Kept(old, stmt.slot) = {} /\ Unneeded(old, stmt.slot) = {}
  BY DEF Kept, Unneeded
<1>2. /\ toast \in Seq(EntryRec) /\ Len(toast) \in Nat /\ DOMAIN toast = 1..Len(toast)
      /\ \A i \in DOMAIN toast : toast[i] \in EntryRec
  BY LenProperties DEF RowsInv, RowTypeOK
<1>3. ASSUME NEW a \in Attr
      PROVE  /\ vals[a] \in ValueRec /\ vals[a].kind # "external"
             /\ vals[a].bytes = stmt.want[a].bytes /\ vals[a].bytes \in BytesRec
  <2> DEFINE v == stmt.slot[a]
             w == stmt.want[a]
  <2>1. vals[a] = Fetched(v)
    BY <1>1 DEF ToToast
  <2>2. v \in ValueRec /\ w \in New /\ Reads(toast, v, w)
    BY DEF RowsInv, RowTypeOK, StmtRec, StmtFine, ValuesRead
  <2>3. w.bytes \in BytesRec
    BY <2>2, NewPlain
  <2>4. CASE v.kind # "external"
    BY <2>1, <2>2, <2>3, <2>4 DEF Fetched, Reads
  <2>5. CASE v.kind = "external"
    <3>1. v.id \in DOMAIN toast /\ toast[v.id].bytes = Crypted(w.bytes)
      BY <2>2, <2>5 DEF Reads
    <3>2. toast[v.id].kind \in {"inline", "compressed"}
      BY <1>2, <3>1 DEF EntryRec
    <3>3. vals[a] = Value(toast[v.id].kind, Crypted(toast[v.id].bytes), 0)
      BY <2>1, <2>5 DEF Fetched, Crypted
    <3>4. Crypted(toast[v.id].bytes) = w.bytes
      BY <2>3, <3>1, CryptedTwice
    <3> QED
      BY <2>3, <3>2, <3>3, <3>4 DEF Value, ValueRec
  <2> QED
    BY <2>4, <2>5
<1>4. ASSUME NEW a \in Attr
      PROVE  /\ small[a] \in ValueRec /\ small[a].kind # "external"
             /\ small[a].bytes = stmt.want[a].bytes /\ small[a].bytes \in BytesRec
             /\ a \in out => small[a].kind \in {"inline", "compressed"}
  <2>1. a \in out => vals[a].kind \in {"inline", "compressed"}
    BY DEF MayToast
  <2>2. small[a] = IF a \in zip THEN Compressed(vals[a].bytes) ELSE vals[a]
    BY DEF Shrunk
  <2> QED
    BY <1>3, <2>1, <2>2 DEF Compressed, Value, ValueRec
<1>5. /\ n \in Nat
      /\ E \in [1..n -> EntryRec]
      /\ \A a \in out : /\ Rank(out, a) \in 1..n
                        /\ E[Rank(out, a)].bytes = Crypted(stmt.want[a].bytes)
                        /\ E[Rank(out, a)].state = "mine"
  <2>1. n \in Nat
    BY Ranks
  <2>2. \A a \in out : NewId(out, a) = Len(toast) + Rank(out, a)
    BY DEF NewId, Rank
  <2>3. ASSUME NEW i \in 1..n
        PROVE  \E a \in out : /\ Rank(out, a) = i /\ E[i].bytes = Crypted(small[a].bytes)
                              /\ E[i].kind = small[a].kind /\ E[i].state = "mine"
                              /\ E[i] \in EntryRec
    <3> DEFINE c == CHOOSE a \in out : NewId(out, a) = Len(toast) + i
    <3>1. \E a \in out : NewId(out, a) = Len(toast) + i
      BY <2>2, Ranks
    <3>2. c \in out /\ NewId(out, c) = Len(toast) + i
      BY <3>1
    <3>3. Rank(out, c) \in Nat /\ i \in Nat
      BY <2>1, <3>2, Ranks
    <3>4. Rank(out, c) = i
      BY <1>2, <2>2, <3>2, <3>3
    <3>5. E[i] = [kind |-> small[c].kind, bytes |-> PG_TDE_ENCRYPT_DATA(small[c].bytes),
                  state |-> "mine"]
      BY DEF Entries
    <3>6. E[i] = [kind |-> small[c].kind, bytes |-> Crypted(small[c].bytes), state |-> "mine"]
      BY <3>5 DEF PG_TDE_ENCRYPT_DATA, Crypted
    <3>7. small[c].kind \in {"inline", "compressed"} /\ Crypted(small[c].bytes) \in BytesRec
      BY <1>4, <3>2, CryptedTwice
    <3> HIDE DEF c, small, E
    <3>8. E[i] \in EntryRec
      BY <3>6, <3>7 DEF EntryRec
    <3>9. /\ E[i].bytes = Crypted(small[c].bytes) /\ E[i].kind = small[c].kind
          /\ E[i].state = "mine"
      BY <3>6
    <3> QED
      BY <3>2, <3>4, <3>8, <3>9
  <2>4. E = [i \in 1..n |-> E[i]]
    BY DEF Entries
  <2>5. E \in [1..n -> EntryRec]
    <3> HIDE DEF E
    <3> QED
      BY <2>3, <2>4
  <2>6. ASSUME NEW a \in out
        PROVE  /\ Rank(out, a) \in 1..n /\ E[Rank(out, a)].bytes = Crypted(stmt.want[a].bytes)
               /\ E[Rank(out, a)].state = "mine"
    <3> HIDE DEF E, small
    <3>1. Rank(out, a) \in 1..n
      BY Ranks
    <3>2. PICK b \in out : /\ Rank(out, b) = Rank(out, a)
                           /\ E[Rank(out, a)].bytes = Crypted(small[b].bytes)
                           /\ E[Rank(out, a)].state = "mine"
      BY <2>3, <3>1
    <3>3. b = a
      BY <3>2, Ranks
    <3>4. small[a].bytes = stmt.want[a].bytes
      BY <1>4
    <3> QED
      BY <3>1, <3>2, <3>3, <3>4
  <2> QED
    BY <2>1, <2>5, <2>6
<1> HIDE DEF E
<1>6. new.toast = toast \o E
  <2>1. new.toast = Deleted(Unneeded(old, stmt.slot)) \o E
    BY DEF pg_tde_toast_insert_or_update, E
  <2>2. Deleted({}) = [i \in DOMAIN toast |-> toast[i]]
    BY DEF Deleted
  <2>3. [i \in DOMAIN toast |-> toast[i]] = toast
    BY <1>2
  <2> QED
    BY <1>1, <2>1, <2>2, <2>3
<1>7. E \in Seq(EntryRec) /\ Len(E) = n
  BY <1>5
<1>8. /\ new.toast \in Seq(EntryRec) /\ Len(new.toast) = Len(toast) + n
      /\ \A i \in 1..(Len(toast) + n) :
           new.toast[i] = IF i <= Len(toast) THEN toast[i] ELSE E[i - Len(toast)]
  <2>1. /\ toast \o E \in Seq(EntryRec) /\ Len(toast \o E) = Len(toast) + Len(E)
        /\ \A i \in 1..(Len(toast) + Len(E)) :
             (toast \o E)[i] = IF i <= Len(toast) THEN toast[i] ELSE E[i - Len(toast)]
    BY <1>2, <1>7, ConcatProperties
  <2> QED
    BY <1>6, <1>7, <2>1, Zenon
<1>9. DOMAIN new.toast = 1..(Len(toast) + n)
  BY <1>8, LenProperties
<1>10. DOMAIN toast \subseteq DOMAIN new.toast /\ \A i \in DOMAIN toast : new.toast[i] = toast[i]
  <2>1. \A i \in 1..Len(toast) : i \in 1..(Len(toast) + n) /\ i <= Len(toast)
    BY <1>2, <1>5
  <2> HIDE DEF n
  <2> QED
    BY <1>2, <1>8, <1>9, <2>1
<1>11. ASSUME NEW a \in Attr
       PROVE  /\ new.vals[a] \in ValueRec /\ Reads(new.toast, new.vals[a], stmt.want[a])
              /\ Lasts(new.toast, "mine", new.vals[a])
  <2>1. new.vals[a] = IF a \in out THEN External(NewId(out, a)) ELSE small[a]
    BY DEF pg_tde_toast_insert_or_update
  <2>2. CASE a \notin out
    <3> HIDE DEF small
    <3> QED
      BY <1>4, <2>1, <2>2 DEF Reads, Lasts
  <2>3. CASE a \in out
    <3> DEFINE k == Len(toast) + Rank(out, a)
    <3>1. Rank(out, a) \in 1..n /\ Rank(out, a) \in Nat
      BY <1>5, <2>3
    <3>2. /\ k \in Nat /\ k \in 1..(Len(toast) + n) /\ ~(k <= Len(toast))
          /\ k - Len(toast) = Rank(out, a)
      BY <1>2, <1>5, <3>1
    <3>3. k \in DOMAIN new.toast /\ new.toast[k] = E[Rank(out, a)]
      BY <1>8, <1>9, <3>2
    <3>4. new.vals[a] = External(k)
      BY <2>1, <2>3 DEF NewId, Rank
    <3> HIDE DEF k
    <3>5. /\ new.vals[a].kind = "external" /\ new.vals[a].id = k
          /\ new.vals[a] \in ValueRec
      BY <3>2, <3>4, EmptyBytes, Values DEF External
    <3>6. new.toast[k].bytes = Crypted(stmt.want[a].bytes) /\ new.toast[k].state = "mine"
      BY <1>5, <2>3, <3>3
    <3> QED
      BY <3>3, <3>5, <3>6 DEF Reads, Lasts
  <2> QED
    BY <2>2, <2>3
<1>12. new.vals = [a \in Attr |-> new.vals[a]]
  BY DEF pg_tde_toast_insert_or_update
<1> QED
  BY <1>8, <1>10, <1>11, <1>12 DEF ValuesRead, ReadsBack

(* A statement that stores a row: its values read back, its predecessor is    *)
(* deleted, if there is one, and all others stay as they were.               *)
LEMMA RowStored ==
  ASSUME RowsInv, stmt.pc # "idle", NEW old, \A a \in Attr : old[a].kind # "external",
         NEW zip \in SUBSET Attr, NEW out \in SUBSET Attr, MayToast(ToToast(old), zip, out),
         NEW new, new = pg_tde_toast_insert_or_update(ToToast(old), old, zip, out),
         NEW others \in Seq(RowRec), \A i \in DOMAIN others : RowFine(toast, others[i]),
         rows' = Append(others, RowVersion(new.vals)), toast' = new.toast,
         stmt' = Idle, UNCHANGED nstmt
  PROVE  RowsInv'
<1>1. /\ new.vals \in [Attr -> ValueRec] /\ toast' \in Seq(EntryRec)
      /\ DOMAIN toast \subseteq DOMAIN toast' /\ \A i \in DOMAIN toast : toast'[i] = toast[i]
      /\ ValuesRead(toast', new.vals, stmt.want)
      /\ \A a \in Attr : Lasts(toast', "mine", new.vals[a])
  <2>1. ReadsBack(new.toast, new.vals)
    BY Toasted
  <2>2. ReadsBack(toast', new.vals)
    BY <2>1
  <2> QED
    BY <2>2 DEF ReadsBack
<1> DEFINE row == RowVersion(new.vals)
<1>2. /\ row = [vals |-> new.vals, want |-> stmt.want, state |-> "mine"]
      /\ row.vals = new.vals /\ row.want = stmt.want /\ row.state = "mine"
  BY DEF RowVersion
<1>3. row \in RowRec
  <2>1. stmt.want \in [Attr -> New]
    BY DEF RowsInv, RowTypeOK, StmtRec
  <2> QED
    BY <1>1, <1>2, <2>1 DEF RowRec, RowState
<1>4. RowFine(toast', row)
  BY <1>1, <1>2 DEF RowFine
<1>5. ASSUME NEW i \in DOMAIN others
      PROVE  RowFine(toast', others[i])
  <2>1. others[i] \in RowRec
    BY LenProperties
  <2>2. others[i].state \in RowState
    BY <2>1 DEF RowRec
  <2>3. \A a \in Attr : /\ Reads(toast', others[i].vals[a], others[i].want[a])
                        /\ Lasts(toast', others[i].state, others[i].vals[a])
    BY <1>1, <2>2, EntriesAdded DEF RowFine, ValuesRead
  <2> QED
    BY <2>3 DEF RowFine, ValuesRead
<1> HIDE DEF row
<1>6. /\ rows' \in Seq(RowRec) /\ DOMAIN rows' = 1..(Len(others) + 1) /\ Len(others) \in Nat
      /\ DOMAIN others = 1..Len(others)
      /\ rows'[Len(others) + 1] = row /\ \A i \in 1..Len(others) : rows'[i] = others[i]
  <2>1. rows' = Append(others, row)
    BY DEF row
  <2> QED
    BY <1>3, <2>1, LenProperties
<1>7. RowsFine'
  <2> SUFFICES ASSUME NEW i \in DOMAIN rows' PROVE RowFine(toast', rows'[i])
    BY DEF RowsFine
  <2>1. i \in 1..Len(others) \/ i = Len(others) + 1
    BY <1>6
  <2> QED
    BY <1>4, <1>5, <1>6, <2>1
<1>8. Idle \in StmtRec /\ Idle.pc = "idle"
  BY IdleFine
<1>9. StmtFine'
  BY <1>8 DEF StmtFine
<1>10. RowTypeOK'
  BY <1>1, <1>6, <1>8 DEF RowTypeOK, RowsInv
<1> QED
  BY <1>7, <1>9, <1>10 DEF RowsInv

(* Deleting a version that the statement sees keeps it readable until the    *)
(* transaction ends, and its entries with it.                                *)
LEMMA DeletedFine ==
  ASSUME RowsInv, NEW r \in DOMAIN rows, Seen(rows[r].state),
         NEW others, others = [rows EXCEPT ![r].state = OnDelete(@)]
  PROVE  /\ others \in Seq(RowRec)
         /\ \A i \in DOMAIN others : RowFine(toast, others[i])
<1>1. /\ rows \in Seq(RowRec) /\ Len(rows) \in Nat /\ DOMAIN rows = 1..Len(rows)
      /\ \A i \in DOMAIN rows : rows[i] \in RowRec
  BY LenProperties DEF RowsInv, RowTypeOK
<1> DEFINE row == [rows[r] EXCEPT !.state = OnDelete(@)]
<1>2. /\ row \in RowRec /\ row.vals = rows[r].vals /\ row.want = rows[r].want
      /\ row.state = IF rows[r].state = "mine" THEN "gone" ELSE "dying"
  BY <1>1 DEF RowRec, OnDelete, RowState
<1>3. others = [rows EXCEPT ![r] = row]
  OBVIOUS
<1>4. RowFine(toast, row)
  <2>1. RowFine(toast, rows[r])
    BY DEF RowsInv, RowsFine
  <2>2. rows[r].state \in {"mine", "live"}
    BY DEF Seen
  <2> HIDE DEF row
  <2>3. ValuesRead(toast, row.vals, row.want)
    BY <1>2, <2>1 DEF RowFine
  <2>4. ASSUME NEW a \in Attr PROVE Lasts(toast, row.state, row.vals[a])
    <3>1. Lasts(toast, rows[r].state, rows[r].vals[a])
      BY <2>1 DEF RowFine
    <3> QED
      BY <1>2, <2>2, <3>1 DEF Lasts
  <2> QED
    BY <2>3, <2>4 DEF RowFine
<1> HIDE DEF row
<1>5. /\ others \in Seq(RowRec) /\ DOMAIN others = DOMAIN rows
      /\ \A i \in DOMAIN rows : others[i] = IF i = r THEN row ELSE rows[i]
  BY <1>1, <1>2, <1>3
<1> QED
  BY <1>4, <1>5 DEF RowsInv, RowsFine

(* What lies on the page is never taken for a toast pointer.                 *)
LEMMA OnPageNoPointer ==
  ASSUME NEW vals, NEW a \in Attr
  PROVE  DeformOnPage(vals)[a].kind # "external"
  BY DEF DeformOnPage, Null, Inline, Value

-----------------------------------------------------------------------------
(* One lemma for each kind of step                                          *)

(* A statement begins with values that read back as it means them.           *)
LEMMA BeginStep ==
  ASSUME RowsInv, NEW next \in {"insert", "update"}, NEW r \in Nat, NEW slot \in [Attr -> ValueRec],
         NEW want \in [Attr -> New], Begin(next, r, slot, want),
         ValuesRead(toast, slot, want),
         next = "update" => r \in DOMAIN rows /\ Seen(rows[r].state)
  PROVE  RowsInv'
<1>1. /\ stmt' = [pc |-> next, row |-> r, slot |-> slot, want |-> want]
      /\ rows' = rows /\ toast' = toast /\ nstmt' = nstmt + 1
  BY DEF Begin
<1>2. stmt'.pc = next /\ stmt'.row = r /\ stmt'.slot = slot /\ stmt'.want = want
  BY <1>1
<1>3. RowTypeOK'
  BY <1>1 DEF RowsInv, RowTypeOK, StmtRec
<1>4. RowsFine'
  BY <1>1 DEF RowsInv, RowsFine
<1>5. StmtFine'
  BY <1>1, <1>2 DEF StmtFine
<1> QED
  BY <1>3, <1>4, <1>5 DEF RowsInv

(* An INSERT brings plain values.                                           *)
LEMMA InsertStmtStep ==
  ASSUME RowsInv, NEW vals \in [Attr -> New], InsertStmt(vals)
  PROVE  RowsInv'
<1>1. \A a \in Attr : vals[a] \in ValueRec /\ Reads(toast, vals[a], vals[a])
  BY NewPlain DEF Reads
<1>2. vals \in [Attr -> ValueRec] /\ ValuesRead(toast, vals, vals)
  BY <1>1 DEF ValuesRead
<1> QED
  BY <1>2, BeginStep DEF InsertStmt

(* An UPDATE takes what it does not set from the row, which it sees.        *)
LEMMA UpdateStmtStep ==
  ASSUME RowsInv, NEW r \in DOMAIN rows, NEW set \in SUBSET Attr, NEW vals \in [Attr -> New],
         UpdateStmt(r, set, vals)
  PROVE  RowsInv'
<1> DEFINE slot == [a \in Attr |-> IF a \in set THEN vals[a] ELSE rows[r].vals[a]]
           want == [a \in Attr |-> IF a \in set THEN vals[a] ELSE rows[r].want[a]]
<1>1. rows[r] \in RowRec /\ r \in Nat
  BY LenProperties DEF RowsInv, RowTypeOK
<1>2. RowFine(toast, rows[r])
  BY DEF RowsInv, RowsFine
<1>3. \A a \in Attr : vals[a] \in ValueRec /\ Reads(toast, vals[a], vals[a])
  BY NewPlain DEF Reads
<1>4. slot \in [Attr -> ValueRec] /\ want \in [Attr -> New]
  BY <1>1, <1>3 DEF RowRec
<1>5. ValuesRead(toast, slot, want)
  BY <1>2, <1>3 DEF RowFine, ValuesRead
<1>6. Begin("update", r, slot, want) /\ Seen(rows[r].state)
  BY DEF UpdateStmt
<1> HIDE DEF slot, want
<1> QED
  BY <1>1, <1>4, <1>5, <1>6, BeginStep

(* The new row reads back.                                                  *)
LEMMA InsertStep ==
  ASSUME RowsInv, NEW zip \in SUBSET Attr, NEW out \in SUBSET Attr,
         pg_tde_insert(FALSE, zip, out)
  PROVE  RowsInv'
<1> DEFINE none == [a \in Attr |-> Null]
           new == pg_tde_toast_insert_or_update(ToToast(none), none, zip, out)
<1>1. /\ stmt.pc = "insert" /\ MayToast(ToToast(none), zip, out)
      /\ rows' = Append(rows, RowVersion(new.vals)) /\ toast' = new.toast
      /\ stmt' = Idle /\ nstmt' = nstmt
  BY DEF pg_tde_insert
<1>2. \A a \in Attr : none[a].kind # "external"
  BY DEF Null, Value
<1>3. rows \in Seq(RowRec) /\ \A i \in DOMAIN rows : RowFine(toast, rows[i])
  BY DEF RowsInv, RowTypeOK, RowsFine
<1> HIDE DEF none, new
<1>4. new = pg_tde_toast_insert_or_update(ToToast(none), none, zip, out)
  BY DEF new
<1>5. stmt.pc # "idle"
  BY <1>1
<1> QED
  BY <1>1, <1>2, <1>3, <1>4, <1>5, RowStored

\* The new version reads back; the old one, which the statement saw, is deleted.
LEMMA UpdateStep ==
  ASSUME RowsInv, NEW zip \in SUBSET Attr, NEW out \in SUBSET Attr, pg_tde_update(zip, out)
  PROVE  RowsInv'
<1> DEFINE r == stmt.row
           old == DeformOnPage(rows[r].vals)
           new == pg_tde_toast_insert_or_update(ToToast(old), old, zip, out)
           others == [rows EXCEPT ![r].state = OnDelete(@)]
<1>1. /\ stmt.pc = "update" /\ MayToast(ToToast(old), zip, out)
      /\ rows' = Append(others, RowVersion(new.vals)) /\ toast' = new.toast
      /\ stmt' = Idle /\ nstmt' = nstmt
  BY DEF pg_tde_update
<1>2. \A a \in Attr : old[a].kind # "external"
  BY OnPageNoPointer
<1>3. r \in DOMAIN rows /\ Seen(rows[r].state)
  BY <1>1 DEF RowsInv, StmtFine
<1>4. others \in Seq(RowRec) /\ \A i \in DOMAIN others : RowFine(toast, others[i])
  <2> HIDE DEF r
  <2> QED
    BY <1>3, DeletedFine
<1>5. stmt.pc # "idle"
  BY <1>1
<1>6. new = pg_tde_toast_insert_or_update(ToToast(old), old, zip, out)
  OBVIOUS
<1> HIDE DEF old, new, others
<1> QED
  BY <1>1, <1>2, <1>4, <1>5, <1>6, RowStored

(* The row is deleted; its entries stay.                                    *)
LEMMA DeleteStep ==
  ASSUME RowsInv, NEW r \in DOMAIN rows, pg_tde_delete(r)
  PROVE  RowsInv'
<1> DEFINE old == DeformOnPage(rows[r].vals)
<1>1. {old[a].id : a \in {b \in Attr : old[b].kind = "external"}} = {}
  BY OnPageNoPointer
<1>2. /\ toast \in Seq(EntryRec) /\ DOMAIN toast = 1..Len(toast) /\ rows \in Seq(RowRec)
  BY LenProperties DEF RowsInv, RowTypeOK
<1>3. toast' = toast
  <2>1. toast' = Deleted({})
    BY <1>1 DEF pg_tde_delete
  <2>2. Deleted({}) = [i \in DOMAIN toast |-> toast[i]]
    BY DEF Deleted
  <2> QED
    BY <1>2, <2>1, <2>2
<1>4. /\ Seen(rows[r].state) /\ rows' = [rows EXCEPT ![r].state = OnDelete(@)]
      /\ stmt.pc = "idle" /\ stmt' = stmt /\ nstmt' = nstmt + 1
  BY DEF pg_tde_delete
<1>5. rows' \in Seq(RowRec) /\ \A i \in DOMAIN rows' : RowFine(toast, rows'[i])
  BY <1>4, DeletedFine
<1>6. RowTypeOK' /\ RowsFine'
  <2>1. nstmt' \in Nat /\ stmt' \in StmtRec
    BY <1>4 DEF RowsInv, RowTypeOK
  <2>2. RowTypeOK'
    BY <1>2, <1>3, <1>5, <2>1 DEF RowTypeOK
  <2> QED
    BY <1>3, <1>5, <2>2 DEF RowsFine
<1>7. StmtFine'
  BY <1>4 DEF StmtFine
<1> QED
  BY <1>6, <1>7 DEF RowsInv

(* Rows and entries end together: those of a row have its fate.              *)
LEMMA EndStep ==
  ASSUME RowsInv, Commit \/ Abort
  PROVE  RowsInv'
<1> DEFINE On(s) == IF Commit THEN OnCommit(s) ELSE OnAbort(s)
<1>1. /\ rows' = [i \in DOMAIN rows |-> [rows[i] EXCEPT !.state = On(@)]]
      /\ toast' = [i \in DOMAIN toast |-> [toast[i] EXCEPT !.state = On(@)]]
  <2>1. CASE Commit
    BY <2>1 DEF Commit, Ended
  <2>2. CASE ~Commit
    BY <2>2 DEF Abort, Ended
  <2> QED
    BY <2>1, <2>2
<1>2. /\ rows \in Seq(RowRec) /\ Len(rows) \in Nat /\ DOMAIN rows = 1..Len(rows)
      /\ \A i \in DOMAIN rows : rows[i] \in RowRec
      /\ toast \in Seq(EntryRec) /\ Len(toast) \in Nat /\ DOMAIN toast = 1..Len(toast)
      /\ \A i \in DOMAIN toast : toast[i] \in EntryRec
  BY LenProperties DEF RowsInv, RowTypeOK
<1>3. /\ \A s \in RowState : On(s) \in {"live", "gone"}
      /\ \A s \in {"mine", "live", "gone"} : On(s) \in {"live", "gone"}
      /\ On("gone") = "gone" /\ On("live") = "live"
      /\ On("dying") = "live" \/ On("dying") = "gone"
  BY DEF OnCommit, OnAbort, RowState
<1> HIDE DEF On
<1>4. \A i \in DOMAIN toast :
        /\ toast'[i] \in EntryRec /\ toast'[i].bytes = toast[i].bytes
        /\ toast'[i].state = On(toast[i].state)
  BY <1>1, <1>2, <1>3 DEF EntryRec
<1>5. DOMAIN toast' = DOMAIN toast /\ toast' \in Seq(EntryRec)
  <2> DEFINE n == Len(toast)
             e(i) == [toast[i] EXCEPT !.state = On(@)]
  <2>1. n \in Nat /\ DOMAIN toast = 1..n /\ toast' = [i \in 1..n |-> e(i)]
    BY <1>1, <1>2
  <2>2. \A i \in 1..n : toast'[i] \in EntryRec
    BY <1>4, <2>1
  <2> HIDE DEF n, e
  <2>3. toast' \in [1..n -> EntryRec]
    BY <2>1, <2>2
  <2> QED
    BY <2>1, <2>3, SeqDef
<1>6. \A i \in DOMAIN rows :
        /\ rows'[i] \in RowRec /\ rows'[i].vals = rows[i].vals /\ rows'[i].want = rows[i].want
        /\ rows'[i].state = On(rows[i].state) /\ rows[i].state \in RowState
  BY <1>1, <1>2, <1>3 DEF RowRec, RowState
<1>7. DOMAIN rows' = DOMAIN rows /\ rows' \in Seq(RowRec)
  <2> DEFINE n == Len(rows)
             e(i) == [rows[i] EXCEPT !.state = On(@)]
  <2>1. n \in Nat /\ DOMAIN rows = 1..n /\ rows' = [i \in 1..n |-> e(i)]
    BY <1>1, <1>2
  <2>2. \A i \in 1..n : rows'[i] \in RowRec
    BY <1>6, <2>1
  <2> HIDE DEF n, e
  <2>3. rows' \in [1..n -> RowRec]
    BY <2>1, <2>2
  <2> QED
    BY <2>1, <2>3, SeqDef
<1>8. ASSUME NEW v, NEW w, Reads(toast, v, w)
      PROVE  Reads(toast', v, w)
  BY <1>4, <1>5, <1>8 DEF Reads
<1>9. ASSUME NEW i \in DOMAIN rows
      PROVE  RowFine(toast', rows'[i])
  <2>1. RowFine(toast, rows[i])
    BY DEF RowsInv, RowsFine
  <2>2. ValuesRead(toast', rows'[i].vals, rows'[i].want)
    BY <1>6, <1>8, <2>1 DEF RowFine, ValuesRead
  <2>3. ASSUME NEW a \in Attr, rows[i].vals[a].kind = "external"
        PROVE  Lasts(toast', rows'[i].state, rows[i].vals[a])
    <3> DEFINE k == rows[i].vals[a].id
    <3>1. k \in DOMAIN toast
      BY <2>1, <2>3 DEF RowFine, ValuesRead, Reads
    <3>2. toast'[k].state = On(toast[k].state) /\ rows'[i].state = On(rows[i].state)
      BY <1>4, <1>6, <3>1
    <3>3. /\ rows[i].state = "mine" => toast[k].state = "mine"
          /\ rows[i].state \in {"live", "dying"} => toast[k].state = "live"
      BY <2>1, <2>3 DEF RowFine, Lasts
    <3>4. rows[i].state \in {"mine", "live", "dying", "gone"}
      BY <1>6 DEF RowState
    <3>5. rows'[i].state = "live" => toast'[k].state = "live"
      BY <1>3, <3>2, <3>3, <3>4
    <3>6. rows'[i].state \in {"live", "gone"}
      BY <1>3, <1>6, <3>2
    <3> QED
      BY <3>5, <3>6 DEF Lasts
  <2>4. \A a \in Attr : Lasts(toast', rows'[i].state, rows[i].vals[a])
    BY <2>3 DEF Lasts
  <2> QED
    BY <1>6, <2>2, <2>4 DEF RowFine
<1>10. RowsFine'
  BY <1>7, <1>9 DEF RowsFine
<1>11. stmt' \in StmtRec /\ stmt'.pc = "idle" /\ nstmt' = nstmt
  <2>1. Idle \in StmtRec /\ Idle.pc = "idle"
    BY IdleFine
  <2>2. CASE Commit
    BY <2>2 DEF Commit, RowsInv, RowTypeOK
  <2>3. CASE Abort
    BY <2>1, <2>3 DEF Abort
  <2> QED
    BY <2>2, <2>3
<1> QED
  BY <1>5, <1>7, <1>10, <1>11 DEF RowsInv, RowTypeOK, StmtFine

(* Between transactions nothing is under way.                                *)
LEMMA RowsInvInit ==
  ASSUME RowInit
  PROVE  RowsInv
<1>1. Idle \in StmtRec /\ Idle.pc = "idle"
  BY IdleFine
<1>2. rows = <<>> /\ toast = <<>> /\ stmt = Idle /\ nstmt = 0
  BY DEF RowInit
<1>3. RowTypeOK
  BY <1>1, <1>2 DEF RowTypeOK
<1> QED
  BY <1>1, <1>2, <1>3 DEF RowsInv, RowsFine, StmtFine

(* Every plain step keeps the invariant.                                    *)
LEMMA RowsInvStep ==
  ASSUME RowsInv, [PlainNext]_rowVars
  PROVE  RowsInv'
<1>1. CASE UNCHANGED rowVars
  BY <1>1 DEF rowVars, RowsInv, RowTypeOK, RowsFine, StmtFine
<1>2. CASE \E vals \in [Attr -> New] : InsertStmt(vals)
  BY <1>2, InsertStmtStep
<1>3. CASE \E r \in DOMAIN rows, set \in SUBSET Attr \ {{}}, vals \in [Attr -> New] :
             UpdateStmt(r, set, vals)
  BY <1>3, UpdateStmtStep
<1>4. CASE \E zip, out \in SUBSET Attr : pg_tde_insert(FALSE, zip, out)
  BY <1>4, InsertStep
<1>5. CASE \E zip, out \in SUBSET Attr : pg_tde_update(zip, out)
  BY <1>5, UpdateStep
<1>6. CASE \E r \in DOMAIN rows : pg_tde_delete(r)
  BY <1>6, DeleteStep
<1>7. CASE Commit \/ Abort
  BY <1>7, EndStep
<1> QED
  BY <1>1, <1>2, <1>3, <1>4, <1>5, <1>6, <1>7, Zenon DEF PlainNext

(* Rows, entries and the statement under way keep their types.               *)
THEOREM RowTypeCorrect == PlainSpec => []RowTypeOK
<1>1. RowInit => RowsInv
  BY RowsInvInit
<1>2. RowsInv /\ [PlainNext]_rowVars => RowsInv'
  BY RowsInvStep
<1>3. RowsInv => RowTypeOK
  BY DEF RowsInv
<1> QED
  BY <1>1, <1>2, <1>3, PTL DEF PlainSpec

(* Rows read back as INSERT, UPDATE and DELETE meant them, whatever way their *)
(* long values went (pg_tde_toast_insert_or_update).                         *)
THEOREM RowsReadBack == PlainSpec => []RowsExact
<1>1. RowInit => RowsInv
  BY RowsInvInit
<1>2. RowsInv /\ [PlainNext]_rowVars => RowsInv'
  BY RowsInvStep
<1>3. RowsInv => RowsExact
  <2> SUFFICES ASSUME RowsInv, NEW i \in DOMAIN rows, Seen(rows[i].state), NEW a \in Attr
               PROVE  LET v == rows[i].vals[a]
                      IN  /\ v.kind = "external" => Seen(toast[v.id].state)
                          /\ Fetched(v).bytes = rows[i].want[a].bytes
    BY DEF RowsExact
  <2> DEFINE v == rows[i].vals[a]
             w == rows[i].want[a]
  <2>1. rows[i] \in RowRec
    BY LenProperties DEF RowsInv, RowTypeOK
  <2>2. Reads(toast, v, w) /\ Lasts(toast, rows[i].state, v)
    BY DEF RowsInv, RowsFine, RowFine, ValuesRead
  <2>3. w.bytes \in BytesRec
    BY <2>1, NewPlain DEF RowRec
  <2>4. CASE v.kind # "external"
    BY <2>2, <2>4 DEF Reads, Fetched
  <2>5. CASE v.kind = "external"
    <3>1. Seen(toast[v.id].state)
      BY <2>2, <2>5 DEF Lasts, Seen
    <3>2. toast[v.id].bytes = Crypted(w.bytes)
      BY <2>2, <2>5 DEF Reads
    <3>3. Fetched(v).bytes = Crypted(toast[v.id].bytes)
      BY <2>5 DEF Fetched, Value, Crypted
    <3> QED
      BY <2>3, <3>1, <3>2, <3>3, CryptedTwice
  <2> QED
    BY <2>4, <2>5
<1> QED
  BY <1>1, <1>2, <1>3, PTL DEF PlainSpec
=============================================================================
