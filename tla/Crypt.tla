-------------------------------- MODULE Crypt --------------------------------
(***************************************************************************)
(* pg_tde_crypt (src/encryption/enc_tuple.c): XOR of a byte range with the  *)
(* keystream of its relation, generated batch by batch.                     *)
(*                                                                          *)
(* The keystream is a sequence of AES blocks of 16 bytes, block j being the *)
(* encryption of the number j (Aes128EncryptedZeroBlocks), so a keystream   *)
(* byte is named by its position 16 * j + r.  A data byte is recoverable    *)
(* from any later call, whatever offset and length that call has, exactly   *)
(* when byte k of the call is XORed with keystream byte start_offset + k.   *)
(***************************************************************************)
EXTENDS Integers

CONSTANTS
  NUM_AES_BLOCKS_IN_BATCH,
  MaxOffset,   \* bound on start_offset
  MaxLen       \* bound on data_len

ASSUME CryptAssumption ==
  /\ NUM_AES_BLOCKS_IN_BATCH \in Nat \ {0}
  /\ MaxOffset \in Nat
  /\ MaxLen \in Nat

DATA_BYTES_PER_AES_BATCH == 16 * NUM_AES_BLOCKS_IN_BATCH

VARIABLES
  start_offset, data_len,   \* arguments
  batch_start_block,        \* loop variable
  batch_no, data_index,     \* locals
  enc_key,                  \* block range the buffer holds: [first, end)
  used                      \* history: keystream position XORed with each byte

vars == <<start_offset, data_len, batch_start_block, batch_no, data_index,
          enc_key, used>>

aes_start_block == start_offset \div 16
EndBlockRoundedDown == (start_offset + data_len) \div 16
aes_end_block == (start_offset + data_len + 15) \div 16
aes_block_no == start_offset % 16

\* The loop's cursors stay within the byte range; no batch passes the end of
\* data (current_batch_bytes).
TypeOK ==
  /\ start_offset \in 0..MaxOffset /\ data_len \in 0..MaxLen
  /\ batch_start_block \in Nat /\ batch_no \in Nat /\ data_index \in 0..data_len
  /\ enc_key \in [first : Nat, end : Nat]
  /\ used \in [0..(data_index - 1) -> Int]

Init ==
  /\ start_offset \in 0..MaxOffset
  /\ data_len \in 0..MaxLen
  /\ batch_start_block = aes_start_block
  /\ batch_no = 0
  /\ data_index = 0
  /\ enc_key = [first |-> 0, end |-> 0]
  /\ used = [k \in 0..-1 |-> 0]

-----------------------------------------------------------------------------
MinOf(a, b) == IF a <= b THEN a ELSE b

batch_end_block == MinOf(batch_start_block + NUM_AES_BLOCKS_IN_BATCH, aes_end_block)

\* The first batch skips the bytes before start_offset in its first block.
NoSkip == 0
Skip == IF batch_no > 0 THEN 0 ELSE aes_block_no

current_batch_bytes ==
  MinOf((batch_end_block - batch_start_block) * 16 - Skip, data_len - data_index)

\* Index into enc_key for the k-th data byte, k >= data_index.
enc_key_index(k) == (k - data_index) + Skip

\* One iteration of the loop over batches, with its inner loop over bytes.
Batch ==
  /\ batch_start_block < aes_end_block
  /\ enc_key' = [first |-> batch_start_block, end |-> batch_end_block]
  /\ data_index' = data_index + current_batch_bytes
  /\ used' = [k \in 0..(data_index' - 1) |->
                IF k < data_index THEN used[k]
                ELSE 16 * batch_start_block + enc_key_index(k)]
  /\ batch_no' = batch_no + 1
  /\ batch_start_block' = batch_start_block + NUM_AES_BLOCKS_IN_BATCH
  /\ UNCHANGED <<start_offset, data_len>>

Done == batch_start_block >= aes_end_block

Next == Batch

Spec == Init /\ [][Next]_vars

-----------------------------------------------------------------------------
(* Properties.                                                              *)

\* "so each byte will be coded the same despite the initial offset": byte k of
\* the call is XORed with keystream byte start_offset + k, in every batch.
SameKeystream == \A k \in 0..(data_index - 1) : used[k] = start_offset + k

\* No byte is XORed with a byte of enc_key that the current batch did not
\* generate, and the batch fits the buffer.
WithinBatch ==
  /\ enc_key.end - enc_key.first <= NUM_AES_BLOCKS_IN_BATCH
  /\ data_index > 0 => used[data_index - 1] < 16 * enc_key.end

\* The loop leaves no byte of the data uncrypted.
AllCrypted == Done => data_index = data_len

=============================================================================
