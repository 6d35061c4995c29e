-------------------------------- MODULE Toast --------------------------------
(***************************************************************************)
(* Out-of-line values (src/access/pg_tdetoast.c).  A value is encrypted as  *)
(* a whole, from keystream position 0, before it is cut into chunks         *)
(* (pg_tde_toast_tuple_externalize); a slice of it is fetched and decrypted *)
(* chunk by chunk (pg_tde_fetch_toast_slice).  A compressed value starts    *)
(* with a compression header that stays in the clear and is not counted in  *)
(* the keystream offset.                                                    *)
(*                                                                          *)
(* A byte is a cell: which byte of the value it is, and the set of          *)
(* keystream positions it is XORed with.                                    *)
(***************************************************************************)
EXTENDS Integers

CONSTANTS
  TOAST_MAX_CHUNK_SIZE,
  TDE_TOAST_COMPRESS_HEADER_SIZE,
  MaxSize,       \* bound on attrsize
  SliceOffsets   \* the slice offsets the callers ask for

ASSUME ToastAssumption ==
  /\ {TOAST_MAX_CHUNK_SIZE, TDE_TOAST_COMPRESS_HEADER_SIZE, MaxSize} \subseteq Nat \ {0}
  /\ TDE_TOAST_COMPRESS_HEADER_SIZE < TOAST_MAX_CHUNK_SIZE
  /\ SliceOffsets \subseteq Nat

Chunk == TOAST_MAX_CHUNK_SIZE
Header == TDE_TOAST_COMPRESS_HEADER_SIZE

VARIABLES
  compressed,                          \* VARATT_IS_COMPRESSED(result)
  attrsize, sliceoffset, slicelength,  \* arguments
  present,                             \* chunk numbers the index scan returns
  expectedchunk,
  result,                              \* bytes written to VARDATA(result)
  pc

toastVars == <<compressed, attrsize, sliceoffset, slicelength, present, expectedchunk,
          result, pc>>

totalchunks == ((attrsize - 1) \div Chunk) + 1
startchunk == sliceoffset \div Chunk
endchunk == (sliceoffset + slicelength - 1) \div Chunk

Unset == [at |-> -1, ks |-> {}]

\* Byte j of the stored value, as pg_tde_toast_tuple_externalize leaves it.
Stored(j) ==
  [at |-> j, ks |-> IF ~compressed THEN {j}
                    ELSE IF j < Header THEN {} ELSE {j - Header}]

\* The callers never ask for an empty slice, and for a compressed value ask for
\* a prefix that includes more than the compression header.
ToastInit ==
  /\ compressed \in BOOLEAN
  /\ attrsize \in 1..MaxSize
  /\ sliceoffset \in SliceOffsets
  /\ slicelength \in 1..MaxSize
  /\ sliceoffset + slicelength <= attrsize
  /\ compressed => sliceoffset = 0 /\ slicelength > Header
  /\ \E lost \in SUBSET (startchunk..endchunk) : present = (startchunk..endchunk) \ lost
  /\ expectedchunk = startchunk
  /\ result = [p \in 0..(slicelength - 1) |-> Unset]
  /\ pc = "scan"

\* The next expected chunk stays within the slice's chunks, or just past them.
ToastTypeOK ==
  /\ expectedchunk \in startchunk..(endchunk + 1)
  /\ DOMAIN result = 0..(slicelength - 1)
  /\ pc \in {"scan", "done", "error"}

-----------------------------------------------------------------------------
\* The next chunk of the ordered scan.
Rest == {c \in present : c >= expectedchunk}
NextChunk == CHOOSE c \in Rest : \A d \in Rest : c <= d

chunksize(c) == IF c < totalchunks - 1 THEN Chunk ELSE attrsize - (totalchunks - 1) * Chunk

\* chcpystrt and chcpyend before the compression header is dealt with.
CopyStart(c) == IF c = startchunk THEN sliceoffset % Chunk ELSE 0
CopyEndInValue(c) == IF c = endchunk THEN sliceoffset + slicelength - 1
                     ELSE chunksize(c) - 1
CopyEnd(c) == IF c = endchunk THEN (sliceoffset + slicelength - 1) % Chunk
              ELSE chunksize(c) - 1

HasHeader(c) == compressed /\ c = 0
chcpystrt(c) == IF HasHeader(c) THEN CopyStart(c) + Header ELSE CopyStart(c)

EncryptOffsetIgnoringHeader(c) == CopyStart(c)
encrypt_offset(c) == IF compressed /\ c # 0 THEN CopyStart(c) - Header ELSE CopyStart(c)

CopyLength(c) == CopyEnd(c) - chcpystrt(c) + 1

Decrypted(cell, ks) == [cell EXCEPT !.ks = (@ \ {ks}) \cup ({ks} \ @)]

\* One chunk: copy the compression header, decrypt the rest, copy it.
CopyChunk(c) ==
  result' = [p \in DOMAIN result |->
    LET inValue == sliceoffset + p
        inChunk == inValue - c * Chunk
        k == inChunk - chcpystrt(c) IN
    IF k \in 0..(CopyLength(c) - 1)
      THEN Decrypted(Stored(inValue), c * Chunk - sliceoffset + encrypt_offset(c) + k)
    ELSE IF HasHeader(c) /\ p < Header
      THEN Stored(c * Chunk + CopyStart(c) + p)
    ELSE result[p]]

ReadChunk ==
  /\ pc = "scan" /\ Rest # {} /\ NextChunk = expectedchunk
  /\ CopyChunk(NextChunk)
  /\ expectedchunk' = expectedchunk + 1
  /\ UNCHANGED <<compressed, attrsize, sliceoffset, slicelength, present, pc>>

UnexpectedChunk ==
  /\ pc = "scan" /\ Rest # {} /\ NextChunk # expectedchunk
  /\ pc' = "error"
  /\ UNCHANGED <<compressed, attrsize, sliceoffset, slicelength, present,
                 expectedchunk, result>>

\* The final check, on the number of chunks that were read.
EndScan ==
  /\ pc = "scan" /\ Rest = {}
  /\ pc' = IF expectedchunk = endchunk + 1 THEN "done" ELSE "error"
  /\ UNCHANGED <<compressed, attrsize, sliceoffset, slicelength, present,
                 expectedchunk, result>>

ToastNext == ReadChunk \/ UnexpectedChunk \/ EndScan

ToastSpec == ToastInit /\ [][ToastNext]_toastVars

-----------------------------------------------------------------------------
(* Properties.                                                               *)

\* "sliceoffset is the byte offset within the TOAST value from which to fetch":
\* the result holds the bytes of the slice in order, each decrypted with the
\* keystream byte it was encrypted with.  (A slice that does not start at 0 is
\* the exception: its keystream is taken from the start of the slice.)  A chunk
\* that is missing anywhere in the slice is reported, never skipped.
SliceDecrypted ==
  pc = "done" =>
    \A p \in DOMAIN result :
      /\ result[p].at = sliceoffset + p
      /\ sliceoffset = 0 => result[p].ks = {}

\* The bytes decrypted of a chunk fit decrypted_data, and their number, which
\* pg_tde_crypt takes as unsigned, is not negative.
CopyFits ==
  pc = "scan" /\ Rest # {} => CopyLength(NextChunk) \in 0..Chunk

=============================================================================
