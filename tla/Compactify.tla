----------------------------- MODULE Compactify -----------------------------
(***************************************************************************)
(* Defragmentation of a heap page after pruning                             *)
(* (TdePageRepairFragmentation and pgtde_compactify_tuples in               *)
(* src/access/pg_tde_prune.c).  Tuples slide towards the end of the page;   *)
(* since the keystream of a tuple depends on its offset, each tuple that    *)
(* moves has to be encrypted anew for its new offset.                       *)
(*                                                                          *)
(* A byte of the page is a cell: the tuple and the byte of it that it       *)
(* holds, and the set of keystream positions it is XORed with.  A tuple at  *)
(* offset o with header length h has its header in the clear and byte k of  *)
(* its data XORed with keystream position o + k.  The page starts at 0: the *)
(* keystream offset of the block is the same for all tuples of the page.    *)
(***************************************************************************)
EXTENDS Integers, FiniteSets, SequencesExt

CONSTANTS
  Special,     \* pd_special: where the tuple area ends
  Align,       \* MAXALIGN
  HeaderSize,  \* sizeof(HeapTupleHeaderData)
  HOff,        \* the values of t_hoff
  TupleLen,    \* the lengths of tuples
  NItems,      \* bound: line pointers that have storage before pruning
  MaxLines,    \* bound: line pointers of the page
  Fraction,    \* nitems < nline / Fraction: copy tuple by tuple
  Kinds        \* the pages considered: of a table; of a TOAST table, the tuples
               \* of which are not encrypted; of a table in recovery, where the
               \* server's own heap redo replays the prune record

CompactifyAssumption ==
  /\ {Special, Align, HeaderSize, NItems, MaxLines, Fraction} \subseteq Nat \ {0}
  /\ NItems <= MaxLines
  /\ \A h \in HOff, l \in TupleLen : HeaderSize <= h /\ h < l
  /\ Kinds \subseteq {"table", "toast", "redo"}

VARIABLES
  kind,           \* one of Kinds
  len, hoff,      \* per line pointer with storage: tuple length and t_hoff
  lpOff,          \* per line pointer with storage: lp_off
  live, unused,   \* line pointers that keep storage; that are LP_UNUSED
  nline,          \* PageGetMaxOffsetNumber
  hasFree,        \* PD_HAS_FREE_LINES
  pd_upper,
  page, scratch,  \* bytes of the page and of the temporary block
  upper, copy_tail, copy_head, i,  \* locals of pgtde_compactify_tuples
  pc

geometry == <<kind, len, hoff, live, unused>>
vars == <<geometry, lpOff, nline, hasFree, pd_upper, page, scratch, upper,
          copy_tail, copy_head, i, pc>>

Byte == 0..(Special - 1)
Stored == 1..NItems
MAXALIGN(n) == ((n + Align - 1) \div Align) * Align
Junk == [tup |-> 0, at |-> 0, ks |-> {}]

\* What PGTdePageAddItemExtended leaves in byte k of a tuple put at offset o.
Cell(t, o, k, h) ==
  [tup |-> t, at |-> k, ks |-> IF kind = "toast" \/ k < h THEN {} ELSE {o + k - h}]

\* The cells of the page, the line pointers and the loop's cursors (copy_head,
\* upper, i) stay within the page and the item array.
TypeOK ==
  /\ kind \in Kinds
  /\ lpOff \in [Stored -> -Special..Special] /\ live \subseteq Stored
  /\ nline \in 0..MaxLines /\ unused \subseteq 1..MaxLines /\ hasFree \in BOOLEAN
  /\ DOMAIN page = Byte /\ DOMAIN scratch = Byte
  /\ {pd_upper, upper, copy_tail, copy_head} \subseteq -Special..Special
  /\ i \in 0..NItems
  /\ pc \in {"collect", "presorted", "scratch", "truncate", "done"}

\* Tuples are added from the end of the page downwards, in any order of line
\* pointers; pruning then leaves some of the line pointers without storage.
\* Line pointers past NItems had none before.
Placed(order, l) ==
  [t \in Stored |->
     LET before == {s \in Stored : order[s] <= order[t]} IN
     Special - FoldSet(LAMBDA s, sum : sum + MAXALIGN(l[s]), 0, before)]

Init ==
  /\ kind \in Kinds /\ len \in [Stored -> TupleLen] /\ hoff \in [Stored -> HOff]
  /\ \E order \in {o \in [Stored -> Stored] : \A s, t \in Stored : o[s] = o[t] => s = t} :
       lpOff = Placed(order, len)
  /\ live \in SUBSET Stored
  /\ nline \in NItems..MaxLines
  /\ unused \in SUBSET ((1..nline) \ live)
  /\ hasFree = FALSE     \* a hint, set afresh
  /\ pd_upper = Min({lpOff[t] : t \in Stored})
  /\ page = [p \in Byte |->
       LET holds == {t \in Stored : p \in lpOff[t]..(lpOff[t] + len[t] - 1)} IN
       IF holds = {} THEN Junk
       ELSE LET t == CHOOSE t \in holds : TRUE IN Cell(t, lpOff[t], p - lpOff[t], hoff[t])]
  /\ scratch = [p \in Byte |-> Junk]
  /\ upper = 0 /\ copy_tail = 0 /\ copy_head = 0 /\ i = 0
  /\ pc = "collect"

-----------------------------------------------------------------------------
(* itemidbase: the live items in line pointer order.                         *)

items == SetToSortSeq(live, <)
nitems == Cardinality(live)
Item(j) == items[j + 1]
itemoff(t) == lpOff[t]
alignedlen(t) == MAXALIGN(len[t])
ItemEnd(t) == itemoff(t) + alignedlen(t)

AlwaysPresorted == TRUE
presorted == \A s, t \in live : s < t => lpOff[s] > lpOff[t]

\* Items at the head of the array that are in their final place already.
Total(n) == FoldSet(LAMBDA j, sum : sum + alignedlen(Item(j)), 0, 0..(n - 1))
InPlace(n) == \A j \in 0..(n - 1) : ItemEnd(Item(j)) = Special - Total(j)
Skipped == Max({n \in 0..nitems : InPlace(n)})

\* itemidptr where the skipping loop stops: the first to move, or the last.
ItemidptrAfterSkip(n) == IF n < nitems THEN Item(n) ELSE Item(nitems - 1)

XorSets(a, b) == (a \ b) \cup (b \ a)

\* pg_tde_move_encrypted_data in place: n bytes after the header of the tuple at
\* offset from, decrypted as at from and encrypted as at to.
ReEncrypt(buf, from, to, n) ==
  [p \in Byte |->
     LET k == p - (from + HeaderSize) IN
     IF k \in 0..(n - 1)
       THEN [buf[p] EXCEPT !.ks = XorSets(XorSets(@, {from + k}), {to + k})]
       ELSE buf[p]]

NoRecrypt(buf, itemidptr) == buf

\* The re-encryption of the tuple seen last.  The tuple is the one at copy_head;
\* the length is that of itemidptr, the item of the current iteration.
Recrypt(buf, itemidptr) ==
  IF copy_head < copy_tail /\ kind # "redo"
    THEN ReEncrypt(buf, copy_head, upper, len[itemidptr] - HeaderSize)
    ELSE buf

\* memmove and memcpy of the pending bytes from buf to the page.
Moved(buf) ==
  [p \in Byte |-> IF p \in upper..(upper + copy_tail - copy_head - 1)
                    THEN buf[copy_head + (p - upper)] ELSE page[p]]

-----------------------------------------------------------------------------
(* TdePageRepairFragmentation up to the call, and the head of                *)
(* pgtde_compactify_tuples.                                                  *)

EmptyPage ==
  /\ pc = "collect" /\ nitems = 0
  /\ pd_upper' = Special
  /\ pc' = "truncate"
  /\ UNCHANGED <<geometry, lpOff, nline, hasFree, page, scratch, upper, copy_tail,
                 copy_head, i>>

StartAt(n) ==
  /\ i' = n
  /\ upper' = Special - Total(n)
  /\ copy_head' = ItemEnd(ItemidptrAfterSkip(n))
  /\ copy_tail' = copy_head'
  /\ UNCHANGED <<geometry, lpOff, nline, hasFree, pd_upper, page>>

Presorted ==
  /\ pc = "collect" /\ nitems > 0 /\ presorted
  /\ StartAt(Skipped)
  /\ pc' = "presorted"
  /\ UNCHANGED scratch

\* Few tuples are left: copy them to the scratch block one by one.
ScratchTuples ==
  /\ pc = "collect" /\ nitems > 0 /\ ~presorted
  /\ nitems < nline \div Fraction
  /\ StartAt(0)
  /\ scratch' = [p \in Byte |-> IF \E t \in live : p \in itemoff(t)..(ItemEnd(t) - 1)
                                  THEN page[p] ELSE scratch[p]]
  /\ pc' = "scratch"

ScratchChunk ==
  /\ pc = "collect" /\ nitems > 0 /\ ~presorted
  /\ nitems >= nline \div Fraction
  /\ StartAt(Skipped)
  /\ scratch' = [p \in Byte |-> IF p \in pd_upper..(upper' - 1) THEN page[p] ELSE scratch[p]]
  /\ pc' = "scratch"

-----------------------------------------------------------------------------
(* The moving loops.                                                         *)

Advance(t) ==
  /\ upper' = upper - alignedlen(t)
  /\ copy_head' = itemoff(t)
  /\ lpOff' = [lpOff EXCEPT ![t] = upper']
  /\ i' = i + 1

MovePresorted ==
  /\ pc = "presorted" /\ i < nitems
  /\ LET t == Item(i)
         buf == Recrypt(page, t)
         gap == copy_head # ItemEnd(t) /\ copy_head < copy_tail IN
     /\ page' = IF gap THEN Moved(buf) ELSE buf
     /\ copy_tail' = IF gap THEN ItemEnd(t) ELSE copy_tail
     /\ Advance(t)
  /\ UNCHANGED <<geometry, nline, hasFree, pd_upper, scratch, pc>>

MoveScratch ==
  /\ pc = "scratch" /\ i < nitems
  /\ LET t == Item(i)
         buf == Recrypt(scratch, t)
         gap == copy_head # ItemEnd(t) IN
     /\ scratch' = buf
     /\ page' = IF gap THEN Moved(buf) ELSE page
     /\ copy_tail' = IF gap THEN ItemEnd(t) ELSE copy_tail
     /\ Advance(t)
  /\ UNCHANGED <<geometry, nline, hasFree, pd_upper, pc>>

MoveRemaining ==
  /\ pc \in {"presorted", "scratch"} /\ i = nitems
  /\ LET buf == Recrypt(IF pc = "presorted" THEN page ELSE scratch, Item(nitems - 1)) IN
     /\ page' = Moved(buf)
     /\ scratch' = IF pc = "scratch" THEN buf ELSE scratch
  /\ pd_upper' = upper
  /\ pc' = "truncate"
  /\ UNCHANGED <<geometry, lpOff, nline, hasFree, upper, copy_tail, copy_head, i>>

\* The line pointer array ends at the last used line pointer; the hint says
\* whether an unused one is left before it.
TruncateLinePointers ==
  /\ pc = "truncate"
  /\ nline' = Max({0} \cup ((1..nline) \ unused))
  /\ LET nunusedend == nline - nline' IN
     hasFree' = (Cardinality(unused) - nunusedend > 0)
  /\ pc' = "done"
  /\ UNCHANGED <<geometry, lpOff, pd_upper, page, scratch, upper, copy_tail, copy_head, i>>

Next ==
  \/ EmptyPage \/ Presorted \/ ScratchTuples \/ ScratchChunk
  \/ MovePresorted \/ MoveScratch \/ MoveRemaining \/ TruncateLinePointers

Spec == Init /\ [][Next]_vars

-----------------------------------------------------------------------------
(* Properties.                                                               *)

\* Every live tuple is, byte for byte, where its line pointer says, and the
\* tuples fill the page from pd_upper to its end: no move overwrites a tuple
\* that has not been moved yet.  The line pointer array keeps every line
\* pointer in use, and PD_HAS_FREE_LINES tells whether one is free.
LayoutKept ==
  pc = "done" =>
    /\ pd_upper = Special - Total(nitems)
    /\ live \subseteq 1..nline /\ hasFree = (\E l \in unused : l <= nline)
    /\ \A t \in live : /\ lpOff[t] >= pd_upper
                       /\ \A k \in 0..(len[t] - 1) :
                            page[lpOff[t] + k].tup = t /\ page[lpOff[t] + k].at = k

\* "We leave the original loop as-is, and recrypt tuples one by one": a reader
\* that decrypts a live tuple at its line pointer's offset finds its header and
\* its data.
TuplesReadable ==
  pc = "done" =>
    \A t \in live : \A k \in 0..(len[t] - 1) :
      page[lpOff[t] + k] = Cell(t, lpOff[t], k, hoff[t])

\* The same for the pages this code gets right: a table's own page, replayed by
\* nobody, of tuples of one length and with headers of the fixed part only.
UniformTuplesReadable ==
  /\ kind = "table"
  /\ \A s, t \in Stored : len[s] = len[t] /\ hoff[s] = HeaderSize
  => TuplesReadable

=============================================================================
