----------------------------- MODULE Placement -----------------------------
(***************************************************************************)
(* Where a new tuple goes: pg_tde_RelationGetBufferForTuple and what it     *)
(* calls (src/access/pg_tde_io.c), for inserts, bulk inserts and updates,   *)
(* with the visibility map (src/access/pg_tde_visibilitymap.c) and a vacuum *)
(* that empties pages, marks them all-visible and truncates the table       *)
(* (lazy_truncate_heap in src/access/pg_tde_vacuumlazy.c).                  *)
(*                                                                          *)
(* A step of a backend ends where it takes or gives up a buffer lock, or    *)
(* looks at a page it has not locked.  A page is the number of its tuples,  *)
(* all of one size.  The free space map is what the code takes it for: a    *)
(* hint, right when it was written.                                         *)
(***************************************************************************)
EXTENDS Integers, Sequences, FiniteSets, FiniteSetsExt

CONSTANTS
  Backend,
  Work,               \* what each backend may do: some of Kinds
  MaxWork,            \* bound: operations of each backend
  MaxBlocks,          \* bound: size of the table, the disk being full then
  MAX_BUFFERS_TO_EXTEND_BY,
  Cap,                \* tuples on a page
  SaveFree,           \* saveFreeSpace: tuples a page keeps room for (fillfactor)
  HEAPBLOCKS_PER_PAGE,\* blocks of the table for each page of the map
  Tables              \* initial tables: sequences of pages

Kinds == {"insert", "append", "bulk", "update"}
Pages == [new : BOOLEAN, used : 0..Cap, allVis : BOOLEAN]
Block == 0..(MaxBlocks - 1)
None == -1          \* InvalidBlockNumber, InvalidBuffer
Nobody == "nobody"

ASSUME PlacementAssumption ==
  /\ IsFiniteSet(Backend) /\ Nobody \notin Backend
  /\ {MaxWork, MaxBlocks, MAX_BUFFERS_TO_EXTEND_BY, Cap, HEAPBLOCKS_PER_PAGE} \subseteq Nat \ {0}
  /\ SaveFree \in 0..(Cap - 1)
  /\ Work \in [Backend -> SUBSET Kinds]
  /\ \A t \in Tables : t \in Seq(Pages) /\ Len(t) <= MaxBlocks

VARIABLES
  nblocks,
  page,       \* per block: PageIsNew, number of tuples, PD_ALL_VISIBLE
  vm,         \* per block: its bit in the visibility map
  fsm,        \* per block: free space on record
  lock,       \* per block: who has its buffer locked
  be,         \* backends
  vac,        \* the vacuum
  rows        \* history: tuples put in the table and not removed by vacuum

shared == <<nblocks, page, vm, fsm>>
vars == <<shared, lock, be, vac, rows>>

NewPage == [new |-> TRUE, used |-> 0, allVis |-> FALSE]
Free(b) == Cap - page[b].used
Tuples(pages) == FoldFunction(LAMBDA pg, n : pg.used + n, 0, pages)
MapBlock(b) == b \div HEAPBLOCKS_PER_PAGE     \* HEAPBLK_TO_MAPBLOCK

Idle == [pc |-> "idle", kind |-> "none", left |-> 0, target |-> None, other |-> None,
         vmTarget |-> None, vmOther |-> None,
         unlocked |-> FALSE, then |-> "none", pagefree |-> 0,
         cached |-> None, nextFree |-> None, lastFree |-> None, extended |-> 0, done |-> 0]

NoVacuum(pc) == [pc |-> pc, blk |-> 0, relPages |-> 0, nonempty |-> 0]

Init ==
  /\ \E t \in Tables :
       /\ nblocks = Len(t)
       /\ page = [b \in Block |-> IF b < Len(t) THEN t[b + 1] ELSE NewPage]
       /\ rows = Tuples(page)
  /\ vm = [b \in Block |-> page[b].allVis]
  /\ fsm = [b \in Block |-> IF b < nblocks THEN Cap ELSE 0]   \* from before the pages were filled
  /\ lock = [b \in Block |-> Nobody]
  /\ be = [p \in Backend |-> Idle]
  /\ vac = NoVacuum("idle")

----------------------------------------------------------------------------
Goto(p, l) == be' = [be EXCEPT ![p].pc = l]
Finish(p) == be' = [be EXCEPT ![p] = [Idle EXCEPT !.cached = be[p].cached, !.done = be[p].done]]
Lock(p, b) == lock[b] = Nobody /\ lock' = [lock EXCEPT ![b] = p]
UnlockAll(p) == lock' = [b \in Block |-> IF lock[b] = p THEN Nobody ELSE lock[b]]

(* targetFreeSpace, for a tuple of size one *)
Need == 1 + SaveFree
useFsm(p) == be[p].kind # "append"

(* The buffers an operation has to lock: the lower block first. *)
Buffers(p) == {be[p].target, be[p].other} \ {None}
FirstBufferTarget(p) ==      \* mutant: the target first
  IF be[p].target # None /\ lock[be[p].target] # p THEN be[p].target ELSE be[p].other
FirstBuffer(p) == Min({b \in Buffers(p) : lock[b] # p})

(* Locks are taken one by one, then the operation goes on. *)
LockBuffer(p) ==
  LET b == FirstBuffer(p)
      last == \A c \in Buffers(p) \ {b} : lock[c] = p
  IN  /\ be[p].pc = "lock"
      /\ Lock(p, b)
      /\ Goto(p, IF last THEN be[p].then ELSE "lock")
      /\ UNCHANGED <<shared, vac, rows>>

----------------------------------------------------------------------------
(* Operations.  Each one has the table's lock from its start to its end, and *)
(* does not start while vacuum truncates.                                    *)

Working(p) == be[p].pc # "idle"
MayStart(p) == ~Working(p) /\ be[p].done < MaxWork
Exclusive == vac.pc = "truncate"

StartInsert(p, kind) ==
  /\ MayStart(p) /\ ~Exclusive
  /\ be' = [be EXCEPT ![p].pc = "target", ![p].kind = kind, ![p].done = @ + 1,
                      ![p].left = IF kind = "bulk" THEN 1 + Cap ELSE 1]
  /\ UNCHANGED <<shared, lock, vac, rows>>

Updated(b) == {p \in Backend : be[p].other = b}

(* pg_tde_update finds the old tuple, locks it and leaves the page.  The map *)
(* page is pinned when the old page is all-visible.                          *)
StartUpdate(p, b) ==
  /\ MayStart(p) /\ ~Exclusive
  /\ b < nblocks /\ lock[b] = Nobody /\ Cardinality(Updated(b)) < page[b].used
  /\ be' = [be EXCEPT ![p].pc = "fit", ![p].kind = "update", ![p].done = @ + 1,
                      ![p].left = 1, ![p].other = b, ![p].pagefree = Free(b),
                      ![p].vmOther = IF page[b].allVis THEN MapBlock(b) ELSE None]
  /\ UNCHANGED <<shared, lock, vac, rows>>

(* The loop of pg_tde_update: the old page is tried while it seems to have room. *)
UpdateFit(p) ==
  LET b == be[p].other
  IN  /\ be[p].pc = "fit"
      /\ \/ be[p].pagefree < 1 /\ Goto(p, "target")
         \/ /\ be[p].pagefree >= 1
            /\ be' = [be EXCEPT ![p].pc = "lock", ![p].then = "refit",
                        ![p].vmOther = IF @ = None /\ page[b].allVis THEN MapBlock(b) ELSE @]
      /\ UNCHANGED <<shared, lock, vac, rows>>

UpdateRefit(p) ==
  LET b == be[p].other
      again == Free(b) < 1 \/ (be[p].vmOther = None /\ page[b].allVis)
  IN  /\ be[p].pc = "refit"
      /\ \/ /\ again /\ UnlockAll(p)
            /\ be' = [be EXCEPT ![p].pc = "fit", ![p].pagefree = Free(b)]
         \/ /\ ~again /\ UNCHANGED lock
            /\ be' = [be EXCEPT ![p].pc = "put", ![p].target = b]
      /\ UNCHANGED <<shared, vac, rows>>

----------------------------------------------------------------------------
(* pg_tde_RelationGetBufferForTuple *)

(* Blocks the free space map knows to have room. *)
InFsm == {b \in Block : b < nblocks /\ fsm[b] >= Need}

Try(p, b) == be' = [be EXCEPT ![p].pc = "read", ![p].target = b]

(* The block used last, else one from the free space map, else the last one. *)
ChooseTarget(p) ==
  /\ be[p].pc = "target"
  /\ \/ be[p].cached # None /\ Try(p, be[p].cached)
     \/ be[p].cached = None /\ useFsm(p) /\ \E b \in InFsm : Try(p, b)
     \/ /\ be[p].cached = None /\ (useFsm(p) => InFsm = {})
        /\ IF nblocks > 0 THEN Try(p, nblocks - 1) ELSE Goto(p, "extend")
  /\ UNCHANGED <<shared, lock, vac, rows>>

(* The all-visible flag is read without the lock. *)
ReadTarget(p) ==
  /\ be[p].pc = "read"
  /\ be' = [be EXCEPT ![p].pc = "lock", ![p].then = "pins",
              ![p].vmTarget = IF page[be[p].target].allVis THEN MapBlock(be[p].target) ELSE @]
  /\ UNCHANGED <<shared, lock, vac, rows>>

(* GetVisibilityMapPins: an all-visible page whose map page is not pinned. *)
NeedTarget(p) ==
  page[be[p].target].allVis /\ be[p].vmTarget # MapBlock(be[p].target)
NeedOther(p) ==
  /\ be[p].other # None
  /\ page[be[p].other].allVis /\ be[p].vmOther # MapBlock(be[p].other)

(* Mutant: one pass only. *)
NeedsSecondPassNever(p) == FALSE

(* A page may have become all-visible while the other's map page was pinned. *)
NeedsSecondPass(p) ==
  /\ be[p].other \notin {None, be[p].target}
  /\ ~(NeedTarget(p) /\ NeedOther(p))

(* The locks are given up for the pins, and taken again in order. *)
GetVisibilityMapPins(p, after) ==
  LET t == NeedTarget(p)
      o == NeedOther(p)
  IN  \/ /\ ~t /\ ~o
         /\ Goto(p, after) /\ UNCHANGED lock
      \/ /\ t \/ o
         /\ UnlockAll(p)
         /\ be' = [be EXCEPT
                     ![p].pc = "lock",
                     ![p].then = IF NeedsSecondPass(p) THEN be[p].pc ELSE after,
                     ![p].unlocked = TRUE,
                     ![p].vmTarget = IF t THEN MapBlock(be[p].target) ELSE @,
                     ![p].vmOther = IF o THEN MapBlock(be[p].other) ELSE @]

Pins(p) ==
  /\ be[p].pc = "pins"
  /\ GetVisibilityMapPins(p, "space")
  /\ UNCHANGED <<shared, vac, rows>>

PageInit(b) == [page EXCEPT ![b] = [new |-> FALSE, used |-> @.used, allVis |-> @.allVis]]

SpaceFound(p) ==
  LET b == be[p].target
  IN  /\ be[p].pc = "space" /\ Free(b) >= Need
      /\ page' = PageInit(b)
      /\ be' = [be EXCEPT ![p].pc = "put", ![p].cached = b]
      /\ UNCHANGED <<nblocks, vm, fsm, lock, vac, rows>>

GiveUp(p) == be' = [be EXCEPT ![p].pc = "extend", ![p].target = None]

(* No room: the next block of a bulk extension, else one from the free space *)
(* map, which is told what this block has, else a new one.                   *)
SpaceLacking(p) ==
  LET b == be[p].target
      record == [fsm EXCEPT ![b] = Free(b)]
  IN  /\ be[p].pc = "space" /\ Free(b) < Need
      /\ page' = PageInit(b)
      /\ UnlockAll(p)
      /\ \/ /\ be[p].nextFree # None
            /\ fsm' = record
            /\ LET more == be[p].nextFree < be[p].lastFree
               IN  be' = [be EXCEPT ![p].pc = "read", ![p].target = be[p].nextFree,
                                    ![p].nextFree = IF more THEN @ + 1 ELSE None,
                                    ![p].lastFree = IF more THEN @ ELSE None]
         \/ /\ be[p].nextFree = None /\ ~useFsm(p)
            /\ GiveUp(p) /\ UNCHANGED fsm
         \/ /\ be[p].nextFree = None /\ useFsm(p)
            /\ fsm' = record
            /\ \/ \E n \in InFsm \ {b} : Try(p, n)
               \/ InFsm \ {b} = {} /\ GiveUp(p)
      /\ UNCHANGED <<nblocks, vm, vac, rows>>

(* Pages the caller asks for: pg_tde_multi_insert_pages. *)
NumPages(p) == (be[p].left + Cap - 1) \div Cap

(* RelationAddBlocks: n pages more, also for those that wait to extend.  The *)
(* first is locked and initialised.  The lock is given up again when others  *)
(* go to the free space map.                                                *)
RelationAddBlocks(p, n) ==
  LET first == nblocks
      mine == IF be[p].kind = "bulk" THEN NumPages(p) ELSE 1   \* not_in_fsm_pages
      shares == useFsm(p) /\ mine < n
      bulk == be[p].kind = "bulk" /\ n > 1
  IN  /\ be[p].pc = "extend" /\ first + n <= MaxBlocks
      /\ nblocks' = first + n
      /\ page' = [b \in Block |-> IF b = first
                                  THEN [new |-> FALSE, used |-> 0, allVis |-> FALSE]
                                  ELSE IF b \in first..(first + n - 1) THEN NewPage
                                  ELSE page[b]]
      /\ fsm' = [b \in Block |-> IF useFsm(p) /\ b \in (first + mine)..(first + n - 1)
                                 THEN Cap ELSE fsm[b]]
      /\ lock' = IF shares THEN lock ELSE [lock EXCEPT ![first] = p]
      /\ be' = [be EXCEPT ![p].pc = IF shares THEN "lock" ELSE "extended", ![p].then = "xpins",
                          ![p].target = first, ![p].unlocked = shares,
                          ![p].nextFree = IF bulk THEN first + 1 ELSE None,
                          ![p].lastFree = IF bulk THEN first + n - 1 ELSE None,
                          ![p].extended = IF be[p].kind = "bulk" THEN @ + n ELSE 0]
      /\ UNCHANGED <<vm, vac, rows>>

ExtendBy(p) ==
  LET waiters == {q \in Backend \ {p} : be[q].pc = "extend"}
      wanted == NumPages(p) * (1 + Cardinality(waiters))
  IN  IF useFsm(p) THEN Min({Max({wanted, be[p].extended}), MAX_BUFFERS_TO_EXTEND_BY}) ELSE 1

Extend(p) == RelationAddBlocks(p, ExtendBy(p))

(* The file cannot grow: an error ends the operation. *)
ExtendFails(p) ==
  /\ be[p].pc = "extend" /\ nblocks + ExtendBy(p) > MaxBlocks
  /\ Finish(p)
  /\ UNCHANGED <<shared, lock, vac, rows>>

(* The old page comes before the new one in the order of locks, but is tried *)
(* without giving up the new one.                                           *)
ConditionalLockOther(p) ==
  LET o == be[p].other
  IN  /\ be[p].pc = "extended"
      /\ \/ o = None /\ Goto(p, "xspace") /\ UNCHANGED lock
         \/ o # None /\ Lock(p, o) /\ Goto(p, "xpins")
         \/ /\ o # None /\ lock[o] # Nobody
            /\ UnlockAll(p)
            /\ be' = [be EXCEPT ![p].pc = "lock", ![p].then = "xpins", ![p].unlocked = TRUE]
      /\ UNCHANGED <<shared, vac, rows>>

XPins(p) ==
  /\ be[p].pc = "xpins"
  /\ GetVisibilityMapPins(p, "xspace")
  /\ UNCHANGED <<shared, vac, rows>>

(* Was the space taken while the new page was not locked? *)
XSpace(p) ==
  LET b == be[p].target
  IN  /\ be[p].pc = "xspace"
      /\ \/ /\ Free(b) >= 1 /\ UNCHANGED lock
            /\ be' = [be EXCEPT ![p].pc = "put", ![p].cached = b]
         \/ /\ Free(b) < 1 /\ be[p].unlocked
            /\ UnlockAll(p) /\ Goto(p, "read")
      /\ UNCHANGED <<shared, vac, rows>>

----------------------------------------------------------------------------
(* pg_tde_insert, pg_tde_multi_insert and pg_tde_update put the tuple on the *)
(* page and clear the all-visible bits, in a critical section.               *)

(* pg_tde_visibilitymap_clear refuses a map page that is not the block's. *)
WrongPin(p) ==
  \/ page[be[p].target].allVis /\ be[p].target # be[p].other
       /\ be[p].vmTarget # MapBlock(be[p].target)
  \/ be[p].other # None /\ page[be[p].other].allVis
       /\ be[p].vmOther # MapBlock(be[p].other)

(* Tuples that go on the page: as many of a bulk insert as fit. *)
Puts(p) ==
  LET fit == Free(be[p].target) - SaveFree
  IN  IF be[p].left <= 1 \/ fit <= 1 THEN 1 ELSE Min({be[p].left, fit})

PutTuple(p) ==
  LET b == be[p].target
      n == Puts(p)
      touched == Buffers(p)
  IN  /\ be[p].pc = "put" /\ ~WrongPin(p)
      /\ page' = [c \in Block |->
                    [new |-> page[c].new,
                     used |-> IF c = b THEN page[c].used + n ELSE page[c].used,
                     allVis |-> page[c].allVis /\ c \notin touched]]
      /\ vm' = [c \in Block |-> vm[c] /\ (c \in touched => ~page[c].allVis)]
      /\ rows' = rows + n
      /\ UnlockAll(p)
      /\ \/ be[p].left > n /\ be' = [be EXCEPT ![p].pc = "target", ![p].left = @ - n]
         \/ be[p].left <= n /\ Finish(p)
      /\ UNCHANGED <<nblocks, fsm, vac>>

----------------------------------------------------------------------------
(* Vacuum: the pages in order, each under its lock, then the truncation. *)

VacuumStart ==
  /\ vac.pc = "idle"
  /\ vac' = [vac EXCEPT !.pc = "scan", !.relPages = nblocks]
  /\ UNCHANGED <<shared, lock, be, rows>>

(* A page that the map says is all-visible may be skipped, except the last. *)
VacuumSkip ==
  /\ vac.pc = "scan" /\ vac.blk < vac.relPages - 1 /\ vm[vac.blk]
  /\ vac' = [vac EXCEPT !.blk = @ + 1]
  /\ UNCHANGED <<shared, lock, be, rows>>

(* Buffers with a pin: no cleanup lock, so nothing is pruned there. *)
Pinned(b) == \E p \in Backend :
               \/ be[p].other = b
               \/ be[p].target = b /\ be[p].pc # "read"

(* Dead tuples go, and the page may turn out to be all-visible: also a page  *)
(* that others have pinned, when it is empty or in vacuum's second pass.     *)
VacuumPage(left, visible) ==
  LET b == vac.blk
  IN  /\ vac.pc = "scan" /\ b < vac.relPages /\ lock[b] = Nobody /\ ~page[b].new
      /\ left \in (IF Pinned(b) THEN page[b].used ELSE 0)..page[b].used
      /\ page[b].allVis \/ left = 0 => visible
      /\ page' = [page EXCEPT ![b] = [new |-> FALSE, used |-> left, allVis |-> visible]]
      /\ vm' = [vm EXCEPT ![b] = visible]
      /\ fsm' = [fsm EXCEPT ![b] = Cap - left]
      /\ rows' = rows - (page[b].used - left)
      /\ vac' = [vac EXCEPT !.blk = @ + 1,
                            !.nonempty = IF left > 0 THEN b + 1 ELSE @]
      /\ UNCHANGED <<nblocks, lock, be>>

(* lazy_scan_new_or_empty: a page nobody has used since the table was extended. *)
VacuumNewPage ==
  LET b == vac.blk
  IN  /\ vac.pc = "scan" /\ b < vac.relPages /\ lock[b] = Nobody /\ page[b].new
      /\ fsm' = [fsm EXCEPT ![b] = IF @ = 0 THEN Cap ELSE @]
      /\ vac' = [vac EXCEPT !.blk = @ + 1]
      /\ UNCHANGED <<nblocks, page, vm, lock, be, rows>>

(* should_attempt_truncation *)
VacuumScanned ==
  /\ vac.pc = "scan" /\ vac.blk = vac.relPages
  /\ vac' = IF vac.relPages > vac.nonempty THEN [vac EXCEPT !.pc = "lock"] ELSE NoVacuum("done")
  /\ UNCHANGED <<shared, lock, be, rows>>

(* lazy_truncate_heap does not wait for the table's lock for long. *)
LockTable ==
  /\ vac.pc = "lock"
  /\ \/ ~(\E p \in Backend : Working(p)) /\ vac' = [vac EXCEPT !.pc = "truncate"]
     \/ (\E p \in Backend : Working(p)) /\ vac' = NoVacuum("done")
  /\ UNCHANGED <<shared, lock, be, rows>>

(* Mutant: the pages are not looked at again. *)
NondeletableAsScanned(stop) == Max({vac.nonempty, stop})

(* count_nondeletable_pages goes backwards to the last page with a tuple, or *)
(* stops early because somebody waits for the table.                        *)
Nondeletable(stop) ==
  Max({vac.nonempty, stop} \cup
      {b + 1 : b \in {c \in Block : c < vac.relPages /\ page[c].used > 0}})

(* Mutant: whole pages of the map are dropped, the tail of the last one stays. *)
MapTruncatedWholePages(n) ==
  [b \in Block |-> vm[b] /\ MapBlock(b) * HEAPBLOCKS_PER_PAGE < n]

(* pg_tde_visibilitymap_prepare_truncate clears the bits of blocks that go. *)
MapTruncated(n) == [b \in Block |-> vm[b] /\ b < n]

Truncate(stop) ==
  LET n == Nondeletable(stop)
      waiter == stop > 0
      gone == n..(MaxBlocks - 1)
  IN  /\ vac.pc = "truncate" /\ nblocks = vac.relPages
      /\ stop \in 0..vac.relPages
      /\ waiter => \E p \in Backend : MayStart(p)
      /\ \/ /\ n >= vac.relPages
            /\ vac' = NoVacuum("done") /\ UNCHANGED <<shared, be>>
         \/ /\ n < vac.relPages
            /\ nblocks' = n
            /\ page' = [b \in Block |-> IF b \in gone THEN NewPage ELSE page[b]]
            /\ vm' = MapTruncated(n)
            /\ fsm' = [b \in Block |-> IF b \in gone THEN 0 ELSE fsm[b]]
            /\ be' = [p \in Backend |-> [be[p] EXCEPT !.cached = None]]
            /\ vac' = IF n > vac.nonempty /\ waiter
                      THEN [vac EXCEPT !.pc = "lock", !.relPages = n] ELSE NoVacuum("done")
      /\ UNCHANGED <<lock, rows>>

TableGrew ==
  /\ vac.pc = "truncate" /\ nblocks # vac.relPages
  /\ vac' = NoVacuum("done")
  /\ UNCHANGED <<shared, lock, be, rows>>

----------------------------------------------------------------------------
Start(p) ==
  \/ \E kind \in Work[p] \ {"update"} : StartInsert(p, kind)
  \/ \E kind \in Work[p] \cap {"update"}, b \in Block : StartUpdate(p, b)

Step(p) ==
  \/ UpdateFit(p) \/ UpdateRefit(p)
  \/ LockBuffer(p)
  \/ ChooseTarget(p) \/ ReadTarget(p) \/ Pins(p) \/ SpaceFound(p) \/ SpaceLacking(p)
  \/ Extend(p) \/ ExtendFails(p) \/ ConditionalLockOther(p) \/ XPins(p) \/ XSpace(p)
  \/ PutTuple(p)

VacuumStep ==
  \/ VacuumSkip \/ VacuumNewPage \/ VacuumScanned
  \/ \E left \in 0..Cap, visible \in BOOLEAN : VacuumPage(left, visible)
  \/ LockTable \/ TableGrew
  \/ \E stop \in 0..MaxBlocks : Truncate(stop)

Next == \/ \E p \in Backend : Start(p) \/ Step(p)
        \/ VacuumStart \/ VacuumStep

Spec == Init /\ [][Next]_vars
          /\ \A p \in Backend : WF_vars(Step(p))
          /\ WF_vars(VacuumStep)

----------------------------------------------------------------------------
(* Properties *)

(* No operation panics: the page it gets has room when the tuple is put      *)
(* there, and the map page it passes to pg_tde_visibilitymap_clear is the    *)
(* right one whenever the page is all-visible, although both were looked at  *)
(* before locks were given up.                                              *)
NoPanic ==
  \A p \in Backend :
    /\ be[p].pc = "xspace" /\ ~be[p].unlocked => Free(be[p].target) >= 1
    /\ be[p].pc = "put" => ~WrongPin(p) /\ Puts(p) <= Free(be[p].target)

(* A tuple that was put in the table leaves it only by vacuum's own removal: *)
(* the truncation takes no page that got a tuple after vacuum had been there.*)
RowsStay == rows = Tuples(page)

(* The map never has a bit set that the page does not have, also for blocks  *)
(* cut off the table and added to it again.                                  *)
MapTrue == \A b \in Block : vm[b] => b < nblocks /\ page[b].allVis

(* Every operation ends: no two backends wait for each other's pages, and    *)
(* the search for a page with room does not go round for ever.              *)
OperationsEnd == []<>(\A p \in Backend : be[p].pc = "idle")
============================================================================
