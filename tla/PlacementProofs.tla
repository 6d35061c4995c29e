--------------------------- MODULE PlacementProofs ---------------------------
(***************************************************************************)
(* Proofs about Placement, for any number of backends, tables, page sizes   *)
(* and operations: no operation reaches the critical section with a page    *)
(* that has no room or with the wrong page of the visibility map pinned     *)
(* (NoPanic), and the map has no bit that the page does not have (MapTrue). *)
(*                                                                          *)
(* The argument is a rely-guarantee one.  Local(p) says what backend p knows *)
(* at each point of its operation; a step of anybody else keeps it when the *)
(* table does not shrink, p's locks stay p's, and pages locked by p are left *)
(* alone (Rely).  Every action is shown to establish Local for its own      *)
(* backend, and Rely for the others.                                        *)
(***************************************************************************)
EXTENDS Placement, FiniteSetTheorems, WellFoundedInduction, TLAPS

-----------------------------------------------------------------------------
(* The inductive invariant.                                                  *)

Fields == {"pc", "kind", "left", "target", "other", "vmTarget", "vmOther", "unlocked",
           "then", "pagefree", "cached", "nextFree", "lastFree", "extended", "done"}
VacFields == {"pc", "blk", "relPages", "nonempty"}

Shape ==
  /\ DOMAIN be = Backend /\ \A p \in Backend : DOMAIN be[p] = Fields
  /\ DOMAIN vac = VacFields

\* A block of the table, or none.
InTable(b) == b = None \/ (b \in Nat /\ b < nblocks)

Locking(p, thens) == be[p].pc = "lock" /\ be[p].then \in thens

LocalType(p) ==
  /\ be[p].pc \in {"idle", "target", "read", "lock", "pins", "space", "extend", "extended",
                   "xpins", "xspace", "put", "fit", "refit"}
  /\ be[p].left \in Nat /\ be[p].extended \in Nat
  /\ be[p].pc # "idle" => be[p].left >= 1
  /\ InTable(be[p].target) /\ InTable(be[p].other) /\ InTable(be[p].cached)
  /\ be[p].nextFree = None \/
       /\ be[p].nextFree \in Nat /\ be[p].lastFree \in Nat
       /\ be[p].nextFree <= be[p].lastFree /\ be[p].lastFree < nblocks

\* The pages an operation works on, and the map page it pinned for the old one.
LocalPages(p) ==
  /\ be[p].vmOther = None \/ (be[p].other # None /\ be[p].vmOther = MapBlock(be[p].other))
  /\ be[p].pc = "idle" => /\ be[p].target = None /\ be[p].other = None
                          /\ be[p].vmOther = None /\ be[p].nextFree = None
  /\ be[p].pc \in {"fit", "refit"} \/ Locking(p, {"refit"})
       => be[p].other # None /\ be[p].target = None
  /\ be[p].pc \in {"read", "pins", "space", "extended", "xpins", "xspace", "put"}
       \/ Locking(p, {"pins", "space", "xpins", "xspace"})
       => be[p].target # None

\* Which buffers it has locked.
LocalLocks(p) ==
  /\ be[p].pc = "lock" =>
       /\ be[p].then \in {"refit", "pins", "space", "xpins", "xspace"}
       /\ \E c \in Buffers(p) : lock[c] # p
  /\ be[p].pc \in {"idle", "target", "read", "extend", "fit"} => \A c \in Block : lock[c] # p
  /\ be[p].pc \in {"refit", "pins", "space", "xpins", "xspace", "put"}
       => \A c \in Buffers(p) : lock[c] = p
  /\ be[p].pc = "extended" => lock[be[p].target] = p

\* What it may conclude about the pages it has locked, or will lock again.
LocalFacts(p) ==
  /\ Locking(p, {"space", "xspace"})
       => /\ be[p].vmTarget = MapBlock(be[p].target)
          /\ be[p].other # None => be[p].vmOther = MapBlock(be[p].other)
  /\ be[p].pc \in {"space", "xspace"} => ~NeedTarget(p) /\ ~NeedOther(p)
  /\ be[p].pc = "extended" => ~be[p].unlocked
  /\ Locking(p, {"xpins", "xspace"}) => be[p].unlocked
  /\ be[p].pc \in {"extended", "xpins", "xspace"} /\ ~be[p].unlocked
       => page[be[p].target].used = 0 /\ ~page[be[p].target].allVis
  /\ be[p].pc = "put" => Free(be[p].target) >= 1 /\ ~WrongPin(p)

Local(p) == LocalType(p) /\ LocalPages(p) /\ LocalLocks(p) /\ LocalFacts(p)

\* The table, its map and the locks.
TableType ==
  /\ nblocks \in 0..MaxBlocks
  /\ page \in [Block -> Pages]
  /\ vm \in [Block -> BOOLEAN]
  /\ lock \in [Block -> Backend \cup {Nobody}]
  /\ \A b \in Block : lock[b] # Nobody => b < nblocks

\* Vacuum scans no block past the end of the table, and truncates it alone.
VacuumInv ==
  /\ vac.blk \in Nat /\ vac.relPages \in Nat /\ vac.nonempty \in Nat
  /\ vac.pc \in {"idle", "scan", "lock", "truncate", "done"}
  /\ vac.pc \in {"scan", "lock"} => vac.relPages <= nblocks
  /\ vac.pc = "truncate" => \A p \in Backend : be[p].pc = "idle"

Global == Shape /\ TableType /\ MapTrue /\ VacuumInv

IInv == Global /\ \A p \in Backend : Local(p)

-----------------------------------------------------------------------------
(* A step of p changes p's own record.                                       *)

Moves(p) ==
  /\ DOMAIN be' = Backend /\ DOMAIN be'[p] = Fields
  /\ \A q \in Backend \ {p} : be'[q] = be[q]

\* The fields of p outside S are as before.
Same(p, S) == \A f \in Fields \ S : be'[p][f] = be[p][f]

LEMMA GotoEffect ==
  ASSUME Shape, NEW p \in Backend, NEW l, Goto(p, l)
  PROVE  Moves(p) /\ be'[p].pc = l /\ Same(p, {"pc"})
<1>1. DOMAIN be' = Backend /\ \A q \in Backend \ {p} : be'[q] = be[q]
  BY Zenon DEF Shape, Goto
<1>2. be'[p] = [be[p] EXCEPT !["pc"] = l]
  BY Zenon DEF Shape, Goto
<1>3. DOMAIN be[p] = Fields
  BY DEF Shape
<1> QED
  BY <1>1, <1>2, <1>3 DEF Moves, Same, Fields

LEMMA TryEffect ==
  ASSUME Shape, NEW p \in Backend, NEW b, Try(p, b)
  PROVE  Moves(p) /\ be'[p].pc = "read" /\ be'[p].target = b /\ Same(p, {"pc", "target"})
<1>1. DOMAIN be' = Backend /\ \A q \in Backend \ {p} : be'[q] = be[q]
  BY Zenon DEF Shape, Try
<1>2. be'[p] = [be[p] EXCEPT !["pc"] = "read", !["target"] = b]
  BY Zenon DEF Shape, Try
<1>3. DOMAIN be[p] = Fields
  BY DEF Shape
<1> QED
  BY <1>1, <1>2, <1>3 DEF Moves, Same, Fields

LEMMA GiveUpEffect ==
  ASSUME Shape, NEW p \in Backend, GiveUp(p)
  PROVE  Moves(p) /\ be'[p].pc = "extend" /\ be'[p].target = None /\ Same(p, {"pc", "target"})
<1>1. DOMAIN be' = Backend /\ \A q \in Backend \ {p} : be'[q] = be[q]
  BY Zenon DEF Shape, GiveUp
<1>2. be'[p] = [be[p] EXCEPT !["pc"] = "extend", !["target"] = None]
  BY Zenon DEF Shape, GiveUp
<1>3. DOMAIN be[p] = Fields
  BY DEF Shape
<1> QED
  BY <1>1, <1>2, <1>3 DEF Moves, Same, Fields

LEMMA FinishEffect ==
  ASSUME Shape, NEW p \in Backend, Finish(p)
  PROVE  /\ Moves(p) /\ be'[p].cached = be[p].cached
         /\ \A f \in Fields \ {"cached", "done"} : be'[p][f] = Idle[f]
<1>1. DOMAIN be' = Backend /\ \A q \in Backend \ {p} : be'[q] = be[q]
  BY Zenon DEF Shape, Finish
<1>2. be'[p] = [Idle EXCEPT !["cached"] = be[p].cached, !["done"] = be[p].done]
  BY Zenon DEF Shape, Finish
<1>3. DOMAIN Idle = Fields
  BY DEF Idle, Fields
<1> QED
  BY <1>1, <1>2, <1>3 DEF Moves, Fields

-----------------------------------------------------------------------------
(* What a step of p has to leave to the others.                              *)

\* Locks change hands between p and nobody, on blocks of the table.
LocksOf(p) ==
  /\ lock' \in [Block -> Backend \cup {Nobody}]
  /\ \A b \in Block : lock'[b] # lock[b] => {lock[b], lock'[b]} = {p, Nobody}
  /\ \A b \in Block : lock'[b] # Nobody => b < nblocks'

\* Pages locked by q have the tuples and the flag they had.
PagesOf(q) ==
  \A b \in Block : lock[b] = q =>
    page'[b].used = page[b].used /\ page'[b].allVis = page[b].allVis

Rely(q) ==
  /\ be'[q] = be[q] /\ nblocks <= nblocks' /\ nblocks' \in Nat
  /\ \A b \in Block : lock'[b] = q <=> lock[b] = q
  /\ PagesOf(q)

\* Blocks an operation has are blocks of the table.
LEMMA OwnBlocks ==
  ASSUME TableType, NEW q \in Backend, Local(q)
  PROVE  /\ be[q].target # None => be[q].target \in Block
         /\ be[q].other # None => be[q].other \in Block
         /\ Buffers(q) \subseteq Block
<1>1. nblocks \in Nat /\ nblocks <= MaxBlocks /\ MaxBlocks \in Nat
  BY PlacementAssumption DEF TableType
<1>2. \A b : InTable(b) /\ b # None => b \in Block
  BY <1>1 DEF InTable, Block
<1>3. InTable(be[q].target) /\ InTable(be[q].other)
  BY DEF Local, LocalType
<1> QED
  BY <1>2, <1>3 DEF Buffers

LEMMA LocalKept ==
  ASSUME TableType, NEW q \in Backend, Local(q), Rely(q)
  PROVE  Local(q)'
<1> USE PlacementAssumption
<1>1. /\ be[q].target # None => be[q].target \in Block
      /\ be[q].other # None => be[q].other \in Block
      /\ Buffers(q) \subseteq Block
  BY OwnBlocks
<1>2. be'[q] = be[q] /\ Buffers(q)' = Buffers(q)
  BY DEF Rely, Buffers
<1>3. \A c \in Block : lock'[c] = q <=> lock[c] = q
  BY DEF Rely
<1>4. LocalType(q)'
  <2>1. nblocks \in Nat /\ nblocks' \in Nat /\ nblocks <= nblocks'
    BY DEF TableType, Rely
  <2>2. \A b : InTable(b) => InTable(b)'
    BY <2>1 DEF InTable
  <2>3. \A b \in Nat : b < nblocks => b < nblocks'
    BY <2>1
  <2> QED
    BY <1>2, <2>2, <2>3 DEF Local, LocalType
<1>5. LocalPages(q)'
  BY <1>2 DEF Local, LocalPages, Locking
<1>6. LocalLocks(q)'
  BY <1>1, <1>2, <1>3 DEF Local, LocalLocks, LocalPages, Locking
<1>7. LocalFacts(q)'
  <2>1. \A c \in Block : lock[c] = q =>
          page'[c].used = page[c].used /\ page'[c].allVis = page[c].allVis
    BY DEF Rely, PagesOf
  <2>2. be[q].pc \in {"space", "xspace", "put"} =>
          /\ be[q].target \in Block /\ lock[be[q].target] = q
          /\ be[q].other # None => be[q].other \in Block /\ lock[be[q].other] = q
    BY <1>1 DEF Local, LocalPages, LocalLocks, Buffers
  <2>3. be[q].pc \in {"extended", "xpins"} => be[q].target \in Block /\ lock[be[q].target] = q
    BY <1>1 DEF Local, LocalPages, LocalLocks, Buffers
  <2>4. be[q].pc \in {"space", "xspace"} => ~NeedTarget(q)' /\ ~NeedOther(q)'
    BY <1>2, <2>1, <2>2 DEF Local, LocalFacts, NeedTarget, NeedOther
  <2>5. be[q].pc = "put" => Free(be[q].target)' >= 1 /\ ~WrongPin(q)'
    BY <1>2, <2>1, <2>2 DEF Local, LocalFacts, WrongPin, Free
  <2>6. be[q].pc \in {"extended", "xpins", "xspace"} /\ ~be[q].unlocked
          => page'[be[q].target].used = 0 /\ ~page'[be[q].target].allVis
    BY <2>1, <2>2, <2>3 DEF Local, LocalFacts
  <2> QED
    BY <1>2, <2>4, <2>5, <2>6 DEF Local, LocalFacts, Locking
<1> QED
  BY <1>4, <1>5, <1>6, <1>7 DEF Local

\* A step of p is good when it keeps the table in order, leaves the others
\* what they rely on, and p knows what it has to know.
LEMMA StepOf ==
  ASSUME NEW p \in Backend, IInv, Moves(p), LocksOf(p), vac' = vac, vac.pc # "truncate",
         nblocks' \in nblocks..MaxBlocks, page' \in [Block -> Pages], vm' \in [Block -> BOOLEAN],
         MapTrue', \A q \in Backend \ {p} : PagesOf(q), Local(p)'
  PROVE  IInv'
<1> USE PlacementAssumption
<1>1. nblocks \in Nat /\ nblocks' \in 0..MaxBlocks /\ nblocks <= nblocks'
  BY DEF IInv, Global, TableType
<1>2. Shape'
  BY DEF IInv, Global, Shape, Moves
<1>3. TableType'
  BY <1>1 DEF TableType, LocksOf
<1>4. VacuumInv'
  BY <1>1 DEF IInv, Global, VacuumInv
<1>5. ASSUME NEW q \in Backend \ {p}
      PROVE  Local(q)'
  <2>1. be'[q] = be[q] /\ PagesOf(q)
    BY DEF Moves
  <2>2. \A b \in Block : lock'[b] = q <=> lock[b] = q
    BY DEF LocksOf
  <2>3. Rely(q)
    BY <1>1, <2>1, <2>2 DEF Rely
  <2> QED
    BY <2>3, LocalKept DEF IInv, Global
<1> QED
  BY <1>2, <1>3, <1>4, <1>5 DEF IInv, Global

\* Most steps leave the tuples and the flags of all pages alone.
LEMMA QuietStepOf ==
  ASSUME NEW p \in Backend, IInv, Moves(p), LocksOf(p), vac.pc # "truncate",
         UNCHANGED <<vac, nblocks, vm>>, page' \in [Block -> Pages],
         \A b \in Block : page'[b].used = page[b].used /\ page'[b].allVis = page[b].allVis,
         Local(p)'
  PROVE  IInv'
<1> USE PlacementAssumption
<1>1. nblocks' \in nblocks..MaxBlocks /\ vm' \in [Block -> BOOLEAN]
  BY DEF IInv, Global, TableType
<1>2. MapTrue'
  BY DEF IInv, Global, MapTrue
<1>3. \A q \in Backend \ {p} : PagesOf(q)
  BY DEF PagesOf
<1> QED
  BY <1>1, <1>2, <1>3, StepOf

LEMMA BusyNotTruncated ==
  ASSUME IInv, NEW p \in Backend, be[p].pc # "idle"
  PROVE  vac.pc # "truncate"
  BY DEF IInv, Global, VacuumInv

LEMMA TableUnchanged ==
  ASSUME nblocks' = nblocks
  PROVE  \A b : InTable(b)' <=> InTable(b)
  BY DEF InTable

LEMMA LocksUnchanged ==
  ASSUME TableType, NEW p \in Backend, UNCHANGED <<lock, nblocks>>
  PROVE  LocksOf(p)
  BY DEF TableType, LocksOf

LEMMA UnlockEffect ==
  ASSUME TableType, NEW p \in Backend, UnlockAll(p), nblocks' = nblocks
  PROVE  LocksOf(p) /\ \A c \in Block : lock'[c] # p
  BY PlacementAssumption DEF TableType, LocksOf, UnlockAll

-----------------------------------------------------------------------------
(* Operations start, and updates try the old page.                           *)

LEMMA StartInsertInv ==
  ASSUME IInv, NEW p \in Backend, NEW kind, StartInsert(p, kind)
  PROVE  IInv'
<1> USE PlacementAssumption
<1> DEFINE left == IF kind = "bulk" THEN 1 + Cap ELSE 1
<1>1. /\ be[p].pc = "idle" /\ vac.pc # "truncate"
      /\ UNCHANGED <<shared, lock, vac, rows>>
  BY Zenon DEF StartInsert, MayStart, Working, Exclusive
<1>2. Shape /\ TableType /\ Local(p) /\ left \in Nat /\ left >= 1
  BY DEF IInv, Global
<1>3. DOMAIN be' = Backend /\ \A q \in Backend \ {p} : be'[q] = be[q]
  BY <1>2, Zenon DEF Shape, StartInsert
<1>4. be'[p] = [be[p] EXCEPT !["pc"] = "target", !["kind"] = kind, !["done"] = @ + 1,
                             !["left"] = left]
  BY <1>2, Zenon DEF Shape, StartInsert
<1> HIDE DEF left
<1>5. /\ Moves(p) /\ be'[p].pc = "target" /\ be'[p].left = left
      /\ Same(p, {"pc", "kind", "done", "left"})
  BY <1>2, <1>3, <1>4 DEF Shape, Moves, Same, Fields
<1>6. Local(p)'
  <2>1. LocalType(p)'
    BY <1>1, <1>2, <1>5 DEF Local, LocalType, InTable, Same, Fields, shared
  <2>2. LocalPages(p)'
    BY <1>1, <1>2, <1>5 DEF Local, LocalPages, Locking, Same, Fields
  <2>3. LocalLocks(p)'
    BY <1>1, <1>2, <1>5 DEF Local, LocalLocks
  <2>4. LocalFacts(p)'
    BY <1>1, <1>2, <1>5 DEF Local, LocalFacts, Locking
  <2> QED
    BY <2>1, <2>2, <2>3, <2>4 DEF Local
<1>7. LocksOf(p)
  BY <1>1, <1>2, LocksUnchanged DEF shared
<1> QED
  BY <1>1, <1>2, <1>5, <1>6, <1>7, QuietStepOf DEF TableType, shared

LEMMA StartUpdateInv ==
  ASSUME IInv, NEW p \in Backend, NEW b \in Block, StartUpdate(p, b)
  PROVE  IInv'
<1> USE PlacementAssumption
<1> DEFINE pin == IF page[b].allVis THEN MapBlock(b) ELSE None
           room == Free(b)
<1>1. /\ be[p].pc = "idle" /\ vac.pc # "truncate" /\ b < nblocks
      /\ UNCHANGED <<shared, lock, vac, rows>>
  BY Zenon DEF StartUpdate, MayStart, Working, Exclusive
<1>2. Shape /\ TableType /\ Local(p) /\ pin \in {None, MapBlock(b)} /\ b # None /\ b \in Nat
  BY DEF IInv, Global, Block, None
<1>3. DOMAIN be' = Backend /\ \A q \in Backend \ {p} : be'[q] = be[q]
  BY <1>2, Zenon DEF Shape, StartUpdate
<1>4. be'[p] = [be[p] EXCEPT !["pc"] = "fit", !["kind"] = "update", !["done"] = @ + 1,
                             !["left"] = 1, !["other"] = b, !["pagefree"] = room,
                             !["vmOther"] = pin]
  BY <1>2, Zenon DEF Shape, StartUpdate
<1> HIDE DEF pin, room
<1>5. /\ Moves(p) /\ be'[p].pc = "fit" /\ be'[p].left = 1 /\ be'[p].other = b
      /\ be'[p].vmOther = pin
      /\ Same(p, {"pc", "kind", "done", "left", "other", "pagefree", "vmOther"})
  BY <1>2, <1>3, <1>4 DEF Shape, Moves, Same, Fields
<1>6. Local(p)'
  <2>1. LocalType(p)'
    <3>1. (\A c : InTable(c)' <=> InTable(c)) /\ InTable(b) /\ nblocks' = nblocks
      BY <1>1, <1>2, TableUnchanged DEF InTable, shared
    <3>2. /\ be'[p].extended = be[p].extended /\ be'[p].target = be[p].target
          /\ be'[p].cached = be[p].cached /\ be'[p].nextFree = be[p].nextFree
          /\ be'[p].lastFree = be[p].lastFree
      BY <1>5 DEF Same, Fields
    <3> QED
      BY <1>1, <1>2, <1>5, <3>1, <3>2 DEF Local, LocalType
  <2>2. LocalPages(p)'
    BY <1>1, <1>2, <1>5 DEF Local, LocalPages, Locking, Same, Fields
  <2>3. LocalLocks(p)'
    BY <1>1, <1>2, <1>5 DEF Local, LocalLocks
  <2>4. LocalFacts(p)'
    BY <1>1, <1>2, <1>5 DEF Local, LocalFacts, Locking
  <2> QED
    BY <2>1, <2>2, <2>3, <2>4 DEF Local
<1>7. LocksOf(p)
  BY <1>1, <1>2, LocksUnchanged DEF shared
<1> QED
  BY <1>1, <1>2, <1>5, <1>6, <1>7, QuietStepOf DEF TableType, shared

LEMMA UpdateFitInv ==
  ASSUME IInv, NEW p \in Backend, UpdateFit(p)
  PROVE  IInv'
<1> USE PlacementAssumption
<1> DEFINE b == be[p].other
           pin == IF be[p].vmOther = None /\ page[b].allVis THEN MapBlock(b) ELSE be[p].vmOther
<1>1. be[p].pc = "fit" /\ UNCHANGED <<shared, lock, vac, rows>>
  BY Zenon DEF UpdateFit
<1>2. /\ Shape /\ TableType /\ Local(p) /\ b # None /\ be[p].target = None
      /\ pin = be[p].vmOther \/ pin = MapBlock(b)
  BY <1>1 DEF IInv, Global, Local, LocalPages
<1>3. LocksOf(p) /\ (\A c : InTable(c)' <=> InTable(c)) /\ nblocks' = nblocks
  BY <1>1, <1>2, LocksUnchanged, TableUnchanged DEF shared
<1>4. SUFFICES Moves(p) /\ Local(p)'
  BY <1>1, <1>2, <1>3, QuietStepOf, BusyNotTruncated DEF TableType, shared
<1>5. CASE Goto(p, "target")
  <2>1. Moves(p) /\ be'[p].pc = "target" /\ Same(p, {"pc"})
    BY <1>2, <1>5, GotoEffect
  <2>2. LocalType(p)'
    BY <1>1, <1>2, <1>3, <2>1 DEF Local, LocalType, Same, Fields
  <2>3. LocalPages(p)'
    BY <1>2, <2>1 DEF Local, LocalPages, Locking, Same, Fields
  <2>4. LocalLocks(p)' /\ LocalFacts(p)'
    BY <1>1, <1>2, <2>1 DEF Local, LocalLocks, LocalFacts, Locking
  <2> QED
    BY <2>1, <2>2, <2>3, <2>4 DEF Local
<1>6. CASE be' = [be EXCEPT ![p].pc = "lock", ![p].then = "refit", ![p].vmOther = pin]
  <2>1. DOMAIN be' = Backend /\ \A q \in Backend \ {p} : be'[q] = be[q]
    BY <1>2, <1>6, Zenon DEF Shape
  <2>2. be'[p] = [be[p] EXCEPT !["pc"] = "lock", !["then"] = "refit", !["vmOther"] = pin]
    BY <1>2, <1>6, Zenon DEF Shape
  <2> HIDE DEF pin
  <2>3. /\ Moves(p) /\ be'[p].pc = "lock" /\ be'[p].then = "refit" /\ be'[p].vmOther = pin
        /\ Same(p, {"pc", "then", "vmOther"})
    BY <1>2, <2>1, <2>2 DEF Shape, Moves, Same, Fields
  <2>4. LocalType(p)'
    BY <1>1, <1>2, <1>3, <2>3 DEF Local, LocalType, Same, Fields
  <2>5. LocalPages(p)'
    BY <1>2, <2>3 DEF Local, LocalPages, Locking, Same, Fields
  <2>6. LocalLocks(p)'
    <3>1. be[p].other \in Buffers(p)' /\ be[p].other \in Block
      BY <1>2, <2>3, OwnBlocks DEF Buffers, Same, Fields
    <3>2. lock'[be[p].other] # p
      BY <1>1, <1>2, <3>1 DEF Local, LocalLocks
    <3> QED
      BY <2>3, <3>1, <3>2 DEF LocalLocks
  <2>7. LocalFacts(p)'
    BY <2>3 DEF LocalFacts, Locking
  <2> QED
    BY <2>3, <2>4, <2>5, <2>6, <2>7 DEF Local
<1> QED
  BY <1>5, <1>6, Zenon DEF UpdateFit

LEMMA UpdateRefitInv ==
  ASSUME IInv, NEW p \in Backend, UpdateRefit(p)
  PROVE  IInv'
<1> USE PlacementAssumption
<1> DEFINE b == be[p].other
           again == Free(b) < 1 \/ (be[p].vmOther = None /\ page[b].allVis)
           room == Free(b)
<1>1. be[p].pc = "refit" /\ UNCHANGED <<shared, vac, rows>>
  BY Zenon DEF UpdateRefit
<1>2. /\ Shape /\ TableType /\ Local(p) /\ b # None /\ be[p].target = None /\ InTable(b)
      /\ b \in Block /\ lock[b] = p
  <2>1. Shape /\ TableType /\ Local(p) /\ b # None /\ be[p].target = None /\ InTable(b)
    BY <1>1 DEF IInv, Global, Local, LocalPages, LocalType
  <2> QED
    BY <1>1, <2>1, OwnBlocks DEF Local, LocalLocks, Buffers
<1>3. (\A c : InTable(c)' <=> InTable(c)) /\ nblocks' = nblocks
  BY <1>1, TableUnchanged DEF shared
<1>4. SUFFICES Moves(p) /\ LocksOf(p) /\ Local(p)'
  BY <1>1, <1>2, <1>3, QuietStepOf, BusyNotTruncated DEF TableType, shared
<1>5. CASE UnlockAll(p) /\ be' = [be EXCEPT ![p].pc = "fit", ![p].pagefree = room]
  <2>0. LocksOf(p) /\ \A c \in Block : lock'[c] # p
    BY <1>2, <1>3, <1>5, UnlockEffect
  <2>1. DOMAIN be' = Backend /\ \A q \in Backend \ {p} : be'[q] = be[q]
    BY <1>2, <1>5, Zenon DEF Shape
  <2>2. be'[p] = [be[p] EXCEPT !["pc"] = "fit", !["pagefree"] = room]
    BY <1>2, <1>5, Zenon DEF Shape
  <2> HIDE DEF room
  <2>3. Moves(p) /\ be'[p].pc = "fit" /\ Same(p, {"pc", "pagefree"})
    BY <1>2, <2>1, <2>2 DEF Shape, Moves, Same, Fields
  <2>4. LocalType(p)'
    BY <1>1, <1>2, <1>3, <2>3 DEF Local, LocalType, Same, Fields
  <2>5. LocalPages(p)'
    BY <1>2, <2>3 DEF Local, LocalPages, Locking, Same, Fields
  <2>6. LocalLocks(p)' /\ LocalFacts(p)'
    BY <2>0, <2>3 DEF LocalLocks, LocalFacts, Locking
  <2> QED
    BY <2>0, <2>3, <2>4, <2>5, <2>6 DEF Local
<1>6. CASE ~again /\ UNCHANGED lock /\ be' = [be EXCEPT ![p].pc = "put", ![p].target = b]
  <2>0. LocksOf(p)
    BY <1>2, <1>3, <1>6, LocksUnchanged
  <2>1. DOMAIN be' = Backend /\ \A q \in Backend \ {p} : be'[q] = be[q]
    BY <1>2, <1>6, Zenon DEF Shape
  <2>2. be'[p] = [be[p] EXCEPT !["pc"] = "put", !["target"] = b]
    BY <1>2, <1>6, Zenon DEF Shape
  <2>3. ~again /\ lock' = lock
    BY <1>6, Zenon
  <2>4. Moves(p) /\ be'[p].pc = "put" /\ be'[p].target = b /\ Same(p, {"pc", "target"})
    BY <1>2, <2>1, <2>2 DEF Shape, Moves, Same, Fields
  <2>5. LocalType(p)'
    BY <1>1, <1>2, <1>3, <2>4 DEF Local, LocalType, Same, Fields
  <2>6. LocalPages(p)'
    BY <1>2, <2>4 DEF Local, LocalPages, Locking, Same, Fields
  <2>7. LocalLocks(p)'
    BY <1>2, <2>3, <2>4 DEF LocalLocks, Buffers, Same, Fields
  <2>8. LocalFacts(p)'
    <3>1. /\ be'[p].other = b /\ be'[p].vmOther = be[p].vmOther /\ page' = page
          /\ page[b].used \in 0..Cap /\ Cap \in Nat
      BY <1>1, <1>2, <2>4 DEF Same, Fields, shared, TableType, Pages
    <3>2. Free(be[p].target)' >= 1
      BY <2>3, <2>4, <3>1 DEF Free
    <3>3. ~WrongPin(p)'
      BY <1>2, <2>3, <2>4, <3>1 DEF WrongPin, Local, LocalPages
    <3> QED
      BY <2>4, <3>2, <3>3 DEF LocalFacts, Locking
  <2> QED
    BY <2>0, <2>4, <2>5, <2>6, <2>7, <2>8 DEF Local
<1> QED
  BY <1>5, <1>6, Zenon DEF UpdateRefit

-----------------------------------------------------------------------------
(* Locks.                                                                    *)

\* The lower of the buffers that are not locked yet is one of them.
LEMMA FirstBufferOpen ==
  ASSUME TableType, NEW p \in Backend, Local(p), be[p].pc = "lock"
  PROVE  FirstBuffer(p) \in Buffers(p) /\ lock[FirstBuffer(p)] # p
<1> DEFINE S == {b \in Buffers(p) : lock[b] # p}
<1>1. S # {} /\ \A x \in S : x \in Int
  BY OwnBlocks DEF Local, LocalLocks, Block
<1>2. \A x \in S : x = be[p].target \/ x = be[p].other
  BY DEF Buffers
<1>3. \E x \in S : \A y \in S : x <= y
  <2>1. PICK x \in S : TRUE
    BY <1>1
  <2>2. CASE \A y \in S : x <= y
    BY <2>2
  <2>3. CASE \E y \in S : ~(x <= y)
    <3>1. PICK y \in S : ~(x <= y)
      BY <2>3
    <3>2. \A z \in S : z = x \/ z = y
      <4>1. x # y
        BY <1>1, <2>1, <3>1
      <4> QED
        BY <1>2, <2>1, <3>1, <4>1
    <3>3. y <= x /\ y <= y
      BY <1>1, <2>1, <3>1
    <3> QED
      BY <3>1, <3>2, <3>3
  <2> QED
    BY <2>2, <2>3
<1> HIDE DEF S
<1>4. Min(S) \in S
  BY <1>3 DEF Min
<1> QED
  BY <1>4 DEF S, FirstBuffer

LEMMA LockBufferInv ==
  ASSUME IInv, NEW p \in Backend, LockBuffer(p)
  PROVE  IInv'
<1> USE PlacementAssumption
<1> DEFINE b == FirstBuffer(p)
           last == \A c \in Buffers(p) \ {b} : lock[c] = p
           l == IF last THEN be[p].then ELSE "lock"
<1>1. /\ be[p].pc = "lock" /\ Lock(p, b) /\ UNCHANGED <<shared, vac, rows>>
      /\ Goto(p, l)
  BY Zenon DEF LockBuffer
<1>2. /\ Shape /\ TableType /\ Local(p) /\ b \in Buffers(p) /\ b \in Block /\ b < nblocks
      /\ Buffers(p) \subseteq Block
  <2>1. Shape /\ TableType /\ Local(p)
    BY DEF IInv, Global
  <2>2. b \in Buffers(p) /\ b \in Block /\ Buffers(p) \subseteq Block
    BY <1>1, <2>1, FirstBufferOpen, OwnBlocks
  <2>3. InTable(b) /\ b # None
    BY <2>1, <2>2 DEF Local, LocalType, Buffers
  <2> QED
    BY <2>1, <2>2, <2>3 DEF InTable
<1>3. (\A c : InTable(c)' <=> InTable(c)) /\ nblocks' = nblocks /\ page' = page
  BY <1>1, TableUnchanged DEF shared
<1>4. LocksOf(p) /\ lock'[b] = p /\ \A c \in Block : c # b => lock'[c] = lock[c]
  <2> HIDE DEF b
  <2>1. lock[b] = Nobody /\ lock' = [lock EXCEPT ![b] = p]
    BY <1>1 DEF Lock
  <2>2. lock' \in [Block -> Backend \cup {Nobody}]
    BY <1>2, <2>1 DEF TableType
  <2>3. lock'[b] = p /\ \A c \in Block : c # b => lock'[c] = lock[c]
    BY <1>2, <2>1 DEF TableType
  <2>4. \A c \in Block : lock'[c] # Nobody => c < nblocks'
    BY <1>2, <1>3, <2>3 DEF TableType
  <2> QED
    BY <1>2, <2>1, <2>2, <2>3, <2>4 DEF LocksOf
<1>5. Moves(p) /\ be'[p].pc = l /\ Same(p, {"pc"})
  BY <1>1, <1>2, GotoEffect
<1>6. /\ Buffers(p)' = Buffers(p) /\ be'[p].then = be[p].then
      /\ be'[p].target = be[p].target /\ be'[p].other = be[p].other
      /\ be'[p].vmTarget = be[p].vmTarget /\ be'[p].vmOther = be[p].vmOther
      /\ be'[p].unlocked = be[p].unlocked
      /\ be[p].then \in {"refit", "pins", "space", "xpins", "xspace"}
  BY <1>1, <1>2, <1>5 DEF Same, Fields, Buffers, Local, LocalLocks
<1> HIDE DEF b
<1>7. Local(p)'
  <2>1. LocalType(p)'
    BY <1>1, <1>2, <1>3, <1>5, <1>6 DEF Local, LocalType, Same, Fields
  <2>2. LocalPages(p)'
    BY <1>1, <1>2, <1>5, <1>6 DEF Local, LocalPages, Locking, Same, Fields
  <2>3. CASE last
    <3>1. be'[p].pc = be[p].then
      BY <1>5, <2>3
    <3>2. \A c \in Buffers(p) : lock'[c] = p
      BY <1>2, <1>4, <2>3
    <3>3. LocalLocks(p)'
      BY <1>6, <3>1, <3>2 DEF LocalLocks
    <3>4. LocalFacts(p)'
      BY <1>1, <1>2, <1>3, <1>6, <3>1 DEF Local, LocalFacts, Locking, NeedTarget, NeedOther
    <3> QED
      BY <2>1, <2>2, <3>3, <3>4 DEF Local
  <2>4. CASE ~last
    <3>1. be'[p].pc = "lock"
      BY <1>5, <2>4
    <3>2. PICK c \in Buffers(p) \ {b} : lock[c] # p
      BY <2>4
    <3>3. lock'[c] # p
      BY <1>2, <1>4, <3>2
    <3>4. LocalLocks(p)'
      BY <1>6, <3>1, <3>2, <3>3 DEF LocalLocks
    <3>5. LocalFacts(p)'
      BY <1>1, <1>2, <1>6, <3>1 DEF Local, LocalFacts, Locking
    <3> QED
      BY <2>1, <2>2, <3>4, <3>5 DEF Local
  <2> QED
    BY <2>3, <2>4
<1> QED
  BY <1>1, <1>2, <1>3, <1>4, <1>5, <1>7, QuietStepOf, BusyNotTruncated DEF TableType, shared

-----------------------------------------------------------------------------
(* pg_tde_RelationGetBufferForTuple: the search for a page.                  *)

\* A block is tried, with no lock held.
LEMMA TryLocal ==
  ASSUME IInv, NEW p \in Backend, be[p].pc # "idle", NEW b, Try(p, b), InTable(b), b # None,
         nblocks' = nblocks, \A c \in Block : lock'[c] # p
  PROVE  Moves(p) /\ Local(p)'
<1>1. Shape /\ Local(p)
  BY DEF IInv, Global
<1>2. /\ Moves(p) /\ be'[p].pc = "read" /\ be'[p].target = b
      /\ Same(p, {"pc", "target"})
  BY <1>1, TryEffect
<1>3. \A c : InTable(c)' <=> InTable(c)
  BY TableUnchanged
<1>4. LocalType(p)'
  BY <1>1, <1>2, <1>3 DEF Local, LocalType, Same, Fields
<1>5. LocalPages(p)'
  BY <1>1, <1>2 DEF Local, LocalPages, Locking, Same, Fields
<1>6. LocalLocks(p)' /\ LocalFacts(p)'
  BY <1>2 DEF LocalLocks, LocalFacts, Locking
<1> QED
  BY <1>2, <1>4, <1>5, <1>6 DEF Local

\* The table will be extended, with no lock held.
LEMMA ExtendLocal ==
  ASSUME IInv, NEW p \in Backend, be[p].pc # "idle", GiveUp(p) \/ Goto(p, "extend"),
         nblocks' = nblocks, \A c \in Block : lock'[c] # p
  PROVE  Moves(p) /\ Local(p)'
<1>1. Shape /\ Local(p)
  BY DEF IInv, Global
<1>2. /\ Moves(p) /\ be'[p].pc = "extend" /\ be'[p].target \in {None, be[p].target}
      /\ Same(p, {"pc", "target"})
  <2>1. CASE GiveUp(p)
    BY <1>1, <2>1, GiveUpEffect
  <2>2. CASE Goto(p, "extend")
    BY <1>1, <2>2, GotoEffect DEF Same, Fields
  <2> QED
    BY <2>1, <2>2
<1>3. (\A c : InTable(c)' <=> InTable(c)) /\ InTable(None)
  BY TableUnchanged DEF InTable
<1>4. LocalType(p)'
  BY <1>1, <1>2, <1>3 DEF Local, LocalType, Same, Fields
<1>5. LocalPages(p)'
  BY <1>1, <1>2 DEF Local, LocalPages, Locking, Same, Fields
<1>6. LocalLocks(p)' /\ LocalFacts(p)'
  BY <1>2 DEF LocalLocks, LocalFacts, Locking
<1> QED
  BY <1>2, <1>4, <1>5, <1>6 DEF Local

LEMMA InFsmInTable ==
  ASSUME NEW b \in InFsm
  PROVE  InTable(b) /\ b # None
  BY PlacementAssumption DEF InFsm, InTable, Block, None

LEMMA ChooseTargetInv ==
  ASSUME IInv, NEW p \in Backend, ChooseTarget(p)
  PROVE  IInv'
<1> USE PlacementAssumption
<1>1. be[p].pc = "target" /\ UNCHANGED <<shared, lock, vac, rows>>
  BY DEF ChooseTarget
<1>2. TableType /\ Local(p)
  BY DEF IInv, Global
<1>3. LocksOf(p) /\ nblocks' = nblocks /\ \A c \in Block : lock'[c] # p
  BY <1>1, <1>2, LocksUnchanged DEF shared, Local, LocalLocks
<1>4. SUFFICES Moves(p) /\ Local(p)'
  BY <1>1, <1>2, <1>3, QuietStepOf, BusyNotTruncated DEF TableType, shared
<1>5. CASE be[p].cached # None /\ Try(p, be[p].cached)
  BY <1>1, <1>2, <1>3, <1>5, TryLocal DEF Local, LocalType
<1>6. CASE \E b \in InFsm : Try(p, b)
  BY <1>1, <1>3, <1>6, TryLocal, InFsmInTable
<1>7. CASE nblocks > 0 /\ Try(p, nblocks - 1)
  <2>1. InTable(nblocks - 1) /\ nblocks - 1 # None
    BY <1>2, <1>7 DEF TableType, InTable, None
  <2> QED
    BY <1>1, <1>3, <1>7, <2>1, TryLocal
<1>8. CASE Goto(p, "extend")
  BY <1>1, <1>3, <1>8, ExtendLocal
<1> QED
  BY <1>5, <1>6, <1>7, <1>8 DEF ChooseTarget

LEMMA ReadTargetInv ==
  ASSUME IInv, NEW p \in Backend, ReadTarget(p)
  PROVE  IInv'
<1> USE PlacementAssumption
<1> DEFINE b == be[p].target
           pin == IF page[b].allVis THEN MapBlock(b) ELSE be[p].vmTarget
<1>1. be[p].pc = "read" /\ UNCHANGED <<shared, lock, vac, rows>>
  BY Zenon DEF ReadTarget
<1>2. Shape /\ TableType /\ Local(p) /\ b # None
  BY <1>1 DEF IInv, Global, Local, LocalPages
<1>3. LocksOf(p) /\ (\A c : InTable(c)' <=> InTable(c)) /\ nblocks' = nblocks
  BY <1>1, <1>2, LocksUnchanged, TableUnchanged DEF shared
<1>4. DOMAIN be' = Backend /\ \A q \in Backend \ {p} : be'[q] = be[q]
  BY <1>2, Zenon DEF Shape, ReadTarget
<1>5. be'[p] = [be[p] EXCEPT !["pc"] = "lock", !["then"] = "pins", !["vmTarget"] = pin]
  BY <1>2, Zenon DEF Shape, ReadTarget
<1> HIDE DEF pin
<1>6. /\ Moves(p) /\ be'[p].pc = "lock" /\ be'[p].then = "pins"
      /\ Same(p, {"pc", "then", "vmTarget"})
  BY <1>2, <1>4, <1>5 DEF Shape, Moves, Same, Fields
<1>7. LocalType(p)'
  BY <1>1, <1>2, <1>3, <1>6 DEF Local, LocalType, Same, Fields
<1>8. LocalPages(p)'
  BY <1>2, <1>6 DEF Local, LocalPages, Locking, Same, Fields
<1>9. LocalLocks(p)'
  <2>1. be[p].target \in Buffers(p)' /\ be[p].target \in Block
    BY <1>2, <1>6, OwnBlocks DEF Buffers, Same, Fields
  <2>2. lock'[be[p].target] # p
    BY <1>1, <1>2, <2>1 DEF Local, LocalLocks
  <2> QED
    BY <1>6, <2>1, <2>2 DEF LocalLocks
<1>10. LocalFacts(p)'
  BY <1>6 DEF LocalFacts, Locking
<1>11. Local(p)'
  BY <1>7, <1>8, <1>9, <1>10 DEF Local
<1> QED
  BY <1>1, <1>2, <1>3, <1>6, <1>11, QuietStepOf, BusyNotTruncated DEF TableType, shared

\* GetVisibilityMapPins: when it does not come back for a second pass, both map
\* pages are pinned whatever happens to the pages while they are not locked.
LEMMA VisibilityMapPinsInv ==
  ASSUME IInv, NEW p \in Backend, NEW after, UNCHANGED <<shared, vac, rows>>,
         \/ be[p].pc = "pins" /\ after = "space"
         \/ be[p].pc = "xpins" /\ after = "xspace",
         GetVisibilityMapPins(p, after)
  PROVE  IInv'
<1> USE PlacementAssumption
<1> DEFINE t == NeedTarget(p)
           o == NeedOther(p)
           then == IF NeedsSecondPass(p) THEN be[p].pc ELSE after
           pinT == IF t THEN MapBlock(be[p].target) ELSE be[p].vmTarget
           pinO == IF o THEN MapBlock(be[p].other) ELSE be[p].vmOther
<1>1. /\ be[p].pc \in {"pins", "xpins"} /\ after \in {"space", "xspace"}
      /\ after = "xspace" <=> be[p].pc = "xpins"
  OBVIOUS
<1>2. Shape /\ TableType /\ Local(p) /\ be[p].target # None
  BY <1>1 DEF IInv, Global, Local, LocalPages
<1>3. (\A c : InTable(c)' <=> InTable(c)) /\ nblocks' = nblocks /\ page' = page
  BY TableUnchanged DEF shared
<1>4. SUFFICES Moves(p) /\ LocksOf(p) /\ Local(p)'
  BY <1>1, <1>2, <1>3, QuietStepOf, BusyNotTruncated DEF TableType, shared
<1>5. CASE ~t /\ ~o /\ Goto(p, after) /\ UNCHANGED lock
  <2>0. LocksOf(p) /\ lock' = lock
    BY <1>2, <1>3, <1>5, LocksUnchanged
  <2>1. Moves(p) /\ be'[p].pc = after /\ Same(p, {"pc"})
    BY <1>2, <1>5, GotoEffect
  <2>2. LocalType(p)'
    BY <1>1, <1>2, <1>3, <2>1 DEF Local, LocalType, Same, Fields
  <2>3. LocalPages(p)'
    BY <1>1, <1>2, <2>1 DEF Local, LocalPages, Locking, Same, Fields
  <2>4. LocalLocks(p)'
    BY <1>1, <1>2, <2>0, <2>1 DEF Local, LocalLocks, Buffers, Same, Fields
  <2>5. LocalFacts(p)'
    <3>1. /\ be'[p].target = be[p].target /\ be'[p].other = be[p].other
          /\ be'[p].vmTarget = be[p].vmTarget /\ be'[p].vmOther = be[p].vmOther
          /\ be'[p].unlocked = be[p].unlocked
      BY <2>1 DEF Same, Fields
    <3>2. ~NeedTarget(p)' /\ ~NeedOther(p)'
      BY <1>3, <1>5, <3>1 DEF NeedTarget, NeedOther
    <3> QED
      BY <1>1, <1>2, <1>3, <2>1, <3>1, <3>2 DEF Local, LocalFacts, Locking
  <2> QED
    BY <2>0, <2>1, <2>2, <2>3, <2>4, <2>5 DEF Local
<1>6. CASE (t \/ o) /\ UnlockAll(p)
           /\ be' = [be EXCEPT ![p].pc = "lock", ![p].then = then, ![p].unlocked = TRUE,
                               ![p].vmTarget = pinT, ![p].vmOther = pinO]
  <2>0. UnlockAll(p) /\ (t \/ o)
    BY <1>6, Zenon
  <2>1. LocksOf(p) /\ \A c \in Block : lock'[c] # p
    BY <1>2, <1>3, <2>0, UnlockEffect
  <2>2. DOMAIN be' = Backend /\ \A q \in Backend \ {p} : be'[q] = be[q]
    BY <1>2, <1>6, Zenon DEF Shape
  <2>3. be'[p] = [be[p] EXCEPT !["pc"] = "lock", !["then"] = then, !["unlocked"] = TRUE,
                               !["vmTarget"] = pinT, !["vmOther"] = pinO]
    BY <1>2, <1>6, Zenon DEF Shape
  <2>4. then = be[p].pc \/ (then = after /\ ~NeedsSecondPass(p))
    OBVIOUS
  <2>5. /\ t => pinT = MapBlock(be[p].target)
        /\ ~t => pinT = be[p].vmTarget
        /\ o => pinO = MapBlock(be[p].other)
        /\ ~o => pinO = be[p].vmOther
    OBVIOUS
  <2> HIDE DEF then, pinT, pinO, t, o
  <2>6. /\ Moves(p) /\ be'[p].pc = "lock" /\ be'[p].then = then /\ be'[p].unlocked = TRUE
        /\ be'[p].vmTarget = pinT /\ be'[p].vmOther = pinO
        /\ Same(p, {"pc", "then", "unlocked", "vmTarget", "vmOther"})
    BY <1>2, <2>2, <2>3 DEF Shape, Moves, Same, Fields
  <2>7. be'[p].target = be[p].target /\ be'[p].other = be[p].other
    BY <2>6 DEF Same, Fields
  <2>8. LocalType(p)'
    BY <1>1, <1>2, <1>3, <2>6 DEF Local, LocalType, Same, Fields
  <2>9. LocalPages(p)'
    <3>1. pinO = None \/ (be[p].other # None /\ pinO = MapBlock(be[p].other))
      BY <1>2, <2>5 DEF Local, LocalPages, o, NeedOther
    <3> QED
      BY <1>1, <1>2, <2>4, <2>6, <2>7, <3>1 DEF LocalPages, Locking
  <2>10. LocalLocks(p)'
    <3>1. be[p].target \in Buffers(p)' /\ be[p].target \in Block
      BY <1>2, <2>7, OwnBlocks DEF Buffers
    <3>2. then \in {"refit", "pins", "space", "xpins", "xspace"}
      BY <1>1, <2>4
    <3> QED
      BY <2>1, <2>6, <3>1, <3>2 DEF LocalLocks
  <2>11. LocalFacts(p)'
    <3>1. then \in {"space", "xspace"} =>
            /\ pinT = MapBlock(be[p].target)
            /\ be[p].other # None => pinO = MapBlock(be[p].other)
      <4>1. SUFFICES ASSUME ~NeedsSecondPass(p)
                     PROVE  /\ pinT = MapBlock(be[p].target)
                            /\ be[p].other # None => pinO = MapBlock(be[p].other)
        BY <1>1, <2>4
      <4>2. CASE t /\ o
        BY <2>5, <4>2
      <4>3. CASE be[p].other = None
        BY <2>0, <2>5, <4>3 DEF t, o, NeedTarget, NeedOther
      <4>4. CASE be[p].other = be[p].target
        BY <2>0, <2>5, <4>4 DEF t, o, NeedTarget, NeedOther
      <4> QED
        BY <4>1, <4>2, <4>3, <4>4 DEF NeedsSecondPass, t, o
    <3> QED
      BY <2>6, <2>7, <3>1 DEF LocalFacts, Locking
  <2> QED
    BY <2>1, <2>6, <2>8, <2>9, <2>10, <2>11 DEF Local
<1> QED
  BY <1>5, <1>6, Zenon DEF GetVisibilityMapPins

LEMMA PinsInv ==
  ASSUME IInv, NEW p \in Backend, Pins(p) \/ XPins(p)
  PROVE  IInv'
<1>1. CASE Pins(p)
  <2>1. be[p].pc = "pins" /\ GetVisibilityMapPins(p, "space") /\ UNCHANGED <<shared, vac, rows>>
    BY <1>1, Zenon DEF Pins
  <2> QED
    BY <2>1, VisibilityMapPinsInv, Zenon
<1>2. CASE XPins(p)
  <2>1. be[p].pc = "xpins" /\ GetVisibilityMapPins(p, "xspace") /\ UNCHANGED <<shared, vac, rows>>
    BY <1>2, Zenon DEF XPins
  <2> QED
    BY <2>1, VisibilityMapPinsInv, Zenon
<1> QED
  BY <1>1, <1>2

\* Initialising a new page is seen by nobody who looks at tuples or flags.
LEMMA PageInitEffect ==
  ASSUME TableType, NEW b \in Block, page' = PageInit(b)
  PROVE  /\ page' \in [Block -> Pages]
         /\ \A c \in Block : page'[c].used = page[c].used /\ page'[c].allVis = page[c].allVis
<1>1. page \in [Block -> Pages]
  BY DEF TableType
<1>2. page'[b] = [new |-> FALSE, used |-> page[b].used, allVis |-> page[b].allVis]
  BY <1>1 DEF PageInit
<1>3. page'[b] \in Pages
  BY <1>1, <1>2 DEF Pages
<1>4. \A c \in Block : c # b => page'[c] = page[c]
  BY <1>1 DEF PageInit
<1>5. page' = [c \in Block |-> page'[c]]
  BY <1>1 DEF PageInit
<1>6. \A c \in Block : page'[c] \in Pages
  BY <1>1, <1>3, <1>4
<1>7. \A c \in Block : page'[c].used = page[c].used /\ page'[c].allVis = page[c].allVis
  BY <1>2, <1>4
<1> QED
  BY <1>5, <1>6, <1>7

\* The page has room and is right: the operation goes to its critical section.
LEMMA PutLocal ==
  ASSUME IInv, NEW p \in Backend, be[p].pc \in {"space", "xspace"}, Free(be[p].target) >= 1,
         be' = [be EXCEPT ![p].pc = "put", ![p].cached = be[p].target],
         UNCHANGED <<nblocks, lock>>,
         \A c \in Block : page'[c].used = page[c].used /\ page'[c].allVis = page[c].allVis
  PROVE  Moves(p) /\ Local(p)'
<1> USE PlacementAssumption
<1> DEFINE b == be[p].target
<1>1. Shape /\ TableType /\ Local(p) /\ b # None
  BY Zenon DEF IInv, Global, Local, LocalPages
<1>2. DOMAIN be' = Backend /\ \A q \in Backend \ {p} : be'[q] = be[q]
  BY <1>1, Zenon DEF Shape
<1>3. be'[p] = [be[p] EXCEPT !["pc"] = "put", !["cached"] = b]
  BY <1>1, Zenon DEF Shape
<1>4. /\ \A c \in Block : page'[c].used = page[c].used /\ page'[c].allVis = page[c].allVis
      /\ nblocks' = nblocks /\ lock' = lock /\ be[p].pc \in {"space", "xspace"}
      /\ Free(be[p].target) >= 1
  BY Zenon
<1>5. /\ Moves(p) /\ be'[p].pc = "put" /\ be'[p].cached = b /\ Same(p, {"pc", "cached"})
  BY <1>1, <1>2, <1>3, SMT DEF Shape, Moves, Same, Fields
<1> SUFFICES Local(p)'
  BY <1>5, Zenon
<1>6. /\ be'[p].target = be[p].target /\ be'[p].other = be[p].other
      /\ be'[p].vmTarget = be[p].vmTarget /\ be'[p].vmOther = be[p].vmOther
      /\ be'[p].left = be[p].left /\ be'[p].extended = be[p].extended
      /\ be'[p].nextFree = be[p].nextFree /\ be'[p].lastFree = be[p].lastFree
      /\ Buffers(p)' = Buffers(p)
  <2>1. Same(p, {"pc", "cached"})
    BY <1>5, Zenon
  <2> QED
    BY ONLY <2>1 DEF Same, Fields, Buffers
<1>7. \A c : InTable(c)' <=> InTable(c)
  BY <1>4, Zenon DEF InTable
<1>8. LocalType(p)'
  BY ONLY <1>1, <1>4, <1>5, <1>6, <1>7 DEF Local, LocalType
<1>9. LocalPages(p)'
  BY ONLY <1>1, <1>5, <1>6 DEF Local, LocalPages, Locking
<1>10. LocalLocks(p)'
  BY ONLY <1>1, <1>4, <1>5, <1>6 DEF Local, LocalLocks
<1>11. LocalFacts(p)'
  <2>1. b \in Block /\ (be[p].other # None => be[p].other \in Block)
    BY <1>1, OwnBlocks, Zenon
  <2>2. Free(be[p].target)' >= 1
    BY ONLY <1>4, <1>6, <2>1 DEF Free
  <2>3. ~NeedTarget(p) /\ ~NeedOther(p)
    BY ONLY <1>1, <1>4 DEF Local, LocalFacts
  <2>4. ~WrongPin(p)'
    BY ONLY <1>4, <1>6, <2>1, <2>3 DEF WrongPin, NeedTarget, NeedOther
  <2> QED
    BY ONLY <1>5, <2>2, <2>4 DEF LocalFacts, Locking
<1> QED
  BY <1>8, <1>9, <1>10, <1>11, Zenon DEF Local

LEMMA SpaceFoundInv ==
  ASSUME IInv, NEW p \in Backend, SpaceFound(p)
  PROVE  IInv'
<1> USE PlacementAssumption
<1>1. /\ be[p].pc = "space" /\ Free(be[p].target) >= Need /\ page' = PageInit(be[p].target)
      /\ be' = [be EXCEPT ![p].pc = "put", ![p].cached = be[p].target]
      /\ UNCHANGED <<nblocks, vm, fsm, lock, vac, rows>>
  BY Zenon DEF SpaceFound
<1>2. /\ be[p].pc = "space" /\ Free(be[p].target) >= Need /\ page' = PageInit(be[p].target)
      /\ UNCHANGED <<nblocks, vm, fsm, lock, vac, rows>>
  BY <1>1, Zenon
<1>3. TableType /\ Local(p) /\ be[p].target \in Block
  <2>1. TableType /\ Local(p) /\ be[p].target # None
    BY <1>2 DEF IInv, Global, Local, LocalPages
  <2> QED
    BY <2>1, OwnBlocks
<1>4. /\ page' \in [Block -> Pages]
      /\ \A c \in Block : page'[c].used = page[c].used /\ page'[c].allVis = page[c].allVis
  BY <1>2, <1>3, PageInitEffect
<1>5. Free(be[p].target) >= 1
  <2>1. page[be[p].target].used \in Nat /\ Cap \in Nat /\ SaveFree \in Nat
    BY <1>3 DEF TableType, Pages
  <2> QED
    BY <1>2, <2>1, SMTT(30) DEF Free, Need
<1>6. Moves(p) /\ Local(p)'
  BY <1>1, <1>4, <1>5, PutLocal, Zenon
<1>7. LocksOf(p)
  BY <1>2, <1>3, LocksUnchanged
<1> QED
  BY <1>2, <1>4, <1>6, <1>7, QuietStepOf, BusyNotTruncated

LEMMA SpaceLackingInv ==
  ASSUME IInv, NEW p \in Backend, SpaceLacking(p)
  PROVE  IInv'
<1> USE PlacementAssumption
<1> DEFINE next == be[p].nextFree
           more == be[p].nextFree < be[p].lastFree
           nf == IF more THEN be[p].nextFree + 1 ELSE None
           lf == IF more THEN be[p].lastFree ELSE None
<1>1. /\ be[p].pc = "space" /\ page' = PageInit(be[p].target) /\ UnlockAll(p)
      /\ UNCHANGED <<nblocks, vm, vac, rows>>
  BY Zenon DEF SpaceLacking
<1>2. Shape /\ TableType /\ Local(p) /\ be[p].target \in Block
  <2>1. Shape /\ TableType /\ Local(p) /\ be[p].target # None
    BY <1>1 DEF IInv, Global, Local, LocalPages
  <2> QED
    BY <2>1, OwnBlocks
<1>3. /\ page' \in [Block -> Pages]
      /\ \A c \in Block : page'[c].used = page[c].used /\ page'[c].allVis = page[c].allVis
  BY <1>1, <1>2, PageInitEffect
<1>4. LocksOf(p) /\ \A c \in Block : lock'[c] # p
  BY <1>1, <1>2, UnlockEffect
<1>5. SUFFICES Moves(p) /\ Local(p)'
  BY <1>1, <1>3, <1>4, QuietStepOf, BusyNotTruncated
<1>6. CASE \E b \in InFsm : Try(p, b)
  BY <1>1, <1>4, <1>6, TryLocal, InFsmInTable
<1>7. CASE GiveUp(p)
  BY <1>1, <1>4, <1>7, ExtendLocal
<1>8. CASE next # None /\ be' = [be EXCEPT ![p].pc = "read", ![p].target = next,
                                           ![p].nextFree = nf, ![p].lastFree = lf]
  <2>1. DOMAIN be' = Backend /\ \A q \in Backend \ {p} : be'[q] = be[q]
    BY <1>2, <1>8, Zenon DEF Shape
  <2>2. be'[p] = [be[p] EXCEPT !["pc"] = "read", !["target"] = next,
                               !["nextFree"] = nf, !["lastFree"] = lf]
    BY <1>2, <1>8, Zenon DEF Shape
  <2>3. next # None
    BY <1>8, Zenon
  <2>4. /\ next \in Nat /\ be[p].lastFree \in Nat /\ next <= be[p].lastFree
        /\ be[p].lastFree < nblocks /\ nblocks \in Nat
    BY <1>2, <2>3 DEF Local, LocalType, TableType
  <2>5. /\ InTable(next)
        /\ nf = None \/ (nf \in Nat /\ lf \in Nat /\ nf <= lf /\ lf < nblocks)
    <3>1. InTable(next)
      BY <2>4 DEF InTable
    <3>2. CASE more
      BY <2>4, <3>1, <3>2, SMTT(30)
    <3>3. CASE ~more
      BY <3>1, <3>3
    <3> QED
      BY <3>2, <3>3
  <2> HIDE DEF nf, lf, next
  <2>6. /\ Moves(p) /\ be'[p].pc = "read" /\ be'[p].target = next /\ be'[p].nextFree = nf
        /\ be'[p].lastFree = lf /\ Same(p, {"pc", "target", "nextFree", "lastFree"})
    BY <1>2, <2>1, <2>2 DEF Shape, Moves, Same, Fields
  <2>7. \A c : InTable(c)' <=> InTable(c)
    BY <1>1, TableUnchanged
  <2>8. LocalType(p)'
    BY <1>1, <1>2, <2>5, <2>6, <2>7 DEF Local, LocalType, Same, Fields
  <2>9. LocalPages(p)'
    BY <1>2, <2>3, <2>6 DEF Local, LocalPages, Locking, Same, Fields
  <2>10. LocalLocks(p)' /\ LocalFacts(p)'
    BY <1>4, <2>6 DEF LocalLocks, LocalFacts, Locking
  <2> QED
    BY <2>6, <2>8, <2>9, <2>10 DEF Local
<1> QED
  BY <1>6, <1>7, <1>8, Zenon DEF SpaceLacking

-----------------------------------------------------------------------------
(* RelationAddBlocks: the table grows.                                       *)

LEMMA MaxOfTwo ==
  ASSUME NEW a \in Int, NEW b \in Int
  PROVE  Max({a, b}) \in {a, b} /\ Max({a, b}) >= a
<1>1. \E x \in {a, b} : \A y \in {a, b} : x >= y
  OBVIOUS
<1> QED
  BY <1>1 DEF Max

LEMMA MinOfTwo ==
  ASSUME NEW a \in Int, NEW b \in Int
  PROVE  Min({a, b}) \in {a, b} /\ Min({a, b}) <= a /\ Min({a, b}) <= b
<1>1. \E x \in {a, b} : \A y \in {a, b} : x <= y
  OBVIOUS
<1> QED
  BY <1>1 DEF Min

LEMMA NonPositiveProduct ==
  ASSUME NEW c \in Nat, NEW x \in Int, x <= 0
  PROVE  c * x <= 0
  OBVIOUS

\* Pages asked for: at least one.
LEMMA NumPagesPositive ==
  ASSUME NEW p \in Backend, be[p].left \in Nat, be[p].left >= 1
  PROVE  NumPages(p) \in Nat /\ NumPages(p) >= 1
<1> DEFINE a == be[p].left + Cap - 1
<1>1. Cap \in Nat /\ Cap >= 1 /\ a \in Nat /\ a >= Cap
  BY PlacementAssumption
<1>2. a = Cap * (a \div Cap) + (a % Cap) /\ a % Cap \in 0..(Cap - 1) /\ a \div Cap \in Int
  BY <1>1
<1>3. a \div Cap >= 1
  <2>1. SUFFICES ASSUME a \div Cap <= 0 PROVE FALSE
    BY <1>2
  <2>2. Cap * (a \div Cap) <= 0
    BY <1>1, <1>2, <2>1, NonPositiveProduct
  <2> QED
    BY <1>1, <1>2, <2>2
<1> QED
  BY <1>2, <1>3 DEF NumPages

LEMMA ExtendByPositive ==
  ASSUME NEW p \in Backend, be[p].left \in Nat, be[p].left >= 1, be[p].extended \in Nat
  PROVE  ExtendBy(p) \in Nat /\ ExtendBy(p) >= 1
<1> DEFINE W == {q \in Backend \ {p} : be[q].pc = "extend"}
           c == Cardinality(W)
           wanted == NumPages(p) * (1 + c)
           most == MAX_BUFFERS_TO_EXTEND_BY
<1>1. c \in Nat
  <2>1. IsFiniteSet(Backend) /\ W \subseteq Backend
    BY PlacementAssumption
  <2> QED
    BY <2>1, FS_Subset, FS_CardinalityType
<1>2. most \in Nat /\ most >= 1
  BY PlacementAssumption
<1>3. wanted \in Nat /\ wanted >= 1
  <2> HIDE DEF c
  <2>1. NumPages(p) \in Nat /\ NumPages(p) >= 1
    BY NumPagesPositive
  <2>2. NumPages(p) * (1 + c) \in Nat /\ NumPages(p) * (1 + c) >= NumPages(p)
    BY <1>1, <2>1
  <2> QED
    BY <2>1, <2>2
<1> HIDE DEF wanted, most
<1>4. Max({wanted, be[p].extended}) \in Nat /\ Max({wanted, be[p].extended}) >= 1
  <2>1. wanted \in Int /\ be[p].extended \in Int
    BY <1>3
  <2>2. /\ Max({wanted, be[p].extended}) \in {wanted, be[p].extended}
        /\ Max({wanted, be[p].extended}) >= wanted
    BY <2>1, MaxOfTwo, Zenon
  <2> QED
    BY <1>3, <2>2
<1>5. /\ Min({Max({wanted, be[p].extended}), most}) \in Nat
      /\ Min({Max({wanted, be[p].extended}), most}) >= 1
  <2>1. most \in Int /\ Max({wanted, be[p].extended}) \in Int
    BY <1>2, <1>4
  <2>2. Min({Max({wanted, be[p].extended}), most}) \in {Max({wanted, be[p].extended}), most}
    BY <2>1, MinOfTwo, Zenon
  <2> QED
    BY <1>2, <1>4, <2>2
<1> QED
  BY <1>5 DEF ExtendBy, wanted, most

LEMMA ExtendInv ==
  ASSUME IInv, NEW p \in Backend, Extend(p)
  PROVE  IInv'
<1> USE PlacementAssumption
<1>0. PICK first : first = nblocks
  OBVIOUS
<1> DEFINE n == ExtendBy(p)
           mine == IF be[p].kind = "bulk" THEN NumPages(p) ELSE 1
           shares == useFsm(p) /\ mine < n
           bulk == be[p].kind = "bulk" /\ n > 1
           nf == IF bulk THEN first + 1 ELSE None
           lf == IF bulk THEN first + n - 1 ELSE None
           ext == IF be[p].kind = "bulk" THEN be[p].extended + n ELSE 0
           pc1 == IF shares THEN "lock" ELSE "extended"
<1>1. /\ be[p].pc = "extend" /\ first + n <= MaxBlocks /\ nblocks' = first + n
      /\ lock' = IF shares THEN lock ELSE [lock EXCEPT ![first] = p]
      /\ UNCHANGED <<vm, vac, rows>>
  BY <1>0, Zenon DEF Extend, RelationAddBlocks
<1>2. page' = [b \in Block |-> IF b = first
                               THEN [new |-> FALSE, used |-> 0, allVis |-> FALSE]
                               ELSE IF b \in first..(first + n - 1) THEN NewPage
                               ELSE page[b]]
  BY <1>0, Zenon DEF Extend, RelationAddBlocks
<1>3. Shape /\ TableType /\ Local(p) /\ MapTrue
  BY DEF IInv, Global
<1>4. n \in Nat /\ n >= 1
  BY <1>1, <1>3, ExtendByPositive DEF Local, LocalType
<1>5. DOMAIN be' = Backend /\ \A q \in Backend \ {p} : be'[q] = be[q]
  BY <1>0, <1>3, Zenon DEF Shape, Extend, RelationAddBlocks
<1>6. be'[p] = [be[p] EXCEPT !["pc"] = pc1, !["then"] = "xpins", !["target"] = first,
                             !["unlocked"] = shares, !["nextFree"] = nf, !["lastFree"] = lf,
                             !["extended"] = ext]
  BY <1>0, <1>3, Zenon DEF Shape, Extend, RelationAddBlocks
<1> HIDE DEF n
<1>7. /\ first \in Nat /\ first < MaxBlocks /\ first \in Block /\ first # None
      /\ nblocks' \in nblocks..MaxBlocks /\ nblocks' \in Nat /\ first < nblocks'
  BY <1>0, <1>1, <1>3, <1>4 DEF TableType, Block, None
<1>8. /\ nf = None \/ (nf \in Nat /\ lf \in Nat /\ nf <= lf /\ lf < nblocks')
      /\ ext \in Nat
  <2>1. be[p].extended \in Nat
    BY <1>3 DEF Local, LocalType
  <2>2. ext \in Nat
    BY <1>4, <2>1
  <2>3. CASE bulk
    <3>1. n > 1 /\ nf = first + 1 /\ lf = first + n - 1
      BY <2>3
    <3>2. nblocks' = first + n /\ first \in Nat /\ n \in Nat
      BY <1>1, <1>4, <1>7
    <3> HIDE DEF nf, lf, ext
    <3>3. nf \in Nat /\ lf \in Nat /\ nf <= lf /\ lf < nblocks'
      BY ONLY <3>1, <3>2
    <3> QED
      BY <2>2, <3>3
  <2>4. CASE ~bulk
    <3>1. nf = None
      BY <2>4
    <3> QED
      BY <2>2, <3>1
  <2> QED
    BY <2>3, <2>4
<1>9. pc1 = "lock" <=> shares
  OBVIOUS
<1>10. pc1 \in {"lock", "extended"} /\ shares \in BOOLEAN
  OBVIOUS
<1> HIDE DEF nf, lf, ext, pc1
<1>11. /\ Moves(p) /\ be'[p].pc = pc1 /\ be'[p].then = "xpins" /\ be'[p].target = first
       /\ be'[p].unlocked = shares /\ be'[p].nextFree = nf /\ be'[p].lastFree = lf
       /\ be'[p].extended = ext
       /\ Same(p, {"pc", "then", "target", "unlocked", "nextFree", "lastFree", "extended"})
  <2> HIDE DEF shares
  <2> QED
    BY <1>3, <1>5, <1>6 DEF Shape, Moves, Same, Fields
<1> HIDE DEF shares
<1>12. /\ be'[p].left = be[p].left /\ be'[p].other = be[p].other
       /\ be'[p].cached = be[p].cached /\ be'[p].vmOther = be[p].vmOther
  BY <1>11 DEF Same, Fields
<1>13. /\ page' \in [Block -> Pages]
       /\ page'[first].used = 0 /\ ~page'[first].allVis
       /\ \A b \in Block : b < nblocks => page'[b] = page[b]
  <2>1. [new |-> FALSE, used |-> 0, allVis |-> FALSE] \in Pages /\ NewPage \in Pages
    BY DEF Pages, NewPage
  <2>2. page \in [Block -> Pages]
    BY <1>3 DEF TableType
  <2>3. \A b \in Block : b < nblocks => b # first /\ b \notin first..(first + n - 1)
    BY <1>0, <1>4, <1>7 DEF Block
  <2>4. page' \in [Block -> Pages]
    BY <1>2, <2>1, <2>2
  <2>5. page'[first] = [new |-> FALSE, used |-> 0, allVis |-> FALSE]
    BY <1>2, <1>7
  <2>6. \A b \in Block : b < nblocks => page'[b] = page[b]
    BY <1>2, <2>3
  <2> QED
    BY <2>4, <2>5, <2>6
<1>14. MapTrue'
  BY <1>0, <1>1, <1>3, <1>7, <1>13 DEF MapTrue, Block
<1>15. \A q \in Backend \ {p} : PagesOf(q)
  BY <1>0, <1>3, <1>13 DEF PagesOf, TableType
<1>16. LocksOf(p)
  <2>0. lock \in [Block -> Backend \cup {Nobody}] /\ lock[first] = Nobody
    BY <1>0, <1>3, <1>7 DEF TableType
  <2>1. \A b \in Block : lock[b] # Nobody => b < nblocks'
    BY <1>0, <1>3, <1>7 DEF TableType, Block
  <2>2. CASE shares
    BY <1>1, <2>0, <2>1, <2>2 DEF LocksOf
  <2>3. CASE ~shares
    <3>1. lock' = [lock EXCEPT ![first] = p]
      BY <1>1, <2>3
    <3>2. lock' \in [Block -> Backend \cup {Nobody}] /\ lock'[first] = p
      BY <1>7, <2>0, <3>1
    <3>3. \A b \in Block : b # first => lock'[b] = lock[b]
      BY <2>0, <3>1
    <3> QED
      BY <1>7, <2>0, <2>1, <3>2, <3>3 DEF LocksOf
  <2> QED
    BY <2>2, <2>3
<1>17. Local(p)'
  <2>1. LocalType(p)'
    <3>1. \A b : InTable(b) => InTable(b)'
      BY <1>0, <1>7 DEF InTable
    <3>2. InTable(first)'
      BY <1>0, <1>7 DEF InTable
    <3> QED
      BY <1>1, <1>3, <1>8, <1>10, <1>11, <1>12, <3>1, <3>2 DEF Local, LocalType
  <2>2. LocalPages(p)'
    BY <1>3, <1>7, <1>10, <1>11, <1>12 DEF Local, LocalPages, Locking
  <2>3. LocalLocks(p)'
    <3>1. CASE shares
      <4>1. lock'[first] # p /\ first \in Buffers(p)'
        BY <1>1, <1>3, <1>7, <1>11, <3>1 DEF Local, LocalLocks, Buffers
      <4> QED
        BY <1>9, <1>11, <3>1, <4>1 DEF LocalLocks
    <3>2. CASE ~shares
      <4>1. lock'[first] = p
        BY <1>1, <1>3, <1>7, <3>2 DEF TableType
      <4> QED
        BY <1>9, <1>10, <1>11, <3>2, <4>1 DEF LocalLocks
    <3> QED
      BY <3>1, <3>2
  <2>4. LocalFacts(p)'
    BY <1>9, <1>10, <1>11, <1>13 DEF LocalFacts, Locking
  <2> QED
    BY <2>1, <2>2, <2>3, <2>4 DEF Local
<1>18. vm' \in [Block -> BOOLEAN] /\ vac' = vac
  BY <1>1, <1>3 DEF TableType
<1> QED
  BY <1>0, <1>1, <1>7, <1>11, <1>13, <1>14, <1>15, <1>16, <1>17, <1>18, StepOf, BusyNotTruncated

\* The operation is over: nothing is held any more.
LEMMA FinishLocal ==
  ASSUME IInv, NEW p \in Backend, Finish(p), nblocks' = nblocks, \A c \in Block : lock'[c] # p
  PROVE  Moves(p) /\ Local(p)'
<1>1. Shape /\ Local(p)
  BY DEF IInv, Global
<1>2. /\ Moves(p) /\ be'[p].cached = be[p].cached
      /\ \A f \in Fields \ {"cached", "done"} : be'[p][f] = Idle[f]
  BY <1>1, FinishEffect
<1>3. /\ be'[p].pc = "idle" /\ be'[p].left = 0 /\ be'[p].extended = 0
      /\ be'[p].target = None /\ be'[p].other = None /\ be'[p].vmOther = None
      /\ be'[p].nextFree = None
  BY <1>2 DEF Idle, Fields
<1>4. LocalType(p)'
  BY <1>1, <1>2, <1>3 DEF Local, LocalType, InTable
<1>5. LocalPages(p)' /\ LocalLocks(p)' /\ LocalFacts(p)'
  BY <1>3 DEF LocalPages, LocalLocks, LocalFacts, Locking
<1> QED
  BY <1>2, <1>4, <1>5 DEF Local

LEMMA ExtendFailsInv ==
  ASSUME IInv, NEW p \in Backend, ExtendFails(p)
  PROVE  IInv'
<1>1. be[p].pc = "extend" /\ Finish(p) /\ UNCHANGED <<shared, lock, vac, rows>>
  BY Zenon DEF ExtendFails
<1>2. TableType /\ Local(p)
  BY DEF IInv, Global
<1>3. LocksOf(p) /\ nblocks' = nblocks /\ \A c \in Block : lock'[c] # p
  BY <1>1, <1>2, LocksUnchanged DEF shared, Local, LocalLocks
<1>4. Moves(p) /\ Local(p)'
  BY <1>1, <1>3, FinishLocal
<1> QED
  BY <1>1, <1>2, <1>3, <1>4, QuietStepOf, BusyNotTruncated DEF TableType, shared

LEMMA ConditionalLockOtherInv ==
  ASSUME IInv, NEW p \in Backend, ConditionalLockOther(p)
  PROVE  IInv'
<1> USE PlacementAssumption
<1> DEFINE o == be[p].other
<1>1. be[p].pc = "extended" /\ UNCHANGED <<shared, vac, rows>>
  BY Zenon DEF ConditionalLockOther
<1>2. /\ Shape /\ TableType /\ Local(p) /\ be[p].target # None /\ be[p].target \in Block
      /\ Buffers(p) \subseteq Block /\ lock[be[p].target] = p
      /\ o # None => o \in Block /\ o < nblocks
  <2>1. Shape /\ TableType /\ Local(p) /\ be[p].target # None /\ InTable(o)
    BY <1>1 DEF IInv, Global, Local, LocalPages, LocalType
  <2> QED
    BY <1>1, <2>1, OwnBlocks DEF Local, LocalLocks, InTable
<1>3. /\ (\A c : InTable(c)' <=> InTable(c)) /\ nblocks' = nblocks /\ page' = page
      /\ page[be[p].target].used = 0 /\ ~page[be[p].target].allVis
  BY <1>1, <1>2, TableUnchanged DEF shared, Local, LocalFacts
<1>4. SUFFICES Moves(p) /\ LocksOf(p) /\ Local(p)'
  BY <1>1, <1>2, <1>3, QuietStepOf, BusyNotTruncated DEF TableType, shared
<1>5. ASSUME NEW l \in {"xspace", "xpins"}, Goto(p, l),
             \A c \in Buffers(p) : lock'[c] = p, l = "xspace" => o = None
      PROVE  Moves(p) /\ Local(p)'
  <2>1. Moves(p) /\ be'[p].pc = l /\ Same(p, {"pc"})
    BY <1>2, <1>5, GotoEffect
  <2>2. /\ be'[p].target = be[p].target /\ be'[p].other = be[p].other
        /\ be'[p].unlocked = be[p].unlocked /\ Buffers(p)' = Buffers(p)
    BY <2>1 DEF Same, Fields, Buffers
  <2>3. LocalType(p)'
    BY <1>1, <1>2, <1>3, <2>1 DEF Local, LocalType, Same, Fields
  <2>4. LocalPages(p)'
    BY <1>2, <2>1 DEF Local, LocalPages, Locking, Same, Fields
  <2>5. LocalLocks(p)'
    BY <1>5, <2>1, <2>2 DEF LocalLocks
  <2>6. LocalFacts(p)'
    BY <1>3, <1>5, <2>1, <2>2 DEF LocalFacts, Locking, NeedTarget, NeedOther
  <2> QED
    BY <2>1, <2>3, <2>4, <2>5, <2>6 DEF Local
<1>6. CASE o = None /\ Goto(p, "xspace") /\ UNCHANGED lock
  <2>1. LocksOf(p) /\ \A c \in Buffers(p) : lock'[c] = p
    BY <1>2, <1>3, <1>6, LocksUnchanged DEF Buffers
  <2> QED
    BY <1>5, <1>6, <2>1
<1>7. CASE o # None /\ Lock(p, o) /\ Goto(p, "xpins")
  <2>1. lock[o] = Nobody /\ lock' = [lock EXCEPT ![o] = p]
    BY <1>7 DEF Lock
  <2>2. lock' \in [Block -> Backend \cup {Nobody}] /\ lock'[o] = p
    BY <1>2, <1>7, <2>1 DEF TableType
  <2>3. \A c \in Block : c # o => lock'[c] = lock[c]
    BY <1>2, <2>1 DEF TableType
  <2>4. \A c \in Block : lock'[c] # Nobody => c < nblocks'
    BY <1>2, <1>3, <1>7, <2>3 DEF TableType
  <2>5. LocksOf(p)
    BY <1>2, <1>7, <2>1, <2>2, <2>3, <2>4 DEF LocksOf
  <2>6. \A c \in Buffers(p) : lock'[c] = p
    BY <1>2, <2>2, <2>3 DEF Buffers
  <2> QED
    BY <1>5, <1>7, <2>5, <2>6
<1>8. CASE UnlockAll(p)
           /\ be' = [be EXCEPT ![p].pc = "lock", ![p].then = "xpins", ![p].unlocked = TRUE]
  <2>1. LocksOf(p) /\ \A c \in Block : lock'[c] # p
    BY <1>2, <1>3, <1>8, UnlockEffect
  <2>2. DOMAIN be' = Backend /\ \A q \in Backend \ {p} : be'[q] = be[q]
    BY <1>2, <1>8, Zenon DEF Shape
  <2>3. be'[p] = [be[p] EXCEPT !["pc"] = "lock", !["then"] = "xpins", !["unlocked"] = TRUE]
    BY <1>2, <1>8, Zenon DEF Shape
  <2>4. /\ Moves(p) /\ be'[p].pc = "lock" /\ be'[p].then = "xpins" /\ be'[p].unlocked = TRUE
        /\ Same(p, {"pc", "then", "unlocked"})
    BY <1>2, <2>2, <2>3 DEF Shape, Moves, Same, Fields
  <2>5. LocalType(p)'
    BY <1>1, <1>2, <1>3, <2>4 DEF Local, LocalType, Same, Fields
  <2>6. LocalPages(p)'
    BY <1>2, <2>4 DEF Local, LocalPages, Locking, Same, Fields
  <2>7. LocalLocks(p)'
    <3>1. be[p].target \in Buffers(p)'
      BY <1>2, <2>4 DEF Buffers, Same, Fields
    <3> QED
      BY <1>2, <2>1, <2>4, <3>1 DEF LocalLocks
  <2>8. LocalFacts(p)'
    BY <2>4 DEF LocalFacts, Locking
  <2> QED
    BY <2>1, <2>4, <2>5, <2>6, <2>7, <2>8 DEF Local
<1> QED
  BY <1>6, <1>7, <1>8, Zenon DEF ConditionalLockOther

LEMMA XSpaceInv ==
  ASSUME IInv, NEW p \in Backend, XSpace(p)
  PROVE  IInv'
<1> USE PlacementAssumption
<1>1. be[p].pc = "xspace" /\ UNCHANGED <<shared, vac, rows>>
  BY Zenon DEF XSpace
<1>2. Shape /\ TableType /\ Local(p) /\ be[p].target # None
  BY <1>1 DEF IInv, Global, Local, LocalPages
<1>3. (\A c : InTable(c)' <=> InTable(c)) /\ nblocks' = nblocks /\ page' = page
  BY <1>1, TableUnchanged DEF shared
<1>4. SUFFICES Moves(p) /\ LocksOf(p) /\ Local(p)'
  BY <1>1, <1>2, <1>3, QuietStepOf, BusyNotTruncated DEF TableType, shared
<1>5. CASE Free(be[p].target) >= 1 /\ UNCHANGED lock
           /\ be' = [be EXCEPT ![p].pc = "put", ![p].cached = be[p].target]
  <2>1. UNCHANGED lock
    BY <1>5, Zenon
  <2>2. LocksOf(p)
    BY <1>2, <1>3, <2>1, LocksUnchanged
  <2>3. \A c \in Block : page'[c].used = page[c].used /\ page'[c].allVis = page[c].allVis
    BY <1>3
  <2>4. be[p].pc \in {"space", "xspace"}
    BY <1>1
  <2>5. Moves(p) /\ Local(p)'
    BY <1>3, <1>5, <2>3, <2>4, PutLocal, Zenon
  <2> QED
    BY <2>2, <2>5, Zenon
<1>6. CASE UnlockAll(p) /\ Goto(p, "read")
  <2>1. LocksOf(p) /\ \A c \in Block : lock'[c] # p
    BY <1>2, <1>3, <1>6, UnlockEffect
  <2>2. Moves(p) /\ be'[p].pc = "read" /\ Same(p, {"pc"})
    BY <1>2, <1>6, GotoEffect
  <2>3. LocalType(p)'
    BY <1>1, <1>2, <1>3, <2>2 DEF Local, LocalType, Same, Fields
  <2>4. LocalPages(p)'
    BY <1>2, <2>2 DEF Local, LocalPages, Locking, Same, Fields
  <2>5. LocalLocks(p)' /\ LocalFacts(p)'
    BY <2>1, <2>2 DEF LocalLocks, LocalFacts, Locking
  <2> QED
    BY <2>1, <2>2, <2>3, <2>4, <2>5 DEF Local
<1> QED
  BY <1>5, <1>6, Zenon DEF XSpace

-----------------------------------------------------------------------------
(* The critical section.                                                     *)

\* What goes on the page fits there.
LEMMA PutsFit ==
  ASSUME NEW p \in Backend, be[p].left \in Nat, Free(be[p].target) \in Nat,
         Free(be[p].target) >= 1
  PROVE  Puts(p) \in Nat /\ Puts(p) >= 1 /\ Puts(p) <= Free(be[p].target)
<1> DEFINE free == Free(be[p].target)
           fit == free - SaveFree
<1>1. SaveFree \in Nat /\ free \in Nat /\ free >= 1 /\ fit \in Int /\ fit <= free
  BY PlacementAssumption
<1>2. CASE be[p].left <= 1 \/ fit <= 1
  <2>1. Puts(p) = 1
    BY <1>2, Zenon DEF Puts
  <2> QED
    BY <1>1, <2>1
<1>3. CASE ~(be[p].left <= 1 \/ fit <= 1)
  <2>1. Puts(p) = Min({be[p].left, fit})
    BY <1>3, Zenon DEF Puts
  <2>2. be[p].left \in Int /\ fit \in Int /\ be[p].left > 1 /\ fit > 1
    BY <1>1, <1>3
  <2> HIDE DEF fit
  <2>3. /\ Min({be[p].left, fit}) \in {be[p].left, fit}
        /\ Min({be[p].left, fit}) <= fit
    BY <2>2, MinOfTwo, Zenon
  <2> HIDE DEF free
  <2> QED
    BY <1>1, <2>1, <2>2, <2>3 DEF free
<1> QED
  BY <1>2, <1>3

LEMMA PutTupleInv ==
  ASSUME IInv, NEW p \in Backend, PutTuple(p)
  PROVE  IInv'
<1> USE PlacementAssumption
<1> DEFINE b == be[p].target
           n == Puts(p)
           touched == Buffers(p)
           rest == be[p].left - n
<1>1. be[p].pc = "put" /\ UnlockAll(p) /\ UNCHANGED <<nblocks, fsm, vac>>
  BY Zenon DEF PutTuple
<1>2. /\ page' = [c \in Block |->
                    [new |-> page[c].new,
                     used |-> IF c = b THEN page[c].used + n ELSE page[c].used,
                     allVis |-> page[c].allVis /\ c \notin touched]]
      /\ vm' = [c \in Block |-> vm[c] /\ (c \in touched => ~page[c].allVis)]
  BY Zenon DEF PutTuple
<1>3. /\ Shape /\ TableType /\ Local(p) /\ MapTrue /\ b # None /\ b \in Block
      /\ b \in touched /\ touched \subseteq Block /\ \A c \in touched : lock[c] = p
      /\ be[p].left \in Nat /\ be[p].left >= 1
  <2>1. Shape /\ TableType /\ Local(p) /\ MapTrue /\ b # None
    BY <1>1 DEF IInv, Global, Local, LocalPages
  <2>2. be[p].left \in Nat /\ be[p].left >= 1
    BY <1>1, <2>1 DEF Local, LocalType
  <2> QED
    BY <1>1, <2>1, <2>2, OwnBlocks DEF Local, LocalLocks, Buffers
<1>4. page \in [Block -> Pages] /\ page[b].used \in 0..Cap /\ Cap \in Nat
  BY <1>3 DEF TableType, Pages
<1>5. n \in Nat /\ n >= 1 /\ page[b].used + n \in 0..Cap
  <2>1. Free(b) \in Nat /\ Free(b) >= 1
    BY <1>1, <1>3, <1>4 DEF Free, Local, LocalFacts
  <2>2. n \in Nat /\ n >= 1 /\ n <= Free(b)
    BY <1>3, <2>1, PutsFit
  <2>3. Free(b) = Cap - page[b].used
    BY DEF Free
  <2> HIDE DEF n, b
  <2> QED
    BY ONLY <1>4, <2>2, <2>3
<1> HIDE DEF n
<1>6. page' \in [Block -> Pages]
  <2>1. \A c \in Block : page'[c] \in Pages
    <3>1. SUFFICES ASSUME NEW c \in Block PROVE page'[c] \in Pages
      OBVIOUS
    <3>2. page[c].new \in BOOLEAN /\ page[c].used \in 0..Cap /\ page[c].allVis \in BOOLEAN
      BY <1>4 DEF Pages
    <3>3. page'[c] = [new |-> page[c].new,
                      used |-> IF c = b THEN page[c].used + n ELSE page[c].used,
                      allVis |-> page[c].allVis /\ c \notin touched]
      BY <1>2, Zenon
    <3>4. (IF c = b THEN page[c].used + n ELSE page[c].used) \in 0..Cap
      BY <1>5, <3>2
    <3> QED
      BY <3>2, <3>3, <3>4 DEF Pages
  <2>2. page' = [c \in Block |-> page'[c]]
    BY <1>2, Zenon
  <2> QED
    BY <2>1, <2>2
<1>7. vm' \in [Block -> BOOLEAN]
  BY <1>2
<1>8. MapTrue'
  <2>1. \A c \in Block : page'[c].allVis <=> page[c].allVis /\ c \notin touched
    BY <1>2
  <2>2. \A c \in Block : vm'[c] <=> vm[c] /\ (c \in touched => ~page[c].allVis)
    BY <1>2
  <2> QED
    BY <1>1, <1>3, <2>1, <2>2 DEF MapTrue
<1>9. \A q \in Backend \ {p} : PagesOf(q)
  <2>1. SUFFICES ASSUME NEW q \in Backend \ {p}, NEW c \in Block, lock[c] = q
                 PROVE  page'[c].used = page[c].used /\ page'[c].allVis = page[c].allVis
    BY DEF PagesOf
  <2>2. c \notin touched /\ c # b
    BY <1>3, <2>1
  <2>3. page'[c] = [new |-> page[c].new,
                    used |-> IF c = b THEN page[c].used + n ELSE page[c].used,
                    allVis |-> page[c].allVis /\ c \notin touched]
    BY <1>2, Zenon
  <2>4. page[c].allVis \in BOOLEAN
    BY <1>4 DEF Pages
  <2> HIDE DEF touched
  <2> QED
    BY <2>2, <2>3, <2>4
<1>10. LocksOf(p) /\ \A c \in Block : lock'[c] # p
  BY <1>1, <1>3, UnlockEffect
<1>11. nblocks' = nblocks /\ nblocks' \in nblocks..MaxBlocks /\ vac' = vac
  BY <1>1, <1>3 DEF TableType
<1>12. Moves(p) /\ Local(p)'
  <2>1. CASE Finish(p)
    BY <1>10, <1>11, <2>1, FinishLocal
  <2>2. CASE be[p].left > n /\ be' = [be EXCEPT ![p].pc = "target", ![p].left = rest]
    <3>1. DOMAIN be' = Backend /\ \A q \in Backend \ {p} : be'[q] = be[q]
      BY <1>3, <2>2, Zenon DEF Shape
    <3>2. be'[p] = [be[p] EXCEPT !["pc"] = "target", !["left"] = rest]
      BY <1>3, <2>2, Zenon DEF Shape
    <3>3. be[p].left > n
      BY <2>2, Zenon
    <3>4. rest \in Nat /\ rest >= 1
      BY <1>3, <1>5, <3>3, SMTT(30)
    <3> HIDE DEF rest
    <3>5. Moves(p) /\ be'[p].pc = "target" /\ be'[p].left = rest /\ Same(p, {"pc", "left"})
      BY <1>3, <3>1, <3>2 DEF Shape, Moves, Same, Fields
    <3>6. \A c : InTable(c)' <=> InTable(c)
      BY <1>11, TableUnchanged
    <3>7. LocalType(p)'
      BY <1>3, <1>11, <3>4, <3>5, <3>6 DEF Local, LocalType, Same, Fields
    <3>8. LocalPages(p)'
      BY <1>3, <3>5 DEF Local, LocalPages, Locking, Same, Fields
    <3>9. LocalLocks(p)' /\ LocalFacts(p)'
      BY <1>10, <3>5 DEF LocalLocks, LocalFacts, Locking
    <3> QED
      BY <3>5, <3>7, <3>8, <3>9 DEF Local
  <2> QED
    BY <2>1, <2>2, Zenon DEF PutTuple, n
<1> QED
  BY <1>1, <1>6, <1>7, <1>8, <1>9, <1>10, <1>11, <1>12, StepOf, BusyNotTruncated

-----------------------------------------------------------------------------
(* Vacuum.                                                                   *)

\* Steps of vacuum that do not take blocks from the table: backends rely on
\* the pages they have locked.
LEMMA VacuumStepOf ==
  ASSUME IInv, UNCHANGED <<be, lock, nblocks>>, page' \in [Block -> Pages],
         vm' \in [Block -> BOOLEAN], MapTrue', DOMAIN vac' = VacFields, VacuumInv',
         \A q \in Backend : PagesOf(q)
  PROVE  IInv'
<1>1. Shape' /\ TableType'
  BY DEF IInv, Global, Shape, TableType
<1>2. ASSUME NEW q \in Backend
      PROVE  Local(q)'
  <2>1. Rely(q)
    BY PlacementAssumption DEF Rely, IInv, Global, TableType
  <2> QED
    BY <2>1, LocalKept DEF IInv, Global
<1> QED
  BY <1>1, <1>2 DEF IInv, Global

LEMMA VacuumStandsStill ==
  ASSUME IInv, UNCHANGED <<be, lock, nblocks, page, vm>>, DOMAIN vac' = VacFields, VacuumInv'
  PROVE  IInv'
<1>1. page' \in [Block -> Pages] /\ vm' \in [Block -> BOOLEAN] /\ MapTrue'
  BY DEF IInv, Global, TableType, MapTrue
<1>2. \A q \in Backend : PagesOf(q)
  BY DEF PagesOf
<1> QED
  BY <1>1, <1>2, VacuumStepOf

LEMMA VacuumStops ==
  ASSUME vac' = NoVacuum("done")
  PROVE  DOMAIN vac' = VacFields /\ VacuumInv'
<1>1. /\ DOMAIN vac' = VacFields /\ vac'.pc = "done"
      /\ vac'.blk = 0 /\ vac'.relPages = 0 /\ vac'.nonempty = 0
  BY DEF NoVacuum, VacFields
<1> QED
  BY <1>1 DEF VacuumInv

\* The fields of vac outside S are as before.
SameVac(S) == \A f \in VacFields \ S : vac'[f] = vac[f]

LEMMA VacuumStartInv ==
  ASSUME IInv, VacuumStart
  PROVE  IInv'
<1>1. UNCHANGED <<shared, lock, be, rows>>
  BY Zenon DEF VacuumStart
<1>2. vac' = [vac EXCEPT !["pc"] = "scan", !["relPages"] = nblocks]
  BY Zenon DEF VacuumStart
<1>3. Shape /\ TableType /\ VacuumInv
  BY DEF IInv, Global
<1>4. /\ DOMAIN vac' = VacFields /\ vac'.pc = "scan" /\ vac'.relPages = nblocks
      /\ SameVac({"pc", "relPages"})
  BY <1>2, <1>3 DEF Shape, VacFields, SameVac
<1>5. VacuumInv'
  <2>1. nblocks \in Nat /\ nblocks <= nblocks /\ nblocks' = nblocks
    BY PlacementAssumption, <1>1, <1>3 DEF TableType, shared
  <2>2. vac'.blk = vac.blk /\ vac'.nonempty = vac.nonempty
    BY <1>4 DEF SameVac, VacFields
  <2> QED
    BY <1>3, <1>4, <2>1, <2>2 DEF VacuumInv
<1> QED
  BY <1>1, <1>4, <1>5, VacuumStandsStill DEF shared

\* A page is left behind, perhaps noted as the last one with tuples.
LEMMA NextBlock ==
  ASSUME IInv, vac.pc = "scan", NEW last \in Nat, UNCHANGED <<be, nblocks>>,
         vac' = [vac EXCEPT !["blk"] = vac.blk + 1, !["nonempty"] = last]
  PROVE  DOMAIN vac' = VacFields /\ VacuumInv'
<1>1. Shape /\ VacuumInv
  BY DEF IInv, Global
<1>2. /\ DOMAIN vac' = VacFields /\ vac'.blk = vac.blk + 1 /\ vac'.nonempty = last
      /\ vac'.pc = vac.pc /\ vac'.relPages = vac.relPages
  BY <1>1 DEF Shape, VacFields
<1> QED
  BY <1>1, <1>2 DEF VacuumInv

\* The same, when the page has no tuples.
LEMMA NextEmptyBlock ==
  ASSUME IInv, vac.pc = "scan", UNCHANGED <<be, nblocks>>,
         vac' = [vac EXCEPT !["blk"] = vac.blk + 1]
  PROVE  DOMAIN vac' = VacFields /\ VacuumInv'
<1>1. Shape /\ VacuumInv
  BY DEF IInv, Global
<1>2. /\ DOMAIN vac' = VacFields /\ vac'.blk = vac.blk + 1 /\ SameVac({"blk"})
  BY <1>1 DEF Shape, VacFields, SameVac
<1> QED
  BY <1>1, <1>2 DEF VacuumInv, SameVac, VacFields

LEMMA VacuumSkipInv ==
  ASSUME IInv, VacuumSkip
  PROVE  IInv'
<1>1. vac.pc = "scan" /\ UNCHANGED <<shared, lock, be, rows>>
  BY Zenon DEF VacuumSkip
<1>2. vac' = [vac EXCEPT !["blk"] = vac.blk + 1]
  BY Zenon DEF VacuumSkip
<1>3. DOMAIN vac' = VacFields /\ VacuumInv'
  BY <1>1, <1>2, NextEmptyBlock, Zenon DEF shared
<1> QED
  BY <1>1, <1>3, VacuumStandsStill, Zenon DEF shared

LEMMA VacuumNewPageInv ==
  ASSUME IInv, VacuumNewPage
  PROVE  IInv'
<1>1. vac.pc = "scan" /\ UNCHANGED <<nblocks, page, vm, lock, be, rows>>
  BY Zenon DEF VacuumNewPage
<1>2. vac' = [vac EXCEPT !["blk"] = vac.blk + 1]
  BY Zenon DEF VacuumNewPage
<1>3. DOMAIN vac' = VacFields /\ VacuumInv'
  BY <1>1, <1>2, NextEmptyBlock, Zenon
<1> QED
  BY <1>1, <1>3, VacuumStandsStill, Zenon

LEMMA VacuumPageInv ==
  ASSUME IInv, NEW left \in 0..Cap, NEW visible \in BOOLEAN, VacuumPage(left, visible)
  PROVE  IInv'
<1> USE PlacementAssumption
<1> DEFINE b == vac.blk
           last == IF left > 0 THEN b + 1 ELSE vac.nonempty
<1>1. /\ vac.pc = "scan" /\ b < vac.relPages /\ lock[b] = Nobody
      /\ UNCHANGED <<nblocks, lock, be>>
  BY Zenon DEF VacuumPage
<1>2. vm' = [vm EXCEPT ![b] = visible]
  BY Zenon DEF VacuumPage
<1>3. vac' = [vac EXCEPT !["blk"] = b + 1, !["nonempty"] = last]
  BY Zenon DEF VacuumPage
<1>4. page' = [page EXCEPT ![b] = [new |-> FALSE, used |-> left, allVis |-> visible]]
  BY Zenon DEF VacuumPage
<1>5. TableType /\ VacuumInv /\ MapTrue /\ b \in Block /\ b < nblocks /\ last \in Nat
  <2>1. TableType /\ VacuumInv /\ MapTrue
    BY DEF IInv, Global
  <2>2. b \in Nat /\ vac.relPages \in Nat /\ vac.relPages <= nblocks /\ vac.nonempty \in Nat
    BY <1>1, <2>1 DEF VacuumInv
  <2>3. last \in Nat
    BY <2>2
  <2>4. nblocks \in Nat /\ nblocks <= MaxBlocks /\ MaxBlocks \in Nat
    BY <2>1 DEF TableType
  <2>5. b < nblocks /\ b \in Block
    BY <1>1, <2>2, <2>4 DEF Block
  <2> QED
    BY <2>1, <2>3, <2>5, Zenon
<1>6. DOMAIN vac' = VacFields /\ VacuumInv'
  <2>1. vac.pc = "scan" /\ last \in Nat /\ UNCHANGED <<be, nblocks>>
    BY <1>1, <1>5, Zenon
  <2>2. vac' = [vac EXCEPT !["blk"] = vac.blk + 1, !["nonempty"] = last]
    BY <1>3, Zenon
  <2> HIDE DEF last
  <2> QED
    BY <2>1, <2>2, NextBlock, Zenon
<1>7. page' \in [Block -> Pages] /\ vm' \in [Block -> BOOLEAN]
  <2>1. [new |-> FALSE, used |-> left, allVis |-> visible] \in Pages
    BY DEF Pages
  <2> QED
    BY <1>2, <1>4, <1>5, <2>1 DEF TableType
<1>8. /\ page'[b].allVis = visible /\ vm'[b] = visible
      /\ \A c \in Block : c # b => page'[c] = page[c] /\ vm'[c] = vm[c]
  BY <1>2, <1>4, <1>5 DEF TableType
<1>9. MapTrue'
  BY <1>1, <1>5, <1>8 DEF MapTrue
<1>10. \A q \in Backend : PagesOf(q)
  BY <1>1, <1>5, <1>8 DEF PagesOf
<1> QED
  BY <1>1, <1>6, <1>7, <1>9, <1>10, VacuumStepOf

LEMMA VacuumScannedInv ==
  ASSUME IInv, VacuumScanned
  PROVE  IInv'
<1>1. vac.pc = "scan" /\ UNCHANGED <<shared, lock, be, rows>>
  BY Zenon DEF VacuumScanned
<1>2. SUFFICES DOMAIN vac' = VacFields /\ VacuumInv'
  BY <1>1, VacuumStandsStill DEF shared
<1>3. CASE vac' = [vac EXCEPT !["pc"] = "lock"]
  <2>1. Shape /\ VacuumInv
    BY DEF IInv, Global
  <2>2. DOMAIN vac' = VacFields /\ vac'.pc = "lock" /\ SameVac({"pc"})
    BY <1>3, <2>1 DEF Shape, VacFields, SameVac
  <2> QED
    BY <1>1, <2>1, <2>2 DEF VacuumInv, SameVac, VacFields, shared
<1>4. CASE vac' = NoVacuum("done")
  BY <1>4, VacuumStops
<1> QED
  BY <1>3, <1>4, Zenon DEF VacuumScanned

\* The table's lock: nobody works on the table when vacuum has it.
LEMMA LockTableInv ==
  ASSUME IInv, LockTable \/ TableGrew
  PROVE  IInv'
<1>1. UNCHANGED <<shared, lock, be, rows>>
  BY Zenon DEF LockTable, TableGrew
<1>2. SUFFICES DOMAIN vac' = VacFields /\ VacuumInv'
  BY <1>1, VacuumStandsStill DEF shared
<1>3. CASE ~(\E p \in Backend : Working(p)) /\ vac' = [vac EXCEPT !["pc"] = "truncate"]
  <2>1. Shape /\ VacuumInv
    BY DEF IInv, Global
  <2>2. vac' = [vac EXCEPT !["pc"] = "truncate"] /\ \A p \in Backend : be[p].pc = "idle"
    BY <1>3, Zenon DEF Working
  <2>3. DOMAIN vac' = VacFields /\ vac'.pc = "truncate" /\ SameVac({"pc"})
    BY <2>1, <2>2 DEF Shape, VacFields, SameVac
  <2> QED
    BY <1>1, <2>1, <2>2, <2>3 DEF VacuumInv, SameVac, VacFields
<1>4. CASE vac' = NoVacuum("done")
  BY <1>4, VacuumStops
<1> QED
  BY <1>3, <1>4, Zenon DEF LockTable, TableGrew

-----------------------------------------------------------------------------
(* The truncation, which nobody works during.                                *)

LEMMA LeastNatural ==
  ASSUME NEW T, T \subseteq Nat, T # {}
  PROVE  \E x \in T : \A y \in T : x <= y
<1> DEFINE R == OpToRel(<, Nat)
<1>1. IsWellFoundedOn(R, Nat)
  BY NatLessThanWellFounded
<1>2. \A x, y \in Nat : y < x => <<y, x>> \in R
  BY DEF OpToRel
<1> HIDE DEF R
<1>3. PICK x \in T : \A y \in T : ~ (<<y, x>> \in R)
  BY <1>1, WFMin, Zenon
<1>4. \A y \in T : ~(y < x)
  BY <1>2, <1>3, Zenon
<1> QED
  BY <1>4

\* A set of numbers up to m has a greatest one, and Max is a member.
LEMMA MaxIsMember ==
  ASSUME NEW S, NEW m \in Nat, S \subseteq 0..m, S # {}
  PROVE  Max(S) \in S
<1> DEFINE T == {k \in 0..m : m - k \in S}
<1>1. T \subseteq Nat /\ T # {}
  <2>1. PICK x \in S : TRUE
    OBVIOUS
  <2>2. m - x \in 0..m /\ m - (m - x) = x
    BY <2>1
  <2>3. m - x \in T
    BY <2>1, <2>2
  <2>4. T \subseteq Nat
    OBVIOUS
  <2> HIDE DEF T
  <2> QED
    BY <2>3, <2>4
<1>2. PICK k \in T : \A j \in T : k <= j
  BY <1>1, LeastNatural, Zenon
<1>3. m - k \in S /\ k \in 0..m
  BY <1>2
<1>4. ASSUME NEW y \in S
      PROVE  m - k >= y
  <2>1. y \in 0..m /\ m - y \in 0..m /\ m - (m - y) = y
    OBVIOUS
  <2>2. m - y \in T
    BY <2>1
  <2>3. k <= m - y
    BY <1>2, <2>2
  <2> QED
    BY <1>3, <2>1, <2>3
<1>5. \E x \in S : \A y \in S : x >= y
  BY <1>3, <1>4
<1> QED
  BY <1>5 DEF Max

LEMMA NondeletableNat ==
  ASSUME VacuumInv, NEW stop \in Nat
  PROVE  Nondeletable(stop) \in Nat
<1> DEFINE S == {vac.nonempty, stop} \cup
                {b + 1 : b \in {c \in Block : c < vac.relPages /\ page[c].used > 0}}
           m == vac.nonempty + stop + MaxBlocks
<1>1. MaxBlocks \in Nat /\ vac.nonempty \in Nat /\ m \in Nat
  BY PlacementAssumption, SMTT(30) DEF VacuumInv
<1>2. \A b \in Block : b + 1 \in 0..m
  BY <1>1 DEF Block
<1>3. S \subseteq 0..m /\ S # {}
  BY <1>1, <1>2
<1> HIDE DEF m
<1>4. Max(S) \in S
  <2> HIDE DEF S
  <2> QED
    BY <1>1, <1>3, MaxIsMember, Zenon
<1>5. Max(S) \in Nat
  BY <1>1, <1>3, <1>4
<1> QED
  BY <1>5 DEF Nondeletable

LEMMA TruncateInv ==
  ASSUME IInv, NEW stop \in 0..MaxBlocks, Truncate(stop)
  PROVE  IInv'
<1> USE PlacementAssumption
<1>0. PICK n : n = Nondeletable(stop)
  OBVIOUS
<1>1. /\ vac.pc = "truncate" /\ nblocks = vac.relPages /\ UNCHANGED <<lock, rows>>
  BY Zenon DEF Truncate
<1>2. /\ Shape /\ TableType /\ VacuumInv /\ MapTrue /\ \A p \in Backend : Local(p)
      /\ \A p \in Backend : be[p].pc = "idle"
  BY <1>1 DEF IInv, Global, VacuumInv
<1>3. n \in Nat
  <2>1. stop \in Nat
    OBVIOUS
  <2> QED
    BY <1>0, <1>2, <2>1, NondeletableNat, Zenon
<1>4. CASE n >= vac.relPages /\ vac' = NoVacuum("done") /\ UNCHANGED <<shared, be>>
  BY <1>1, <1>4, VacuumStops, VacuumStandsStill DEF shared
<1>5. ASSUME n < vac.relPages, nblocks' = n,
             page' = [b \in Block |-> IF b \in n..(MaxBlocks - 1) THEN NewPage ELSE page[b]],
             vm' = MapTruncated(n),
             be' = [p \in Backend |-> [be[p] EXCEPT !["cached"] = None]],
             \/ vac' = [vac EXCEPT !["pc"] = "lock", !["relPages"] = n]
             \/ vac' = NoVacuum("done")
      PROVE  IInv'
  <2>0. n < vac.relPages /\ nblocks' = n
    BY <1>5, Zenon
  <2>1. lock' = lock /\ \A c \in Block : lock[c] = Nobody
    BY ONLY <1>1, <1>2, PlacementAssumption DEF TableType, Local, LocalLocks
  <2>2. n \in 0..MaxBlocks /\ nblocks' = n
    BY ONLY <1>1, <1>2, <1>3, <2>0, PlacementAssumption DEF TableType
  <2>3. page' \in [Block -> Pages] /\ \A b \in Block : b < n => page'[b] = page[b]
    <3>1. NewPage \in Pages
      BY DEF NewPage, Pages
    <3>2. page \in [Block -> Pages]
      BY <1>2 DEF TableType
    <3>3. page' = [b \in Block |-> IF b \in n..(MaxBlocks - 1) THEN NewPage ELSE page[b]]
      BY <1>5, Zenon
    <3>4. \A b \in Block : b < n => b \notin n..(MaxBlocks - 1)
      BY ONLY <1>3, PlacementAssumption DEF Block
    <3> QED
      BY ONLY <3>1, <3>2, <3>3, <3>4
  <2>4. vm' \in [Block -> BOOLEAN] /\ \A b \in Block : vm'[b] <=> vm[b] /\ b < n
    BY <1>5, Zenon DEF MapTruncated
  <2>5. TableType'
    BY ONLY <2>1, <2>2, <2>3, <2>4, <1>2, PlacementAssumption DEF TableType
  <2>6. MapTrue'
    BY ONLY <1>2, <2>2, <2>3, <2>4 DEF MapTrue
  <2>7. DOMAIN be' = Backend /\ \A q \in Backend : be'[q] = [be[q] EXCEPT !["cached"] = None]
    BY <1>5, Zenon
  <2>8. \A q \in Backend :
          /\ DOMAIN be'[q] = Fields /\ be'[q].cached = None
          /\ \A f \in Fields \ {"cached"} : be'[q][f] = be[q][f]
    BY ONLY <1>2, <2>7 DEF Shape, Fields
  <2>9. DOMAIN vac' = VacFields /\ VacuumInv'
    <3>1. CASE vac' = [vac EXCEPT !["pc"] = "lock", !["relPages"] = n]
      <4>1. /\ DOMAIN vac' = VacFields /\ vac'.pc = "lock" /\ vac'.relPages = n
            /\ vac'.blk = vac.blk /\ vac'.nonempty = vac.nonempty
        BY ONLY <1>2, <3>1 DEF Shape, VacFields
      <4> QED
        BY ONLY <1>2, <1>3, <2>2, <4>1 DEF VacuumInv
    <3>2. CASE vac' = NoVacuum("done")
      BY <3>2, VacuumStops, Zenon
    <3> QED
      BY <1>5, <3>1, <3>2, Zenon
  <2>10. Shape'
    BY ONLY <2>7, <2>8, <2>9 DEF Shape
  <2>11. ASSUME NEW q \in Backend
         PROVE  Local(q)'
    <3>1. /\ be'[q].pc = "idle" /\ be'[q].target = None /\ be'[q].other = None
          /\ be'[q].vmOther = None /\ be'[q].nextFree = None /\ be'[q].cached = None
          /\ be'[q].left \in Nat /\ be'[q].extended \in Nat
      <4>1. Local(q) /\ be[q].pc = "idle"
        BY <1>2, Zenon
      <4>2. /\ be[q].target = None /\ be[q].other = None /\ be[q].vmOther = None
            /\ be[q].nextFree = None /\ be[q].left \in Nat /\ be[q].extended \in Nat
        BY ONLY <4>1 DEF Local, LocalPages, LocalType
      <4>3. be'[q].cached = None /\ \A f \in Fields \ {"cached"} : be'[q][f] = be[q][f]
        BY <2>8, Zenon
      <4> QED
        BY ONLY <4>1, <4>2, <4>3 DEF Fields
    <3>2. \A c \in Block : lock'[c] # q
      BY ONLY <2>1, PlacementAssumption
    <3>3. LocalType(q)' /\ LocalPages(q)'
      BY ONLY <3>1 DEF LocalType, LocalPages, InTable, Locking
    <3>4. LocalLocks(q)' /\ LocalFacts(q)'
      BY ONLY <3>1, <3>2 DEF LocalLocks, LocalFacts, Locking
    <3> QED
      BY <3>3, <3>4, Zenon DEF Local
  <2> QED
    BY <2>5, <2>6, <2>9, <2>10, <2>11, Zenon DEF IInv, Global
<1>6. CASE ~(n >= vac.relPages /\ vac' = NoVacuum("done") /\ UNCHANGED <<shared, be>>)
  <2>1. /\ n < vac.relPages /\ nblocks' = n /\ vm' = MapTruncated(n)
        /\ page' = [b \in Block |-> IF b \in n..(MaxBlocks - 1) THEN NewPage ELSE page[b]]
        /\ be' = [p \in Backend |-> [be[p] EXCEPT !["cached"] = None]]
        /\ \/ vac' = [vac EXCEPT !["pc"] = "lock", !["relPages"] = n]
           \/ vac' = NoVacuum("done")
    BY <1>0, <1>6, Zenon DEF Truncate
  <2> QED
    BY <1>5, <2>1, Zenon
<1> QED
  BY <1>4, <1>6, Zenon

-----------------------------------------------------------------------------
(* The invariant holds from the start, and every step keeps it.              *)

LEMMA InitInv ==
  ASSUME Init
  PROVE  IInv
<1> USE PlacementAssumption
<1>1. PICK t \in Tables :
        /\ nblocks = Len(t)
        /\ page = [b \in Block |-> IF b < Len(t) THEN t[b + 1] ELSE NewPage]
  BY Zenon DEF Init
<1>2. /\ vm = [b \in Block |-> page[b].allVis] /\ lock = [b \in Block |-> Nobody]
      /\ be = [p \in Backend |-> Idle] /\ vac = NoVacuum("idle")
  BY Zenon DEF Init
<1>3. t \in Seq(Pages) /\ Len(t) \in Nat /\ Len(t) <= MaxBlocks /\ MaxBlocks \in Nat
  <2>1. t \in Seq(Pages) /\ Len(t) <= MaxBlocks
    OBVIOUS
  <2> QED
    BY <2>1
<1>4. page \in [Block -> Pages]
  <2>1. NewPage \in Pages
    BY DEF NewPage, Pages
  <2>2. \A b \in Block : b < Len(t) => t[b + 1] \in Pages
    BY <1>3 DEF Block
  <2>3. \A b \in Block : page[b] \in Pages
    BY <1>1, <2>1, <2>2
  <2> QED
    BY <1>1, <2>3
<1>5. \A b \in Block : page[b].allVis \in BOOLEAN
  BY <1>4 DEF Pages
<1>6. TableType
  BY <1>1, <1>2, <1>3, <1>4, <1>5 DEF TableType
<1>7. MapTrue
  BY <1>1, <1>2, <1>3 DEF MapTrue, NewPage, Block
<1>8. Shape /\ VacuumInv
  <2>1. DOMAIN Idle = Fields
    BY DEF Idle, Fields
  <2>2. /\ DOMAIN vac = VacFields /\ vac.pc = "idle" /\ vac.blk = 0
        /\ vac.relPages = 0 /\ vac.nonempty = 0
    BY <1>2 DEF NoVacuum, VacFields
  <2> QED
    BY <1>2, <2>1, <2>2 DEF Shape, VacuumInv
<1>9. ASSUME NEW p \in Backend
      PROVE  Local(p)
  <2>1. /\ be[p].pc = "idle" /\ be[p].left = 0 /\ be[p].extended = 0
        /\ be[p].target = None /\ be[p].other = None /\ be[p].cached = None
        /\ be[p].vmOther = None /\ be[p].nextFree = None
    BY <1>2 DEF Idle
  <2>2. \A c \in Block : lock[c] # p
    BY <1>2
  <2>3. LocalType(p) /\ LocalPages(p)
    BY <2>1 DEF LocalType, LocalPages, InTable, Locking
  <2>4. LocalLocks(p) /\ LocalFacts(p)
    BY <2>1, <2>2 DEF LocalLocks, LocalFacts, Locking
  <2> QED
    BY <2>3, <2>4 DEF Local
<1> QED
  BY <1>6, <1>7, <1>8, <1>9 DEF IInv, Global

LEMMA StutterInv ==
  ASSUME IInv, UNCHANGED vars
  PROVE  IInv'
<1>1. UNCHANGED <<be, lock, nblocks, page, vm, vac>>
  BY DEF vars, shared
<1>2. DOMAIN vac' = VacFields /\ VacuumInv'
  BY <1>1 DEF IInv, Global, Shape, VacuumInv
<1> QED
  BY <1>1, <1>2, VacuumStandsStill

LEMMA StepInv ==
  ASSUME IInv, NEW p \in Backend, Start(p) \/ Step(p)
  PROVE  IInv'
<1>1. CASE Start(p)
  <2>1. CASE \E kind \in Work[p] \ {"update"} : StartInsert(p, kind)
    BY <2>1, StartInsertInv, Zenon
  <2>2. CASE \E kind \in Work[p] \cap {"update"}, b \in Block : StartUpdate(p, b)
    BY <2>2, StartUpdateInv, Zenon
  <2> QED
    BY <1>1, <2>1, <2>2, Zenon DEF Start
<1>2. CASE UpdateFit(p)
  BY <1>2, UpdateFitInv, Zenon
<1>3. CASE UpdateRefit(p)
  BY <1>3, UpdateRefitInv, Zenon
<1>4. CASE LockBuffer(p)
  BY <1>4, LockBufferInv, Zenon
<1>5. CASE ChooseTarget(p)
  BY <1>5, ChooseTargetInv, Zenon
<1>6. CASE ReadTarget(p)
  BY <1>6, ReadTargetInv, Zenon
<1>7. CASE Pins(p) \/ XPins(p)
  BY <1>7, PinsInv, Zenon
<1>8. CASE SpaceFound(p)
  BY <1>8, SpaceFoundInv, Zenon
<1>9. CASE SpaceLacking(p)
  BY <1>9, SpaceLackingInv, Zenon
<1>10. CASE Extend(p)
  BY <1>10, ExtendInv, Zenon
<1>11. CASE ExtendFails(p)
  BY <1>11, ExtendFailsInv, Zenon
<1>12. CASE ConditionalLockOther(p)
  BY <1>12, ConditionalLockOtherInv, Zenon
<1>13. CASE XSpace(p)
  BY <1>13, XSpaceInv, Zenon
<1>14. CASE PutTuple(p)
  BY <1>14, PutTupleInv, Zenon
<1> QED
  BY <1>1, <1>2, <1>3, <1>4, <1>5, <1>6, <1>7, <1>8, <1>9, <1>10, <1>11, <1>12, <1>13,
     <1>14, Zenon DEF Step

LEMMA VacuumInvKept ==
  ASSUME IInv, VacuumStart \/ VacuumStep
  PROVE  IInv'
<1>1. CASE VacuumStart
  BY <1>1, VacuumStartInv, Zenon
<1>2. CASE VacuumSkip
  BY <1>2, VacuumSkipInv, Zenon
<1>3. CASE VacuumNewPage
  BY <1>3, VacuumNewPageInv, Zenon
<1>4. CASE VacuumScanned
  BY <1>4, VacuumScannedInv, Zenon
<1>5. CASE \E left \in 0..Cap, visible \in BOOLEAN : VacuumPage(left, visible)
  BY <1>5, VacuumPageInv, Zenon
<1>6. CASE LockTable \/ TableGrew
  BY <1>6, LockTableInv, Zenon
<1>7. CASE \E stop \in 0..MaxBlocks : Truncate(stop)
  BY <1>7, TruncateInv, Zenon
<1> QED
  BY <1>1, <1>2, <1>3, <1>4, <1>5, <1>6, <1>7, Zenon DEF VacuumStep

LEMMA Invariance == Spec => []IInv
<1>1. Init => IInv
  BY InitInv
<1>2. IInv /\ [Next]_vars => IInv'
  <2> SUFFICES ASSUME IInv, [Next]_vars PROVE IInv'
    OBVIOUS
  <2>1. CASE \E p \in Backend : Start(p) \/ Step(p)
    BY <2>1, StepInv, Zenon
  <2>2. CASE VacuumStart \/ VacuumStep
    BY <2>2, VacuumInvKept, Zenon
  <2>3. CASE UNCHANGED vars
    BY <2>3, StutterInv, Zenon
  <2> QED
    BY <2>1, <2>2, <2>3, Zenon DEF Next
<1> QED
  BY <1>1, <1>2, PTL DEF Spec

(* No backend enters the critical section of an insert or an update with a   *)
(* page that has no room for the tuple, or without the page of the           *)
(* visibility map it has to clear a bit of, although both are looked at      *)
(* before locks are given up and taken again.                               *)
THEOREM NoOperationPanics == Spec => []NoPanic
<1>1. IInv => NoPanic
  <2> SUFFICES ASSUME IInv, NEW p \in Backend
               PROVE  /\ be[p].pc = "xspace" /\ ~be[p].unlocked => Free(be[p].target) >= 1
                      /\ be[p].pc = "put" => ~WrongPin(p) /\ Puts(p) <= Free(be[p].target)
    BY Zenon DEF NoPanic
  <2>1. TableType /\ Local(p)
    BY DEF IInv, Global
  <2>2. be[p].pc = "xspace" /\ ~be[p].unlocked => Free(be[p].target) >= 1
    BY <2>1, PlacementAssumption DEF Local, LocalFacts, Free
  <2>3. ASSUME be[p].pc = "put"
        PROVE  ~WrongPin(p) /\ Puts(p) <= Free(be[p].target)
    <3>1. be[p].target \in Block /\ be[p].left \in Nat
      BY <2>1, <2>3, OwnBlocks DEF Local, LocalPages, LocalType
    <3>2. ~WrongPin(p) /\ Free(be[p].target) >= 1
      BY <2>1, <2>3 DEF Local, LocalFacts
    <3>3. Free(be[p].target) \in Nat
      <4>1. page[be[p].target].used \in 0..Cap /\ Cap \in Nat
        BY <2>1, <3>1, PlacementAssumption DEF TableType, Pages
      <4> QED
        BY <4>1 DEF Free
    <3> QED
      BY <3>1, <3>2, <3>3, PutsFit
  <2> QED
    BY <2>2, <2>3
<1> QED
  BY <1>1, Invariance, PTL

(* The visibility map has no bit of a block that is not all-visible or not   *)
(* in the table: clearing, setting and truncating the map keep to the page   *)
(* flags, whatever backends and vacuum interleave.                          *)
THEOREM MapBitsTrue == Spec => []MapTrue
<1>1. IInv => MapTrue
  BY DEF IInv, Global
<1> QED
  BY <1>1, Invariance, PTL
=============================================================================
