------------------------------ MODULE HeapPage ------------------------------
(***************************************************************************)
(* One heap page with an index on it: inserts, HOT and ordinary updates,    *)
(* deletes, pruning (src/access/pg_tde_prune.c), index fetches              *)
(* (pg_tde_hot_search_buffer) and lazy vacuum                               *)
(* (src/access/pg_tde_vacuumlazy.c).                                        *)
(*                                                                          *)
(* Every action is what one backend does under one lock of the page's       *)
(* buffer.  Which versions a snapshot sees is what module Visibility is     *)
(* about: here it is a function of the transactions' states.  A tuple has   *)
(* one indexed value, its key; line pointers past the last used one do not  *)
(* exist (PageTruncateLinePointerArray).                                    *)
(*                                                                          *)
(* rows, made and gone are history: the committed row versions and what     *)
(* each transaction did to them, whatever is left of them on the page.      *)
(***************************************************************************)
EXTENDS Integers, Sequences, FiniteSets, Functions

CONSTANTS
  Reader,     \* processes with a snapshot
  Key,        \* values of the indexed column
  Lag,        \* bound: how far the horizon a backend knows lags behind
  Loaded,     \* sets of line pointers that may hold rows at the start
  MaxXid,     \* bound: transactions
  MaxOff,     \* bound: line pointers
  Space,      \* tuples that fit on the page
  MinFree,    \* free space, in tuples, below which pruning is worth while
  MaxTuples   \* bound: tuples that are stored

ASSUME HeapPageAssumption ==
  /\ {Lag, MaxOff, Space, MinFree, MaxTuples} \subseteq Nat
  /\ MaxXid \in Nat \ {0}
  /\ \A O \in Loaded : O \subseteq 1..MaxOff /\ Cardinality(O) <= Space
  /\ 0 \notin Key

Off == 1..MaxOff
Xid == 1..MaxXid
None == 0

VARIABLES
  lp,         \* line pointers, each with the tuple it leads to
  pruneXid,   \* pd_prune_xid
  full,       \* PD_PAGE_FULL
  allVisible, \* PD_ALL_VISIBLE and the bit of the visibility map
  index,      \* entries: key and line pointer
  clog,       \* state of each transaction
  nextXid,
  moving,     \* per transaction: the tuple it has locked to move it to another page
  todo,       \* per transaction: index entry it still has to make
  snap,       \* per reader: its snapshot
  vac,        \* the vacuum of the table
  lastId,     \* the last of the names given to tuples
  rows, made, gone

pageVars == <<lp, pruneXid, full, allVisible>>
xactVars == <<clog, nextXid, moving, todo>>
history == <<lastId, rows, made, gone>>
vars == <<pageVars, index, xactVars, snap, vac, history>>

Unused == [st |-> "unused"]
Dead == [st |-> "dead"]
Redirect(o) == [st |-> "redirect", to |-> o]
NoSnap == [xmax |-> 0]
NoTodo == [key |-> None]
NoVac == [phase |-> "idle", oldest |-> 0, vm |-> FALSE, dead |-> {}]

Tuple ==
  [st : {"normal"}, id : 1..(MaxOff + MaxTuples), key : Key,
   xmin : Xid, xmax : {None} \cup Xid,
   lockOnly : BOOLEAN,                        \* xmax only locks
   ctid : {None} \cup Off,                    \* None: itself, or another page
   heapOnly : BOOLEAN, hotUpdated : BOOLEAN]  \* HEAP_ONLY_TUPLE, HEAP_HOT_UPDATED

Item == Tuple \cup {Unused, Dead} \cup {Redirect(o) : o \in Off}
Entry == [key : Key, off : Off]
RowVersion == [id : 1..(MaxOff + MaxTuples), key : Key]

\* Line pointers, page flags, index, transactions, snapshots and the vacuum; the
\* tuples with storage fit on the page.
TypeOK ==
  /\ lp \in [Off -> Item] /\ pruneXid \in {None} \cup Xid
  /\ Cardinality({o \in Off : lp[o].st = "normal"}) <= Space
  /\ full \in BOOLEAN /\ allVisible \in BOOLEAN
  /\ index \subseteq Entry
  /\ clog \in [Xid -> {"none", "running", "committed", "aborted"}] /\ nextXid \in 1..(MaxXid + 1)
  /\ moving \in [Xid -> {None} \cup Off] /\ todo \in [Xid -> Entry \cup {NoTodo}]
  /\ \A r \in Reader : snap[r].xmax \in 0..(MaxXid + 1)
  /\ vac.phase \in {"idle", "skip", "scan", "index", "heap"} /\ vac.oldest \in -Lag..(MaxXid + 1)
  /\ vac.vm \in BOOLEAN
  /\ vac.dead \subseteq Off
  /\ lastId \in MaxOff..(MaxOff + MaxTuples) /\ rows \subseteq RowVersion
  /\ made \in [Xid -> SUBSET RowVersion] /\ gone \in [Xid -> SUBSET RowVersion]

NewTuple(id, x, k, hot) ==
  [st |-> "normal", id |-> id, key |-> k, xmin |-> x, xmax |-> None,
   lockOnly |-> FALSE, ctid |-> None, heapOnly |-> hot, hotUpdated |-> FALSE]

\* Transaction 1 has committed some rows; what was on the page before is gone.
Init ==
  \E O \in Loaded : \E key \in [O -> Key] :
    /\ lp = [o \in Off |-> IF o \in O THEN NewTuple(o, 1, key[o], FALSE) ELSE Unused]
    /\ index = {[key |-> key[o], off |-> o] : o \in O}
    /\ rows = {[id |-> o, key |-> key[o]] : o \in O}
    /\ lastId = MaxOff
    /\ pruneXid = None /\ full = FALSE /\ allVisible = FALSE
    /\ clog = [x \in Xid |-> IF x = 1 THEN "committed" ELSE "none"] /\ nextXid = 2
    /\ moving = [x \in Xid |-> None] /\ todo = [x \in Xid |-> NoTodo]
    /\ snap = [r \in Reader |-> NoSnap]
    /\ vac = NoVac
    /\ made = [x \in Xid |-> {}] /\ gone = [x \in Xid |-> {}]

-----------------------------------------------------------------------------
(* What a transaction, a snapshot and a vacuum see of a tuple.               *)

Running == {x \in Xid : clog[x] = "running"}
MinOf(S) == CHOOSE m \in S : \A n \in S : m <= n

\* XidInMVCCSnapshot, negated: the effects of x are in the snapshot.
InSnapshot(x, s) == x < s.xmax /\ x \notin s.xip /\ clog[x] = "committed"

\* HeapTupleSatisfiesMVCC, for a reader with no changes of its own.
Visible(t, s) ==
  /\ InSnapshot(t.xmin, s)
  /\ ~(t.xmax # None /\ ~t.lockOnly /\ InSnapshot(t.xmax, s))

\* GetOldestNonRemovableTransactionId: nobody looks further back.
Horizon ==
  MinOf(Running \cup {nextXid}
        \cup {MinOf(snap[r].xip \cup {snap[r].xmax}) : r \in {q \in Reader : snap[q] # NoSnap}})

Deleted(t) == t.xmax # None /\ ~t.lockOnly /\ clog[t.xmax] # "aborted"

HTSVInclusive(t, h) ==
  IF clog[t.xmin] = "aborted" THEN "DEAD"
  ELSE IF clog[t.xmin] = "running" THEN "INSERT_IN_PROGRESS"
  ELSE IF ~Deleted(t) THEN "LIVE"
  ELSE IF clog[t.xmax] = "running" THEN "DELETE_IN_PROGRESS"
  ELSE IF t.xmax <= h THEN "DEAD" ELSE "RECENTLY_DEAD"

\* HeapTupleSatisfiesVacuum with horizon h.
HTSV(t, h) ==
  IF clog[t.xmin] = "aborted" THEN "DEAD"
  ELSE IF clog[t.xmin] = "running" THEN "INSERT_IN_PROGRESS"
  ELSE IF ~Deleted(t) THEN "LIVE"
  ELSE IF clog[t.xmax] = "running" THEN "DELETE_IN_PROGRESS"
  ELSE IF t.xmax < h THEN "DEAD" ELSE "RECENTLY_DEAD"

\* HeapTupleHeaderIsHotUpdated: HEAP_XMAX_INVALID and HEAP_XMIN_INVALID are set
\* by the visibility check that each caller makes before.
IsHotUpdated(t) == t.hotUpdated /\ Deleted(t) /\ clog[t.xmin] # "aborted"

Normal(page, o) == o \in Off /\ page[o].st = "normal"

-----------------------------------------------------------------------------
(* pg_tde_hot_search_buffer: the members of the chain at a line pointer.     *)

\* Where the search looks at first; None: nowhere.
SearchStart(o) ==
  CASE lp[o].st = "redirect" -> lp[o].to
    [] lp[o].st = "normal" -> IF lp[o].heapOnly THEN None ELSE o
    [] OTHER -> None

ChainLink(priorXmax, o) == Normal(lp, o) /\ priorXmax \in {None, lp[o].xmin}

\* The tuples the search looks at, in order.
Search(o) ==
  LET f[n \in Off] ==
        IF n = 1
          THEN LET start == SearchStart(o) IN IF ChainLink(None, start) THEN <<start>> ELSE <<>>
          ELSE LET chain == f[n - 1]
                   last == lp[chain[n - 1]] IN
               IF Len(chain) = n - 1 /\ IsHotUpdated(last) /\ ChainLink(last.xmax, last.ctid)
                 THEN Append(chain, last.ctid) ELSE chain
  IN f[MaxOff]

\* The version the search returns under snapshot s, None if none is visible.
HotSearch(o, s) ==
  LET chain == Search(o)
      hits == {n \in DOMAIN chain : Visible(lp[chain[n]], s)} IN
  IF hits = {} THEN None ELSE lp[chain[MinOf(hits)]].id

\* *all_dead: HeapTupleIsSurelyDead holds of the whole chain.
AllDead(o) == \A m \in Range(Search(o)) : HTSV(lp[m], Horizon) = "DEAD"

-----------------------------------------------------------------------------
(* pg_tde_page_prune: what it finds out and what it decides.                 *)

\* PruneState: redirected, nowdead, nowunused, and the candidates for
\* new_prune_xid.
NoChange == [redirected |-> {}, nowdead |-> {}, nowunused |-> {}, prunable |-> {}]
Marked(p) == p.nowdead \cup p.nowunused \cup UNION {{r[1], r[2]} : r \in p.redirected}

\* What heap_prune_record_prunable is called for.
SoonDead == {"RECENTLY_DEAD", "DELETE_IN_PROGRESS"}

\* One turn of the loop of heap_prune_chain that follows a chain.
FollowChain(p, htsv, w) ==
  LET o == w.offnum IN
  IF o \notin Off \ Marked(p) THEN [w EXCEPT !.more = FALSE]
  ELSE IF lp[o].st = "redirect" /\ w.chainitems = <<>>
    THEN [w EXCEPT !.chainitems = <<o>>, !.offnum = lp[o].to]
  ELSE IF lp[o].st = "normal" /\ (w.priorXmax # None => lp[o].xmin = w.priorXmax)
    THEN [chainitems |-> Append(w.chainitems, o),
          offnum |-> lp[o].ctid, priorXmax |-> lp[o].xmax,
          latestdead |-> IF htsv[o] = "DEAD" THEN o ELSE w.latestdead,
          prunable |-> w.prunable \cup IF htsv[o] \in SoonDead THEN {lp[o].xmax} ELSE {},
          more |-> htsv[o] \in {"DEAD", "RECENTLY_DEAD"} /\ IsHotUpdated(lp[o])]
  ELSE [w EXCEPT !.more = FALSE]

ChainFrom(p, htsv, root) ==
  LET f[n \in 0..(MaxOff + 1)] ==
        IF n = 0 THEN [chainitems |-> <<>>, offnum |-> root, priorXmax |-> None,
                       latestdead |-> None, prunable |-> {}, more |-> TRUE]
        ELSE LET w == f[n - 1] IN IF w.more THEN FollowChain(p, htsv, w) ELSE w
  IN f[MaxOff + 1]

\* The dead head of a chain goes: its members become unused, and its root leads
\* to the rest of the chain, or is dead.
PruneChainAt(p, root, w) ==
  LET last == CHOOSE i \in DOMAIN w.chainitems : w.chainitems[i] = w.latestdead
      q == [p EXCEPT !.prunable = @ \cup w.prunable] IN
  IF w.latestdead # None
    THEN LET r == [q EXCEPT !.nowunused = @ \cup {w.chainitems[i] : i \in 2..last}] IN
         IF last = Len(w.chainitems)
           THEN [r EXCEPT !.nowdead = @ \cup {root}]
           ELSE [r EXCEPT !.redirected = @ \cup {<<root, w.chainitems[last + 1]>>}]
  ELSE IF Len(w.chainitems) < 2 /\ lp[root].st = "redirect"
    THEN [q EXCEPT !.nowdead = @ \cup {root}]
  ELSE q

PruneChainsOnly(p, htsv, root) ==
  IF lp[root].st = "normal" /\ lp[root].heapOnly THEN p
  ELSE PruneChainAt(p, root, ChainFrom(p, htsv, root))

PruneHeapOnlyAnyway(p, htsv, root) ==
  IF lp[root].st = "normal" /\ lp[root].heapOnly
    THEN IF htsv[root] = "DEAD" THEN [p EXCEPT !.nowunused = @ \cup {root}] ELSE p
  ELSE PruneChainAt(p, root, ChainFrom(p, htsv, root))

heap_prune_chain(p, htsv, root) ==
  IF lp[root].st = "normal" /\ lp[root].heapOnly
    THEN IF htsv[root] = "DEAD" /\ ~IsHotUpdated(lp[root])
           THEN [p EXCEPT !.nowunused = @ \cup {root}] ELSE p
  ELSE PruneChainAt(p, root, ChainFrom(p, htsv, root))

PrunePlan(htsv) ==
  LET f[n \in 0..MaxOff] ==
        IF n = 0 THEN NoChange
        ELSE LET p == f[n - 1] IN
             IF n \in Marked(p) \/ lp[n].st \in {"unused", "dead"} THEN p
             ELSE heap_prune_chain(p, htsv, n)
  IN f[MaxOff]

pg_tde_page_prune_execute(p) ==
  [o \in Off |->
     IF o \in p.nowdead THEN Dead
     ELSE IF o \in p.nowunused THEN Unused
     ELSE IF \E r \in p.redirected : r[1] = o
       THEN Redirect((CHOOSE r \in p.redirected : r[1] = o)[2])
     ELSE lp[o]]

\* heap_prune_satisfies_vacuum for every tuple, from the last line pointer to the
\* first: below line pointer k the horizon has moved on from h1 to h2.
Seen(h1, h2, k) ==
  [o \in Off |-> IF Normal(lp, o) THEN HTSV(lp[o], IF o > k THEN h1 ELSE h2) ELSE "none"]

pg_tde_page_prune(p) ==
  /\ lp' = pg_tde_page_prune_execute(p)
  /\ pruneXid' = IF p.prunable = {} THEN None ELSE MinOf(p.prunable)
  /\ full' = FALSE

-----------------------------------------------------------------------------
(* Writers.                                                                  *)

Stored == Cardinality({o \in Off : Normal(lp, o)})
Fits == Stored < Space /\ \E o \in Off : lp[o] = Unused
FreeOffOrDead == MinOf({o \in Off : lp[o] \in {Unused, Dead}})
FreeOff == MinOf({o \in Off : lp[o] = Unused})
PageSetPrunable(x) == IF pruneXid = None \/ x < pruneXid THEN x ELSE pruneXid
Free(x) == clog[x] = "running" /\ moving[x] = None /\ todo[x] = NoTodo

\* GetCurrentTransactionId: the first write of a transaction gives it its xid.
GetCurrentTransactionId(x) ==
  \/ Free(x) /\ UNCHANGED <<clog, nextXid>>
  \/ /\ x = nextXid
     /\ clog' = [clog EXCEPT ![x] = "running"]
     /\ nextXid' = nextXid + 1

\* Its first write is to another page.
AssignTransactionId ==
  /\ nextXid <= MaxXid /\ GetCurrentTransactionId(nextXid)
  /\ UNCHANGED <<pageVars, index, moving, todo, snap, vac, history>>

Store(x, k) ==
  /\ lastId < MaxOff + MaxTuples /\ lastId' = lastId + 1
  /\ made' = [made EXCEPT ![x] = @ \cup {[id |-> lastId', key |-> k]}]

Remove(x, o) == gone' = [gone EXCEPT ![x] = @ \cup {[id |-> lp[o].id, key |-> lp[o].key]}]

pg_tde_insert(x, k) ==
  /\ GetCurrentTransactionId(x) /\ Fits /\ Store(x, k)
  /\ lp' = [lp EXCEPT ![FreeOff] = NewTuple(lastId + 1, x, k, FALSE)]
  /\ allVisible' = FALSE
  /\ todo' = [todo EXCEPT ![x] = [key |-> k, off |-> FreeOff]]
  /\ UNCHANGED <<pruneXid, full, index, moving, snap, vac, rows, gone>>

\* HeapTupleSatisfiesUpdate says TM_Ok, or did so after the wait for a locker.
MayModify(x, o) ==
  /\ Normal(lp, o)
  /\ clog[lp[o].xmin] = "committed" \/ lp[o].xmin = x
  /\ lp[o].xmax # None => \/ clog[lp[o].xmax] = "aborted"
                          \/ lp[o].lockOnly /\ clog[lp[o].xmax] # "running"

pg_tde_delete(x, o) ==
  /\ GetCurrentTransactionId(x) /\ MayModify(x, o) /\ Remove(x, o)
  /\ lp' = [lp EXCEPT ![o].xmax = x, ![o].lockOnly = FALSE, ![o].ctid = None,
                      ![o].hotUpdated = FALSE]
  /\ pruneXid' = PageSetPrunable(x)
  /\ allVisible' = FALSE
  /\ UNCHANGED <<full, index, moving, todo, snap, vac, lastId, rows, made>>

\* The new version is put on the page; the update is HOT if the key is the same.
PutVersion(x, o, k) ==
  LET hot == k = lp[o].key
      new == FreeOff IN
  /\ Fits /\ Store(x, k) /\ Remove(x, o)
  /\ lp' = [lp EXCEPT ![o].xmax = x, ![o].lockOnly = FALSE, ![o].ctid = new,
                      ![o].hotUpdated = hot, ![new] = NewTuple(lastId', x, k, hot)]
  /\ pruneXid' = PageSetPrunable(x)
  /\ allVisible' = FALSE
  /\ todo' = IF hot THEN todo ELSE [todo EXCEPT ![x] = [key |-> k, off |-> new]]
  /\ UNCHANGED <<full, index, snap, vac, rows>>

pg_tde_update(x, o, k) ==
  /\ GetCurrentTransactionId(x) /\ MayModify(x, o)
  /\ PutVersion(x, o, k)
  /\ UNCHANGED moving

\* It does not fit, or has to be toasted first: the old version is locked while
\* the page is not.
UpdateLock(x, o) ==
  /\ GetCurrentTransactionId(x) /\ MayModify(x, o)
  /\ lp' = [lp EXCEPT ![o].xmax = x, ![o].lockOnly = TRUE, ![o].ctid = None,
                      ![o].hotUpdated = FALSE]
  /\ moving' = [moving EXCEPT ![x] = o]
  /\ UNCHANGED <<pruneXid, full, allVisible, index, todo, snap, vac, history>>

\* There is room for it on this page after all.
UpdateHere(x, k) ==
  /\ clog[x] = "running" /\ moving[x] # None
  /\ PutVersion(x, moving[x], k)
  /\ moving' = [moving EXCEPT ![x] = None]
  /\ UNCHANGED <<clog, nextXid>>

\* The new version goes to another page.
UpdateMove(x) ==
  LET o == moving[x] IN
  /\ clog[x] = "running" /\ o # None /\ Remove(x, o)
  /\ lp' = [lp EXCEPT ![o].lockOnly = FALSE]
  /\ pruneXid' = PageSetPrunable(x)
  /\ full' = TRUE /\ allVisible' = FALSE
  /\ moving' = [moving EXCEPT ![x] = None]
  /\ UNCHANGED <<index, clog, nextXid, todo, snap, vac, lastId, rows, made>>

\* ExecInsertIndexTuples, after update_indexes = TU_All.
InsertIndexEntry(x) ==
  /\ clog[x] = "running" /\ todo[x] # NoTodo
  /\ index' = index \cup {todo[x]}
  /\ todo' = [todo EXCEPT ![x] = NoTodo]
  /\ UNCHANGED <<pageVars, clog, nextXid, moving, snap, vac, history>>

Commit(x) ==
  /\ Free(x)
  /\ clog' = [clog EXCEPT ![x] = "committed"]
  /\ rows' = (rows \cup made[x]) \ gone[x]
  /\ made' = [made EXCEPT ![x] = {}] /\ gone' = [gone EXCEPT ![x] = {}]
  /\ UNCHANGED <<pageVars, index, nextXid, moving, todo, snap, vac, lastId>>

Abort(x) ==
  /\ clog[x] = "running"
  /\ clog' = [clog EXCEPT ![x] = "aborted"]
  /\ moving' = [moving EXCEPT ![x] = None] /\ todo' = [todo EXCEPT ![x] = NoTodo]
  /\ made' = [made EXCEPT ![x] = {}] /\ gone' = [gone EXCEPT ![x] = {}]
  /\ UNCHANGED <<pageVars, index, nextXid, snap, vac, lastId, rows>>

-----------------------------------------------------------------------------
(* Readers.                                                                  *)

GetSnapshot(r) ==
  /\ snap[r] = NoSnap
  /\ LET s == [xmax |-> nextXid, xip |-> Running] IN
     snap' = [snap EXCEPT ![r] = [xmax |-> s.xmax, xip |-> s.xip, seen |-> rows,
                                  leads |-> [o \in Off |-> HotSearch(o, s)]]]
  /\ UNCHANGED <<pageVars, index, xactVars, vac, history>>

EndSnapshot(r) ==
  /\ snap[r] # NoSnap
  /\ snap' = [snap EXCEPT ![r] = NoSnap]
  /\ UNCHANGED <<pageVars, index, xactVars, vac, history>>

\* A scan that finds the whole chain dead has the entry removed.
KillIndexEntry(e) ==
  /\ AllDead(e.off)
  /\ index' = index \ {e}
  /\ UNCHANGED <<pageVars, xactVars, snap, vac, history>>

-----------------------------------------------------------------------------
(* Pruning in passing, and vacuum.                                           *)

\* ConditionalLockBufferForCleanup: nobody has the page pinned.
Unpinned == \A x \in Xid : moving[x] = None

\* pd_prune_xid and the free space are looked at without the lock first; with the
\* lock the free space is looked at again.
pg_tde_page_prune_opt ==
  /\ pruneXid # None /\ pruneXid < Horizon
  /\ full \/ Space - Stored < MinFree
  /\ Unpinned
  /\ \E h \in Horizon - Lag..Horizon, k \in Off :
       pg_tde_page_prune(PrunePlan(Seen(h, Horizon, k)))
  /\ UNCHANGED <<allVisible, index, xactVars, snap, vac, history>>

\* GetOldestNonRemovableTransactionId "is conservative and sometimes returns a
\* value that's unnecessarily small".
VacuumStart ==
  /\ vac = NoVac
  /\ \E oldest \in (Horizon - Lag)..Horizon : vac' = [NoVac EXCEPT !.phase = "skip", !.oldest = oldest]
  /\ UNCHANGED <<pageVars, index, xactVars, snap, history>>

\* The visibility map is read long before the page: an all-visible page is
\* skipped, if enough pages around it are, or scanned nevertheless.
lazy_scan_skip ==
  /\ vac.phase = "skip"
  /\ \/ vac' = [vac EXCEPT !.phase = "scan", !.vm = allVisible]
     \/ allVisible /\ vac' = NoVac
  /\ UNCHANGED <<pageVars, index, xactVars, snap, history>>

\* Without items that wait for the index pass the vacuum is over.
AfterScan(dead) ==
  vac' = IF dead = {} THEN NoVac ELSE [vac EXCEPT !.phase = "index", !.dead = dead]

DeadItems(page) == {o \in Off : page[o] = Dead}

AllLive(page) ==
  \A o \in Off : page[o] # Dead /\ (Normal(page, o) => HTSV(page[o], vac.oldest) = "LIVE")

pg_tde_page_is_all_visible(page) ==
  \A o \in Off : /\ page[o] # Dead
                 /\ Normal(page, o) => /\ HTSV(page[o], vac.oldest) = "LIVE"
                                       /\ page[o].xmin < vac.oldest

\* The visibility map bit and PD_ALL_VISIBLE, given what the map said at the time
\* of lazy_scan_skip.  The last case is that of a page found all-frozen.
SetAllVisible(page) ==
  LET all_visible == pg_tde_page_is_all_visible(page) IN
  IF ~vac.vm /\ all_visible THEN allVisible' = TRUE
  ELSE IF DeadItems(page) # {} THEN allVisible' = FALSE
  ELSE \/ allVisible' = allVisible
       \/ vac.vm /\ all_visible /\ allVisible' = TRUE

\* Pruning is repeated as long as it leaves a tuple that is dead by now.
lazy_scan_prune ==
  /\ vac.phase = "scan" /\ Unpinned
  /\ \E k \in Off : pg_tde_page_prune(PrunePlan(Seen(vac.oldest, Horizon, k)))
  /\ \A o \in Off : Normal(lp', o) => HTSV(lp'[o], vac.oldest) # "DEAD"
  /\ SetAllVisible(lp')
  /\ AfterScan(DeadItems(lp'))
  /\ UNCHANGED <<index, xactVars, snap, history>>

lazy_scan_noprune ==
  /\ vac.phase = "scan" /\ ~Unpinned
  /\ AfterScan(DeadItems(lp))
  /\ UNCHANGED <<pageVars, index, xactVars, snap, history>>

\* The wraparound failsafe may end the vacuum after an index.
lazy_vacuum_all_indexes ==
  /\ vac.phase = "index"
  /\ index' = {e \in index : e.off \notin vac.dead}
  /\ \/ vac' = [vac EXCEPT !.phase = "heap"]
     \/ vac' = NoVac
  /\ UNCHANGED <<pageVars, xactVars, snap, history>>

\* lazy_vacuum bypasses the indexes, and with them the second heap pass: there is
\* little to do, or the failsafe is on already.
BypassIndexes ==
  /\ vac.phase = "index"
  /\ vac' = NoVac
  /\ UNCHANGED <<pageVars, index, xactVars, snap, history>>

lazy_vacuum_pg_tde_page ==
  /\ vac.phase = "heap"
  /\ lp' = [o \in Off |-> IF o \in vac.dead THEN Unused ELSE lp[o]]
  /\ allVisible' = (allVisible \/ pg_tde_page_is_all_visible(lp'))
  /\ vac' = NoVac
  /\ UNCHANGED <<pruneXid, full, index, xactVars, snap, history>>

Next ==
  \/ AssignTransactionId
  \/ \E x \in Xid :
       \/ \E k \in Key : pg_tde_insert(x, k)
       \/ \E o \in Off : \/ pg_tde_delete(x, o) \/ UpdateLock(x, o)
                         \/ \E k \in Key : pg_tde_update(x, o, k)
       \/ \E k \in Key : UpdateHere(x, k)
       \/ UpdateMove(x) \/ InsertIndexEntry(x) \/ Commit(x) \/ Abort(x)
  \/ \E r \in Reader : GetSnapshot(r) \/ EndSnapshot(r)
  \/ \E e \in index : KillIndexEntry(e)
  \/ pg_tde_page_prune_opt
  \/ VacuumStart \/ lazy_scan_skip \/ lazy_scan_prune \/ lazy_scan_noprune
  \/ lazy_vacuum_all_indexes \/ BypassIndexes \/ lazy_vacuum_pg_tde_page

Spec == Init /\ [][Next]_vars

-----------------------------------------------------------------------------
(* Properties.                                                               *)

Active == {r \in Reader : snap[r] # NoSnap}

Found(k, s) == {e \in index : e.key = k /\ HotSearch(e.off, s) # None}
Shown(s) == {o \in Off : Normal(lp, o) /\ Visible(lp[o], s)}

\* Under every snapshot, a sequential scan and, for every key, an index scan find
\* the row versions the snapshot sees, all of them and each once: pruning and
\* vacuum remove nothing that is seen, the chain of a row has no version with
\* another key, and no index entry leads to a line pointer that was freed and
\* used again.
ScansExact ==
  \A r \in Active :
    LET s == snap[r] IN
    /\ {[id |-> lp[o].id, key |-> lp[o].key] : o \in Shown(s)} = s.seen
    /\ Cardinality(Shown(s)) = Cardinality(s.seen)
    /\ \A k \in Key :
         LET seen == {v.id : v \in {u \in s.seen : u.key = k}} IN
         /\ {HotSearch(e.off, s) : e \in Found(k, s)} = seen
         /\ Cardinality(Found(k, s)) = Cardinality(seen)

\* An entry that a scan has read from the index leads to the same version, or to
\* none, however long the scan takes to follow it: also if the entry is removed
\* and the line pointer freed and used again in between.
LookupStable ==
  \A r \in Active : \A o \in Off : HotSearch(o, snap[r]) = snap[r].leads[o]

\* "pruning must never leave behind a DEAD tuple that still has tuple storage.
\* VACUUM isn't prepared to deal with that case": the retry loop of
\* lazy_scan_prune ends, whenever the horizon moves.
PruneLeavesNoDead ==
  vac.phase = "scan" =>
    \A k \in Off : LET page == pg_tde_page_prune_execute(PrunePlan(Seen(vac.oldest, Horizon, k))) IN
      \A o \in Off : Normal(page, o) => HTSV(page[o], vac.oldest) # "DEAD"

\* What the scan collected is still a dead line pointer when the second pass
\* frees it, on a page that is not all-visible (the two assertions of
\* lazy_vacuum_pg_tde_page), whatever other backends did to the page meanwhile.
CollectedStayDead ==
  vac.phase \in {"index", "heap"} => vac.dead \subseteq DeadItems(lp) /\ ~allVisible

\* The all-visible bit is true: every tuple on the page is visible to every
\* snapshot, and every index entry leads to one, so that index-only scans need
\* not look.
AllVisibleTrue ==
  allVisible =>
    /\ \A r \in Active : \A o \in Off : Normal(lp, o) => Visible(lp[o], snap[r])
    /\ \A o \in Off : lp[o] # Dead
    /\ \A e \in index : SearchStart(e.off) # None

=============================================================================
