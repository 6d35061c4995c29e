------------------------------- MODULE Freeze -------------------------------
(***************************************************************************)
(* Freezing: how VACUUM of a pg_tde table (src/access/pg_tde_vacuumlazy.c)  *)
(* and a rewrite of it (src/access/pg_tde_rewrite.c) replace old transaction *)
(* ids and multixacts in tuple headers (src/access/pg_tdeam.c), and work out *)
(* the oldest ones that are left, which become the table's relfrozenxid and  *)
(* relminmxid.  The status of older transactions is discarded.               *)
(*                                                                          *)
(* Meanwhile transactions insert, update and lock rows, and end, between any *)
(* two pages and, as ending needs no page lock, between any two tuples of a  *)
(* page.  Headers are never encrypted.                                      *)
(***************************************************************************)
EXTENDS Integers, Sequences, FiniteSets, FiniteSetsExt

CONSTANTS
  SKIP_PAGES_THRESHOLD,
  MaxXid,               \* bound: transaction ids; 1 committed before the start
  Loads                 \* a table at the start (pages of slots that hold a row of
                        \* transaction 1 or nothing) and bounds: on inserts, updates
                        \* and locks, and on vacuums and rewrites

FreezeAssumption ==
  /\ SKIP_PAGES_THRESHOLD \in Nat /\ MaxXid \in Nat \ {0}
  /\ Loads \subseteq [pages : Seq(Seq({"row", "free"})), xids : Nat, touches : Nat, vacuums : Nat]

VARIABLES
  pages,                     \* block -> slots: "free", "dead" or a tuple
  vm,                        \* block -> "none", "visible" or "frozen"
  xact,                      \* xid -> status
  multis,                    \* multixacts so far: their members
  relfrozenxid, relminmxid,
  vac,                       \* LVRelState
  load,                      \* one of Loads
  touches, vacuums           \* what is left of them

table == <<pages, vm>>
world == <<xact, multis>>
catalog == <<relfrozenxid, relminmxid>>
freezeVars == <<table, world, catalog, vac, load, touches, vacuums>>

Xid == 1..MaxXid
Frozen == 0                  \* xmin of a frozen tuple
Block == DOMAIN pages
Slot(b) == DOMAIN pages[b]
None == -1

Member(x, upd) == [xid |-> x, upd |-> upd]

(* Raw xmax: a multixact, or a transaction that updated or locked the row, or *)
(* neither.                                                                 *)
NoXmax == [multi |-> 0, single |-> {}]
Single(m) == [multi |-> 0, single |-> {m}]
Multi(id) == [multi |-> id, single |-> {}]
Tuple(xmin, xmax) == [kind |-> "tuple", xmin |-> xmin, xmax |-> xmax]
Item(kind) == [kind |-> kind, xmin |-> Frozen, xmax |-> NoXmax]
Free == Item("free")
Dead == Item("dead")
IsTuple(t) == t.kind = "tuple"

Members(xmax) == IF xmax.multi # 0 THEN multis[xmax.multi] ELSE xmax.single
Updaters(ms) == {m.xid : m \in {n \in ms : n.upd}}
LockedOnly(xmax) == Updaters(Members(xmax)) = {}

Running(x) == xact[x] = "running"
DidCommit(x) == IF x = Frozen THEN TRUE ELSE xact[x] = "committed"
NextXid == Min({x \in 1..(MaxXid + 1) : x > MaxXid \/ xact[x] = "unused"})
NextMulti == Len(multis) + 1
Older(a, b) == IF a < b THEN a ELSE b

NoPage == [required |-> FALSE, fx |-> 0, fm |-> 0, nfx |-> 0, nfm |-> 0]
NoVac == [pc |-> "idle", aggressive |-> FALSE, OldestXmin |-> 0, OldestMxact |-> 0,
          FreezeLimit |-> 0, MultiXactCutoff |-> 0,
          NewRelfrozenXid |-> 0, NewRelminMxid |-> 0, skippedallvis |-> FALSE,
          blk |-> 0, unskippable |-> 0, allvis |-> FALSE, skipping |-> FALSE,
          according |-> FALSE,
          slot |-> 0, pagefrz |-> NoPage, plans |-> <<>>,
          all_visible |-> FALSE, all_frozen |-> FALSE, dead |-> {}]

FreezeInit ==
  /\ load \in Loads
  /\ pages = [b \in 0..(Len(load.pages) - 1) |->
                [o \in DOMAIN load.pages[b + 1] |->
                   IF load.pages[b + 1][o] = "row" THEN Tuple(1, NoXmax) ELSE Free]]
  /\ vm = [b \in DOMAIN pages |-> "none"]
  /\ xact = [x \in Xid |-> IF x = 1 THEN "committed" ELSE "unused"]
  /\ multis = <<>>
  /\ relfrozenxid = 1 /\ relminmxid = 1
  /\ vac = NoVac /\ touches = load.touches /\ vacuums = load.vacuums

----------------------------------------------------------------------------
(* Transactions *)

Locked(b) == vac.pc \in {"prune", "prepare"} /\ vac.blk = b

(* A transaction gets its xid with its first change. *)
MayTouch(x, b) ==
  /\ Running(x) \/ (x = NextXid /\ x <= load.xids)
  /\ touches > 0
  /\ ~Locked(b)

Touch(x, b, o, t, bits) ==
  /\ xact' = [xact EXCEPT ![x] = "running"]
  /\ pages' = [pages EXCEPT ![b][o] = t]
  /\ vm' = [vm EXCEPT ![b] = bits]
  /\ touches' = touches - 1
  /\ UNCHANGED <<catalog, vac, load, vacuums>>

pg_tde_insert(x, b, o) ==
  /\ MayTouch(x, b) /\ pages[b][o] = Free
  /\ Touch(x, b, o, Tuple(x, NoXmax), "none")
  /\ UNCHANGED multis

(* Members worth carrying into a new multixact. *)
Lasting(ms) == {m \in ms : Running(m.xid) \/ (m.upd /\ DidCommit(m.xid))}

(* The old xmax is forgotten when nobody needs it, replaced by the stronger   *)
(* of two of the same transaction, and else joined with the new one.         *)
compute_new_xmax_infomask(x, b, o, upd, bits) ==
  LET old == pages[b][o].xmax
      kept == Lasting(Members(old))
      alone == kept = {} \/ (old.multi = 0 /\ \A m \in kept : m.xid = x)
      t == [pages[b][o] EXCEPT !.xmax =
              IF alone THEN Single(Member(x, upd \/ x \in Updaters(kept))) ELSE Multi(NextMulti)]
  IN  /\ multis' = IF alone THEN multis ELSE Append(multis, kept \cup {Member(x, upd)})
      /\ Touch(x, b, o, t, bits)

Inserted(t, x) == DidCommit(t.xmin) \/ t.xmin = x

(* pg_tde_update and pg_tde_delete: nobody else has updated the row; those    *)
(* who lock its key do not stop an update of its other columns.              *)
Update(x, b, o) ==
  LET t == pages[b][o]
  IN  /\ MayTouch(x, b) /\ IsTuple(t) /\ Inserted(t, x)
      /\ \A u \in Updaters(Members(t.xmax)) : ~Running(u) /\ ~DidCommit(u)
      /\ compute_new_xmax_infomask(x, b, o, TRUE, "none")

(* pg_tde_lock_tuple, also of a row version somebody is updating or has       *)
(* updated: only the all-frozen bit is cleared.                              *)
pg_tde_lock_tuple(x, b, o) ==
  LET t == pages[b][o]
  IN  /\ MayTouch(x, b) /\ IsTuple(t) /\ Inserted(t, x)
      /\ \A m \in Members(t.xmax) : m.xid # x
      /\ compute_new_xmax_infomask(x, b, o, FALSE, IF vm[b] = "frozen" THEN "visible" ELSE vm[b])

End(x) ==
  /\ Running(x)
  /\ \E s \in {"committed", "aborted"} : xact' = [xact EXCEPT ![x] = s]
  /\ UNCHANGED <<table, multis, catalog, vac, load, touches, vacuums>>

----------------------------------------------------------------------------
(* HeapTupleSatisfiesVacuum *)

HTSV(t, oldest) ==
  LET upd == Updaters(Members(t.xmax))
  IN  IF ~DidCommit(t.xmin) THEN IF Running(t.xmin) THEN "INSERT_IN_PROGRESS" ELSE "DEAD"
      ELSE IF \E u \in upd : Running(u) THEN "DELETE_IN_PROGRESS"
      ELSE IF \E u \in upd : DidCommit(u)
        THEN IF \E u \in upd : DidCommit(u) /\ u < oldest THEN "DEAD" ELSE "RECENTLY_DEAD"
      ELSE "LIVE"

(* Cutoffs: nothing at or after them is needed by all, nothing before them by *)
(* anyone.  An old snapshot holds them back.                                 *)
OldestRunning == Min({NextXid} \cup {x \in Xid : Running(x)})
OldestRunningMulti ==
  Min({NextMulti} \cup {i \in DOMAIN multis : \E m \in multis[i] : Running(m.xid)})

vacuum_get_cutoffs(v) ==
  /\ v.OldestXmin \in relfrozenxid..OldestRunning
  /\ v.FreezeLimit \in relfrozenxid..v.OldestXmin
  /\ v.OldestMxact \in {relminmxid, OldestRunningMulti}
  /\ v.MultiXactCutoff \in {relminmxid, v.OldestMxact}

----------------------------------------------------------------------------
(* What to do with a tuple: xmax afterwards and whether the page must be     *)
(* frozen, with the oldest xid and multixact left if it is (fx, fm) or not   *)
(* (nfx, nfm).  members is not empty when xmax becomes a new multixact.      *)

Verdict(flag, xmax, members, required, pf) ==
  [flag |-> flag, xmax |-> xmax, members |-> members,
   pagefrz |-> [pf EXCEPT !.required = @ \/ required]]
Invalidate(pf) == Verdict("invalidate", NoXmax, {}, TRUE, pf)
Corrupted(pf) == Verdict("error", NoXmax, {}, FALSE, pf)

(* A multixact nobody can be running in. *)
FreezeOldMulti(xmax, v, pf) ==
  LET ms == Members(xmax)
      u == IF LockedOnly(xmax) THEN None ELSE CHOOSE x \in Updaters(ms) : TRUE
  IN  IF \E m \in ms : Running(m.xid) THEN Corrupted(pf)
      ELSE IF u = None THEN Invalidate(pf)
      ELSE IF u < relfrozenxid THEN Corrupted(pf)
      ELSE IF u < v.OldestXmin
           THEN (IF DidCommit(u) THEN Corrupted(pf) ELSE Invalidate(pf))
      ELSE Verdict("xid", Single(Member(u, TRUE)), {}, TRUE, pf)

(* Locks that are held and an update that may count. *)
KeepRunning(ms) == {m \in ms : Running(m.xid)}
KeepNeeded(ms) == {m \in ms : IF m.upd THEN Running(m.xid) \/ DidCommit(m.xid) ELSE Running(m.xid)}

ReplaceMulti(xmax, v, pf) ==
  LET newmembers == KeepNeeded(Members(xmax))
  IN  IF \E m \in newmembers : m.xid < v.OldestXmin THEN Corrupted(pf)
      ELSE IF newmembers = {} THEN Invalidate(pf)
      ELSE IF \A m \in newmembers : m.upd
           THEN Verdict("xid", [multi |-> 0, single |-> newmembers], {}, TRUE, pf)
      ELSE Verdict("multi", Multi(NextMulti), newmembers, TRUE, pf)

(* A multixact that may stay, whether or not the page is frozen. *)
LeaveMultiUntracked(xmax, pf) == pf
LeaveMulti(xmax, pf) ==
  [pf EXCEPT !.fx = Min({@} \cup {m.xid : m \in Members(xmax)}), !.fm = Older(@, xmax.multi)]

FreezeMultiXactId(xmax, v, pf) ==
  LET xids == {m.xid : m \in Members(xmax)}
  IN  IF xmax.multi < relminmxid THEN Corrupted(pf)
      ELSE IF xmax.multi < v.OldestMxact THEN FreezeOldMulti(xmax, v, pf)
      ELSE IF \/ \E x \in xids : x < v.FreezeLimit
              \/ xmax.multi < v.MultiXactCutoff
           THEN ReplaceMulti(xmax, v, pf)
      ELSE Verdict("noop", xmax, {}, FALSE, LeaveMulti(xmax, pf))

(* Xids in a tuple's header, and in the multixact it has as xmax. *)
Xids(t) == ({t.xmin} \ {Frozen}) \cup {m.xid : m \in Members(t.xmax)}

pg_tde_tuple_needs_eventual_freeze(t) == t.xmin # Frozen \/ t.xmax # NoXmax

(* For one tuple after the other of ts. *)
pg_tde_tuple_should_freeze(ts, v, pf) ==
  LET xids == UNION {Xids(t) : t \in ts}
      mxids == {t.xmax.multi : t \in ts} \ {0}
  IN  [pf EXCEPT !.required = \/ @ \/ \E x \in xids : x < v.FreezeLimit
                              \/ \E m \in mxids : m < v.MultiXactCutoff,
                 !.nfx = Min({@} \cup xids),
                 !.nfm = Min({@} \cup mxids)]

pg_tde_prepare_freeze_tuple(t, v, pf) ==
  LET freeze_xmin == t.xmin # Frozen /\ t.xmin < v.OldestXmin
      x == IF t.xmax.single = {} THEN None ELSE (CHOOSE m \in t.xmax.single : TRUE).xid
      verdict == IF t.xmax.multi # 0 THEN FreezeMultiXactId(t.xmax, v, pf)
                 ELSE IF x = None THEN Verdict("none", NoXmax, {}, FALSE, pf)
                 ELSE IF x < relfrozenxid THEN Corrupted(pf)
                 ELSE IF x < v.OldestXmin THEN Verdict("invalidate", NoXmax, {}, FALSE, pf)
                 ELSE Verdict("noop", t.xmax, {}, FALSE, pf)
      after == [t EXCEPT !.xmin = IF freeze_xmin THEN Frozen ELSE @, !.xmax = verdict.xmax]
  IN  [flag |-> IF t.xmin # Frozen /\ t.xmin < relfrozenxid THEN "error" ELSE verdict.flag,
       after |-> after, members |-> verdict.members,
       totally_frozen |-> after.xmin = Frozen /\ verdict.flag \in {"none", "invalidate"},
       pagefrz |-> IF verdict.pagefrz.required \/ (t.xmin = Frozen /\ verdict.flag = "none")
                   THEN verdict.pagefrz
                   ELSE pg_tde_tuple_should_freeze({t}, v, verdict.pagefrz)]

----------------------------------------------------------------------------
(* lazy_scan_heap *)

(* lazy_scan_skip: blocks from next on that the map lets us skip. *)
Skippable(v, b) ==
  /\ vm[b] # "none" /\ b + 1 \in Block
  /\ v.aggressive => vm[b] = "frozen"
SkippedAllVis(v, range) == v.skippedallvis \/ \E b \in range : vm[b] # "frozen"

lazy_scan_skip(v, next) ==
  LET stop == Min({Cardinality(Block)} \cup {b \in Block : b >= next /\ ~Skippable(v, b)})
      range == next..(stop - 1)
      skip == Cardinality(range) >= SKIP_PAGES_THRESHOLD
  IN  [v EXCEPT !.unskippable = stop, !.skipping = skip,
                !.allvis = (stop \in Block => vm[stop] # "none"),
                !.skippedallvis = IF skip THEN SkippedAllVis(v, range) ELSE @]

pg_tde_vacuum_rel ==
  /\ vac.pc = "idle" /\ vacuums > 0
  /\ \E agg \in BOOLEAN, ox, fl \in 1..(MaxXid + 1), om, mc \in {relminmxid, OldestRunningMulti} :
       LET v == [NoVac EXCEPT !.pc = "block", !.aggressive = agg, !.OldestXmin = ox,
                   !.FreezeLimit = fl, !.OldestMxact = om, !.MultiXactCutoff = mc,
                   !.NewRelfrozenXid = ox, !.NewRelminMxid = om]
       IN  /\ vacuum_get_cutoffs(v)
           /\ vac' = lazy_scan_skip(v, 0)
  /\ vacuums' = vacuums - 1
  /\ UNCHANGED <<table, world, catalog, load, touches>>

Vac(v) == vac' = v /\ UNCHANGED <<catalog, load, touches, vacuums>>

(* The next block: skipped, or scanned with or without a cleanup lock. *)
ScanBlock ==
  /\ vac.pc = "block" /\ vac.blk \in Block
  /\ \E cleanup \in BOOLEAN :
       LET b == vac.blk
           here == IF b = vac.unskippable
                   THEN [lazy_scan_skip(vac, b + 1) EXCEPT !.according = vac.allvis]
                   ELSE [vac EXCEPT !.according = TRUE]
       IN  IF b # vac.unskippable /\ vac.skipping
           THEN cleanup /\ Vac([vac EXCEPT !.blk = @ + 1])
           ELSE Vac([here EXCEPT !.pc = IF cleanup THEN "prune" ELSE "noprune"])
  /\ UNCHANGED <<table, world>>

Fresh(v) ==
  [v EXCEPT !.pagefrz = [required |-> FALSE,
                         fx |-> v.NewRelfrozenXid, nfx |-> v.NewRelfrozenXid,
                         fm |-> v.NewRelminMxid, nfm |-> v.NewRelminMxid]]

Tuples(page) == {t \in {page[o] : o \in DOMAIN page} : IsTuple(t)}

(* Without the cleanup lock the page is left as it is; an aggressive vacuum   *)
(* waits for the lock when it has to freeze.                                 *)
MustWaitNever(pf) == FALSE
MustWait(pf) == vac.aggressive /\ pf.required

lazy_scan_noprune ==
  /\ vac.pc = "noprune"
  /\ LET pf == pg_tde_tuple_should_freeze(Tuples(pages[vac.blk]), vac, Fresh(vac).pagefrz)
     IN  Vac(IF MustWait(pf) THEN [vac EXCEPT !.pc = "prune"]
             ELSE [vac EXCEPT !.pc = "block", !.blk = @ + 1,
                              !.NewRelfrozenXid = pf.nfx, !.NewRelminMxid = pf.nfm,
                              !.dead = IF \E o \in Slot(vac.blk) : pages[vac.blk][o] = Dead
                                       THEN @ \cup {vac.blk} ELSE @])
  /\ UNCHANGED <<table, world>>

(* lazy_scan_prune: prune, with a horizon that may be newer than OldestXmin, *)
(* then look at one tuple after the other, then freeze them all or none.     *)
Prune ==
  /\ vac.pc = "prune"
  /\ \E horizon \in {vac.OldestXmin, OldestRunning} :
       pages' = [pages EXCEPT ![vac.blk] = [o \in DOMAIN @ |->
                   IF IsTuple(@[o]) /\ HTSV(@[o], horizon) = "DEAD" THEN Dead ELSE @[o]]]
  /\ Vac([Fresh(vac) EXCEPT !.pc = "prepare", !.slot = 1, !.plans = <<>>,
                            !.all_visible = TRUE, !.all_frozen = TRUE])
  /\ UNCHANGED <<vm, world>>

Visible(t, v) == HTSV(t, v.OldestXmin) = "LIVE" /\ t.xmin < v.OldestXmin

(* A tuple that has died since is pruned first: the page is done again. *)
Prepare ==
  /\ vac.pc = "prepare" /\ vac.slot \in Slot(vac.blk)
  /\ LET t == pages[vac.blk][vac.slot]
         p == pg_tde_prepare_freeze_tuple(t, vac, vac.pagefrz)
         next == [vac EXCEPT !.slot = @ + 1]
     IN  IF ~IsTuple(t) THEN Vac([next EXCEPT !.plans = Append(@, t)]) /\ UNCHANGED multis
         ELSE IF HTSV(t, vac.OldestXmin) = "DEAD"
              THEN Vac([vac EXCEPT !.pc = "prune"]) /\ UNCHANGED multis
         ELSE IF p.flag = "error" THEN Vac([vac EXCEPT !.pc = "error"]) /\ UNCHANGED multis
         ELSE /\ Vac([next EXCEPT !.plans = Append(@, p.after), !.pagefrz = p.pagefrz,
                                  !.all_visible = @ /\ Visible(t, vac),
                                  !.all_frozen = @ /\ p.totally_frozen])
              /\ multis' = IF p.members = {} THEN multis ELSE Append(multis, p.members)
  /\ UNCHANGED <<table, xact>>

(* Checks of pg_tde_freeze_execute_prepared. *)
PlanWrong(t, after) ==
  /\ IsTuple(t)
  /\ \/ t.xmin # after.xmin /\ ~DidCommit(t.xmin)
     \/ t.xmax.multi = 0 /\ t.xmax # after.xmax /\ \E u \in Updaters(t.xmax.single) : DidCommit(u)

(* The bits of the visibility map after a page was scanned. *)
NewBits(v, old) ==
  IF ~v.all_visible \/ v.blk \in v.dead THEN old
  ELSE IF v.all_frozen THEN "frozen"
  ELSE IF ~v.according /\ old = "none" THEN "visible"
  ELSE old

DecideFreezing ==
  /\ vac.pc = "prepare" /\ vac.slot \notin Slot(vac.blk)
  /\ LET pf == vac.pagefrz
         page == pages[vac.blk]
         none == \A o \in Slot(vac.blk) : vac.plans[o] = page[o]
     IN  \E fpi \in BOOLEAN :
           LET freeze == pf.required \/ none \/ (vac.all_visible /\ vac.all_frozen /\ fpi)
               v == [vac EXCEPT !.pc = "block", !.blk = @ + 1, !.slot = 0, !.plans = <<>>,
                       !.pagefrz = NoPage, !.all_visible = FALSE, !.all_frozen = FALSE,
                       !.NewRelfrozenXid = IF freeze THEN pf.fx ELSE pf.nfx,
                       !.NewRelminMxid = IF freeze THEN pf.fm ELSE pf.nfm,
                       !.dead = IF \E o \in Slot(vac.blk) : page[o] = Dead
                                THEN @ \cup {vac.blk} ELSE @]
               seen == [vac EXCEPT !.all_frozen = @ /\ freeze, !.dead = v.dead]
           IN  IF freeze /\ \E o \in Slot(vac.blk) : PlanWrong(page[o], vac.plans[o])
               THEN Vac([vac EXCEPT !.pc = "error"]) /\ UNCHANGED table
               ELSE /\ pages' = IF freeze THEN [pages EXCEPT ![vac.blk] = vac.plans] ELSE pages
                    /\ vm' = [vm EXCEPT ![vac.blk] = NewBits(seen, @)]
                    /\ Vac(v)
  /\ UNCHANGED world

Scanned == vac.pc = "block" /\ vac.blk \notin Block

(* lazy_vacuum_pg_tde_page: dead line pointers become free, after which the   *)
(* page may be all visible.                                                  *)
lazy_vacuum_pg_tde_page(b) ==
  /\ Scanned /\ b \in vac.dead
  /\ LET page == [o \in Slot(b) |-> IF pages[b][o] = Dead THEN Free ELSE pages[b][o]]
         tuples == Tuples(page)
         pg_tde_page_is_all_visible == \A t \in tuples : Visible(t, vac)
         all_frozen == \A t \in tuples : ~pg_tde_tuple_needs_eventual_freeze(t)
     IN  /\ pages' = [pages EXCEPT ![b] = page]
         /\ vm' = [vm EXCEPT ![b] = IF ~pg_tde_page_is_all_visible THEN @
                                    ELSE IF all_frozen \/ @ = "frozen" THEN "frozen" ELSE "visible"]
  /\ Vac([vac EXCEPT !.dead = @ \ {b}])
  /\ UNCHANGED world

(* Also when the second pass is bypassed, in part or as a whole. *)
UpdatePgClass ==
  /\ Scanned
  /\ relfrozenxid' = IF vac.skippedallvis THEN relfrozenxid ELSE Max({relfrozenxid, vac.NewRelfrozenXid})
  /\ relminmxid' = IF vac.skippedallvis THEN relminmxid ELSE Max({relminmxid, vac.NewRelminMxid})
  /\ vac' = NoVac
  /\ UNCHANGED <<table, world, load, touches, vacuums>>

----------------------------------------------------------------------------
(* A rewrite has the table to itself.  Tuples that are not dead are copied    *)
(* and frozen one by one (pg_tde_freeze_tuple), the cutoffs for keeping a     *)
(* tuple being newer than those for freezing it; they become relfrozenxid    *)
(* and relminmxid.                                                          *)
pg_tde_freeze_tuple(t, v) ==
  pg_tde_prepare_freeze_tuple(t, [v EXCEPT !.OldestXmin = v.FreezeLimit,
                                           !.OldestMxact = v.MultiXactCutoff],
                              [required |-> TRUE, fx |-> v.FreezeLimit, nfx |-> v.FreezeLimit,
                               fm |-> v.MultiXactCutoff, nfm |-> v.MultiXactCutoff])

RewriteTable ==
  /\ vac.pc = "idle" /\ vacuums > 0
  /\ \A x \in Xid : ~Running(x)
  /\ \E ox, fl \in 1..(MaxXid + 1), mc \in {relminmxid, NextMulti} :
       LET v == [NoVac EXCEPT !.OldestXmin = ox, !.OldestMxact = NextMulti,
                              !.FreezeLimit = fl, !.MultiXactCutoff = mc]
           copied(t) == IsTuple(t) /\ HTSV(t, ox) # "DEAD"
           wrong == \E b \in Block : \E t \in Tuples(pages[b]) :
                      copied(t) /\ pg_tde_freeze_tuple(t, v).flag = "error"
       IN  /\ vacuum_get_cutoffs(v)
           /\ IF wrong THEN vac' = [v EXCEPT !.pc = "error"] /\ UNCHANGED <<table, catalog>>
              ELSE /\ pages' = [b \in Block |-> [o \in Slot(b) |->
                        IF copied(pages[b][o]) THEN pg_tde_freeze_tuple(pages[b][o], v).after
                                               ELSE Free]]
                   /\ vm' = [b \in Block |-> "none"]
                   /\ relfrozenxid' = fl /\ relminmxid' = mc
                   /\ UNCHANGED vac
  /\ vacuums' = vacuums - 1
  /\ UNCHANGED <<world, load, touches>>

----------------------------------------------------------------------------
FreezeNext ==
  \/ \E x \in Xid : End(x)
  \/ \E x \in Xid, b \in Block : \E o \in Slot(b) :
       pg_tde_insert(x, b, o) \/ Update(x, b, o) \/ pg_tde_lock_tuple(x, b, o)
  \/ pg_tde_vacuum_rel \/ ScanBlock \/ lazy_scan_noprune
  \/ Prune \/ Prepare \/ DecideFreezing
  \/ \E b \in Block : lazy_vacuum_pg_tde_page(b)
  \/ UpdatePgClass \/ RewriteTable

FreezeSpec == FreezeInit /\ [][FreezeNext]_freezeVars

----------------------------------------------------------------------------
(* Properties *)

(* No header holds a transaction older than relfrozenxid or a multixact older *)
(* than relminmxid, whose status may have been discarded: not on a page that  *)
(* vacuum skipped, put off or scanned before the last change to it, and not   *)
(* as a member of a multixact it left alone.                                 *)
RelfrozenxidTrue ==
  \A b \in Block : \A t \in Tuples(pages[b]) :
    /\ \A x \in Xids(t) : x >= relfrozenxid
    /\ t.xmax.multi # 0 => t.xmax.multi >= relminmxid

(* What a header says to those who read it. *)
Meaning(t) ==
  [inserter |-> IF t.xmin = Frozen THEN "committed" ELSE xact[t.xmin],
   held |-> {m \in Members(t.xmax) : Running(m.xid)},
   updated |-> {u \in Updaters(Members(t.xmax)) : DidCommit(u)}]

(* Freezing a row, with plans made while transactions end, leaves it what it  *)
(* was: locks that are held stay held, an update that is under way or         *)
(* committed still counts, an insertion is made older only when everyone sees *)
(* it, and a row that goes was dead to all.                                  *)
FreezeKeepsRows ==
  [][touches' = touches /\ xact' = xact =>
       \A b \in Block : \A o \in {p \in Slot(b) : IsTuple(pages[b][p])} :
         LET t == pages[b][o]
         IN  IF IsTuple(pages'[b][o])
             THEN /\ Meaning(pages[b][o])' = Meaning(t)
                  /\ pages'[b][o].xmin = t.xmin \/ t.xmin < OldestRunning
             ELSE HTSV(t, OldestRunning) = "DEAD"]_freezeVars

(* "Aggressive VACUUMs must always be able to advance relfrozenxid to a value *)
(* >= FreezeLimit", and no vacuum or rewrite reports as corruption what       *)
(* transactions did to the table while it ran.                               *)
VacuumAdvances ==
  /\ vac.pc # "error"
  /\ vac.aggressive /\ Scanned =>
       /\ ~vac.skippedallvis
       /\ vac.NewRelfrozenXid >= vac.FreezeLimit
       /\ vac.NewRelminMxid >= vac.MultiXactCutoff
=============================================================================
