------------------------------ MODULE Rewrite ------------------------------
(***************************************************************************)
(* CLUSTER and VACUUM FULL: every tuple of the old heap that some snapshot  *)
(* may still need is copied to a new heap                                   *)
(* (pg_tdeam_relation_copy_for_cluster in                                   *)
(* src/access/pg_tdeam_handler.c, src/access/pg_tde_rewrite.c).             *)
(*                                                                          *)
(* Three things happen to it.  Update chains are relinked: t_ctid of a copy *)
(* must lead to the copy of the next version, in whatever order the         *)
(* versions arrive, so a tuple waits in rs_unresolved_tups until its        *)
(* successor has a place, or the successor's place waits in                 *)
(* rs_old_new_tid_map.  The new pages bypass the shared buffers, and no     *)
(* checkpoint syncs them.  And for logical decoding the moves are written   *)
(* to one mapping file per transaction, which checkpoints sync or remove    *)
(* and the log repeats.                                                     *)
(*                                                                          *)
(* The history phase makes the old heap: what transactions and vacuums can  *)
(* have left behind.  The rewrite then runs under an exclusive lock of the  *)
(* table, checkpoints run beside it, and after its commit the server may    *)
(* crash, also while it recovers, or a standby may take over.               *)
(***************************************************************************)
EXTENDS Integers, Sequences, FiniteSets, SequencesExt

CONSTANTS
  MaxXid,     \* transactions, all running at first; a smaller xid is an older one
  MaxTid,     \* places of the old heap
  Loaded,     \* sets of places that may hold rows at the start
  PageCap,    \* tuples a new page takes up to its fillfactor
  FlushAt,    \* mappings held in memory (1000 in the code)
  MaxOps,     \* bound: inserts, updates, deletes and vacuums of the history
  MaxFaultOps,\* bound: the same, when a row changes its partition, there are slots,
              \* checkpoints and crashes
  MaxCkpt,    \* bound: checkpoints
  MaxCrash    \* bound: crashes

ASSUME RewriteAssumption ==
  /\ {MaxXid, MaxTid, PageCap, FlushAt} \subseteq Nat \ {0}
  /\ {MaxOps, MaxFaultOps, MaxCkpt, MaxCrash} \subseteq Nat
  /\ \A L \in Loaded : L \subseteq 1..MaxTid

Xid == 1..MaxXid
Tid == 1..MaxTid
None == 0           \* InvalidTransactionId as an xmax, FrozenTransactionId as an xmin
Self == <<>>        \* an invalid t_ctid, which raw_pg_tde_insert replaces

VARIABLES
  heap,       \* old heap: per place a tuple, or Vacant
  xstat,      \* state of each transaction
  commits,    \* the committed transactions, in the order they committed
  ops,
  phase, step,\* where copy_for_cluster is, and where the tuple in hand is
  own,        \* the transaction that rewrites
  oldest,     \* OldestXmin of the last vacuum, then of the rewrite, and its freeze cutoff
  sort,       \* use_sort
  todo,       \* places the scan has not come to
  tuplesort,  \* places whose tuples are in the sort
  unresolved, \* rs_unresolved_tups: key -> place and copy
  tidMap,     \* rs_old_new_tid_map: key -> place in the new heap
  cur,        \* the copy in hand, and the place of its original
  page,       \* rs_buffer: the page under construction
  blocks,     \* the new heap's file, as the operating system has it
  synced,     \* number of its blocks that are on disk
  logicalXmin,\* rs_logical_xmin; None when there is no logical slot
  slot,       \* some slot still has to decode what is older than the rewrite
  pending,    \* per transaction: mappings in memory
  file,       \* per transaction: its mapping file
  off,        \* per transaction: RewriteMappingFile.off
  writing,    \* mappings written to a file and not logged yet
  wal,
  redo,       \* records before the last checkpoint's redo pointer
  ckpt,       \* the checkpoint that is running
  nckpt, ncrash,
  replayed    \* position of recovery in the log

history == <<heap, xstat, commits, ops>>
params == <<own, oldest, sort, logicalXmin>>
chains == <<unresolved, tidMap>>
newheap == <<page, blocks, synced>>
mapping == <<pending, file, off, writing>>
faults == <<slot, redo, ckpt, nckpt, ncrash, replayed>>
vars == <<history, phase, step, params, todo, tuplesort, chains, cur, newheap,
          mapping, wal, faults>>

Vacant == [xmin |-> None, xmax |-> None, ctid |-> None, upd |-> FALSE]
NoFile == [data |-> <<>>, safe |-> 0, inDir |-> FALSE, linked |-> FALSE]
NoWrite == [xid |-> None, offset |-> 0, maps |-> <<>>]
NoCkpt == [redo |-> 0, left |-> {}, remove |-> FALSE, on |-> FALSE]
NoCur == [old |-> None, tup |-> None, self |-> Self, log |-> <<>>]

NotFound == -1
Empty == [k \in {} |-> None]
Without(f, k) == Restrict(f, DOMAIN f \ {k})
With(f, k, v) == [i \in DOMAIN f \cup {k} |-> IF i = k THEN v ELSE f[i]]

Init ==
  /\ \E L \in Loaded :
       heap = [t \in Tid |-> IF t \in L
                             THEN [xmin |-> None, xmax |-> None, ctid |-> t,
                                   upd |-> FALSE]
                             ELSE Vacant]
  /\ xstat = [x \in Xid |-> "running"] /\ commits = <<>> /\ ops = 0
  /\ phase = "history" /\ step = "idle"
  /\ own = None /\ oldest = 1 /\ sort = FALSE
  /\ todo = {} /\ tuplesort = {} /\ unresolved = Empty /\ tidMap = Empty
  /\ cur = NoCur /\ page = <<>> /\ blocks = <<>> /\ synced = 0
  /\ logicalXmin = None /\ slot = FALSE
  /\ pending = [x \in Xid |-> <<>>] /\ file = [x \in Xid |-> NoFile]
  /\ off = [x \in Xid |-> NotFound] /\ writing = NoWrite
  /\ wal = <<>> /\ redo = 0 /\ ckpt = NoCkpt /\ nckpt = 0 /\ ncrash = 0
  /\ replayed = 0

----------------------------------------------------------------------------
(* What a tuple header says, once HeapTupleSatisfiesVacuum has set the hint *)
(* bits of transactions that are over.                                      *)

Is(t) == heap[t] # Vacant
In(states) == {x \in Xid : xstat[x] \in states}
XmaxInvalid(tup) == tup.xmax \notin In({"running", "committed"})
Committed(x) == x \notin In({"running", "aborted"})

(* HEAPTUPLE_DEAD: nobody has seen the tuple, or everybody saw it go. *)
IsDead(tup, OldestXmin) ==
  \/ tup.xmin \in In({"aborted"})
  \/ ~XmaxInvalid(tup) /\ Committed(tup.xmax) /\ tup.xmax < OldestXmin

(* Transactions that are over, so that OldestXmin may be h. *)
Horizon(h) == \A x \in Xid : x < h => xstat[x] # "running"

----------------------------------------------------------------------------
(* The history of the old heap. *)

Op == /\ phase = "history" /\ ops < MaxOps /\ ops' = ops + 1
      /\ UNCHANGED <<phase, step, params, todo, tuplesort, chains, cur,
                     newheap, mapping, wal, faults>>

(* The last version, as x finds it once it has the tuple's lock. *)
Updatable(x, t) ==
  /\ xstat[x] = "running" /\ Is(t)
  /\ Committed(heap[t].xmin) \/ heap[t].xmin = x
  /\ XmaxInvalid(heap[t])

(* Which free place is taken makes no difference to a scan in any order. *)
FirstFree(t) == ~Is(t) /\ \A u \in Tid : u < t => Is(u)

Insert(x, t) ==
  /\ Op /\ xstat[x] = "running" /\ FirstFree(t)
  /\ heap' = [heap EXCEPT ![t] = [xmin |-> x, xmax |-> None, ctid |-> t, upd |-> FALSE]]
  /\ UNCHANGED <<xstat, commits>>

Update(x, t, u) ==
  /\ Op /\ Updatable(x, t) /\ FirstFree(u)
  /\ heap' = [heap EXCEPT
       ![t] = [@ EXCEPT !.xmax = x, !.ctid = u],
       ![u] = [xmin |-> x, xmax |-> None, ctid |-> u, upd |-> TRUE]]
  /\ UNCHANGED <<xstat, commits>>

(* moved: the row went to another partition, and t_ctid is the marker of that. *)
Delete(x, t, moved) ==
  /\ Op /\ Updatable(x, t) /\ (moved => ops < MaxFaultOps)
  /\ heap' = [heap EXCEPT ![t] = [@ EXCEPT !.xmax = x, !.ctid = IF moved THEN None ELSE t]]
  /\ UNCHANGED <<xstat, commits>>

(* Vacuum removes one dead tuple; its place may be used again. *)
Vacuum(t, h) ==
  /\ phase = "history" /\ ops < MaxOps /\ ops' = ops + 1
  /\ h >= oldest /\ Horizon(h) /\ oldest' = h
  /\ Is(t) /\ IsDead(heap[t], h)
  /\ heap' = [heap EXCEPT ![t] = Vacant]
  /\ UNCHANGED <<xstat, commits, phase, step, own, sort, logicalXmin, todo,
                 tuplesort, chains, cur, newheap, mapping, wal, faults>>

(* A transaction that does nothing to the table may as well end before the rest. *)
Finish(x, how) ==
  /\ phase = "history" /\ xstat[x] = "running"
  /\ \/ \E t \in Tid : x \in {heap[t].xmin, heap[t].xmax}
     \/ ops = 0 /\ how = "committed"
  /\ xstat' = [xstat EXCEPT ![x] = how]
  /\ commits' = IF how = "committed" THEN Append(commits, x) ELSE commits
  /\ UNCHANGED <<heap, ops, phase, step, params, todo, tuplesort, chains, cur,
                 newheap, mapping, wal, faults>>

----------------------------------------------------------------------------
(* The rewrite.  Its lock on the table has waited for every transaction      *)
(* that wrote to it.  A table whose changes are decoded is a catalog, and   *)
(* the slots hold OldestXmin back.                                          *)

begin_pg_tde_rewrite(x, OldestXmin, lx, use_sort) ==
  /\ phase = "history" /\ phase' = "scan"
  /\ xstat[x] = "running"
  /\ \A t \in Tid : Is(t) => \A y \in {heap[t].xmin, heap[t].xmax} \ {None, x} :
                               xstat[y] # "running"
  /\ OldestXmin >= oldest /\ Horizon(OldestXmin)
  /\ lx # None => lx >= OldestXmin /\ ops <= MaxFaultOps
  /\ own' = x /\ oldest' = OldestXmin /\ sort' = use_sort
  /\ logicalXmin' = lx /\ slot' = (lx # None)
  /\ todo' = {t \in Tid : Is(t)}
  /\ UNCHANGED <<history, step, tuplesort, chains, cur, newheap, mapping, wal,
                 redo, ckpt, nckpt, ncrash, replayed>>

(* pg_tde_freeze_tuple: what is older than the cutoff needs no xid any more.  *)
(* CLUSTER asks for a freeze age of zero, so that the cutoff is OldestXmin.  *)
Frozen(tup) ==
  [tup EXCEPT !.xmin = IF @ < oldest THEN None ELSE @,
              !.xmax = IF @ < oldest THEN None ELSE @]

(* The key of both tables: the place of the next version and the xid that    *)
(* made it, since the place alone may have been used again.                 *)
TidHashKey(xid, tid) == <<xid, tid>>

(* The copy in hand is to be inserted. *)
Hold(t, tup) ==
  /\ cur' = [old |-> t, tup |-> tup, self |-> Self, log |-> <<>>]
  /\ step' = "insert"

(* The tuple has a next version: it was updated, and stayed in the table. *)
HasNext(tup, t) == ~XmaxInvalid(tup) /\ tup.ctid \notin {None, t}

rewrite_pg_tde_tuple(t) ==
  LET old == heap[t]
      new == Frozen([xmin |-> old.xmin, xmax |-> old.xmax, ctid |-> Self,
                     upd |-> old.upd, row |-> t])
      key == TidHashKey(old.xmax, old.ctid)
  IN  \/ /\ ~HasNext(old, t)
         /\ Hold(t, new)
         /\ UNCHANGED chains
      \/ /\ HasNext(old, t) /\ key \in DOMAIN tidMap
         /\ Hold(t, [new EXCEPT !.ctid = tidMap[key]])
         /\ tidMap' = Without(tidMap, key)
         /\ UNCHANGED unresolved
      \/ /\ HasNext(old, t) /\ key \notin DOMAIN tidMap
         /\ unresolved' = With(unresolved, key, [old |-> t, tup |-> new])
         /\ UNCHANGED <<tidMap, cur, step>>

(* The version before a dead one is dead as well, if it has been seen. *)
rewrite_pg_tde_dead_tuple(t) ==
  /\ unresolved' = Without(unresolved, TidHashKey(heap[t].xmin, t))
  /\ UNCHANGED <<tidMap, cur, step>>

(* The scan of the old heap: in the order of an index, which may be any, or  *)
(* in that of its places.                                                   *)
ScanTuple(t) ==
  /\ phase = "scan" /\ step = "idle" /\ t \in todo
  /\ sort => \A u \in todo : t <= u
  /\ todo' = todo \ {t}
  /\ \/ /\ IsDead(heap[t], oldest)
        /\ rewrite_pg_tde_dead_tuple(t)
        /\ UNCHANGED tuplesort
     \/ /\ ~IsDead(heap[t], oldest) /\ sort
        /\ tuplesort' = tuplesort \cup {t}
        /\ UNCHANGED <<chains, cur, step>>
     \/ /\ ~IsDead(heap[t], oldest) /\ ~sort
        /\ rewrite_pg_tde_tuple(t)
        /\ UNCHANGED tuplesort
  /\ UNCHANGED <<history, phase, params, newheap, mapping, wal, faults>>

EndScan ==
  /\ phase = "scan" /\ step = "idle" /\ todo = {}
  /\ phase' = IF sort THEN "sorted" ELSE "end"
  /\ UNCHANGED <<history, step, params, todo, tuplesort, chains, cur, newheap,
                 mapping, wal, faults>>

(* Tuples come out of the sort in the order of the index. *)
WriteSorted ==
  /\ phase = "sorted" /\ step = "idle"
  /\ \/ \E t \in tuplesort : /\ tuplesort' = tuplesort \ {t}
                              /\ rewrite_pg_tde_tuple(t)
                              /\ UNCHANGED phase
     \/ tuplesort = {} /\ phase' = "end" /\ UNCHANGED <<tuplesort, chains, cur, step>>
  /\ UNCHANGED <<history, params, todo, newheap, mapping, wal, faults>>

----------------------------------------------------------------------------
(* raw_pg_tde_insert *)

Rest == <<history, params, todo, tuplesort, faults>>

PageFull == Len(page) + 1 > PageCap

(* The page goes to the log first, then to the file, at the file's end. *)
log_newpage ==
  /\ \/ step = "insert" /\ PageFull
     \/ phase = "end" /\ step = "idle" /\ unresolved = Empty /\ page # <<>>
  /\ wal' = Append(wal, [kind |-> "page", blk |-> Len(blocks), data |-> page])
  /\ step' = "extend"
  /\ UNCHANGED <<Rest, phase, chains, cur, newheap, mapping>>

smgrextend ==
  /\ step = "extend"
  /\ blocks' = Append(blocks, page) /\ page' = <<>>
  /\ step' = IF cur.old = None THEN "idle" ELSE "insert"
  /\ UNCHANGED <<Rest, phase, chains, cur, synced, mapping, wal>>

(* The transactions whose mapping files get the move of the copy. *)
ToLog(tup) ==
  LET Recent(x) == x # None /\ x >= logicalXmin
      xmin == IF Recent(tup.xmin) THEN <<tup.xmin>> ELSE <<>>
      xmax == IF Recent(tup.xmax) /\ tup.xmax # tup.xmin THEN <<tup.xmax>> ELSE <<>>
  IN  IF logicalXmin = None \/ phase = "end" THEN <<>> ELSE xmin \o xmax

(* The copy is stored, and an invalid t_ctid made to point to itself. *)
TDE_PageAddItem ==
  LET tid == <<Len(blocks), Len(page) + 1>>
  IN  /\ step = "insert" /\ ~PageFull
      /\ page' = Append(page, [cur.tup EXCEPT !.ctid = IF @ = Self THEN tid ELSE @])
      /\ cur' = IF phase = "end" THEN NoCur
                ELSE [cur EXCEPT !.self = tid, !.log = ToLog(cur.tup)]
      /\ step' = IF phase = "end" THEN "idle" ELSE "log"
      /\ UNCHANGED <<Rest, phase, chains, blocks, synced, mapping, wal>>

(* The copy is the next version of a tuple that is not dead yet. *)
IsNextStrictly(tup) == tup.upd /\ tup.xmin > oldest
IsNext(tup) == tup.upd /\ tup.xmin >= oldest

(* The copy has its place: the version before it, if it waits, can go next. *)
Resolve ==
  LET key == TidHashKey(cur.tup.xmin, cur.old)
  IN  /\ step = "log" /\ cur.log = <<>>
      /\ \/ /\ IsNext(cur.tup) /\ key \in DOMAIN unresolved
            /\ Hold(unresolved[key].old, [unresolved[key].tup EXCEPT !.ctid = cur.self])
            /\ unresolved' = Without(unresolved, key)
            /\ UNCHANGED tidMap
         \/ /\ IsNext(cur.tup) /\ key \notin DOMAIN unresolved
            /\ tidMap' = With(tidMap, key, cur.self)
            /\ cur' = NoCur /\ step' = "idle"
            /\ UNCHANGED unresolved
         \/ /\ ~IsNext(cur.tup)
            /\ cur' = NoCur /\ step' = "idle"
            /\ UNCHANGED chains
      /\ UNCHANGED <<Rest, phase, newheap, mapping, wal>>

----------------------------------------------------------------------------
(* The mappings for logical decoding. *)

InMemory == FoldFunction(LAMBDA s, n : Len(s) + n, 0, pending)

(* One mapping for the file of one transaction, made when it is not there. *)
logical_rewrite_log_mapping ==
  LET x == Head(cur.log)
  IN  /\ step = "log" /\ cur.log # <<>>
      /\ pending' = [pending EXCEPT ![x] = Append(@, <<cur.old, cur.self>>)]
      /\ file' = IF off[x] = NotFound THEN [file EXCEPT ![x].linked = TRUE] ELSE file
      /\ off' = IF off[x] = NotFound THEN [off EXCEPT ![x] = 0] ELSE off
      /\ cur' = [cur EXCEPT !.log = Tail(@)]
      /\ step' = IF InMemory + 1 >= FlushAt THEN "flush" ELSE "log"
      /\ UNCHANGED <<Rest, phase, chains, newheap, writing, wal>>

(* A file cut or stretched to offset, then maps. *)
Put(data, offset, maps) ==
  [i \in 1..offset |-> IF i <= Len(data) THEN data[i] ELSE <<>>] \o maps

FileWriteLateOffset(x) ==
  /\ step = "flush" /\ pending[x] # <<>>
  /\ writing' = [xid |-> x, offset |-> off[x] + Len(pending[x]), maps |-> pending[x]]
  /\ file' = [file EXCEPT ![x].data = Put(@, off[x], pending[x])]
  /\ off' = [off EXCEPT ![x] = @ + Len(pending[x])]
  /\ pending' = [pending EXCEPT ![x] = <<>>]
  /\ step' = "xlog"
  /\ UNCHANGED <<Rest, phase, chains, cur, newheap, wal>>

(* logical_pg_tde_rewrite_flush_mappings: the file is written, then the log. *)
FileWrite(x) ==
  /\ step = "flush" /\ pending[x] # <<>>
  /\ writing' = [xid |-> x, offset |-> off[x], maps |-> pending[x]]
  /\ file' = [file EXCEPT ![x].data = Put(@, off[x], pending[x])]
  /\ off' = [off EXCEPT ![x] = @ + Len(pending[x])]
  /\ pending' = [pending EXCEPT ![x] = <<>>]
  /\ step' = "xlog"
  /\ UNCHANGED <<Rest, phase, chains, cur, newheap, wal>>

XLogInsertMapping ==
  /\ step = "xlog"
  /\ wal' = Append(wal, [kind |-> "map"] @@ writing)
  /\ writing' = NoWrite
  /\ step' = "flush"
  /\ UNCHANGED <<Rest, phase, chains, cur, newheap, pending, file, off>>

Flushed ==
  /\ step = "flush" /\ InMemory = 0
  /\ step' = IF phase = "end" THEN "fsync" ELSE "log"
  /\ UNCHANGED <<Rest, phase, chains, cur, newheap, mapping, wal>>

----------------------------------------------------------------------------
(* end_pg_tde_rewrite *)

(* What is left in rs_unresolved_tups is written as if it had no successor. *)
WriteUnresolved(k) ==
  /\ phase = "end" /\ step = "idle" /\ k \in DOMAIN unresolved
  /\ Hold(unresolved[k].old, unresolved[k].tup)
  /\ unresolved' = Without(unresolved, k)
  /\ UNCHANGED <<Rest, phase, tidMap, newheap, mapping, wal>>

smgrimmedsyncSkipped ==
  /\ phase = "end" /\ step = "idle" /\ unresolved = Empty /\ page = <<>>
  /\ \/ logicalXmin = None /\ phase' = "done" /\ UNCHANGED step
     \/ logicalXmin # None /\ step' = "flush" /\ UNCHANGED phase
  /\ UNCHANGED <<Rest, chains, cur, newheap, mapping, wal>>

(* The pages did not go through shared buffers, so no checkpoint syncs them. *)
smgrimmedsync ==
  /\ phase = "end" /\ step = "idle" /\ unresolved = Empty /\ page = <<>>
  /\ synced' = Len(blocks)
  /\ \/ logicalXmin = None /\ phase' = "done" /\ UNCHANGED step
     \/ logicalXmin # None /\ step' = "flush" /\ UNCHANGED phase
  /\ UNCHANGED <<Rest, chains, cur, page, blocks, mapping, wal>>

FileSync ==
  /\ step = "fsync" /\ step' = "idle" /\ phase' = "done"
  /\ file' = [x \in Xid |-> [file[x] EXCEPT !.safe = Len(file[x].data)]]
  /\ UNCHANGED <<Rest, chains, cur, newheap, pending, off, writing, wal>>

Commit ==
  /\ phase = "done" /\ phase' = "committed"
  /\ wal' = Append(wal, [kind |-> "commit"])
  /\ xstat' = [xstat EXCEPT ![own] = "committed"]
  /\ commits' = Append(commits, own)
  /\ UNCHANGED <<heap, ops, step, params, todo, tuplesort, chains, cur, newheap,
                 mapping, faults>>

----------------------------------------------------------------------------
(* Beside the rewrite: CheckPointLogicalRewriteHeap. *)

Rewriting == phase \notin {"history", "recover", "recovered"}

Ckpt == UNCHANGED <<history, phase, step, params, todo, tuplesort, chains, cur,
                    newheap, pending, off, writing, wal, ncrash, replayed>>

Linked == {x \in Xid : file[x].linked}

(* The redo pointer, then whether a slot needs files as old as the rewrite's: *)
(* it may have been dropped, or have decoded the commit of the rewrite.      *)
CheckpointStart ==
  /\ Ckpt /\ Rewriting /\ ops <= MaxFaultOps /\ ~ckpt.on /\ nckpt < MaxCkpt
  /\ nckpt' = nckpt + 1
  /\ slot' \in {slot, FALSE}
  /\ ckpt' = [redo |-> Len(wal), left |-> Linked, remove |-> ~slot', on |-> TRUE]
  /\ UNCHANGED <<file, redo>>

CheckpointFile(x) ==
  /\ Ckpt /\ Rewriting /\ ckpt.on /\ x \in ckpt.left
  /\ ckpt' = [ckpt EXCEPT !.left = @ \ {x}]
  /\ file' = [file EXCEPT ![x] =
       IF ckpt.remove THEN [@ EXCEPT !.linked = FALSE]
                      ELSE [@ EXCEPT !.safe = Len(file[x].data)]]
  /\ UNCHANGED <<redo, nckpt, slot>>

(* The directory is synced, and the checkpoint takes effect. *)
CheckpointEnd ==
  /\ Ckpt /\ Rewriting /\ ckpt.on /\ ckpt.left = {}
  /\ file' = [x \in Xid |-> [file[x] EXCEPT !.inDir = @ \/ file[x].linked]]
  /\ redo' = ckpt.redo /\ ckpt' = NoCkpt
  /\ UNCHANGED <<nckpt, slot>>

----------------------------------------------------------------------------
(* Crash and recovery.  A crash before the commit is not of interest: the   *)
(* new heap and the mapping files of the transaction are never read.        *)

Down == UNCHANGED <<history, step, params, todo, tuplesort, chains, cur, page,
                    pending, off, writing, wal, slot, nckpt>>

(* The operating system may or may not have written what was not synced. *)
Crash(lucky) ==
  /\ Down /\ phase \in {"committed", "recover"} /\ ncrash < MaxCrash
  /\ ops <= MaxFaultOps
  /\ ncrash' = ncrash + 1 /\ phase' = "recover" /\ replayed' = redo
  /\ ckpt' = NoCkpt /\ UNCHANGED <<redo, synced>>
  /\ blocks' = IF lucky THEN blocks ELSE SubSeq(blocks, 1, synced)
  /\ file' = [x \in Xid |->
       IF ~file[x].linked \/ ~(file[x].inDir \/ lucky) THEN NoFile
       ELSE IF lucky THEN file[x]
       ELSE [file[x] EXCEPT !.data = SubSeq(@, 1, file[x].safe)]]

(* A standby has nothing but the log. *)
Failover ==
  /\ Down /\ phase = "committed" /\ ncrash < MaxCrash /\ ops <= MaxFaultOps
  /\ ncrash' = ncrash + 1 /\ phase' = "recover"
  /\ redo' = 0 /\ replayed' = 0 /\ ckpt' = NoCkpt
  /\ blocks' = <<>> /\ synced' = 0 /\ file' = [x \in Xid |-> NoFile]

(* pg_tde_xlog_logical_rewrite, and the full page images of the new heap. *)
Replay ==
  LET rec == wal[replayed + 1]
  IN  /\ Down /\ phase = "recover" /\ replayed < Len(wal)
      /\ replayed' = replayed + 1
      /\ blocks' = IF rec.kind # "page" THEN blocks
                   ELSE [i \in 1..(IF rec.blk < Len(blocks) THEN Len(blocks)
                                                           ELSE rec.blk + 1) |->
                           IF i = rec.blk + 1 THEN rec.data
                           ELSE IF i <= Len(blocks) THEN blocks[i] ELSE <<>>]
      /\ file' = IF rec.kind # "map" THEN file
                 ELSE [file EXCEPT ![rec.xid] =
                        LET data == Put(file[rec.xid].data, rec.offset, rec.maps)
                        IN  [@ EXCEPT !.data = data, !.safe = Len(data), !.linked = TRUE]]
      /\ UNCHANGED <<phase, ncrash, redo, synced, ckpt>>

Recovered ==
  /\ Down /\ phase = "recover" /\ replayed = Len(wal) /\ phase' = "recovered"
  /\ UNCHANGED <<replayed, blocks, file, ncrash, redo, synced, ckpt>>

----------------------------------------------------------------------------
Next ==
  \/ \E x \in Xid, t \in Tid : Insert(x, t)
  \/ \E x \in Xid, t, u \in Tid : Update(x, t, u)
  \/ \E x \in Xid, t \in Tid, moved \in BOOLEAN : Delete(x, t, moved)
  \/ \E t \in Tid, h \in Xid : Vacuum(t, h)
  \/ \E x \in Xid, how \in {"committed", "aborted"} : Finish(x, how)
  \/ \E x, h \in Xid, lx \in {None} \cup Xid, use_sort \in BOOLEAN :
       begin_pg_tde_rewrite(x, h, lx, use_sort)
  \/ \E t \in Tid : ScanTuple(t)
  \/ EndScan \/ WriteSorted
  \/ log_newpage \/ smgrextend \/ TDE_PageAddItem \/ Resolve
  \/ logical_rewrite_log_mapping
  \/ \E x \in Xid : FileWrite(x)
  \/ XLogInsertMapping \/ Flushed
  \/ \E k \in DOMAIN unresolved : WriteUnresolved(k)
  \/ smgrimmedsync \/ FileSync \/ Commit
  \/ CheckpointStart \/ CheckpointEnd
  \/ \E x \in Xid : CheckpointFile(x)
  \/ \E lucky \in BOOLEAN : Crash(lucky)
  \/ Failover \/ Replay \/ Recovered

Spec == Init /\ [][Next]_vars

----------------------------------------------------------------------------
(* Properties *)

Finished == phase \in {"committed", "recovered"}

Places == UNION {{<<b - 1, i>> : i \in DOMAIN blocks[b]} : b \in DOMAIN blocks}
At(p) == blocks[p[1] + 1][p[2]]
Copies(t) == {p \in Places : At(p).row = t}

(* What the snapshots can see as committed that everything before h is over for. *)
Views(h) ==
  LET Of(n) == Range(SubSeq(commits, 1, n))
  IN  {Of(n) : n \in {m \in 0..Len(commits) :
                        \A x \in Range(commits) : x < h => x \in Of(m)}}

Sees(view, tup) ==
  /\ tup.xmin \in view \cup {None}
  /\ tup.xmax \notin view

(* Whatever a snapshot that can still exist sees in the old heap it finds in *)
(* the new one, once, and nothing else: in whatever order the versions       *)
(* arrived, through the freezing and the dropping of dead ones              *)
(* (rewrite_pg_tde_dead_tuple), with checkpoints beside the rewrite, and     *)
(* after a crash or on a standby.                                           *)
RowsKept ==
  Finished => \A view \in Views(oldest), t \in Tid :
    Cardinality({p \in Copies(t) : Sees(view, At(p))}) =
      IF Is(t) /\ Sees(view, heap[t]) THEN 1 ELSE 0

(* From the copy of a version that a snapshot can still find updated, t_ctid *)
(* leads to the copy of the next version, so that one more step of           *)
(* EvalPlanQual finds the row; from any other copy it leads there or to      *)
(* itself.  It never leads to another row, also when the place of the next   *)
(* version has been used again in the old heap.                             *)
ChainsKept ==
  Finished => \A t \in Tid : \A p \in Copies(t) :
    LET u == heap[t].ctid
        next == IF HasNext(heap[t], t) /\ heap[u].xmin = heap[t].xmax
                THEN Copies(u) ELSE {}
        followed == /\ HasNext(heap[t], t)
                    /\ \E view \in Views(oldest) : heap[t].xmax \notin view
    IN  At(p).ctid \in IF followed THEN next ELSE {p} \cup next

(* As long as a slot may decode what came before the rewrite, each version   *)
(* that one of its snapshots can see has its move in the file of each recent *)
(* transaction that made or removed it, and every move in a file is true:    *)
(* after the flushes, the checkpoints, and recovery from the log.            *)
MovesRecorded ==
  Finished /\ slot =>
    /\ \A t \in Tid : \A p \in Copies(t) :
         (\E view \in Views(logicalXmin) : Sees(view, heap[t])) =>
           \A x \in {heap[t].xmin, heap[t].xmax} \ {None} :
             x >= logicalXmin => /\ file[x].linked
                                 /\ <<t, p>> \in Range(file[x].data)
    /\ \A x \in Linked : \A i \in DOMAIN file[x].data :
         LET m == file[x].data[i] IN m # <<>> /\ m[2] \in Copies(m[1])
============================================================================
