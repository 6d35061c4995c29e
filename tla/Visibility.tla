----------------------------- MODULE Visibility -----------------------------
(***************************************************************************)
(* Tuple visibility (src/access/pg_tdeam_visibility.c) for one tuple that   *)
(* several backends look at, lock and delete while transactions end, with   *)
(* the hint bits they leave behind, asynchronous commits and crashes.       *)
(*                                                                          *)
(* The HeapTupleSatisfies functions follow one course and differ in what    *)
(* they conclude: look at the inserter (hint bit, own transaction, still    *)
(* running, commit log), then at the deleter in the same way.  Every look   *)
(* at shared state is a step: transactions end between two of them.  A      *)
(* function's conclusions are a record; what it does about its own          *)
(* transaction's xmax, and about lockers, are operators.                    *)
(*                                                                          *)
(* A deletion (pg_tde_delete) and a key-share row lock (pg_tde_lock_tuple)  *)
(* run HeapTupleSatisfiesUpdate under the buffer's exclusive lock, sleep     *)
(* without it, and look again.                                              *)
(*                                                                          *)
(* xmax is a set of transactions (a MultiXactId when multi) of which at     *)
(* most one, updater, updates or deletes; the others lock.  A transaction   *)
(* of a backend and its subtransactions each have an xid.  HEAP_MOVED_IN    *)
(* and HEAP_MOVED_OFF, left by pre-9.0 servers only, are not modelled.      *)
(***************************************************************************)
EXTENDS Integers, Sequences, FiniteSets

CONSTANTS
  Backend,
  MaxXid,      \* bound: transactions and subtransactions
  MaxCid,      \* bound: commands of a transaction
  MaxWal,      \* bound: records in the log
  MaxCrashes,  \* bound: crashes
  Workloads    \* what the backends do, and bounds within the ones above

Workload ==
  [xids : 0..MaxXid, cids : 0..MaxCid, wal : 0..MaxWal, crashes : 0..MaxCrashes,
   async : BOOLEAN,    \* synchronous_commit = off is used
   observe : SUBSET {"self", "dirty", "mvcc", "vacuum"},
                       \* the checks besides HeapTupleSatisfiesUpdate
   modify : SUBSET {"delete", "lock"}]

ASSUME VisibilityAssumption ==
  /\ {MaxXid, MaxCid, MaxWal, MaxCrashes} \subseteq Nat
  /\ Workloads \subseteq Workload

Xid == 1..MaxXid
None == 0
Cid == 0..MaxCid
TM == {"TM_Ok", "TM_Invisible", "TM_SelfModified", "TM_Deleted", "TM_BeingModified"}
HTSV == {"DEAD", "LIVE", "RECENTLY_DEAD", "INSERT_IN_PROGRESS", "DELETE_IN_PROGRESS"}
Fn == {"self", "dirty", "mvcc", "update", "vacuum"}

VARIABLES
  tuple,      \* header of the tuple in the buffer, or NoTuple
  pageLSN,    \* LSN of the buffer
  disk,       \* the page on disk
  wal,        \* log: changes of the tuple and commits
  flushed,    \* how much of the log is on disk
  clog,       \* pg_xact
  running,    \* xids in the proc array
  nextXid,
  mine,       \* per backend: xids TransactionIdIsCurrentTransactionId accepts
  ended,      \* per backend: xids in pg_xact already and in the proc array still
  cid,        \* per backend: current command
  snap,       \* per backend: its MVCC snapshot
  call,       \* per backend: the visibility check under way
  deletes,    \* history: who deleted the tuple, in which command
  locks,      \* history: who was granted a row lock
  crashes,
  load        \* the workload

xactVars == <<clog, running, nextXid, mine, ended, cid, snap>>
walVars == <<wal, flushed>>
pageVars == <<tuple, pageLSN>>
hist == <<deletes, locks>>
vars == <<pageVars, disk, walVars, xactVars, call, hist, crashes, load>>

NoTuple == [xmin |-> None]
NoSnap == [xmax |-> 0, xip |-> {}, curcid |-> 0, seen |-> {}]
NoCall == [fn |-> "none", op |-> "none", at |-> "idle", verdict |-> "none", oldestXmin |-> 0,
           reports |-> {}, saved |-> NoTuple, tuplock |-> "none"]

Init ==
  /\ tuple = NoTuple /\ pageLSN = 0
  /\ disk = [tuple |-> NoTuple, lsn |-> 0]
  /\ wal = <<>> /\ flushed = 0
  /\ clog = [x \in Xid |-> "in progress"] /\ running = {} /\ nextXid = 1
  /\ mine = [b \in Backend |-> {}] /\ ended = [b \in Backend |-> {}]
  /\ cid = [b \in Backend |-> 0] /\ snap = [b \in Backend |-> NoSnap]
  /\ call = [b \in Backend |-> NoCall]
  /\ deletes = {} /\ locks = {} /\ crashes = 0 /\ load \in Workloads

Tuple == [xmin : Xid, cmin : Cid, xminHint : {"none", "committed", "invalid"},
          xmax : SUBSET Xid, multi : BOOLEAN, updater : {None} \cup Xid, cmax : Cid,
          xmaxInvalid : BOOLEAN, xmaxCommitted : BOOLEAN]

\* The tuple header, transactions, log and calls; xmax is a multixact exactly when
\* it has several members, of which one at most is an updater.
TypeOK ==
  /\ tuple # NoTuple => /\ tuple.multi = (Cardinality(tuple.xmax) > 1)
                        /\ tuple.updater \in {None} \cup tuple.xmax
  /\ tuple \in Tuple \cup {NoTuple} /\ disk.tuple \in Tuple \cup {NoTuple}
  /\ pageLSN \in 0..Len(wal) /\ disk.lsn \in 0..flushed /\ flushed \in 0..Len(wal)
  /\ clog \in [Xid -> {"in progress", "committed", "aborted"}]
  /\ running \subseteq Xid /\ nextXid \in 1..(MaxXid + 1)
  /\ mine \in [Backend -> SUBSET Xid] /\ ended \in [Backend -> SUBSET Xid]
  /\ \A b \in Backend : mine[b] \cup ended[b] \subseteq running
  /\ \A b \in Backend : call[b].fn \in Fn \cup {"none"}
       /\ call[b].verdict \in {"none", "visible", "invisible"} \cup TM \cup HTSV
  /\ crashes \in 0..load.crashes /\ load \in Workloads

-----------------------------------------------------------------------------
(* Transactions, as the server runs them.                                   *)

Idle(b) == call[b] = NoCall /\ ended[b] = {}
InTransaction(b) == mine[b] # {}
CurrentXid(b) == CHOOSE x \in mine[b] : \A y \in mine[b] : y <= x

AssignXid(b) ==
  /\ Idle(b) /\ nextXid <= load.xids
  /\ mine' = [mine EXCEPT ![b] = @ \cup {nextXid}]
  /\ running' = running \cup {nextXid}
  /\ nextXid' = nextXid + 1
  /\ UNCHANGED <<pageVars, disk, walVars, clog, ended, cid, snap, call, hist, crashes, load>>

NextCommand(b) ==
  /\ Idle(b) /\ InTransaction(b) /\ cid[b] < load.cids
  /\ cid' = [cid EXCEPT ![b] = @ + 1]
  /\ snap' = [snap EXCEPT ![b] = IF @ = NoSnap THEN @ ELSE [@ EXCEPT !.curcid = cid[b] + 1]]
  /\ UNCHANGED <<pageVars, disk, walVars, clog, running, nextXid, mine, ended, call, hist, crashes, load>>

TakeSnapshot(b) ==
  /\ Idle(b)
  /\ snap' = [snap EXCEPT ![b] =
       [xmax |-> nextXid, xip |-> running, curcid |-> cid[b],
        seen |-> {x \in Xid : clog[x] = "committed" /\ x \notin running}]]
  /\ UNCHANGED <<pageVars, disk, walVars, clog, running, nextXid, mine, ended, cid, call,
                 hist, crashes, load>>

AbortSubXact(b) ==
  LET x == CurrentXid(b) IN
  /\ clog' = [clog EXCEPT ![x] = "aborted"]
  /\ mine' = [mine EXCEPT ![b] = @ \ {x}]
  /\ running' = running \ {x}
  /\ UNCHANGED <<walVars, nextXid, ended, cid, snap>>

AbortSub(b) ==
  /\ Idle(b) /\ Cardinality(mine[b]) > 1
  /\ AbortSubXact(b)
  /\ UNCHANGED <<pageVars, disk, call, hist, crashes, load>>

\* The end of a transaction is recorded in pg_xact before the xids leave the
\* proc array.  A commit record is flushed first unless the commit is
\* asynchronous.
EndXact(b, isCommit) ==
  /\ clog' = [x \in Xid |-> IF x \in mine[b]
                THEN IF isCommit THEN "committed" ELSE "aborted" ELSE clog[x]]
  /\ IF isCommit
       THEN /\ Len(wal) < load.wal
            /\ wal' = Append(wal, [type |-> "commit", xids |-> mine[b]])
            /\ \/ flushed' = Len(wal')
               \/ load.async /\ UNCHANGED flushed
       ELSE UNCHANGED walVars
  /\ ended' = [ended EXCEPT ![b] = mine[b]]
  /\ mine' = [mine EXCEPT ![b] = {}]
  /\ UNCHANGED <<running, nextXid, cid, snap>>

EndInClog(b, isCommit) ==
  /\ Idle(b) /\ InTransaction(b)
  /\ EndXact(b, isCommit)
  /\ UNCHANGED <<pageVars, disk, call, hist, crashes, load>>

EndInProcArray(b) ==
  /\ ended[b] # {}
  /\ running' = running \ ended[b]
  /\ ended' = [ended EXCEPT ![b] = {}]
  /\ cid' = [cid EXCEPT ![b] = 0]
  /\ snap' = [snap EXCEPT ![b] = NoSnap]
  /\ UNCHANGED <<pageVars, disk, walVars, clog, nextXid, mine, call, hist, crashes, load>>

-----------------------------------------------------------------------------
(* Shared state, as the visibility functions look at it.                     *)

TransactionIdIsInProgress(x) == x \in running
TransactionIdDidCommit(x) == clog[x] = "committed"
MultiXactIdIsRunning == \E x \in tuple.xmax : TransactionIdIsInProgress(x)
XidInMVCCSnapshot(x, s) == x >= s.xmax \/ x \in s.xip

LockOnly == tuple.updater = None
Current(b, x) == x \in mine[b]

InProgressInProcArray(b, x) == TransactionIdIsInProgress(x)

\* The snapshot functions ask their snapshot, the others the proc array.
InProgressFor(b, x) ==
  IF call[b].fn = "mvcc" THEN XidInMVCCSnapshot(x, snap[b])
  ELSE TransactionIdIsInProgress(x)

CommitLSN(x) ==
  LET at == {i \in DOMAIN wal : wal[i].type = "commit" /\ x \in wal[i].xids} IN
  IF at = {} THEN 0 ELSE CHOOSE i \in at : TRUE

\* SetHintBits with a valid xid: the commit may not be on disk yet, and then
\* only the page's LSN can keep the page off the disk until it is.
HintAlways(x) == TRUE
MayHintCommitted(x) == CommitLSN(x) <= flushed \/ pageLSN >= CommitLSN(x)

HintXmin(x) ==
  tuple' = IF MayHintCommitted(x) THEN [tuple EXCEPT !.xminHint = "committed"] ELSE tuple
HintXmaxCommitted(x) ==
  tuple' = IF MayHintCommitted(x) THEN [tuple EXCEPT !.xmaxCommitted = TRUE] ELSE tuple
HintXmaxInvalid == tuple' = [tuple EXCEPT !.xmaxInvalid = TRUE]

-----------------------------------------------------------------------------
(* What each function concludes from: the inserter aborted; it is running;   *)
(* the tuple is live; its deleter is running; its deleter committed.         *)

HeapTupleSatisfiesSelf ==
  [aborted |-> "invisible", inserting |-> "invisible", live |-> "visible",
   deleting |-> "visible", deleted |-> "invisible"]

HeapTupleSatisfiesDirty ==
  [aborted |-> "invisible", inserting |-> "visible", live |-> "visible",
   deleting |-> "visible", deleted |-> "invisible"]

HeapTupleSatisfiesMVCC ==
  [aborted |-> "invisible", inserting |-> "invisible", live |-> "visible",
   deleting |-> "visible", deleted |-> "invisible"]

HeapTupleSatisfiesUpdate ==
  [aborted |-> "TM_Invisible", inserting |-> "TM_Invisible", live |-> "TM_Ok",
   deleting |-> "TM_BeingModified", deleted |-> "TM_Deleted"]

HeapTupleSatisfiesVacuumHorizon ==
  [aborted |-> "DEAD", inserting |-> "INSERT_IN_PROGRESS", live |-> "LIVE",
   deleting |-> "DELETE_IN_PROGRESS", deleted |-> "RECENTLY_DEAD"]

Conclusions(fn) ==
  CASE fn = "self" -> HeapTupleSatisfiesSelf
    [] fn = "dirty" -> HeapTupleSatisfiesDirty
    [] fn = "mvcc" -> HeapTupleSatisfiesMVCC
    [] fn = "update" -> HeapTupleSatisfiesUpdate
    [] fn = "vacuum" -> HeapTupleSatisfiesVacuumHorizon

HorizonInclusive(b, verdict) ==
  IF verdict = "RECENTLY_DEAD" /\ tuple.updater <= call[b].oldestXmin THEN "DEAD" ELSE verdict

\* HeapTupleSatisfiesVacuum: dead once the deleter precedes the horizon.
Horizon(b, verdict) ==
  IF verdict = "RECENTLY_DEAD" /\ tuple.updater < call[b].oldestXmin THEN "DEAD" ELSE verdict

Finish(b, verdict) == call' = [call EXCEPT ![b].at = "done", ![b].verdict = verdict]

ReportsInserterOnly(b, outcome) ==
  IF call[b].fn = "dirty" /\ outcome = "inserting" THEN {tuple.xmin} ELSE {}

\* HeapTupleSatisfiesDirty also names the transaction its answer hangs on.
Reports(b, outcome) ==
  IF call[b].fn # "dirty" THEN {}
  ELSE IF outcome = "inserting" THEN {tuple.xmin}
  ELSE IF outcome = "deleting" THEN {tuple.updater} ELSE {}
Conclude(b, outcome) ==
  call' = [call EXCEPT ![b].at = "done", ![b].reports = Reports(b, outcome),
                       ![b].verdict = Horizon(b, Conclusions(call[b].fn)[outcome])]
Goto(b, step) == call' = [call EXCEPT ![b].at = step]

\* The command a function compares cmin and cmax with.
curcid(b) == IF call[b].fn = "mvcc" THEN snap[b].curcid ELSE cid[b]
ComparesCids(b) == call[b].fn \in {"mvcc", "update"}

DeletedByMeEarlier(b) ==
  IF ~ComparesCids(b)
    THEN Conclude(b, IF call[b].fn = "vacuum" THEN "deleting" ELSE "deleted")
  ELSE IF tuple.cmax > curcid(b) \/ (call[b].fn = "mvcc" /\ tuple.cmax = curcid(b))
    THEN Finish(b, IF call[b].fn = "update" THEN "TM_SelfModified" ELSE "visible")
  ELSE Finish(b, IF call[b].fn = "update" THEN "TM_Invisible" ELSE "invisible")

\* A deletion of one's own goes unnoticed.
DeletedByMeUnnoticed(b) ==
  IF ~ComparesCids(b)
    THEN Conclude(b, IF call[b].fn = "vacuum" THEN "deleting" ELSE "deleted")
  ELSE IF tuple.cmax >= curcid(b)
    THEN Finish(b, IF call[b].fn = "update" THEN "TM_Ok" ELSE "visible")
  ELSE Finish(b, IF call[b].fn = "update" THEN "TM_Invisible" ELSE "invisible")

\* The tuple was deleted by the backend's own transaction.
DeletedByMe(b) ==
  IF ~ComparesCids(b)
    THEN Conclude(b, IF call[b].fn = "vacuum" THEN "deleting" ELSE "deleted")
  ELSE IF tuple.cmax >= curcid(b)
    THEN Finish(b, IF call[b].fn = "update" THEN "TM_SelfModified" ELSE "visible")
  ELSE Finish(b, IF call[b].fn = "update" THEN "TM_Invisible" ELSE "invisible")

-----------------------------------------------------------------------------
(* The steps of a visibility check.  Others hold the buffer lock in the same *)
(* mode only: HeapTupleSatisfiesUpdate runs under an exclusive lock.         *)

Asleep(b) == call[b].at \in {"copied", "tuplock", "sleep"}
Exclusive(b) == call[b].fn = "update" /\ ~Asleep(b)
Locked(b) == call[b].fn # "none" /\ ~Asleep(b)
LockFree(b) == \A c \in Backend \ {b} : ~Locked(c)

OldestXmin ==
  LET xs == running \cup {nextXid}
            \cup {s.xmax : s \in {snap[b] : b \in Backend} \ {NoSnap}}
            \cup UNION {snap[b].xip : b \in Backend}
  IN CHOOSE x \in xs : \A y \in xs : x <= y

\* What the backend's snapshot sees, from the history alone.
Sees(b) ==
  LET happened(x, c) == x \in snap[b].seen \/ (x \in mine[b] /\ c < snap[b].curcid) IN
  /\ happened(tuple.xmin, tuple.cmin)
  /\ ~\E d \in deletes : happened(d.xid, d.cid)

Start(b, fn, op) ==
  /\ Idle(b) /\ tuple # NoTuple
  /\ IF fn = "update" THEN LockFree(b) ELSE \A c \in Backend : ~Exclusive(c)
  /\ fn = "mvcc" => snap[b] # NoSnap
  /\ call' = [call EXCEPT ![b] =
       [NoCall EXCEPT !.fn = fn, !.op = op, !.at = "xmin",
                      !.oldestXmin = IF fn = "vacuum" THEN OldestXmin ELSE 0]]
  /\ UNCHANGED <<pageVars, disk, walVars, xactVars, hist, crashes, load>>

\* The executor deletes and locks what its snapshot sees.
StartUpdate(b, op) ==
  /\ InTransaction(b) /\ snap[b] # NoSnap /\ Sees(b)
  /\ Start(b, "update", op)

At(b, step) == call[b].at = step

CheckXminHint(b) ==
  /\ At(b, "xmin") /\ tuple.xminHint # "none"
  /\ IF tuple.xminHint = "invalid" THEN Conclude(b, "aborted")
     ELSE IF call[b].fn = "mvcc" /\ XidInMVCCSnapshot(tuple.xmin, snap[b])
       THEN Conclude(b, "inserting")
     ELSE Goto(b, "xmax")
  /\ UNCHANGED tuple

\* Inserted by my own transaction.
CheckXminMine(b) ==
  /\ At(b, "xmin") /\ tuple.xminHint = "none" /\ Current(b, tuple.xmin)
  /\ LET live == IF call[b].fn = "vacuum" THEN "inserting" ELSE "live"
         locked == call[b].fn = "update" /\ MultiXactIdIsRunning IN
     IF ComparesCids(b) /\ tuple.cmin >= curcid(b)
       THEN Conclude(b, "aborted") /\ UNCHANGED tuple
     ELSE IF tuple.xmaxInvalid THEN Conclude(b, live) /\ UNCHANGED tuple
     ELSE IF LockOnly
       THEN Conclude(b, IF locked THEN "deleting" ELSE live) /\ UNCHANGED tuple
     ELSE IF Current(b, tuple.updater) THEN DeletedByMe(b) /\ UNCHANGED tuple
     ELSE /\ Conclude(b, IF tuple.multi /\ locked THEN "deleting" ELSE live)
          /\ IF tuple.multi \/ call[b].fn = "vacuum" THEN UNCHANGED tuple ELSE HintXmaxInvalid

CheckXminRunning(b) ==
  /\ At(b, "xmin") /\ tuple.xminHint = "none" /\ ~Current(b, tuple.xmin)
  /\ IF InProgressFor(b, tuple.xmin) THEN Conclude(b, "inserting") ELSE Goto(b, "xminclog")
  /\ UNCHANGED tuple

CheckXminClog(b) ==
  /\ At(b, "xminclog")
  /\ IF TransactionIdDidCommit(tuple.xmin)
       THEN Goto(b, "xmax") /\ HintXmin(tuple.xmin)
       ELSE Conclude(b, "aborted") /\ tuple' = [tuple EXCEPT !.xminHint = "invalid"]

CheckXmaxInvalid(b) ==
  /\ At(b, "xmax") /\ tuple.xmaxInvalid
  /\ Conclude(b, "live") /\ UNCHANGED tuple

\* Locked only.  MVCC does not look; the others mark a lock that is gone.
CheckXmaxLock(b) ==
  /\ At(b, "xmax") /\ ~tuple.xmaxInvalid /\ LockOnly
  /\ Conclude(b, IF call[b].fn = "update" /\ MultiXactIdIsRunning THEN "deleting" ELSE "live")
  /\ IF \/ MultiXactIdIsRunning \/ call[b].fn = "mvcc"
        \/ tuple.multi /\ call[b].fn \in {"self", "dirty"}
       THEN UNCHANGED tuple ELSE HintXmaxInvalid

CheckXmaxHint(b) ==
  /\ At(b, "xmax") /\ ~tuple.xmaxInvalid /\ ~LockOnly /\ tuple.xmaxCommitted
  /\ Conclude(b, IF call[b].fn = "mvcc" /\ XidInMVCCSnapshot(tuple.updater, snap[b])
                   THEN "deleting" ELSE "deleted")
  /\ UNCHANGED tuple

CheckXmaxRunning(b) ==
  /\ At(b, "xmax") /\ ~tuple.xmaxInvalid /\ ~LockOnly /\ ~tuple.xmaxCommitted
  /\ IF Current(b, tuple.updater) THEN DeletedByMe(b)
     ELSE IF \/ InProgressFor(b, tuple.updater)
             \/ call[b].fn = "update" /\ tuple.multi /\ MultiXactIdIsRunning
       THEN Conclude(b, "deleting")
     ELSE Goto(b, "xmaxclog")
  /\ UNCHANGED tuple

CheckXmaxClog(b) ==
  /\ At(b, "xmaxclog")
  /\ IF TransactionIdDidCommit(tuple.updater)
       THEN /\ Conclude(b, "deleted")
            /\ IF tuple.multi THEN UNCHANGED tuple ELSE HintXmaxCommitted(tuple.updater)
     ELSE IF tuple.multi /\ call[b].fn = "update" /\ MultiXactIdIsRunning
       THEN Conclude(b, "deleting") /\ UNCHANGED tuple
     ELSE /\ Conclude(b, "live")
          /\ IF \/ tuple.multi /\ call[b].fn \notin {"update", "vacuum"}
                \/ tuple.multi /\ MultiXactIdIsRunning
               THEN UNCHANGED tuple ELSE HintXmaxInvalid

Check(b) ==
  /\ \/ CheckXminHint(b) \/ CheckXminMine(b) \/ CheckXminRunning(b) \/ CheckXminClog(b)
     \/ CheckXmaxInvalid(b) \/ CheckXmaxLock(b) \/ CheckXmaxHint(b)
     \/ CheckXmaxRunning(b) \/ CheckXmaxClog(b)
  /\ UNCHANGED <<pageLSN, disk, walVars, xactVars, hist, crashes, load>>

-----------------------------------------------------------------------------
(* Insertion, deletion and row locks.                                        *)

Log(rec) == Len(wal) < load.wal /\ wal' = Append(wal, rec) /\ UNCHANGED flushed

pg_tde_insert(b) ==
  /\ Idle(b) /\ InTransaction(b) /\ tuple = NoTuple
  /\ tuple' = [xmin |-> CurrentXid(b), cmin |-> cid[b], xminHint |-> "none",
               xmax |-> {}, multi |-> FALSE, updater |-> None, cmax |-> 0,
               xmaxInvalid |-> TRUE, xmaxCommitted |-> FALSE]
  /\ Log([type |-> "insert", new |-> tuple']) /\ pageLSN' = Len(wal')
  /\ UNCHANGED <<disk, xactVars, call, hist, crashes, load>>

\* The members worth keeping beside the new one: an xmax that is invalid, or
\* has no one running and no committed updater, is overwritten.
compute_new_xmax(x, isUpdate) ==
  LET kept == IF tuple.xmaxInvalid THEN {}
              ELSE {m \in tuple.xmax : \/ TransactionIdIsInProgress(m)
                                       \/ m = tuple.updater /\ TransactionIdDidCommit(m)}
      new == {x} \cup kept
  IN [tuple EXCEPT !.xmax = new, !.multi = Cardinality(new) > 1,
        !.updater = IF isUpdate THEN x ELSE IF @ \in kept THEN @ ELSE None,
        !.cmax = IF isUpdate THEN cid[CHOOSE b \in Backend : x \in mine[b]] ELSE @,
        !.xmaxInvalid = FALSE, !.xmaxCommitted = FALSE]

SetXmax(b) ==
  LET x == CurrentXid(b)
      isUpdate == call[b].op = "delete" IN
  /\ At(b, "done") /\ call[b].fn = "update" /\ call[b].verdict = "TM_Ok"
  /\ tuple' = compute_new_xmax(x, isUpdate)
  /\ Log([type |-> "xmax", new |-> tuple']) /\ pageLSN' = Len(wal')
  /\ IF isUpdate
       THEN deletes' = deletes \cup {[xid |-> x, cid |-> cid[b]]} /\ UNCHANGED locks
       ELSE locks' = locks \cup {x} /\ UNCHANGED deletes
  /\ call' = [call EXCEPT ![b] = NoCall]
  /\ UNCHANGED <<disk, xactVars, crashes, load>>

\* Any other verdict goes back to the caller.  (pg_tde_delete raises an error
\* for TM_Invisible: NeverInvisible.)
Returns(b) ==
  /\ call[b].fn = "update" =>
       \/ call[b].verdict \in {"TM_SelfModified", "TM_Invisible"}
       \/ call[b].verdict = "TM_Deleted" /\ (call[b].op = "delete" \/ call[b].saved # NoTuple)
Return(b) ==
  /\ At(b, "done") /\ Returns(b)
  /\ call' = [call EXCEPT ![b] = NoCall]
  /\ UNCHANGED <<pageVars, disk, walVars, xactVars, hist, crashes, load>>

HeapTupleHeaderIsOnlyLocked(b) ==
  \/ tuple.xmaxInvalid \/ LockOnly
  \/ /\ ~Current(b, tuple.updater) /\ ~TransactionIdIsInProgress(tuple.updater)
     /\ ~TransactionIdDidCommit(tuple.updater)

\* Lockers are not in the way of a deletion.
ConflictsWithUpdater(b) ==
  \E x \in tuple.xmax \ mine[b] : x = tuple.updater /\ clog[x] # "aborted"

\* DoesMultiXactIdConflict for the strongest lock mode, and the test of a
\* single xmax.
Conflicts(b) ==
  \E x \in tuple.xmax \ mine[b] :
    IF tuple.multi /\ x = tuple.updater THEN clog[x] # "aborted"
    ELSE IF tuple.multi THEN TransactionIdIsInProgress(x) ELSE TRUE

\* pg_tde_delete: sleep unless the only ones in the way are the backend's own.
DeleteMustWait(b) ==
  /\ At(b, "done") /\ call[b].op = "delete" /\ call[b].verdict = "TM_BeingModified"
  /\ call' = IF Conflicts(b)
       THEN [call EXCEPT ![b].at = IF tuple.xmax \cap mine[b] # {} THEN "sleep" ELSE "tuplock",
                         ![b].saved = tuple]
       ELSE [call EXCEPT ![b].verdict =
               IF HeapTupleHeaderIsOnlyLocked(b) THEN "TM_Ok" ELSE "TM_Deleted"]
  /\ UNCHANGED <<pageVars, disk, walVars, xactVars, hist, crashes, load>>

\* pg_tde_lock_tuple: the buffer is unlocked whatever is in the way.
LockLooksAgain(b) ==
  /\ At(b, "done") /\ call[b].op = "lock" /\ call[b].saved = NoTuple
  /\ call[b].verdict \in {"TM_BeingModified", "TM_Deleted"}
  /\ call' = [call EXCEPT ![b].at = "copied", ![b].saved = tuple]
  /\ UNCHANGED <<pageVars, disk, walVars, xactVars, hist, crashes, load>>

\* A lock the transaction has already; or lockers only, who do not conflict.
LockWithoutSleep(b) ==
  LET s == call[b].saved IN
  /\ At(b, "copied") /\ (s.xmax \cap mine[b] # {} \/ s.updater = None)
  /\ IF s.xmax \cap mine[b] # {} THEN call' = [call EXCEPT ![b] = NoCall]
     ELSE /\ LockFree(b)
          /\ call' = IF HeapTupleHeaderIsOnlyLocked(b)
                       THEN [call EXCEPT ![b].at = "done", ![b].verdict = "TM_Ok"]
                       ELSE [call EXCEPT ![b].at = "xmin", ![b].saved = NoTuple]
  /\ UNCHANGED <<pageVars, disk, walVars, xactVars, hist, crashes, load>>

LockMustWait(b) ==
  LET s == call[b].saved IN
  /\ At(b, "copied") /\ s.xmax \cap mine[b] = {} /\ s.updater # None
  /\ IF call[b].verdict = "TM_Deleted"
       THEN LockFree(b) /\ call' = [call EXCEPT ![b].at = "done"]
       ELSE call' = [call EXCEPT ![b].at = "tuplock"]
  /\ UNCHANGED <<pageVars, disk, walVars, xactVars, hist, crashes, load>>

\* pg_tde_acquire_tuplock, external lock manager: a key-share tuple lock
\* conflicts with an exclusive one only.
AcquireTuplock(b) ==
  /\ At(b, "tuplock")
  /\ \A c \in Backend \ {b} :
       call[c].tuplock # "none" => call[c].tuplock = "lock" /\ call[b].op = "lock"
  /\ call' = [call EXCEPT ![b].at = "sleep", ![b].tuplock = call[b].op]
  /\ UNCHANGED <<pageVars, disk, walVars, xactVars, hist, crashes, load>>

\* Do_MultiXactIdWait and XactLockTableWait: those who conflict have ended.
Awaited(b) ==
  LET s == call[b].saved IN
  (IF call[b].op = "delete" THEN s.xmax ELSE {s.updater}) \ mine[b]

UpdateXmaxHintBits ==
  IF tuple.multi \/ tuple.xmaxInvalid \/ tuple.xmaxCommitted THEN UNCHANGED tuple
  ELSE IF ~LockOnly /\ TransactionIdDidCommit(tuple.updater)
    THEN HintXmaxCommitted(tuple.updater)
  ELSE HintXmaxInvalid

xmax_changed(s) == <<s.xmax, s.multi, s.updater>> # <<tuple.xmax, tuple.multi, tuple.updater>>

Wake(b) ==
  /\ At(b, "sleep") /\ Awaited(b) \cap running = {} /\ LockFree(b)
  /\ IF xmax_changed(call[b].saved)
       THEN /\ call' = [call EXCEPT ![b].at = "xmin", ![b].saved = NoTuple]
            /\ UNCHANGED tuple
       ELSE /\ UpdateXmaxHintBits
            /\ call' = [call EXCEPT ![b].at = "done", ![b].verdict =
                 IF HeapTupleHeaderIsOnlyLocked(b) THEN "TM_Ok" ELSE "TM_Deleted"]
  /\ UNCHANGED <<pageLSN, disk, walVars, xactVars, hist, crashes, load>>

\* The deadlock detector or a cancel ends the sleep: the (sub)transaction aborts.
Cancel(b) ==
  /\ Asleep(b) /\ ~At(b, "copied")
  /\ call' = [call EXCEPT ![b] = NoCall]
  /\ IF Cardinality(mine[b]) > 1 THEN AbortSubXact(b) ELSE EndXact(b, FALSE)
  /\ UNCHANGED <<pageVars, disk, hist, crashes, load>>

-----------------------------------------------------------------------------
(* The buffer manager, the log and recovery.                                 *)

\* The log writer.  Every commit is flushed already unless asynchronous.
FlushWal ==
  /\ load.async \/ crashes < load.crashes
  /\ flushed < Len(wal) /\ flushed' = Len(wal)
  /\ UNCHANGED <<pageVars, disk, wal, xactVars, call, hist, crashes, load>>

\* The disk is looked at after a crash only.
FlushPage ==
  /\ crashes < load.crashes
  /\ disk # [tuple |-> tuple, lsn |-> pageLSN] /\ \A b \in Backend : ~Exclusive(b)
  /\ disk' = [tuple |-> tuple, lsn |-> pageLSN]
  /\ flushed' = IF pageLSN > flushed THEN pageLSN ELSE flushed
  /\ UNCHANGED <<pageVars, wal, xactVars, call, hist, crashes, load>>

\* The last change of the tuple among the first n records of the log.
LastChange(n) ==
  LET at == {i \in 1..n : wal[i].type # "commit"} IN
  IF at = {} THEN 0 ELSE CHOOSE i \in at : \A j \in at : j <= i

\* Redo from the page on disk to record n: the last change wins.  The hint bits
\* of xmin are not part of a change of xmax and stay as the page had them, or as
\* the record of the insertion sets them.
Redo(n) ==
  IF LastChange(n) <= disk.lsn THEN disk.tuple
  ELSE [wal[LastChange(n)].new EXCEPT !.xminHint =
          IF \E i \in (disk.lsn + 1)..n : wal[i].type = "insert" THEN "none"
          ELSE disk.tuple.xminHint]

Crash ==
  /\ crashes < load.crashes /\ crashes' = crashes + 1
  /\ wal' = SubSeq(wal, 1, flushed) /\ UNCHANGED flushed
  /\ tuple' = Redo(flushed) /\ pageLSN' = LastChange(flushed)
  /\ disk' = [tuple |-> tuple', lsn |-> pageLSN']
  /\ clog' = [x \in Xid |->
       IF \E i \in 1..flushed : wal[i].type = "commit" /\ x \in wal[i].xids
         THEN "committed" ELSE "in progress"]
  /\ running' = {} /\ UNCHANGED nextXid
  /\ mine' = [b \in Backend |-> {}] /\ ended' = [b \in Backend |-> {}]
  /\ cid' = [b \in Backend |-> 0] /\ snap' = [b \in Backend |-> NoSnap]
  /\ call' = [b \in Backend |-> NoCall]
  /\ UNCHANGED <<hist, load>>

Next ==
  \/ \E b \in Backend :
       \/ AssignXid(b) \/ NextCommand(b) \/ TakeSnapshot(b)
       \/ AbortSub(b) \/ EndInClog(b, TRUE) \/ EndInClog(b, FALSE) \/ EndInProcArray(b)
       \/ \E fn \in load.observe : Start(b, fn, "none")
       \/ \E op \in load.modify : StartUpdate(b, op)
       \/ Check(b) \/ Return(b)
       \/ pg_tde_insert(b) \/ SetXmax(b)
       \/ DeleteMustWait(b) \/ LockLooksAgain(b) \/ LockWithoutSleep(b) \/ LockMustWait(b)
       \/ AcquireTuplock(b) \/ Wake(b) \/ Cancel(b)
  \/ FlushWal \/ FlushPage \/ Crash

Spec == Init /\ [][Next]_vars

-----------------------------------------------------------------------------
(* Properties.                                                               *)

Live(x) == x \in running \/ clog[x] = "committed"

\* A hint bit never says what pg_xact will not: not of a running transaction,
\* and not after a crash that lost an asynchronous commit (SetHintBits).
HintBitsTrue ==
  tuple # NoTuple =>
    /\ tuple.xminHint = "committed" => clog[tuple.xmin] = "committed"
    /\ tuple.xminHint = "invalid" => ~Live(tuple.xmin)
    /\ tuple.xmaxCommitted => clog[tuple.updater] = "committed"
    /\ tuple.xmaxInvalid => /\ tuple.xmax \cap running = {}
                            /\ tuple.updater # None => ~Live(tuple.updater)

\* HeapTupleSatisfiesMVCC, however its looks at shared state interleave with
\* the end of transactions, answers by what was committed at the snapshot.
MVCCExact ==
  \A b \in Backend : call[b].fn = "mvcc" /\ At(b, "done") =>
    (call[b].verdict = "visible") = Sees(b)

\* A tuple that HeapTupleSatisfiesVacuum calls dead is seen by no snapshot.
DeadIsInvisible ==
  \A b \in Backend : call[b].fn = "vacuum" /\ call[b].verdict = "DEAD" =>
    \A c \in Backend : snap[c] # NoSnap => ~Sees(c)

\* pg_tde_delete never replaces a deletion that has or may yet become final.
OneDeleter == \A d, e \in deletes : Live(d.xid) /\ Live(e.xid) => d = e

\* A row lock that pg_tde_lock_tuple granted keeps others from deleting the
\* tuple until the locker's transaction ends.
LocksExclude ==
  \A x \in locks \cap running, d \in deletes :
    Live(d.xid) => \E b \in Backend : {x, d.xid} \subseteq mine[b] \cup ended[b]

\* Unless HeapTupleSatisfiesDirty names a transaction to wait for, no other
\* transaction can change its answer: a unique check may rely on it.
DirtyConclusive ==
  \A b \in Backend : call[b].fn = "dirty" /\ At(b, "done") /\ call[b].reports = {} =>
    (call[b].verdict = "visible") =
      (Live(tuple.xmin) /\ ~\E d \in deletes : Live(d.xid))

\* What a statement's snapshot sees, pg_tde_delete does not find invisible:
\* its "attempted to delete invisible tuple" stays unraised.
NeverInvisible == \A b \in Backend : call[b].verdict # "TM_Invisible"

=============================================================================
