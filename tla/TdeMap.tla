------------------------------- MODULE TdeMap -------------------------------
(***************************************************************************)
(* Internal keys of relations (src/access/pg_tde_tdemap.c) under the DDL    *)
(* that creates, drops, truncates and moves relations, with the write-ahead *)
(* log, checkpoints, crashes and recovery.                                  *)
(*                                                                          *)
(* A relation is its RelFileLocator, a pair of tablespace and relNumber.    *)
(* Its key file, its XLOG_TDE_CREATE_FORK record and the cache entry of     *)
(* each backend all hold a key; a key is a number, fresh for every          *)
(* RAND_bytes.  The master key is in module Keyring: here a key file can be *)
(* read whenever it is whole.  Savepoints are in module XactHandler: here   *)
(* every transaction is flat.                                               *)
(*                                                                          *)
(* catalog, txn and pages are the server's state around the modelled code:  *)
(* the relations in the catalogs, what each open transaction has done to    *)
(* them, and the keys the rows of a relation are encrypted with.            *)
(***************************************************************************)
EXTENDS Naturals, Sequences, FiniteSets

CONSTANTS
  Backend,
  RelNumber, Tablespace,
  MaxKey,      \* bound: internal keys that are ever generated
  MaxCrashes,  \* bound: crashes
  Env          \* the environments considered, each a record of three flags

ASSUME TdeMapAssumption ==
  /\ {MaxKey, MaxCrashes} \subseteq Nat
  /\ "none" \notin RelNumber
  /\ Env \subseteq [osCrash : BOOLEAN,      \* the operating system may crash too
                   moveSpace : BOOLEAN,    \* ALTER TABLE ... SET TABLESPACE is used
                   reuseNumber : BOOLEAN]  \* the OID counter wraps: relNumbers come again

RelFileLocator == [spc : Tablespace, relNumber : RelNumber]
Key == 1..MaxKey
NoKey == 0
Torn == MaxKey + 1    \* a file the write of which failed half way
FileState == 0..(MaxKey + 1)

VARIABLES
  env,        \* the environment of this server, one of Env
  disk,       \* per locator: what its .tde file holds; NoKey: no file
  durable,    \* per locator: what would be left of it if the system crashed
  wal,        \* XLOG_TDE_CREATE_FORK records
  flushed,    \* how many of them have reached the disk
  redo,       \* how many of them lie before the last checkpoint's redo pointer
  mode,       \* "up", or "recovery": the startup process replays record replay + 1
  replay,
  crashes,
  map,        \* per backend: tde_rel_keys_map, an entry or NoEntry
  pending,    \* per backend: its pendingDeletes
  creating,   \* per backend: key file it is about to write, locator it replaces
  txn,        \* per backend: locators its transaction created and took away
  catalog,    \* locators of the committed relations
  pages,      \* per locator: keys its rows are encrypted with
  lastKey,    \* last key RAND_bytes produced
  usedNumbers \* relNumbers ever assigned

walVars == <<wal, flushed, redo>>
modeVars == <<mode, replay, crashes>>
fileVars == <<disk, durable>>
backendVars == <<map, pending, creating, txn>>
vars == <<env, fileVars, walVars, modeVars, backendVars, catalog, pages, lastKey, usedNumbers>>

NoEntry == [rel_id |-> "none", key |-> NoKey]
Record == [loc : RelFileLocator, key : Key]
NoLocator == [spc |-> "none", relNumber |-> "none"]
Creation == [loc : RelFileLocator, key : Key, old : RelFileLocator \cup {NoLocator}]
NoCreation == [loc |-> NoLocator, key |-> NoKey, old |-> NoLocator]
NoTxn == [created |-> {}, gone |-> {}]
NoFiles == [l \in RelFileLocator |-> NoKey]

\* Files, catalog, caches, transactions and the replay position; redo never
\* leaves the log.
TypeOK ==
  /\ env \in Env
  /\ disk \in [RelFileLocator -> FileState] /\ durable \in [RelFileLocator -> FileState]
  /\ wal \in Seq(Record) /\ redo \in 0..flushed /\ flushed \in 0..Len(wal)
  /\ mode \in {"up", "recovery"} /\ replay \in 0..Len(wal) /\ crashes \in 0..MaxCrashes
  /\ map \in [Backend -> [rel_id : RelNumber, key : Key] \cup {NoEntry}]
  /\ pending \in [Backend -> SUBSET (RelFileLocator \X BOOLEAN)]
  /\ creating \in [Backend -> Creation \cup {NoCreation}]
  /\ txn \in [Backend -> [created : SUBSET RelFileLocator, gone : SUBSET RelFileLocator]]
  /\ catalog \subseteq RelFileLocator
  /\ pages \in [RelFileLocator -> SUBSET Key]
  /\ lastKey \in 0..MaxKey /\ usedNumbers \subseteq RelNumber

Init ==
  /\ env \in Env
  /\ disk = NoFiles /\ durable = NoFiles
  /\ wal = <<>> /\ flushed = 0 /\ redo = 0
  /\ mode = "up" /\ replay = 0 /\ crashes = 0
  /\ map = [b \in Backend |-> NoEntry]
  /\ pending = [b \in Backend |-> {}]
  /\ creating = [b \in Backend |-> NoCreation]
  /\ txn = [b \in Backend |-> NoTxn]
  /\ catalog = {} /\ pages = [l \in RelFileLocator |-> {}]
  /\ lastKey = 0 /\ usedNumbers = {}

-----------------------------------------------------------------------------
(* What the server guarantees to the callers.                               *)

Idle(b) == mode = "up" /\ creating[b] = NoCreation

\* GetNewRelFileNumber and RelationCreateStorage: nothing is stored there.
FreeLocator(l) ==
  /\ env.reuseNumber \/ l.relNumber \notin usedNumbers
  /\ l \notin catalog
  /\ \A b \in Backend : l \notin txn[b].created /\ creating[b].loc # l

\* A relation the transaction sees and nobody else has taken away: DDL holds
\* AccessExclusiveLock until the transaction ends.
Visible(b, l) ==
  /\ l \in catalog \cup txn[b].created
  /\ \A c \in Backend : l \notin txn[c].gone /\ creating[c].old # l

-----------------------------------------------------------------------------
(* pg_tde_tdemap.c                                                          *)

\* The list has one element at most: prev is NULL whenever an entry is put.
put_keys_into_map(b, l, k) ==
  map' = [map EXCEPT ![b] = [rel_id |-> l.relNumber, key |-> k]]

\* The lookup compares relNumber only.
CacheAlwaysHits(b, l) == map[b] # NoEntry
CacheHit(b, l) == map[b].rel_id = l.relNumber

\* The key GetRelationKeys returns; Torn or NoKey: the backend exits (FATAL).
GetRelationKeys(b, l) == IF CacheHit(b, l) THEN map[b].key ELSE disk[l]

create_key_fork_same_key(b, l, old) ==
  /\ Idle(b) /\ FreeLocator(l)
  /\ old = NoLocator \/ Visible(b, old)
  /\ lastKey' = 1
  /\ wal' = Append(wal, [loc |-> l, key |-> lastKey'])
  /\ creating' = [creating EXCEPT ![b] = [loc |-> l, key |-> lastKey', old |-> old]]
  /\ usedNumbers' = usedNumbers \cup {l.relNumber}
  /\ pages' = [pages EXCEPT ![l] = {}]
  /\ UNCHANGED <<env, fileVars, flushed, redo, modeVars, map, pending, txn, catalog>>

\* pg_tde_create_key_fork: the record goes to the log before the file.  CREATE
\* and rewrites replace nothing; TRUNCATE replaces the storage old, the key file
\* of which it leaves alone.
pg_tde_create_key_fork(b, l, old) ==
  /\ Idle(b) /\ FreeLocator(l) /\ lastKey < MaxKey
  /\ old = NoLocator \/ Visible(b, old)
  /\ lastKey' = lastKey + 1
  /\ wal' = Append(wal, [loc |-> l, key |-> lastKey'])
  /\ creating' = [creating EXCEPT ![b] = [loc |-> l, key |-> lastKey', old |-> old]]
  /\ usedNumbers' = usedNumbers \cup {l.relNumber}
  /\ pages' = [pages EXCEPT ![l] = {}]
  /\ UNCHANGED <<env, fileVars, flushed, redo, modeVars, map, pending, txn, catalog>>

\* pg_tde_write_key_fork in a backend.
pg_tde_write_key_fork(b) ==
  LET l == creating[b].loc
      k == creating[b].key IN
  /\ mode = "up" /\ creating[b] # NoCreation
  /\ disk' = [disk EXCEPT ![l] = k]
  /\ pending' = [pending EXCEPT ![b] = @ \cup {<<l, FALSE>>}]
  /\ put_keys_into_map(b, l, k)
  /\ txn' = [txn EXCEPT ![b] = [created |-> @.created \cup {l},
                                 gone |-> @.gone \cup ({creating[b].old} \ {NoLocator})]]
  /\ creating' = [creating EXCEPT ![b] = NoCreation]
  /\ UNCHANGED <<env, durable, walVars, modeVars, catalog, pages, lastKey, usedNumbers>>

\* The drop hook, on DROP and on the transient table of a rewrite.
pg_tde_delete_key_fork(b, l) ==
  /\ Idle(b) /\ Visible(b, l)
  /\ pending' = [pending EXCEPT ![b] = @ \cup {<<l, TRUE>>}]
  /\ txn' = [txn EXCEPT ![b] = [created |-> @.created, gone |-> @.gone \cup {l}]]
  /\ UNCHANGED <<env, fileVars, walVars, modeVars, map, creating, catalog, pages, lastKey,
                 usedNumbers>>

\* SET TABLESPACE: the rows are copied as they are; the .tde file is not a fork.
pg_tdeam_relation_copy_data(b, l, new) ==
  /\ env.moveSpace /\ Idle(b) /\ Visible(b, l) /\ FreeLocator(new) /\ new.spc # l.spc
  /\ pages' = [pages EXCEPT ![new] = pages[l]]
  /\ usedNumbers' = usedNumbers \cup {new.relNumber}
  /\ txn' = [txn EXCEPT ![b] = [created |-> @.created \cup {new}, gone |-> @.gone \cup {l}]]
  /\ UNCHANGED <<env, fileVars, walVars, modeVars, map, pending, creating, catalog, lastKey>>

\* A row is written: GetRelationKeys, then the row is encrypted.
WriteRow(b, l) ==
  LET k == GetRelationKeys(b, l) IN
  /\ Idle(b) /\ Visible(b, l) /\ k \in Key
  /\ pages' = [pages EXCEPT ![l] = @ \cup {k}]
  /\ put_keys_into_map(b, l, k)
  /\ UNCHANGED <<env, fileVars, walVars, modeVars, pending, creating, txn, catalog, lastKey,
                 usedNumbers>>

-----------------------------------------------------------------------------
(* The ends of a transaction.                                               *)

\* do_pending_deletes; durable_unlink syncs the directory.
Unlink(b, isCommit) ==
  LET gone == {l \in RelFileLocator : <<l, isCommit>> \in pending[b]}
      Without(f) == [l \in RelFileLocator |-> IF l \in gone THEN NoKey ELSE f[l]] IN
  /\ disk' = Without(disk) /\ durable' = Without(durable)
  /\ pending' = [pending EXCEPT ![b] = {}]

\* The commit record makes all records before it durable.
Commit(b) ==
  /\ Idle(b) /\ txn[b] # NoTxn
  /\ flushed' = Len(wal)
  /\ catalog' = (catalog \cup txn[b].created) \ txn[b].gone
  /\ txn' = [txn EXCEPT ![b] = NoTxn]
  /\ Unlink(b, TRUE)
  /\ UNCHANGED <<env, wal, redo, modeVars, map, creating, pages, lastKey, usedNumbers>>

Abort(b) ==
  /\ Idle(b) /\ txn[b] # NoTxn
  /\ txn' = [txn EXCEPT ![b] = NoTxn]
  /\ Unlink(b, FALSE)
  /\ UNCHANGED <<env, walVars, modeVars, map, creating, catalog, pages, lastKey, usedNumbers>>

\* FATAL in pg_tde_write_key_fork: the file is there, whole or not, but not yet
\* registered; the transaction aborts and the backend exits.
WriteFails(b) ==
  LET l == creating[b].loc IN
  /\ mode = "up" /\ creating[b] # NoCreation
  /\ txn' = [txn EXCEPT ![b] = NoTxn]
  /\ pending' = [pending EXCEPT ![b] = {}]
  /\ \E left \in {disk[l], Torn} :
       LET gone == {m \in RelFileLocator : <<m, FALSE>> \in pending[b]} IN
       /\ disk' = [m \in RelFileLocator |-> IF m = l THEN left
                                            ELSE IF m \in gone THEN NoKey ELSE disk[m]]
       /\ durable' = [m \in RelFileLocator |-> IF m \in gone THEN NoKey ELSE durable[m]]
  /\ creating' = [creating EXCEPT ![b] = NoCreation]
  /\ map' = [map EXCEPT ![b] = NoEntry]
  /\ UNCHANGED <<env, walVars, modeVars, catalog, pages, lastKey, usedNumbers>>

Disconnect(b) ==
  /\ Idle(b) /\ txn[b] = NoTxn /\ map[b] # NoEntry
  /\ map' = [map EXCEPT ![b] = NoEntry]
  /\ UNCHANGED <<env, fileVars, walVars, modeVars, pending, creating, txn, catalog, pages,
                 lastKey, usedNumbers>>

-----------------------------------------------------------------------------
(* The server around it: checkpoints, write-back, crashes and recovery.      *)

\* A checkpoint syncs the files the server knows of; .tde files are not.
Checkpoint ==
  /\ mode = "up" /\ redo < Len(wal)
  /\ redo' = Len(wal) /\ flushed' = Len(wal)
  /\ UNCHANGED <<env, fileVars, wal, modeVars, backendVars, catalog, pages, lastKey, usedNumbers>>

OSWriteback(l) ==
  /\ env.osCrash /\ durable[l] # disk[l]
  /\ durable' = [durable EXCEPT ![l] = disk[l]]
  /\ UNCHANGED <<env, disk, walVars, modeVars, backendVars, catalog, pages, lastKey, usedNumbers>>

\* Unflushed records may be lost.  A system crash also loses unsynced files.
Crash ==
  /\ crashes < MaxCrashes
  /\ crashes' = crashes + 1
  /\ mode' = "recovery" /\ replay' = redo
  /\ \E n \in flushed..Len(wal) : wal' = SubSeq(wal, 1, n) /\ flushed' = n
  /\ disk' \in IF env.osCrash THEN {disk, durable} ELSE {disk}
  /\ UNCHANGED durable
  /\ map' = [b \in Backend |-> NoEntry]
  /\ pending' = [b \in Backend |-> {}]
  /\ creating' = [b \in Backend |-> NoCreation]
  /\ txn' = [b \in Backend |-> NoTxn]
  /\ UNCHANGED <<env, redo, catalog, pages, lastKey, usedNumbers>>

\* pg_tde_rmgr_redo: the startup process writes the key file anew.
RedoNothing == UNCHANGED disk
RedoWrite ==
  disk' = [disk EXCEPT ![wal[replay + 1].loc] = wal[replay + 1].key]

pg_tde_xlog_create_fork ==
  /\ mode = "recovery" /\ replay < Len(wal)
  /\ replay' = replay + 1
  /\ RedoWrite
  /\ UNCHANGED <<env, durable, walVars, mode, crashes, backendVars, catalog, pages, lastKey,
                 usedNumbers>>

\* The end-of-recovery checkpoint.
EndRecovery ==
  /\ mode = "recovery" /\ replay = Len(wal)
  /\ mode' = "up" /\ redo' = Len(wal)
  /\ UNCHANGED <<env, fileVars, wal, flushed, replay, crashes, backendVars, catalog, pages,
                 lastKey, usedNumbers>>

Next ==
  \/ \E b \in Backend :
       \/ \E l \in RelFileLocator :
            \/ \E old \in RelFileLocator \cup {NoLocator} : pg_tde_create_key_fork(b, l, old)
            \/ pg_tde_delete_key_fork(b, l) \/ WriteRow(b, l)
            \/ \E new \in RelFileLocator : pg_tdeam_relation_copy_data(b, l, new)
       \/ pg_tde_write_key_fork(b) \/ WriteFails(b)
       \/ Commit(b) \/ Abort(b) \/ Disconnect(b)
  \/ \E l \in RelFileLocator : OSWriteback(l)
  \/ Checkpoint \/ Crash \/ pg_tde_xlog_create_fork \/ EndRecovery

Spec == Init /\ [][Next]_vars

-----------------------------------------------------------------------------
(* Properties.                                                               *)

\* "the same unique internal key for that table is used to decrypt the data":
\* whatever a backend has cached and whatever happened to the server, it gets a
\* key for every relation it sees, and that key opens every row written so far.
RowsReadable ==
  \A b \in Backend, l \in RelFileLocator :
    Idle(b) /\ Visible(b, l)
      => /\ GetRelationKeys(b, l) \in Key
         /\ pages[l] \subseteq {GetRelationKeys(b, l)}

\* A key file that nothing but the operating system's own write-back protects:
\* its record is before the redo pointer, or there never was one (SET TABLESPACE).
Exposed(l) ==
  LET records == {i \in 1..Len(wal) : wal[i].loc = l} IN
  \/ records = {}
  \/ env.osCrash /\ \E i \in records : i <= redo /\ durable[l] # wal[i].key

\* The key of a relation is lost through these two doors only: otherwise every
\* backend, whatever it has cached and however often the server crashed, gets
\* the key that opens every row of every relation it sees.
RowsReadableUnlessExposed ==
  \A b \in Backend, l \in RelFileLocator :
    Idle(b) /\ Visible(b, l) /\ ~Exposed(l)
      => /\ GetRelationKeys(b, l) \in Key
         /\ pages[l] \subseteq {GetRelationKeys(b, l)}

\* What is on disk for a locator once the log has been replayed.
Replayed(l) ==
  LET records == {i \in (redo + 1)..flushed : wal[i].loc = l} IN
  IF records = {} THEN disk[l]
  ELSE wal[CHOOSE i \in records : \A j \in records : j <= i].key

\* At the end of recovery, also from a system crash and after crashes during
\* recovery, every committed relation whose record the checkpoint had not passed
\* has the key its rows are encrypted with.
LoggedKeysRecovered ==
  mode = "recovery" /\ replay = Len(wal)
    => \A i \in (redo + 1)..Len(wal) :
         wal[i].loc \in catalog
           => disk[wal[i].loc] = wal[i].key /\ pages[wal[i].loc] \subseteq {wal[i].key}

NoRelation == MaxKey + 2
Sheltered == env = [osCrash |-> FALSE, moveSpace |-> FALSE, reuseNumber |-> FALSE]
RK == INSTANCE RelationKeys WITH
  Relation <- RelFileLocator,
  keyOf <- [l \in RelFileLocator |->
              IF Sheltered /\ l \in catalog THEN Replayed(l) ELSE NoRelation]

\* Creation, redo and deletion of key files implement RelationKeys: a committed
\* relation has one key from its creation to its drop, also across crashes of the
\* server, as long as tables are not moved and numbers not reused.
ImplementsRelationKeys == RK!Spec

=============================================================================
