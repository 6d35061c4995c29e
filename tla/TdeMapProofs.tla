---------------------------- MODULE TdeMapProofs ----------------------------
(***************************************************************************)
(* Proofs about TdeMap: for every number of backends, relations, keys and   *)
(* crashes, the keys of relations survive, and creation, redo and deletion  *)
(* of key files implement RelationKeys.                                     *)
(***************************************************************************)
EXTENDS TdeMap, TLAPS

(* Relations that exist for somebody, and those about to.                   *)
Live(l) == l \in catalog \/ \E b \in Backend : l \in txn[b].created
Known(l) == Live(l) \/ \E b \in Backend : creating[b].loc = l

(* During recovery the log ends where the crash left it, and replay has not *)
(* fallen behind the redo pointer.                                          *)
LogPositions == mode = "recovery" => flushed = Len(wal) /\ redo <= replay

(* Keys are fresh: no two records hold the same.                            *)
KeysFresh ==
  /\ \A i \in 1..Len(wal) : wal[i].key <= lastKey
  /\ \A i, j \in 1..Len(wal) : wal[i].key = wal[j].key => i = j

(* Whatever bears a relNumber has made it a used one; an unused number has  *)
(* no file.                                                                 *)
NumbersUsed ==
  /\ \A l \in RelFileLocator : Known(l) => l.relNumber \in usedNumbers
  /\ \A i \in 1..Len(wal) : wal[i].loc.relNumber \in usedNumbers
  /\ \A b \in Backend : map[b] # NoEntry => map[b].rel_id \in usedNumbers
  /\ \A l \in RelFileLocator :
       l.relNumber \notin usedNumbers => disk[l] = NoKey /\ durable[l] = NoKey

(* A relNumber is in one record only, and that of the relation that has it. *)
NumbersUnique ==
  /\ \A i, j \in 1..Len(wal) : wal[i].loc.relNumber = wal[j].loc.relNumber => i = j
  /\ \A l \in RelFileLocator, i \in 1..Len(wal) :
       Known(l) /\ wal[i].loc.relNumber = l.relNumber => wal[i].loc = l

(* Whatever holds a key of a relation with a record holds the record's.     *)
KeysAgree ==
  \A i \in 1..Len(wal) :
    /\ pages[wal[i].loc] \subseteq {wal[i].key}
    /\ disk[wal[i].loc] \in Key => disk[wal[i].loc] = wal[i].key
    /\ durable[wal[i].loc] \in Key => durable[wal[i].loc] = wal[i].key
    /\ \A b \in Backend :
         map[b].rel_id = wal[i].loc.relNumber => map[b].key = wal[i].key

(* What is created is in the log first, and belongs to its creator alone.   *)
Creators ==
  \A b \in Backend :
    /\ txn[b].created \cap catalog = {}
    /\ \A c \in Backend : b # c => txn[b].created \cap txn[c].created = {}
    /\ creating[b] # NoCreation =>
         /\ creating[b].loc \notin catalog
         /\ \E i \in 1..Len(wal) :
              wal[i].loc = creating[b].loc /\ wal[i].key = creating[b].key
         /\ \A c \in Backend :
              /\ creating[b].loc \notin txn[c].created
              /\ b # c => creating[b].loc # creating[c].loc

(* What a transaction has taken away, or is about to, it could see, and no  *)
(* other transaction takes it away.                                         *)
Takers ==
  \A b \in Backend :
    /\ txn[b].gone \subseteq catalog \cup txn[b].created
    /\ creating[b].old # NoLocator => creating[b].old \in catalog \cup txn[b].created
    /\ \A c \in Backend : b # c =>
         /\ txn[b].gone \cap txn[c].gone = {}
         /\ creating[b].old \notin txn[c].gone
         /\ creating[b].old = creating[c].old => creating[b].old = NoLocator

(* A file to be unlinked at abort is the transaction's own, one to be       *)
(* unlinked at commit it has taken away.                                    *)
PendingAnswered ==
  \A b \in Backend, l \in RelFileLocator :
    /\ <<l, FALSE>> \in pending[b] => l \in txn[b].created
    /\ <<l, TRUE>> \in pending[b] => l \in txn[b].gone

(* The records of committed relations are flushed.                          *)
CommittedFlushed ==
  \A i \in 1..Len(wal) : wal[i].loc \in catalog => i <= flushed

(* The key file of a live relation is right, will be replayed, or depends   *)
(* on write-back after the checkpoint passed its record.                    *)
FilesKept ==
  \A i \in 1..Len(wal) : Live(wal[i].loc) =>
    \/ disk[wal[i].loc] = wal[i].key
    \/ env.osCrash /\ mode = "recovery" /\ i > replay
    \/ env.osCrash /\ i <= redo /\ durable[wal[i].loc] # wal[i].key

(* Only SET TABLESPACE makes a relation without a record.                   *)
RecordsExist ==
  ~env.moveSpace =>
    \A l \in RelFileLocator : Live(l) => \E i \in 1..Len(wal) : wal[i].loc = l

NumbersInv ==
  /\ NumbersUsed /\ NumbersUnique /\ KeysAgree /\ Creators /\ Takers
  /\ PendingAnswered /\ CommittedFlushed /\ FilesKept /\ RecordsExist

IInv == TypeOK /\ LogPositions /\ KeysFresh /\ (~env.reuseNumber => NumbersInv)

-----------------------------------------------------------------------------
(* No relation has the locator of no relation.                              *)
LEMMA NoLocatorFacts ==
  /\ NoLocator \notin RelFileLocator
  /\ \A b \in Backend, l \in RelFileLocator :
       creating[b] = NoCreation => creating[b].loc # l /\ creating[b].old = NoLocator
  BY TdeMapAssumption DEF NoLocator, RelFileLocator, NoCreation

LEMMA KeyIsState == Key \subseteq FileState /\ NoKey \notin Key /\ Torn \notin Key
  BY TdeMapAssumption DEF Key, FileState, NoKey, Torn

(* Records name relations and keys.                                         *)
LEMMA RecordTyped ==
  ASSUME TypeOK, NEW i \in 1..Len(wal)
  PROVE  /\ wal[i] \in Record
         /\ wal[i].loc \in RelFileLocator /\ wal[i].loc.relNumber \in RelNumber
         /\ wal[i].key \in Key
<1>1. wal[i] \in Record
  BY DEF TypeOK
<1>2. QED
  BY <1>1 DEF Record, RelFileLocator

(* Unlinking sets files to NoKey and clears the list.                       *)
LEMMA UnlinkTyped ==
  ASSUME TypeOK, NEW b \in Backend, NEW isCommit \in BOOLEAN, Unlink(b, isCommit)
  PROVE  /\ disk' \in [RelFileLocator -> FileState]
         /\ durable' \in [RelFileLocator -> FileState]
         /\ pending' \in [Backend -> SUBSET (RelFileLocator \X BOOLEAN)]
  BY TdeMapAssumption DEF TypeOK, Unlink, FileState, NoKey

(* Type correctness: files, log positions, caches, lists and transactions.  *)
LEMMA TypeInit == Init => TypeOK
  BY TdeMapAssumption
  DEF Init, TypeOK, NoFiles, NoKey, FileState, NoTxn, Record, Key

LEMMA TypeNext == TypeOK /\ LogPositions /\ [Next]_vars => TypeOK'
<1> SUFFICES ASSUME TypeOK, LogPositions, [Next]_vars PROVE TypeOK'
  OBVIOUS
<1> USE TdeMapAssumption DEF TypeOK
<1>1. ASSUME NEW b \in Backend, NEW l \in RelFileLocator,
             NEW old \in RelFileLocator \cup {NoLocator}, pg_tde_create_key_fork(b, l, old)
      PROVE  TypeOK'
  <2>1. lastKey' \in Key
    BY <1>1 DEF pg_tde_create_key_fork, Key
  <2>2. [loc |-> l, key |-> lastKey'] \in Record
    BY <2>1 DEF Record
  <2>3. wal' \in Seq(Record) /\ Len(wal') = Len(wal) + 1
    BY <1>1, <2>2 DEF pg_tde_create_key_fork
  <2>4. creating' \in [Backend -> Creation \cup {NoCreation}]
    BY <1>1, <2>1 DEF pg_tde_create_key_fork, Creation
  <2>5. l.relNumber \in RelNumber
    BY DEF RelFileLocator
  <2>6. QED
    BY <1>1, <2>1, <2>3, <2>4, <2>5
    DEF pg_tde_create_key_fork, fileVars, modeVars, Key
<1>2. ASSUME NEW b \in Backend, pg_tde_write_key_fork(b) PROVE TypeOK'
  <2>1. creating[b] \in Creation
    BY <1>2 DEF pg_tde_write_key_fork
  <2>2. /\ creating[b].loc \in RelFileLocator /\ creating[b].key \in Key
        /\ creating[b].old \in RelFileLocator \cup {NoLocator}
        /\ creating[b].loc.relNumber \in RelNumber
    BY <2>1 DEF Creation, RelFileLocator
  <2>3. disk' \in [RelFileLocator -> FileState]
    BY <1>2, <2>2 DEF pg_tde_write_key_fork, FileState, Key
  <2>4. map' \in [Backend -> [rel_id : RelNumber, key : Key] \cup {NoEntry}]
    BY <1>2, <2>2 DEF pg_tde_write_key_fork, put_keys_into_map
  <2>5. pending' \in [Backend -> SUBSET (RelFileLocator \X BOOLEAN)]
    <3>1. <<creating[b].loc, FALSE>> \in RelFileLocator \X BOOLEAN
      BY <2>2
    <3>2. pending' = [pending EXCEPT ![b] = @ \cup {<<creating[b].loc, FALSE>>}]
      BY <1>2 DEF pg_tde_write_key_fork
    <3>3. pending \in [Backend -> SUBSET (RelFileLocator \X BOOLEAN)]
      OBVIOUS
    <3>4. QED
      BY <3>1, <3>2, <3>3, Zenon
  <2>6. txn' \in [Backend -> [created : SUBSET RelFileLocator, gone : SUBSET RelFileLocator]]
    BY <1>2, <2>2 DEF pg_tde_write_key_fork
  <2>7. QED
    BY <1>2, <2>3, <2>4, <2>5, <2>6 DEF pg_tde_write_key_fork, walVars, modeVars
<1>3. ASSUME NEW b \in Backend, NEW l \in RelFileLocator, pg_tde_delete_key_fork(b, l)
      PROVE  TypeOK'
  <2>1. pending' \in [Backend -> SUBSET (RelFileLocator \X BOOLEAN)]
    <3>1. <<l, TRUE>> \in RelFileLocator \X BOOLEAN
      OBVIOUS
    <3>2. pending' = [pending EXCEPT ![b] = @ \cup {<<l, TRUE>>}]
      BY <1>3 DEF pg_tde_delete_key_fork
    <3>3. pending \in [Backend -> SUBSET (RelFileLocator \X BOOLEAN)]
      OBVIOUS
    <3>4. QED
      BY <3>1, <3>2, <3>3, Zenon
  <2>2. txn' \in [Backend -> [created : SUBSET RelFileLocator, gone : SUBSET RelFileLocator]]
    BY <1>3 DEF pg_tde_delete_key_fork
  <2>3. QED
    BY <1>3, <2>1, <2>2 DEF pg_tde_delete_key_fork, fileVars, walVars, modeVars
<1>4. ASSUME NEW b \in Backend, NEW l \in RelFileLocator, NEW new \in RelFileLocator,
             pg_tdeam_relation_copy_data(b, l, new)
      PROVE  TypeOK'
  <2>1. new.relNumber \in RelNumber
    BY DEF RelFileLocator
  <2>2. QED
    BY <1>4, <2>1 DEF pg_tdeam_relation_copy_data, fileVars, walVars, modeVars
<1>5. ASSUME NEW b \in Backend, NEW l \in RelFileLocator, WriteRow(b, l) PROVE TypeOK'
  <2>1. l.relNumber \in RelNumber /\ GetRelationKeys(b, l) \in Key
    BY <1>5 DEF WriteRow, RelFileLocator
  <2>2. map' \in [Backend -> [rel_id : RelNumber, key : Key] \cup {NoEntry}]
    BY <1>5, <2>1 DEF WriteRow, put_keys_into_map
  <2>3. QED
    BY <1>5, <2>1, <2>2 DEF WriteRow, fileVars, walVars, modeVars
<1>6. ASSUME NEW b \in Backend, Commit(b) PROVE TypeOK'
  <2>1. Unlink(b, TRUE)
    BY <1>6 DEF Commit
  <2>2. /\ disk' \in [RelFileLocator -> FileState]
        /\ durable' \in [RelFileLocator -> FileState]
        /\ pending' \in [Backend -> SUBSET (RelFileLocator \X BOOLEAN)]
    BY <2>1, UnlinkTyped
  <2>3. txn' \in [Backend -> [created : SUBSET RelFileLocator, gone : SUBSET RelFileLocator]]
    BY <1>6 DEF Commit, NoTxn
  <2>4. catalog' \subseteq RelFileLocator
    BY <1>6 DEF Commit
  <2>5. flushed' = Len(wal') /\ redo' \in 0..flushed'
    BY <1>6 DEF Commit
  <2>6. QED
    BY <1>6, <2>2, <2>3, <2>4, <2>5 DEF Commit, modeVars
<1>7. ASSUME NEW b \in Backend, Abort(b) PROVE TypeOK'
  <2>1. Unlink(b, FALSE)
    BY <1>7 DEF Abort
  <2>2. /\ disk' \in [RelFileLocator -> FileState]
        /\ durable' \in [RelFileLocator -> FileState]
        /\ pending' \in [Backend -> SUBSET (RelFileLocator \X BOOLEAN)]
    BY <2>1, UnlinkTyped
  <2>3. QED
    BY <1>7, <2>2 DEF Abort, walVars, modeVars, NoTxn
<1>8. ASSUME NEW b \in Backend, WriteFails(b) PROVE TypeOK'
  <2>1. Torn \in FileState /\ NoKey \in FileState
    BY DEF Torn, NoKey, FileState
  <2>2. creating[b].loc \in RelFileLocator
    BY <1>8 DEF WriteFails, Creation
  <2>3. disk' \in [RelFileLocator -> FileState] /\ durable' \in [RelFileLocator -> FileState]
    <3> DEFINE l == creating[b].loc
               gone == {m \in RelFileLocator : <<m, FALSE>> \in pending[b]}
    <3>1. PICK left \in {disk[l], Torn} :
            /\ disk' = [m \in RelFileLocator |-> IF m = l THEN left
                                                  ELSE IF m \in gone THEN NoKey ELSE disk[m]]
            /\ durable' = [m \in RelFileLocator |-> IF m \in gone THEN NoKey ELSE durable[m]]
      BY <1>8 DEF WriteFails
    <3>2. left \in FileState
      BY <2>1, <2>2, <3>1
    <3> HIDE DEF gone
    <3>3. QED
      BY <2>1, <3>1, <3>2
  <2>4. QED
    BY <1>8, <2>3 DEF WriteFails, walVars, modeVars, NoTxn
<1>9. ASSUME NEW b \in Backend, Disconnect(b) PROVE TypeOK'
  BY <1>9 DEF Disconnect, fileVars, walVars, modeVars
<1>10. ASSUME NEW l \in RelFileLocator, OSWriteback(l) PROVE TypeOK'
  BY <1>10 DEF OSWriteback, walVars, modeVars, backendVars
<1>11. CASE Checkpoint
  BY <1>11 DEF Checkpoint, fileVars, modeVars, backendVars
<1>12. CASE Crash
  <2>1. PICK n \in flushed..Len(wal) : wal' = SubSeq(wal, 1, n) /\ flushed' = n
    BY <1>12 DEF Crash
  <2>2. n \in 0..Len(wal) /\ redo <= n
    BY <2>1
  <2>3. wal' \in Seq(Record) /\ Len(wal') = n
    BY <2>1, <2>2
  <2>4. disk' \in [RelFileLocator -> FileState]
    BY <1>12 DEF Crash
  <2>5. /\ map' \in [Backend -> [rel_id : RelNumber, key : Key] \cup {NoEntry}]
        /\ pending' \in [Backend -> SUBSET (RelFileLocator \X BOOLEAN)]
        /\ creating' \in [Backend -> Creation \cup {NoCreation}]
        /\ txn' \in [Backend -> [created : SUBSET RelFileLocator, gone : SUBSET RelFileLocator]]
    BY <1>12 DEF Crash, NoTxn
  <2>6. QED
    BY <1>12, <2>1, <2>2, <2>3, <2>4, <2>5 DEF Crash
<1>13. CASE pg_tde_xlog_create_fork
  <2>1. replay + 1 \in 1..Len(wal)
    BY <1>13 DEF pg_tde_xlog_create_fork
  <2>3. disk' \in [RelFileLocator -> FileState]
    <3>1. wal[replay + 1].loc \in RelFileLocator /\ wal[replay + 1].key \in FileState
      BY <2>1, RecordTyped, KeyIsState
    <3>2. QED
      BY <1>13, <3>1 DEF pg_tde_xlog_create_fork, RedoWrite
  <2>4. QED
    BY <1>13, <2>1, <2>3 DEF pg_tde_xlog_create_fork, walVars, backendVars
<1>14. CASE EndRecovery
  BY <1>14 DEF EndRecovery, LogPositions, fileVars, backendVars
<1>15. CASE UNCHANGED vars
  BY <1>15 DEF vars, fileVars, walVars, modeVars, backendVars
<1>16. QED
  BY <1>1, <1>2, <1>3, <1>4, <1>5, <1>6, <1>7, <1>8, <1>9, <1>10, <1>11, <1>12, <1>13,
     <1>14, <1>15
  DEF Next

-----------------------------------------------------------------------------
(* One lemma per action: it preserves what the invariant says of numbers,   *)
(* keys, creators and files, as long as relNumbers are not reused.          *)

(* The new relNumber is in use nowhere, and the new record is the last.     *)
LEMMA CreateInv ==
  ASSUME TypeOK, TypeOK', NumbersInv, ~env.reuseNumber,
         NEW b \in Backend, NEW l \in RelFileLocator,
         NEW old \in RelFileLocator \cup {NoLocator}, pg_tde_create_key_fork(b, l, old)
  PROVE  NumbersInv'
<1>1. /\ NumbersUsed /\ NumbersUnique /\ KeysAgree /\ Creators /\ Takers
      /\ PendingAnswered /\ CommittedFlushed /\ FilesKept /\ RecordsExist
  BY DEF NumbersInv
<1>2. /\ l.relNumber \notin usedNumbers /\ usedNumbers' = usedNumbers \cup {l.relNumber}
      /\ l \notin catalog /\ creating[b] = NoCreation /\ mode = "up"
      /\ \A c \in Backend : l \notin txn[c].created /\ creating[c].loc # l
      /\ old # NoLocator => /\ old \in catalog \cup txn[b].created
                            /\ \A c \in Backend : old \notin txn[c].gone /\ creating[c].old # old
  BY DEF pg_tde_create_key_fork, FreeLocator, Idle, Visible
<1>3. /\ creating' = [creating EXCEPT ![b] = [loc |-> l, key |-> lastKey', old |-> old]]
      /\ creating'[b] = [loc |-> l, key |-> lastKey', old |-> old]
      /\ \A c \in Backend : c # b => creating'[c] = creating[c]
  BY DEF pg_tde_create_key_fork, TypeOK
<1>4. /\ creating'[b].loc = l /\ creating'[b].key = lastKey' /\ creating'[b].old = old
  BY <1>3
<1>5. /\ Len(wal') = Len(wal) + 1 /\ Len(wal) \in Nat
      /\ \A i \in 1..Len(wal) : wal'[i] = wal[i]
      /\ wal'[Len(wal) + 1].loc = l /\ wal'[Len(wal) + 1].key = lastKey'
      /\ \A i \in 1..Len(wal') : i \in 1..Len(wal) \/ i = Len(wal) + 1
  BY DEF pg_tde_create_key_fork, TypeOK
<1>6. /\ UNCHANGED <<env, disk, durable, map, pending, txn, catalog, flushed, redo, mode, replay>>
      /\ pages' = [pages EXCEPT ![l] = {}]
  BY DEF pg_tde_create_key_fork, fileVars, modeVars
<1>7. \A i \in 1..Len(wal) : wal[i].loc \in RelFileLocator /\ wal[i].key \in Key
  BY RecordTyped
<1>8. \A m \in RelFileLocator : (Live(m))' <=> Live(m)
  BY <1>6 DEF Live
<1>9. ~Known(l) /\ \A m \in RelFileLocator : (Known(m))' <=> (Known(m) \/ m = l)
  BY <1>2, <1>3, <1>4, <1>8, NoLocatorFacts DEF Known, Live
<1>10. \A i \in 1..Len(wal) : wal[i].loc # l /\ wal[i].loc.relNumber # l.relNumber
  BY <1>1, <1>2 DEF NumbersUsed
<1>11. NumbersUsed'
  BY <1>1, <1>2, <1>5, <1>6, <1>9 DEF NumbersUsed
<1>12. NumbersUnique'
  <2>1. \A m \in RelFileLocator : Known(m) => m.relNumber # l.relNumber
    BY <1>1, <1>2 DEF NumbersUsed
  <2>2. QED
    BY <1>1, <1>5, <1>7, <1>9, <1>10, <2>1, SMTT(30) DEF NumbersUnique
<1>13. KeysAgree'
  <2>1. ASSUME NEW i \in 1..Len(wal)
        PROVE  /\ pages'[wal'[i].loc] \subseteq {wal'[i].key}
               /\ disk'[wal'[i].loc] \in Key => disk'[wal'[i].loc] = wal'[i].key
               /\ durable'[wal'[i].loc] \in Key => durable'[wal'[i].loc] = wal'[i].key
               /\ \A c \in Backend :
                    map'[c].rel_id = wal'[i].loc.relNumber => map'[c].key = wal'[i].key
    BY SMTT(30), <1>1, <1>5, <1>6, <1>7, <1>10 DEF KeysAgree, TypeOK
  <2>2. pages'[l] = {} /\ disk'[l] \notin Key /\ durable'[l] \notin Key
    BY <1>1, <1>2, <1>6, KeyIsState DEF NumbersUsed, TypeOK
  <2>3. \A c \in Backend : map'[c].rel_id # l.relNumber
    <3>1. l.relNumber \in RelNumber
      BY DEF RelFileLocator
    <3>2. QED
      BY <1>1, <1>2, <1>6, <3>1, TdeMapAssumption DEF NumbersUsed, NoEntry
  <2>4. QED
    BY <1>5, <2>1, <2>2, <2>3 DEF KeysAgree
<1>14. Creators'
  <2>1. Len(wal) + 1 \in 1..Len(wal')
    BY <1>5
  <2>2. \A c \in Backend : creating'[c] # NoCreation =>
          \E i \in 1..Len(wal') : wal'[i].loc = creating'[c].loc /\ wal'[i].key = creating'[c].key
    <3> SUFFICES ASSUME NEW c \in Backend, creating'[c] # NoCreation
                 PROVE  \E i \in 1..Len(wal') :
                          wal'[i].loc = creating'[c].loc /\ wal'[i].key = creating'[c].key
      OBVIOUS
    <3>1. CASE c = b
      BY <1>4, <1>5, <2>1, <3>1
    <3>2. CASE c # b
      BY <1>1, <1>3, <1>5, <3>2 DEF Creators
    <3>3. QED
      BY <3>1, <3>2
  <2>3. \A c, d \in Backend : creating'[c] # NoCreation =>
          /\ creating'[c].loc \notin catalog
          /\ creating'[c].loc \notin txn[d].created
          /\ c # d => creating'[c].loc # creating'[d].loc
    BY <1>1, <1>2, <1>3, <1>4, NoLocatorFacts DEF Creators
  <2>4. QED
    BY <1>1, <1>6, <2>2, <2>3 DEF Creators
<1>15. Takers'
  BY <1>1, <1>2, <1>3, <1>4, <1>6, NoLocatorFacts DEF Takers
<1>16. PendingAnswered'
  BY <1>1, <1>6 DEF PendingAnswered
<1>17. CommittedFlushed'
  BY <1>1, <1>2, <1>5, <1>6 DEF CommittedFlushed
<1>18. FilesKept'
  BY <1>1, <1>5, <1>6, <1>7, <1>8, <1>9 DEF FilesKept, Known
<1>19. RecordsExist'
  BY <1>1, <1>5, <1>6, <1>8 DEF RecordsExist
<1>20. QED
  BY <1>11, <1>12, <1>13, <1>14, <1>15, <1>16, <1>17, <1>18, <1>19 DEF NumbersInv

(* The file gets the key of the one record that has its locator.            *)
LEMMA WriteForkInv ==
  ASSUME TypeOK, TypeOK', NumbersInv, ~env.reuseNumber,
         NEW b \in Backend, pg_tde_write_key_fork(b)
  PROVE  NumbersInv'
<1>1. /\ NumbersUsed /\ NumbersUnique /\ KeysAgree /\ Creators /\ Takers
      /\ PendingAnswered /\ CommittedFlushed /\ FilesKept /\ RecordsExist
  BY DEF NumbersInv
<1> DEFINE l == creating[b].loc
           k == creating[b].key
           old == creating[b].old
<1>2. /\ creating[b] # NoCreation /\ mode = "up"
      /\ l \in RelFileLocator /\ k \in Key /\ old \in RelFileLocator \cup {NoLocator}
      /\ l.relNumber \in RelNumber
  BY DEF pg_tde_write_key_fork, TypeOK, Creation, RelFileLocator
<1>3. /\ disk' = [disk EXCEPT ![l] = k]
      /\ pending' = [pending EXCEPT ![b] = @ \cup {<<l, FALSE>>}]
      /\ map' = [map EXCEPT ![b] = [rel_id |-> l.relNumber, key |-> k]]
      /\ txn' = [txn EXCEPT ![b] = [created |-> @.created \cup {l},
                                     gone |-> @.gone \cup ({old} \ {NoLocator})]]
      /\ creating' = [creating EXCEPT ![b] = NoCreation]
      /\ UNCHANGED <<env, durable, wal, flushed, redo, mode, replay, catalog, pages, lastKey,
                     usedNumbers>>
  BY DEF pg_tde_write_key_fork, put_keys_into_map, walVars, modeVars
<1>4. /\ disk'[l] = k /\ \A m \in RelFileLocator : m # l => disk'[m] = disk[m]
      /\ map'[b].rel_id = l.relNumber /\ map'[b].key = k
      /\ txn'[b].created = txn[b].created \cup {l}
      /\ txn'[b].gone = txn[b].gone \cup ({old} \ {NoLocator})
      /\ creating'[b] = NoCreation
      /\ creating'[b].loc = NoLocator /\ creating'[b].old = NoLocator
      /\ \A c \in Backend : c # b =>
           /\ map'[c] = map[c] /\ txn'[c] = txn[c] /\ creating'[c] = creating[c]
  BY <1>2, <1>3 DEF TypeOK, NoCreation
<1>5. \A c \in Backend : /\ pending'[c] \subseteq pending[c] \cup {<<l, FALSE>>}
                         /\ c # b => pending'[c] = pending[c]
  BY <1>3 DEF TypeOK
<1>6. PICK r \in 1..Len(wal) : wal[r].loc = l /\ wal[r].key = k
  BY <1>1, <1>2 DEF Creators
<1>7. \A i \in 1..Len(wal) : wal[i].loc \in RelFileLocator /\ wal[i].key \in Key
  BY RecordTyped
<1>8. \A i \in 1..Len(wal) : wal[i].loc.relNumber = l.relNumber => i = r
  BY <1>1, <1>6 DEF NumbersUnique
<1>9. \A m \in RelFileLocator : (Live(m))' <=> (Live(m) \/ m = l)
  BY <1>3, <1>4 DEF Live
<1>10. \A m \in RelFileLocator : (Known(m))' <=> Known(m)
  BY <1>4, <1>9, NoLocatorFacts DEF Known
<1>11. Known(l)
  BY DEF Known
<1> HIDE DEF l, k, old
<1>12. NumbersUsed'
  BY <1>1, <1>2, <1>3, <1>4, <1>10, <1>11 DEF NumbersUsed
<1>13. NumbersUnique'
  BY <1>1, <1>3, <1>10 DEF NumbersUnique
<1>14. KeysAgree'
  <2>0. UNCHANGED <<wal, durable, pages>>
    BY <1>3
  <2>1. ASSUME NEW i \in 1..Len(wal)
        PROVE  /\ pages[wal[i].loc] \subseteq {wal[i].key}
               /\ disk'[wal[i].loc] \in Key => disk'[wal[i].loc] = wal[i].key
               /\ durable[wal[i].loc] \in Key => durable[wal[i].loc] = wal[i].key
    BY <1>1, <1>4, <1>6, <1>7, <1>8 DEF KeysAgree
  <2>2. ASSUME NEW i \in 1..Len(wal), NEW c \in Backend, map'[c].rel_id = wal[i].loc.relNumber
        PROVE  map'[c].key = wal[i].key
    BY <1>1, <1>4, <1>6, <1>8, <2>2 DEF KeysAgree
  <2>3. QED
    BY ONLY <2>0, <2>1, <2>2, SMTT(30) DEF KeysAgree
<1>15. Creators'
  <2>1. l \notin catalog /\ \A c \in Backend : l \notin txn[c].created
    BY <1>1, <1>2 DEF Creators, l
  <2>2. \A c \in Backend : c # b /\ creating[c] # NoCreation => creating[c].loc # l
    BY <1>1, <1>2 DEF Creators, l
  <2>3. \A c \in Backend : /\ txn'[c].created \cap catalog = {}
                             /\ \A d \in Backend : c # d => txn'[c].created \cap txn'[d].created = {}
    BY <1>1, <1>4, <2>1 DEF Creators
  <2>4. ASSUME NEW c \in Backend, creating'[c] # NoCreation
        PROVE  /\ creating'[c].loc \notin catalog
               /\ \E i \in 1..Len(wal) :
                    wal[i].loc = creating'[c].loc /\ wal[i].key = creating'[c].key
               /\ \A d \in Backend :
                    /\ creating'[c].loc \notin txn'[d].created
                    /\ c # d => creating'[c].loc # creating'[d].loc
    <3>1. c # b /\ creating'[c] = creating[c]
      BY <1>4, <2>4
    <3>2. creating[c].loc \in RelFileLocator
      BY <2>4, <3>1 DEF TypeOK, Creation
    <3>3. QED
      BY <1>1, <1>4, <2>2, <2>4, <3>1, <3>2, NoLocatorFacts DEF Creators
  <2>5. QED
    BY <1>3, <2>3, <2>4 DEF Creators
<1>16. Takers'
  <2>1. old # NoLocator => /\ old \in catalog \cup txn[b].created
                           /\ \A c \in Backend : c # b => old \notin txn[c].gone /\ creating[c].old # old
    BY <1>1, <1>2 DEF Takers, old
  <2>3. \A c \in Backend : creating[c].old = NoLocator \/ creating[c].old \in RelFileLocator
    BY SMTT(30) DEF TypeOK, Creation, NoCreation
  <2>4. \A c \in Backend : NoLocator \notin txn'[c].gone
    BY NoLocatorFacts DEF TypeOK
  <2>5. QED
    BY <1>1, <1>3, <1>4, <2>1, <2>3, <2>4 DEF Takers
<1>17. PendingAnswered'
  <2>1. \A m \in RelFileLocator : <<m, TRUE>> # <<l, FALSE>> /\ (<<m, FALSE>> = <<l, FALSE>> => m = l)
    OBVIOUS
  <2>2. QED
    BY <1>1, <1>4, <1>5, <2>1 DEF PendingAnswered
<1>18. CommittedFlushed'
  BY <1>1, <1>3 DEF CommittedFlushed
<1>19. FilesKept'
  BY <1>1, <1>3, <1>4, <1>6, <1>7, <1>8, <1>9 DEF FilesKept
<1>20. RecordsExist'
  BY <1>1, <1>3, <1>6, <1>9 DEF RecordsExist
<1>21. QED
  BY <1>12, <1>13, <1>14, <1>15, <1>16, <1>17, <1>18, <1>19, <1>20 DEF NumbersInv

(* A drop takes away what nobody else has taken away.                       *)
LEMMA DeleteInv ==
  ASSUME TypeOK, TypeOK', NumbersInv, ~env.reuseNumber,
         NEW b \in Backend, NEW l \in RelFileLocator, pg_tde_delete_key_fork(b, l)
  PROVE  NumbersInv'
<1>1. /\ NumbersUsed /\ NumbersUnique /\ KeysAgree /\ Creators /\ Takers
      /\ PendingAnswered /\ CommittedFlushed /\ FilesKept /\ RecordsExist
  BY DEF NumbersInv
<1>2. /\ creating[b] = NoCreation
      /\ l \in catalog \cup txn[b].created
      /\ \A c \in Backend : l \notin txn[c].gone /\ creating[c].old # l
  BY DEF pg_tde_delete_key_fork, Idle, Visible
<1>3. /\ pending' = [pending EXCEPT ![b] = @ \cup {<<l, TRUE>>}]
      /\ txn' = [txn EXCEPT ![b] = [created |-> @.created, gone |-> @.gone \cup {l}]]
      /\ UNCHANGED <<env, disk, durable, wal, flushed, redo, mode, replay, map, creating, catalog,
                     pages, usedNumbers>>
  BY DEF pg_tde_delete_key_fork, fileVars, walVars, modeVars
<1>4. /\ txn'[b].gone = txn[b].gone \cup {l}
      /\ \A c \in Backend : txn'[c].created = txn[c].created
      /\ \A c \in Backend : c # b => txn'[c].gone = txn[c].gone
  BY <1>3 DEF TypeOK
<1>5. \A c \in Backend : /\ pending'[c] \subseteq pending[c] \cup {<<l, TRUE>>}
                         /\ c # b => pending'[c] = pending[c]
  BY <1>3 DEF TypeOK
<1>6. \A m \in RelFileLocator : ((Live(m))' <=> Live(m)) /\ ((Known(m))' <=> Known(m))
  BY <1>3, <1>4 DEF Live, Known
<1>7. \A i \in 1..Len(wal) : wal[i].loc \in RelFileLocator
  BY RecordTyped
<1>8. NumbersUsed' /\ NumbersUnique'
  BY <1>1, <1>3, <1>6 DEF NumbersUsed, NumbersUnique
<1>9. KeysAgree' /\ CommittedFlushed'
  BY <1>1, <1>3 DEF KeysAgree, CommittedFlushed
<1>10. Creators'
  BY <1>1, <1>3, <1>4 DEF Creators
<1>11. Takers'
  <2>1. creating[b].old = NoLocator
    BY <1>2, NoLocatorFacts
  <2>2. QED
    BY <1>1, <1>2, <1>3, <1>4, <2>1 DEF Takers
<1>12. PendingAnswered'
  <2>1. \A m \in RelFileLocator : <<m, FALSE>> # <<l, TRUE>> /\ (<<m, TRUE>> = <<l, TRUE>> => m = l)
    OBVIOUS
  <2>2. QED
    BY <1>1, <1>4, <1>5, <2>1 DEF PendingAnswered
<1>13. FilesKept' /\ RecordsExist'
  BY <1>1, <1>3, <1>6, <1>7 DEF FilesKept, RecordsExist
<1>14. QED
  BY <1>8, <1>9, <1>10, <1>11, <1>12, <1>13 DEF NumbersInv

(* The copy has a number no record and no file has.                         *)
LEMMA CopyDataInv ==
  ASSUME TypeOK, TypeOK', NumbersInv, ~env.reuseNumber,
         NEW b \in Backend, NEW l \in RelFileLocator, NEW new \in RelFileLocator,
         pg_tdeam_relation_copy_data(b, l, new)
  PROVE  NumbersInv'
<1>1. /\ NumbersUsed /\ NumbersUnique /\ KeysAgree /\ Creators /\ Takers
      /\ PendingAnswered /\ CommittedFlushed /\ FilesKept /\ RecordsExist
  BY DEF NumbersInv
<1>2. /\ env.moveSpace /\ creating[b] = NoCreation
      /\ l \in catalog \cup txn[b].created
      /\ \A c \in Backend : l \notin txn[c].gone /\ creating[c].old # l
      /\ new.relNumber \notin usedNumbers /\ new \notin catalog
      /\ \A c \in Backend : new \notin txn[c].created /\ creating[c].loc # new
  BY DEF pg_tdeam_relation_copy_data, Idle, Visible, FreeLocator
<1>3. /\ pages' = [pages EXCEPT ![new] = pages[l]]
      /\ usedNumbers' = usedNumbers \cup {new.relNumber}
      /\ txn' = [txn EXCEPT ![b] = [created |-> @.created \cup {new}, gone |-> @.gone \cup {l}]]
      /\ UNCHANGED <<env, disk, durable, wal, flushed, redo, mode, replay, map, pending, creating,
                     catalog>>
  BY DEF pg_tdeam_relation_copy_data, fileVars, walVars, modeVars
<1>4. /\ txn'[b].gone = txn[b].gone \cup {l} /\ txn'[b].created = txn[b].created \cup {new}
      /\ \A c \in Backend : c # b => txn'[c] = txn[c]
      /\ \A m \in RelFileLocator : m # new => pages'[m] = pages[m]
  BY <1>3 DEF TypeOK
<1>5. \A m \in RelFileLocator : (Live(m))' <=> (Live(m) \/ m = new)
  BY <1>3, <1>4 DEF Live
<1>6. \A m \in RelFileLocator : (Known(m))' <=> (Known(m) \/ m = new)
  BY <1>3, <1>5 DEF Known
<1>7. \A i \in 1..Len(wal) :
        wal[i].loc \in RelFileLocator /\ wal[i].loc # new /\ wal[i].loc.relNumber # new.relNumber
  BY <1>1, <1>2, RecordTyped DEF NumbersUsed
<1>8. NumbersUsed'
  BY <1>1, <1>3, <1>6 DEF NumbersUsed
<1>9. NumbersUnique'
  BY <1>1, <1>3, <1>6, <1>7 DEF NumbersUnique
<1>10. KeysAgree' /\ CommittedFlushed'
  BY <1>1, <1>3, <1>4, <1>7 DEF KeysAgree, CommittedFlushed
<1>11. Creators'
  BY <1>1, <1>2, <1>3, <1>4 DEF Creators
<1>12. Takers'
  <2>1. creating[b].old = NoLocator
    BY <1>2, NoLocatorFacts
  <2>2. QED
    BY <1>1, <1>2, <1>3, <1>4, <2>1 DEF Takers
<1>13. PendingAnswered'
  BY <1>1, <1>3, <1>4 DEF PendingAnswered
<1>14. FilesKept' /\ RecordsExist'
  BY <1>1, <1>2, <1>3, <1>5, <1>7 DEF FilesKept, RecordsExist
<1>15. QED
  BY <1>8, <1>9, <1>10, <1>11, <1>12, <1>13, <1>14 DEF NumbersInv

(* Cached or read, the key is the record's.                                 *)
LEMMA WriteRowInv ==
  ASSUME TypeOK, TypeOK', NumbersInv, ~env.reuseNumber,
         NEW b \in Backend, NEW l \in RelFileLocator, WriteRow(b, l)
  PROVE  NumbersInv'
<1>1. /\ NumbersUsed /\ NumbersUnique /\ KeysAgree /\ Creators /\ Takers
      /\ PendingAnswered /\ CommittedFlushed /\ FilesKept /\ RecordsExist
  BY DEF NumbersInv
<1> DEFINE k == GetRelationKeys(b, l)
<1>2. k \in Key /\ l \in catalog \cup txn[b].created
  BY DEF WriteRow, Visible
<1>3. /\ pages' = [pages EXCEPT ![l] = @ \cup {k}]
      /\ map' = [map EXCEPT ![b] = [rel_id |-> l.relNumber, key |-> k]]
      /\ UNCHANGED <<env, disk, durable, wal, flushed, redo, mode, replay, pending, creating, txn,
                     catalog, usedNumbers>>
  BY DEF WriteRow, put_keys_into_map, fileVars, walVars, modeVars
<1>4. Known(l)
  BY <1>2 DEF Known, Live
<1>5. \A m \in RelFileLocator : ((Live(m))' <=> Live(m)) /\ ((Known(m))' <=> Known(m))
  BY <1>3 DEF Live, Known
<1>6. \A i \in 1..Len(wal) : wal[i].loc \in RelFileLocator /\ wal[i].key \in Key
  BY RecordTyped
<1>7. \A i \in 1..Len(wal) : wal[i].loc.relNumber = l.relNumber => wal[i].loc = l /\ k = wal[i].key
  BY <1>1, <1>2, <1>4, <1>6 DEF NumbersUnique, KeysAgree, GetRelationKeys, CacheHit
<1>8. /\ pages'[l] = pages[l] \cup {k} /\ \A m \in RelFileLocator : m # l => pages'[m] = pages[m]
      /\ map'[b].rel_id = l.relNumber /\ map'[b].key = k
      /\ \A c \in Backend : c # b => map'[c] = map[c]
      /\ l.relNumber \in usedNumbers
  BY <1>1, <1>3, <1>4 DEF TypeOK, NumbersUsed
<1> HIDE DEF k
<1>9. NumbersUsed' /\ NumbersUnique'
  BY <1>1, <1>3, <1>4, <1>5, <1>8 DEF NumbersUsed, NumbersUnique
<1>10. KeysAgree'
  <2>0. UNCHANGED <<wal, durable, disk>>
    BY <1>3
  <2>1. ASSUME NEW i \in 1..Len(wal)
        PROVE  /\ pages'[wal[i].loc] \subseteq {wal[i].key}
               /\ disk[wal[i].loc] \in Key => disk[wal[i].loc] = wal[i].key
               /\ durable[wal[i].loc] \in Key => durable[wal[i].loc] = wal[i].key
    BY <1>1, <1>6, <1>7, <1>8 DEF KeysAgree
  <2>2. ASSUME NEW i \in 1..Len(wal), NEW c \in Backend, map'[c].rel_id = wal[i].loc.relNumber
        PROVE  map'[c].key = wal[i].key
    BY <1>1, <1>7, <1>8, <2>2 DEF KeysAgree
  <2>3. QED
    BY ONLY <2>0, <2>1, <2>2, SMTT(30) DEF KeysAgree
<1>11. Creators' /\ Takers' /\ PendingAnswered' /\ CommittedFlushed'
  BY <1>1, <1>3 DEF Creators, Takers, PendingAnswered, CommittedFlushed
<1>12. FilesKept' /\ RecordsExist'
  BY <1>1, <1>3, <1>5, <1>6 DEF FilesKept, RecordsExist
<1>13. QED
  BY <1>9, <1>10, <1>11, <1>12 DEF NumbersInv

(* Unlinking touches only what the list names for this end.                 *)
LEMMA UnlinkEffect ==
  ASSUME TypeOK, NEW b \in Backend, NEW isCommit \in BOOLEAN, Unlink(b, isCommit)
  PROVE  /\ \A m \in RelFileLocator :
              /\ <<m, isCommit>> \in pending[b] => disk'[m] = NoKey /\ durable'[m] = NoKey
              /\ <<m, isCommit>> \notin pending[b] => disk'[m] = disk[m] /\ durable'[m] = durable[m]
         /\ pending'[b] = {}
         /\ \A c \in Backend : c # b => pending'[c] = pending[c]
  BY DEF TypeOK, Unlink

(* What a commit unlinks the transaction has taken away, so that it is no   *)
(* relation's any more; what it created has its record flushed.             *)
LEMMA CommitInv ==
  ASSUME TypeOK, TypeOK', NumbersInv, NEW b \in Backend, Commit(b)
  PROVE  NumbersInv'
<1>1. /\ NumbersUsed /\ NumbersUnique /\ KeysAgree /\ Creators /\ Takers
      /\ PendingAnswered /\ CommittedFlushed /\ FilesKept /\ RecordsExist
  BY DEF NumbersInv
<1>2. creating[b] = NoCreation /\ creating[b].old = NoLocator
  BY NoLocatorFacts DEF Commit, Idle, NoCreation
<1>3. /\ flushed' = Len(wal) /\ catalog' = (catalog \cup txn[b].created) \ txn[b].gone
      /\ txn' = [txn EXCEPT ![b] = NoTxn]
      /\ UNCHANGED <<env, wal, redo, mode, replay, map, creating, pages, usedNumbers>>
  BY DEF Commit, modeVars
<1>4. /\ txn'[b].created = {} /\ txn'[b].gone = {}
      /\ \A c \in Backend : c # b => txn'[c] = txn[c]
  BY <1>3 DEF TypeOK, NoTxn
<1>5. /\ \A m \in RelFileLocator :
           /\ \/ disk'[m] = NoKey /\ durable'[m] = NoKey
              \/ disk'[m] = disk[m] /\ durable'[m] = durable[m]
           /\ m \notin txn[b].gone => disk'[m] = disk[m] /\ durable'[m] = durable[m]
      /\ pending'[b] = {}
      /\ \A c \in Backend : c # b => pending'[c] = pending[c]
  <2>1. Unlink(b, TRUE)
    BY DEF Commit
  <2>2. QED
    BY <1>1, <2>1, UnlinkEffect DEF PendingAnswered
<1>6. \A i \in 1..Len(wal) : wal[i].loc \in RelFileLocator
  BY RecordTyped
<1>7. \A m \in RelFileLocator : (Live(m))' => Live(m) /\ m \notin txn[b].gone
  <2> SUFFICES ASSUME NEW m \in RelFileLocator, (Live(m))' PROVE Live(m) /\ m \notin txn[b].gone
    OBVIOUS
  <2>1. CASE m \in catalog'
    BY <1>3, <2>1 DEF Live
  <2>2. ASSUME NEW c \in Backend, m \in txn'[c].created PROVE Live(m) /\ m \notin txn[b].gone
    BY <1>1, <1>4, <2>2 DEF Live, Creators, Takers
  <2>3. QED
    BY <2>1, <2>2 DEF Live
<1>8. \A m \in RelFileLocator : (Known(m))' => Known(m)
  BY <1>3, <1>7 DEF Known
<1>9. NumbersUsed'
  BY <1>1, <1>3, <1>5, <1>8 DEF NumbersUsed
<1>10. NumbersUnique'
  BY <1>1, <1>3, <1>8 DEF NumbersUnique
<1>11. KeysAgree'
  BY <1>1, <1>3, <1>5, <1>6, KeyIsState DEF KeysAgree
<1>12. Creators'
  BY <1>1, <1>2, <1>3, <1>4 DEF Creators
<1>13. Takers'
  BY <1>1, <1>2, <1>3, <1>4 DEF Takers
<1>14. PendingAnswered'
  BY <1>1, <1>4, <1>5 DEF PendingAnswered
<1>15. CommittedFlushed'
  BY <1>3 DEF CommittedFlushed
<1>16. FilesKept'
  BY <1>1, <1>3, <1>5, <1>6, <1>7 DEF FilesKept
<1>17. RecordsExist'
  BY <1>1, <1>3, <1>7 DEF RecordsExist
<1>18. QED
  BY <1>9, <1>10, <1>11, <1>12, <1>13, <1>14, <1>15, <1>16, <1>17 DEF NumbersInv

(* What an abort unlinks the transaction created.                           *)
LEMMA AbortInv ==
  ASSUME TypeOK, TypeOK', NumbersInv, NEW b \in Backend, Abort(b)
  PROVE  NumbersInv'
<1>1. /\ NumbersUsed /\ NumbersUnique /\ KeysAgree /\ Creators /\ Takers
      /\ PendingAnswered /\ CommittedFlushed /\ FilesKept /\ RecordsExist
  BY DEF NumbersInv
<1>2. creating[b] = NoCreation /\ creating[b].old = NoLocator
  BY NoLocatorFacts DEF Abort, Idle, NoCreation
<1>3. /\ txn' = [txn EXCEPT ![b] = NoTxn]
      /\ UNCHANGED <<env, wal, flushed, redo, mode, replay, map, creating, catalog, pages, usedNumbers>>
  BY DEF Abort, walVars, modeVars
<1>4. /\ txn'[b].created = {} /\ txn'[b].gone = {}
      /\ \A c \in Backend : c # b => txn'[c] = txn[c]
  BY <1>3 DEF TypeOK, NoTxn
<1>5. /\ \A m \in RelFileLocator :
           /\ \/ disk'[m] = NoKey /\ durable'[m] = NoKey
              \/ disk'[m] = disk[m] /\ durable'[m] = durable[m]
           /\ m \notin txn[b].created => disk'[m] = disk[m] /\ durable'[m] = durable[m]
      /\ pending'[b] = {}
      /\ \A c \in Backend : c # b => pending'[c] = pending[c]
  <2>1. Unlink(b, FALSE)
    BY DEF Abort
  <2>2. QED
    BY <1>1, <2>1, UnlinkEffect DEF PendingAnswered
<1>6. \A i \in 1..Len(wal) : wal[i].loc \in RelFileLocator
  BY RecordTyped
<1>7. \A m \in RelFileLocator : (Live(m))' => Live(m) /\ m \notin txn[b].created
  <2> SUFFICES ASSUME NEW m \in RelFileLocator, (Live(m))' PROVE Live(m) /\ m \notin txn[b].created
    OBVIOUS
  <2>1. CASE m \in catalog'
    BY <1>1, <1>3, <2>1 DEF Live, Creators
  <2>2. ASSUME NEW c \in Backend, m \in txn'[c].created PROVE Live(m) /\ m \notin txn[b].created
    BY <1>1, <1>4, <2>2 DEF Live, Creators
  <2>3. QED
    BY <2>1, <2>2 DEF Live
<1>8. \A m \in RelFileLocator : (Known(m))' => Known(m)
  BY <1>3, <1>7 DEF Known
<1>9. NumbersUsed'
  BY <1>1, <1>3, <1>5, <1>8 DEF NumbersUsed
<1>10. NumbersUnique'
  BY <1>1, <1>3, <1>8 DEF NumbersUnique
<1>11. KeysAgree'
  BY <1>1, <1>3, <1>5, <1>6, KeyIsState DEF KeysAgree
<1>12. Creators'
  BY <1>1, <1>2, <1>3, <1>4 DEF Creators
<1>13. Takers'
  BY <1>1, <1>2, <1>3, <1>4 DEF Takers
<1>14. PendingAnswered'
  BY <1>1, <1>4, <1>5 DEF PendingAnswered
<1>15. CommittedFlushed'
  BY <1>1, <1>3 DEF CommittedFlushed
<1>16. FilesKept'
  BY <1>1, <1>3, <1>5, <1>6, <1>7 DEF FilesKept
<1>17. RecordsExist'
  BY <1>1, <1>3, <1>7 DEF RecordsExist
<1>18. QED
  BY <1>9, <1>10, <1>11, <1>12, <1>13, <1>14, <1>15, <1>16, <1>17 DEF NumbersInv

(* The half-written file is nobody's: its relation never came to be.        *)
LEMMA WriteFailsInv ==
  ASSUME TypeOK, TypeOK', NumbersInv, NEW b \in Backend, WriteFails(b)
  PROVE  NumbersInv'
<1>1. /\ NumbersUsed /\ NumbersUnique /\ KeysAgree /\ Creators /\ Takers
      /\ PendingAnswered /\ CommittedFlushed /\ FilesKept /\ RecordsExist
  BY DEF NumbersInv
<1> DEFINE l == creating[b].loc
<1>2. /\ creating[b] # NoCreation /\ l \in RelFileLocator
      /\ l \notin catalog /\ \A c \in Backend : l \notin txn[c].created
  BY <1>1 DEF WriteFails, TypeOK, Creation, Creators
<1>3. /\ txn' = [txn EXCEPT ![b] = NoTxn] /\ pending' = [pending EXCEPT ![b] = {}]
      /\ creating' = [creating EXCEPT ![b] = NoCreation]
      /\ map' = [map EXCEPT ![b] = NoEntry]
      /\ UNCHANGED <<env, wal, flushed, redo, mode, replay, catalog, pages, usedNumbers>>
  BY DEF WriteFails, walVars, modeVars
<1>4. /\ txn'[b].created = {} /\ txn'[b].gone = {} /\ pending'[b] = {}
      /\ creating'[b] = NoCreation /\ creating'[b].loc = NoLocator /\ creating'[b].old = NoLocator
      /\ map'[b] = NoEntry /\ map'[b].rel_id = "none"
      /\ \A c \in Backend : c # b => /\ txn'[c] = txn[c] /\ pending'[c] = pending[c]
                                     /\ creating'[c] = creating[c] /\ map'[c] = map[c]
  BY <1>3 DEF TypeOK, NoTxn, NoCreation, NoEntry
<1>5. \A m \in RelFileLocator :
        /\ disk'[m] \in {NoKey, Torn, disk[m]} /\ durable'[m] \in {NoKey, durable[m]}
        /\ m \notin txn[b].created => durable'[m] = durable[m]
        /\ m \notin txn[b].created /\ m # l => disk'[m] = disk[m]
  <2> DEFINE gone == {m \in RelFileLocator : <<m, FALSE>> \in pending[b]}
  <2>1. PICK left \in {disk[l], Torn} :
          /\ disk' = [m \in RelFileLocator |-> IF m = l THEN left
                                                ELSE IF m \in gone THEN NoKey ELSE disk[m]]
          /\ durable' = [m \in RelFileLocator |-> IF m \in gone THEN NoKey ELSE durable[m]]
    BY DEF WriteFails
  <2>2. \A m \in gone : m \in txn[b].created
    BY <1>1 DEF PendingAnswered
  <2> HIDE DEF gone, l
  <2>3. QED
    BY <2>1, <2>2
<1>6. \A i \in 1..Len(wal) : wal[i].loc \in RelFileLocator /\ wal[i].loc.relNumber \in RelNumber
  BY RecordTyped
<1>7. \A m \in RelFileLocator : (Live(m))' => Live(m) /\ m \notin txn[b].created /\ m # l
  <2> SUFFICES ASSUME NEW m \in RelFileLocator, (Live(m))'
               PROVE  Live(m) /\ m \notin txn[b].created /\ m # l
    OBVIOUS
  <2>1. CASE m \in catalog'
    BY <1>1, <1>2, <1>3, <2>1 DEF Live, Creators
  <2>2. ASSUME NEW c \in Backend, m \in txn'[c].created
        PROVE  Live(m) /\ m \notin txn[b].created /\ m # l
    BY <1>1, <1>2, <1>4, <2>2 DEF Live, Creators
  <2>3. QED
    BY <2>1, <2>2 DEF Live
<1>8. \A m \in RelFileLocator : (Known(m))' => Known(m)
  BY <1>4, <1>7, NoLocatorFacts DEF Known
<1>9. Known(l)
  BY DEF Known
<1> HIDE DEF l
<1>10. NumbersUsed'
  <2>1. l.relNumber \in usedNumbers /\ \A m \in txn[b].created : m.relNumber \in usedNumbers
    BY <1>1, <1>2, <1>9 DEF NumbersUsed, Known, Live, TypeOK
  <2>2. \A m \in RelFileLocator :
          m.relNumber \notin usedNumbers => disk'[m] = NoKey /\ durable'[m] = NoKey
    BY <1>1, <1>5, <2>1 DEF NumbersUsed
  <2>3. QED
    BY <1>1, <1>3, <1>4, <1>8, <2>2 DEF NumbersUsed
<1>11. NumbersUnique'
  BY <1>1, <1>3, <1>8 DEF NumbersUnique
<1>12. KeysAgree'
  <2>1. ASSUME NEW i \in 1..Len(wal)
        PROVE  /\ pages[wal[i].loc] \subseteq {wal[i].key}
               /\ disk'[wal[i].loc] \in Key => disk'[wal[i].loc] = wal[i].key
               /\ durable'[wal[i].loc] \in Key => durable'[wal[i].loc] = wal[i].key
    BY <1>1, <1>5, <1>6, KeyIsState DEF KeysAgree
  <2>2. ASSUME NEW i \in 1..Len(wal), NEW c \in Backend, map'[c].rel_id = wal[i].loc.relNumber
        PROVE  map'[c].key = wal[i].key
    BY <1>1, <1>4, <1>6, <2>2, TdeMapAssumption DEF KeysAgree
  <2>3. UNCHANGED <<wal, pages>>
    BY <1>3
  <2>4. QED
    BY <2>1, <2>2, <2>3 DEF KeysAgree
<1>13. Creators'
  <2>1. ASSUME NEW c \in Backend, creating'[c] # NoCreation
        PROVE  /\ creating'[c].loc \notin catalog
               /\ \E i \in 1..Len(wal) :
                    wal[i].loc = creating'[c].loc /\ wal[i].key = creating'[c].key
               /\ \A d \in Backend :
                    /\ creating'[c].loc \notin txn'[d].created
                    /\ c # d => creating'[c].loc # creating'[d].loc
    <3>1. c # b /\ creating'[c] = creating[c]
      BY <1>4, <2>1
    <3>2. creating[c].loc \in RelFileLocator
      BY <2>1, <3>1 DEF TypeOK, Creation
    <3>3. QED
      BY <1>1, <1>4, <2>1, <3>1, <3>2, NoLocatorFacts DEF Creators
  <2>2. \A c \in Backend : /\ txn'[c].created \cap catalog = {}
                             /\ \A d \in Backend : c # d => txn'[c].created \cap txn'[d].created = {}
    BY <1>1, <1>4 DEF Creators
  <2>3. QED
    BY <1>3, <2>1, <2>2 DEF Creators
<1>14. Takers'
  <2>1. \A c \in Backend : creating[c].old = NoLocator \/ creating[c].old \in RelFileLocator
    BY SMTT(30) DEF TypeOK, Creation, NoCreation
  <2>2. \A c \in Backend : NoLocator \notin txn'[c].gone
    BY NoLocatorFacts DEF TypeOK
  <2>3. QED
    BY <1>1, <1>3, <1>4, <2>1, <2>2 DEF Takers
<1>15. PendingAnswered'
  BY <1>1, <1>4 DEF PendingAnswered
<1>16. CommittedFlushed'
  BY <1>1, <1>3 DEF CommittedFlushed
<1>17. FilesKept'
  BY <1>1, <1>3, <1>5, <1>6, <1>7 DEF FilesKept
<1>18. RecordsExist'
  BY <1>1, <1>3, <1>7 DEF RecordsExist
<1>19. QED
  BY <1>10, <1>11, <1>12, <1>13, <1>14, <1>15, <1>16, <1>17, <1>18 DEF NumbersInv

(* An exiting backend forgets its cache.                                    *)
LEMMA DisconnectInv ==
  ASSUME TypeOK, NumbersInv, NEW b \in Backend, Disconnect(b)
  PROVE  NumbersInv'
<1>1. /\ NumbersUsed /\ NumbersUnique /\ KeysAgree /\ Creators /\ Takers
      /\ PendingAnswered /\ CommittedFlushed /\ FilesKept /\ RecordsExist
  BY DEF NumbersInv
<1>2. /\ map' = [map EXCEPT ![b] = NoEntry]
      /\ UNCHANGED <<env, disk, durable, wal, flushed, redo, mode, replay, pending, creating, txn,
                     catalog, pages, usedNumbers>>
  BY DEF Disconnect, fileVars, walVars, modeVars
<1>3. \A c \in Backend : map'[c] = map[c] \/ map'[c] = NoEntry
  BY <1>2 DEF TypeOK
<1>4. \A m \in RelFileLocator : ((Live(m))' <=> Live(m)) /\ ((Known(m))' <=> Known(m))
  BY <1>2 DEF Live, Known
<1>5. \A i \in 1..Len(wal) : wal[i].loc \in RelFileLocator /\ wal[i].loc.relNumber # NoEntry.rel_id
  BY RecordTyped, TdeMapAssumption DEF NoEntry
<1>6. NumbersUsed' /\ NumbersUnique'
  BY <1>1, <1>2, <1>3, <1>4 DEF NumbersUsed, NumbersUnique
<1>7. KeysAgree'
  BY <1>1, <1>2, <1>3, <1>5 DEF KeysAgree
<1>8. Creators' /\ Takers' /\ PendingAnswered' /\ CommittedFlushed'
  BY <1>1, <1>2 DEF Creators, Takers, PendingAnswered, CommittedFlushed
<1>9. FilesKept' /\ RecordsExist'
  BY <1>1, <1>2, <1>4, <1>5 DEF FilesKept, RecordsExist
<1>10. QED
  BY <1>6, <1>7, <1>8, <1>9 DEF NumbersInv

(* Write-back copies a file that agrees with its record.                    *)
LEMMA WritebackInv ==
  ASSUME TypeOK, NumbersInv, NEW l \in RelFileLocator, OSWriteback(l)
  PROVE  NumbersInv'
<1>1. /\ NumbersUsed /\ NumbersUnique /\ KeysAgree /\ Creators /\ Takers
      /\ PendingAnswered /\ CommittedFlushed /\ FilesKept /\ RecordsExist
  BY DEF NumbersInv
<1>2. /\ durable' = [durable EXCEPT ![l] = disk[l]]
      /\ UNCHANGED <<env, disk, wal, flushed, redo, mode, replay, map, pending, creating, txn,
                     catalog, pages, usedNumbers>>
  BY DEF OSWriteback, walVars, modeVars, backendVars
<1>3. durable'[l] = disk[l] /\ \A m \in RelFileLocator : m # l => durable'[m] = durable[m]
  BY <1>2 DEF TypeOK
<1>4. \A m \in RelFileLocator : ((Live(m))' <=> Live(m)) /\ ((Known(m))' <=> Known(m))
  BY <1>2 DEF Live, Known
<1>5. \A i \in 1..Len(wal) : wal[i].loc \in RelFileLocator
  BY RecordTyped
<1>6. NumbersUsed' /\ NumbersUnique'
  BY <1>1, <1>2, <1>3, <1>4 DEF NumbersUsed, NumbersUnique
<1>7. KeysAgree'
  BY <1>1, <1>2, <1>3, <1>5 DEF KeysAgree
<1>8. Creators' /\ Takers' /\ PendingAnswered' /\ CommittedFlushed'
  BY <1>1, <1>2 DEF Creators, Takers, PendingAnswered, CommittedFlushed
<1>9. FilesKept' /\ RecordsExist'
  BY <1>1, <1>2, <1>3, <1>4, <1>5 DEF FilesKept, RecordsExist
<1>10. QED
  BY <1>6, <1>7, <1>8, <1>9 DEF NumbersInv

(* A checkpoint, also the one at the end of recovery, moves redo up: what   *)
(* it passes is on disk, or was lost before.                                *)
LEMMA CheckpointInv ==
  ASSUME TypeOK, LogPositions, NumbersInv, Checkpoint \/ EndRecovery
  PROVE  NumbersInv'
<1>1. /\ NumbersUsed /\ NumbersUnique /\ KeysAgree /\ Creators /\ Takers
      /\ PendingAnswered /\ CommittedFlushed /\ FilesKept /\ RecordsExist
  BY DEF NumbersInv
<1>2. /\ redo' = Len(wal) /\ flushed' = Len(wal) /\ replay' = replay /\ mode' = "up"
      /\ mode = "recovery" => replay = Len(wal)
      /\ UNCHANGED <<env, disk, durable, wal, map, pending, creating, txn, catalog, pages, usedNumbers>>
  BY DEF Checkpoint, EndRecovery, fileVars, modeVars, backendVars, LogPositions, TypeOK
<1>3. \A m \in RelFileLocator : ((Live(m))' <=> Live(m)) /\ ((Known(m))' <=> Known(m))
  BY <1>2 DEF Live, Known
<1>4. \A i \in 1..Len(wal) : wal[i].loc \in RelFileLocator
  BY RecordTyped
<1>5. NumbersUsed' /\ NumbersUnique' /\ KeysAgree'
  BY <1>1, <1>2, <1>3 DEF NumbersUsed, NumbersUnique, KeysAgree
<1>6. Creators' /\ Takers' /\ PendingAnswered'
  BY <1>1, <1>2 DEF Creators, Takers, PendingAnswered
<1>7. CommittedFlushed'
  BY <1>2 DEF CommittedFlushed, TypeOK
<1>8. FilesKept'
  <2>1. \A i \in 1..Len(wal) : i <= Len(wal) /\ (mode = "recovery" => ~(i > replay))
    BY <1>2 DEF TypeOK
  <2>2. QED
    BY <1>1, <1>2, <1>3, <1>4, <2>1 DEF FilesKept
<1>9. RecordsExist'
  BY <1>1, <1>2, <1>3 DEF RecordsExist
<1>10. QED
  BY <1>5, <1>6, <1>7, <1>8, <1>9 DEF NumbersInv

(* The records a crash loses are of relations no transaction committed; a   *)
(* file it loses is replayed from its record or was exposed.                *)
LEMMA CrashInv ==
  ASSUME TypeOK, TypeOK', LogPositions, NumbersInv, Crash
  PROVE  NumbersInv'
<1>1. /\ NumbersUsed /\ NumbersUnique /\ KeysAgree /\ Creators /\ Takers
      /\ PendingAnswered /\ CommittedFlushed /\ FilesKept /\ RecordsExist
  BY DEF NumbersInv
<1>2. PICK n \in flushed..Len(wal) : wal' = SubSeq(wal, 1, n) /\ flushed' = n
  BY DEF Crash
<1>3. /\ n \in Nat /\ n <= Len(wal) /\ flushed <= n /\ Len(wal) \in Nat /\ flushed \in Nat
      /\ redo \in Nat /\ replay \in Nat
  BY <1>2 DEF TypeOK
<1>4. Len(wal') = n /\ \A i \in 1..n : wal'[i] = wal[i] /\ i \in 1..Len(wal)
  BY <1>2, <1>3 DEF TypeOK
<1>5. /\ mode' = "recovery" /\ replay' = redo
      /\ disk' = disk \/ (env.osCrash /\ disk' = durable)
      /\ map' = [c \in Backend |-> NoEntry] /\ pending' = [c \in Backend |-> {}]
      /\ creating' = [c \in Backend |-> NoCreation] /\ txn' = [c \in Backend |-> NoTxn]
      /\ UNCHANGED <<env, durable, redo, catalog, pages, usedNumbers>>
  BY DEF Crash
<1>6. \A c \in Backend : /\ map'[c] = NoEntry /\ map'[c].rel_id = "none" /\ pending'[c] = {}
                         /\ creating'[c] = NoCreation /\ creating'[c].loc = NoLocator
                         /\ creating'[c].old = NoLocator
                         /\ txn'[c].created = {} /\ txn'[c].gone = {}
  BY <1>5 DEF NoEntry, NoCreation, NoTxn
<1>7. \A i \in 1..Len(wal) : wal[i].loc \in RelFileLocator /\ wal[i].loc.relNumber \in RelNumber
  BY RecordTyped
<1>8. \A m \in RelFileLocator : ((Live(m))' <=> m \in catalog) /\ ((Known(m))' <=> m \in catalog)
  BY <1>5, <1>6, NoLocatorFacts DEF Live, Known
<1>9. \A m \in RelFileLocator : m \in catalog => Live(m) /\ Known(m)
  BY DEF Live, Known
<1>10. NumbersUsed'
  <2>1. \A m \in RelFileLocator :
          m.relNumber \notin usedNumbers => disk'[m] = NoKey /\ durable'[m] = NoKey
    BY <1>1, <1>5 DEF NumbersUsed
  <2>2. QED
    BY <1>1, <1>4, <1>5, <1>6, <1>8, <1>9, <2>1 DEF NumbersUsed
<1>11. NumbersUnique'
  BY <1>1, <1>4, <1>8, <1>9 DEF NumbersUnique
<1>12. KeysAgree'
  <2>1. ASSUME NEW i \in 1..n
        PROVE  /\ pages[wal[i].loc] \subseteq {wal[i].key}
               /\ disk'[wal[i].loc] \in Key => disk'[wal[i].loc] = wal[i].key
               /\ durable[wal[i].loc] \in Key => durable[wal[i].loc] = wal[i].key
    <3>1. i \in 1..Len(wal) /\ (disk' = disk \/ disk' = durable)
      BY <1>4, <1>5
    <3>2. QED
      BY <1>1, <3>1 DEF KeysAgree
  <2>2. \A i \in 1..n, c \in Backend : map'[c].rel_id # wal[i].loc.relNumber
    BY <1>4, <1>6, <1>7, TdeMapAssumption
  <2>3. UNCHANGED <<durable, pages>>
    BY <1>5
  <2>4. QED
    BY <1>4, <2>1, <2>2, <2>3 DEF KeysAgree
<1>13. Creators' /\ Takers' /\ PendingAnswered'
  BY <1>5, <1>6 DEF Creators, Takers, PendingAnswered
<1>14. CommittedFlushed'
  BY <1>2, <1>3, <1>4 DEF CommittedFlushed
<1>15. FilesKept'
  <2> SUFFICES ASSUME NEW i \in 1..n, wal[i].loc \in catalog
               PROVE  \/ disk'[wal[i].loc] = wal[i].key
                      \/ env.osCrash /\ i > redo
                      \/ env.osCrash /\ i <= redo /\ durable[wal[i].loc] # wal[i].key
    BY <1>4, <1>5, <1>7, <1>8 DEF FilesKept
  <2>1. i \in 1..Len(wal) /\ Live(wal[i].loc)
    BY <1>4, <1>7, <1>9
  <2>2. CASE disk' = disk
    BY <1>1, <1>3, <2>1, <2>2 DEF FilesKept, LogPositions
  <2>3. CASE env.osCrash /\ disk' = durable
    BY <1>3, <2>3
  <2>4. QED
    BY <1>5, <2>2, <2>3
<1>16. RecordsExist'
  <2> SUFFICES ASSUME ~env.moveSpace, NEW m \in RelFileLocator, m \in catalog
               PROVE  \E i \in 1..n : wal[i].loc = m
    BY <1>4, <1>5, <1>8 DEF RecordsExist
  <2>1. PICK i \in 1..Len(wal) : wal[i].loc = m
    BY <1>1, <1>9 DEF RecordsExist
  <2>2. i <= flushed
    BY <1>1, <2>1 DEF CommittedFlushed
  <2>3. QED
    BY <1>3, <2>1, <2>2
<1>17. QED
  BY <1>10, <1>11, <1>12, <1>13, <1>14, <1>15, <1>16 DEF NumbersInv

(* Replay writes the key of the one record that has the locator.            *)
LEMMA RedoInv ==
  ASSUME TypeOK, NumbersInv, pg_tde_xlog_create_fork
  PROVE  NumbersInv'
<1>1. /\ NumbersUsed /\ NumbersUnique /\ KeysAgree /\ Creators /\ Takers
      /\ PendingAnswered /\ CommittedFlushed /\ FilesKept /\ RecordsExist
  BY DEF NumbersInv
<1> DEFINE r == replay + 1
<1>2. /\ r \in 1..Len(wal) /\ replay \in Nat /\ mode = "recovery"
      /\ disk' = [disk EXCEPT ![wal[r].loc] = wal[r].key] /\ replay' = r
      /\ UNCHANGED <<env, durable, wal, flushed, redo, mode, map, pending, creating, txn, catalog,
                     pages, usedNumbers>>
  BY DEF pg_tde_xlog_create_fork, RedoWrite, TypeOK, walVars, backendVars
<1>3. \A i \in 1..Len(wal) : wal[i].loc \in RelFileLocator /\ wal[i].key \in Key
  BY RecordTyped
<1>4. /\ disk'[wal[r].loc] = wal[r].key
      /\ \A m \in RelFileLocator : m # wal[r].loc => disk'[m] = disk[m]
  BY <1>2, <1>3 DEF TypeOK
<1>5. \A i \in 1..Len(wal) : wal[i].loc = wal[r].loc => i = r
  BY <1>1, <1>2 DEF NumbersUnique
<1>6. \A m \in RelFileLocator : ((Live(m))' <=> Live(m)) /\ ((Known(m))' <=> Known(m))
  BY <1>2 DEF Live, Known
<1>7. \A i \in 1..Len(wal) : i > replay => i > r \/ i = r
  BY <1>2
<1> HIDE DEF r
<1>8. NumbersUsed' /\ NumbersUnique'
  BY <1>1, <1>2, <1>3, <1>4, <1>6 DEF NumbersUsed, NumbersUnique
<1>9. KeysAgree'
  BY <1>1, <1>2, <1>3, <1>4, <1>5 DEF KeysAgree
<1>10. Creators' /\ Takers' /\ PendingAnswered' /\ CommittedFlushed'
  BY <1>1, <1>2 DEF Creators, Takers, PendingAnswered, CommittedFlushed
<1>11. FilesKept' /\ RecordsExist'
  BY <1>1, <1>2, <1>3, <1>4, <1>5, <1>6, <1>7 DEF FilesKept, RecordsExist
<1>12. QED
  BY <1>8, <1>9, <1>10, <1>11 DEF NumbersInv

-----------------------------------------------------------------------------
(* The invariant.                                                           *)

(* The log only grows, by a record with a key never used, or is cut at or   *)
(* after the flushed position; in recovery a crash, replay and the final    *)
(* checkpoint alone move its positions.  The environment stays.             *)
LEMMA LogSteps ==
  ASSUME TypeOK, [Next]_vars
  PROVE  /\ env' = env
         /\ \/ wal' = wal /\ lastKey' = lastKey
            \/ /\ lastKey' = lastKey + 1
               /\ \E l \in RelFileLocator : wal' = Append(wal, [loc |-> l, key |-> lastKey'])
            \/ /\ lastKey' = lastKey
               /\ \E n \in flushed..Len(wal) : wal' = SubSeq(wal, 1, n)
         /\ \/ Crash \/ pg_tde_xlog_create_fork \/ mode' = "up"
            \/ UNCHANGED <<wal, flushed, redo, mode, replay>>
<1> DEFINE Grows ==
      /\ lastKey' = lastKey + 1
      /\ \E l \in RelFileLocator : wal' = Append(wal, [loc |-> l, key |-> lastKey'])
           Cut ==
      /\ lastKey' = lastKey
      /\ \E n \in flushed..Len(wal) : wal' = SubSeq(wal, 1, n)
           Goal ==
      /\ env' = env
      /\ (wal' = wal /\ lastKey' = lastKey) \/ Grows \/ Cut
      /\ \/ Crash \/ pg_tde_xlog_create_fork \/ mode' = "up"
         \/ UNCHANGED <<wal, flushed, redo, mode, replay>>
<1> SUFFICES Goal
  OBVIOUS
<1>1. ASSUME NEW b \in Backend, NEW l \in RelFileLocator,
             NEW old \in RelFileLocator \cup {NoLocator}, pg_tde_create_key_fork(b, l, old)
      PROVE  Goal
  BY <1>1 DEF pg_tde_create_key_fork, modeVars, Idle
<1>2. ASSUME NEW b \in Backend, NEW l \in RelFileLocator, NEW new \in RelFileLocator,
             pg_tdeam_relation_copy_data(b, l, new)
      PROVE  Goal
  BY <1>2 DEF pg_tdeam_relation_copy_data, walVars, modeVars
<1>3. ASSUME NEW b \in Backend, NEW l \in RelFileLocator,
             pg_tde_delete_key_fork(b, l) \/ WriteRow(b, l)
      PROVE  Goal
  BY <1>3 DEF pg_tde_delete_key_fork, WriteRow, walVars, modeVars
<1>4. ASSUME NEW b \in Backend, pg_tde_write_key_fork(b) \/ WriteFails(b) PROVE Goal
  BY <1>4 DEF pg_tde_write_key_fork, WriteFails, walVars, modeVars
<1>5. ASSUME NEW b \in Backend, Commit(b) \/ Abort(b) \/ Disconnect(b) PROVE Goal
  BY <1>5 DEF Commit, Abort, Disconnect, Idle, walVars, modeVars
<1>6. ASSUME NEW l \in RelFileLocator, OSWriteback(l) PROVE Goal
  BY <1>6 DEF OSWriteback, walVars, modeVars
<1>7. CASE Checkpoint \/ EndRecovery
  BY <1>7 DEF Checkpoint, EndRecovery, modeVars
<1>8. CASE pg_tde_xlog_create_fork
  BY <1>8 DEF pg_tde_xlog_create_fork, walVars
<1>9. CASE Crash
  BY <1>9 DEF Crash
<1>10. CASE UNCHANGED vars
  BY <1>10 DEF vars, walVars, modeVars
<1> HIDE DEF Goal
<1>11. QED
  BY <1>1, <1>2, <1>3, <1>4, <1>5, <1>6, <1>7, <1>8, <1>9, <1>10 DEF Next

LEMMA LogNext == TypeOK /\ TypeOK' /\ LogPositions /\ [Next]_vars => LogPositions'
<1> SUFFICES ASSUME TypeOK, TypeOK', LogPositions, [Next]_vars PROVE LogPositions'
  OBVIOUS
<1>1. CASE Crash
  <2>1. PICK n \in flushed..Len(wal) : wal' = SubSeq(wal, 1, n) /\ flushed' = n
    BY <1>1 DEF Crash
  <2>2. n \in 0..Len(wal)
    BY <2>1 DEF TypeOK
  <2>3. Len(wal') = n
    BY <2>1, <2>2 DEF TypeOK
  <2>4. redo' = redo /\ replay' = redo /\ redo \in Nat
    BY <1>1 DEF Crash, TypeOK
  <2>5. QED
    BY <2>1, <2>3, <2>4 DEF LogPositions
<1>2. CASE pg_tde_xlog_create_fork
  BY <1>2 DEF pg_tde_xlog_create_fork, LogPositions, TypeOK, walVars
<1>3. CASE mode' = "up" \/ UNCHANGED <<wal, flushed, redo, mode, replay>>
  BY <1>3 DEF LogPositions
<1>4. QED
  BY <1>1, <1>2, <1>3, LogSteps

LEMMA KeysNext == TypeOK /\ KeysFresh /\ [Next]_vars => KeysFresh'
<1> SUFFICES ASSUME TypeOK, KeysFresh, [Next]_vars PROVE KeysFresh'
  OBVIOUS
<1>1. lastKey \in Nat /\ \A i \in 1..Len(wal) : wal[i].key \in Nat
  BY RecordTyped, TdeMapAssumption DEF TypeOK, Key
<1>2. CASE wal' = wal /\ lastKey' = lastKey
  BY <1>2 DEF KeysFresh
<1>3. ASSUME lastKey' = lastKey + 1, NEW l \in RelFileLocator,
             wal' = Append(wal, [loc |-> l, key |-> lastKey'])
      PROVE  KeysFresh'
  <2>1. /\ Len(wal') = Len(wal) + 1 /\ wal'[Len(wal) + 1].key = lastKey + 1
        /\ \A i \in 1..Len(wal) : wal'[i] = wal[i]
        /\ \A i \in 1..Len(wal') : i \in 1..Len(wal) \/ i = Len(wal) + 1
    BY <1>3 DEF TypeOK
  <2>2. QED
    BY <1>1, <1>3, <2>1 DEF KeysFresh
<1>4. ASSUME lastKey' = lastKey, NEW n \in flushed..Len(wal), wal' = SubSeq(wal, 1, n)
      PROVE  KeysFresh'
  <2>1. n \in 0..Len(wal)
    BY DEF TypeOK
  <2>2. Len(wal') = n /\ \A i \in 1..n : wal'[i] = wal[i] /\ i \in 1..Len(wal)
    BY <1>4, <2>1 DEF TypeOK
  <2>3. QED
    BY <1>4, <2>2 DEF KeysFresh
<1>5. QED
  BY <1>2, <1>3, <1>4, LogSteps

LEMMA NumbersNext ==
  ASSUME TypeOK, TypeOK', LogPositions, NumbersInv, ~env.reuseNumber, [Next]_vars
  PROVE  NumbersInv'
<1>1. ASSUME NEW b \in Backend, NEW l \in RelFileLocator,
             \/ \E old \in RelFileLocator \cup {NoLocator} : pg_tde_create_key_fork(b, l, old)
             \/ pg_tde_delete_key_fork(b, l) \/ WriteRow(b, l)
             \/ \E new \in RelFileLocator : pg_tdeam_relation_copy_data(b, l, new)
      PROVE  NumbersInv'
  BY <1>1, CreateInv, DeleteInv, WriteRowInv, CopyDataInv
<1>2. ASSUME NEW b \in Backend,
             \/ pg_tde_write_key_fork(b) \/ WriteFails(b)
             \/ Commit(b) \/ Abort(b) \/ Disconnect(b)
      PROVE  NumbersInv'
  BY <1>2, WriteForkInv, WriteFailsInv, CommitInv, AbortInv, DisconnectInv
<1>3. ASSUME NEW l \in RelFileLocator, OSWriteback(l) PROVE NumbersInv'
  BY <1>3, WritebackInv
<1>4. CASE Checkpoint \/ Crash \/ pg_tde_xlog_create_fork \/ EndRecovery
  BY <1>4, CheckpointInv, CrashInv, RedoInv
<1>5. CASE UNCHANGED vars
  <2>1. UNCHANGED <<env, disk, durable, wal, flushed, redo, mode, replay, map, pending, creating,
                    txn, catalog, pages, usedNumbers>>
    BY <1>5 DEF vars, fileVars, walVars, modeVars, backendVars
  <2>2. \A m \in RelFileLocator : ((Live(m))' <=> Live(m)) /\ ((Known(m))' <=> Known(m))
    BY <2>1 DEF Live, Known
  <2>3. \A i \in 1..Len(wal) : wal[i].loc \in RelFileLocator
    BY RecordTyped
  <2>4. (NumbersUsed /\ NumbersUnique)' <=> (NumbersUsed /\ NumbersUnique)
    BY <2>1, <2>2 DEF NumbersUsed, NumbersUnique
  <2>5. (KeysAgree /\ Creators)' <=> (KeysAgree /\ Creators)
    BY <2>1 DEF KeysAgree, Creators
  <2>6. (Takers /\ PendingAnswered /\ CommittedFlushed)'
          <=> (Takers /\ PendingAnswered /\ CommittedFlushed)
    BY <2>1 DEF Takers, PendingAnswered, CommittedFlushed
  <2>7. (FilesKept /\ RecordsExist)' <=> (FilesKept /\ RecordsExist)
    BY <2>1, <2>2, <2>3 DEF FilesKept, RecordsExist
  <2>8. QED
    BY <2>4, <2>5, <2>6, <2>7 DEF NumbersInv
<1>6. QED
  BY <1>1, <1>2, <1>3, <1>4, <1>5 DEF Next

LEMMA InvInit == Init => IInv
<1> SUFFICES ASSUME Init PROVE IInv
  OBVIOUS
<1>1. TypeOK
  BY TypeInit
<1>2. /\ wal = <<>> /\ Len(wal) = 0 /\ mode = "up" /\ catalog = {}
      /\ \A b \in Backend :
           /\ map[b] = NoEntry /\ pending[b] = {} /\ creating[b] = NoCreation
           /\ txn[b].created = {} /\ txn[b].gone = {}
      /\ \A l \in RelFileLocator : disk[l] = NoKey /\ durable[l] = NoKey
  BY DEF Init, NoFiles, NoTxn
<1>3. \A b \in Backend : creating[b].loc = NoLocator /\ creating[b].old = NoLocator
  BY <1>2 DEF NoCreation
<1>4. \A l \in RelFileLocator : ~Known(l) /\ ~Live(l)
  BY <1>2, <1>3, NoLocatorFacts DEF Known, Live
<1>5. LogPositions /\ KeysFresh
  BY <1>2 DEF LogPositions, KeysFresh
<1>6. NumbersUsed /\ NumbersUnique /\ KeysAgree
  BY <1>2, <1>4 DEF NumbersUsed, NumbersUnique, KeysAgree
<1>7. Creators /\ Takers /\ PendingAnswered
  BY <1>2, <1>3 DEF Creators, Takers, PendingAnswered
<1>8. CommittedFlushed /\ FilesKept /\ RecordsExist
  BY <1>2, <1>4 DEF CommittedFlushed, FilesKept, RecordsExist
<1>9. QED
  BY <1>1, <1>5, <1>6, <1>7, <1>8 DEF IInv, NumbersInv

LEMMA InvNext == IInv /\ [Next]_vars => IInv'
<1> SUFFICES ASSUME IInv, [Next]_vars PROVE IInv'
  OBVIOUS
<1>1. TypeOK'
  BY TypeNext DEF IInv
<1>2. LogPositions' /\ KeysFresh'
  BY <1>1, LogNext, KeysNext DEF IInv
<1>3. env' = env
  BY LogSteps DEF IInv
<1>4. ~env.reuseNumber => NumbersInv'
  BY <1>1, NumbersNext DEF IInv
<1>5. QED
  BY <1>1, <1>2, <1>3, <1>4 DEF IInv

LEMMA Invariance == Spec => []IInv
  BY InvInit, InvNext, PTL DEF Spec

-----------------------------------------------------------------------------
(* The theorems.                                                            *)

(* The state of the key files, log, caches, lists and transactions is       *)
(* always well formed: the positions redo, flushed and replay never leave   *)
(* the log, however crashes cut it.                                         *)
THEOREM TypeCorrect == Spec => []TypeOK
<1>1. IInv => TypeOK
  BY DEF IInv
<1>2. QED
  BY <1>1, Invariance, PTL

(* GetRelationKeys, cached or from the file, gives every backend the key    *)
(* that opens all rows of every relation it sees, however often the server  *)
(* or the system crashed, unless the relation was moved to another          *)
(* tablespace or its file is unsynced behind the redo pointer.  The only    *)
(* other condition is that relNumbers are not reused.                       *)
THEOREM KeysFound == Spec => [](~env.reuseNumber => RowsReadableUnlessExposed)
<1>1. IInv => (~env.reuseNumber => RowsReadableUnlessExposed)
  <2> SUFFICES ASSUME IInv, ~env.reuseNumber, NEW b \in Backend, NEW l \in RelFileLocator,
                      Idle(b), Visible(b, l), ~Exposed(l)
               PROVE  /\ GetRelationKeys(b, l) \in Key
                      /\ pages[l] \subseteq {GetRelationKeys(b, l)}
    BY DEF RowsReadableUnlessExposed
  <2>1. TypeOK /\ KeysAgree /\ FilesKept
    BY DEF IInv, NumbersInv
  <2>2. mode = "up" /\ Live(l)
    BY DEF Idle, Visible, Live
  <2>3. PICK i \in 1..Len(wal) : wal[i].loc = l
    BY DEF Exposed
  <2>4. ~(env.osCrash /\ i <= redo /\ durable[l] # wal[i].key)
    BY <2>3 DEF Exposed
  <2>5. disk[l] = wal[i].key
    BY <2>1, <2>2, <2>3, <2>4 DEF FilesKept
  <2>6. GetRelationKeys(b, l) = wal[i].key
    BY <2>1, <2>3, <2>5 DEF GetRelationKeys, CacheHit, KeysAgree
  <2>7. wal[i].key \in Key
    BY <2>1, RecordTyped
  <2>8. QED
    BY <2>1, <2>3, <2>6, <2>7 DEF KeysAgree
<1>2. QED
  BY <1>1, Invariance, PTL

(* When replay has reached the end of the log, whatever crashes came        *)
(* before, pg_tde_rmgr_redo has put back the right key file of every        *)
(* committed relation whose record lies after the redo pointer.             *)
THEOREM KeysRecovered == Spec => [](~env.reuseNumber => LoggedKeysRecovered)
<1>1. IInv => (~env.reuseNumber => LoggedKeysRecovered)
  <2> SUFFICES ASSUME IInv, ~env.reuseNumber, mode = "recovery", replay = Len(wal),
                      NEW i \in (redo + 1)..Len(wal), wal[i].loc \in catalog
               PROVE  disk[wal[i].loc] = wal[i].key /\ pages[wal[i].loc] \subseteq {wal[i].key}
    BY DEF LoggedKeysRecovered
  <2>1. TypeOK /\ KeysAgree /\ FilesKept
    BY DEF IInv, NumbersInv
  <2>2. i \in 1..Len(wal) /\ ~(i > replay) /\ ~(i <= redo)
    BY <2>1 DEF TypeOK
  <2>3. Live(wal[i].loc)
    BY DEF Live
  <2>4. QED
    BY <2>1, <2>2, <2>3 DEF KeysAgree, FilesKept
<1>2. QED
  BY <1>1, Invariance, PTL

-----------------------------------------------------------------------------
(* The refinement.  While the system does not crash, tables are not moved   *)
(* and numbers not reused, the key replay would leave a committed relation  *)
(* is that of its one record, which no step can change.                     *)

KeyOf == [l \in RelFileLocator |-> IF Sheltered /\ l \in catalog THEN Replayed(l) ELSE NoRelation]

Anchored ==
  \A l \in RelFileLocator : Sheltered /\ l \in catalog =>
    \E i \in 1..Len(wal) : i <= flushed /\ wal[i].loc = l /\ Replayed(l) = wal[i].key

LEMMA ShelteredRecord == IInv => Anchored
<1> SUFFICES ASSUME IInv, Sheltered, NEW l \in RelFileLocator, l \in catalog
             PROVE  \E i \in 1..Len(wal) :
                      i <= flushed /\ wal[i].loc = l /\ Replayed(l) = wal[i].key
  BY DEF Anchored
<1>1. ~env.reuseNumber /\ ~env.moveSpace /\ ~env.osCrash
  BY DEF Sheltered
<1>2. TypeOK /\ NumbersUnique /\ CommittedFlushed /\ FilesKept /\ RecordsExist
  BY <1>1 DEF IInv, NumbersInv
<1>3. Live(l)
  BY DEF Live
<1>4. PICK i \in 1..Len(wal) : wal[i].loc = l
  BY <1>1, <1>2, <1>3 DEF RecordsExist
<1>5. i <= flushed /\ disk[l] = wal[i].key
  BY <1>1, <1>2, <1>3, <1>4 DEF CommittedFlushed, FilesKept
<1>6. \A j \in 1..Len(wal) : wal[j].loc = l => j = i
  BY <1>2, <1>4 DEF NumbersUnique
<1> DEFINE records == {j \in (redo + 1)..flushed : wal[j].loc = l}
<1>7. redo \in Nat /\ flushed \in Nat /\ flushed <= Len(wal) /\ Len(wal) \in Nat
  BY <1>2 DEF TypeOK
<1>8. \A j \in records : j = i
  BY <1>6, <1>7
<1>9. CASE records = {}
  BY <1>4, <1>5, <1>9 DEF Replayed
<1>10. CASE records # {}
  <2>1. i \in records /\ \A j \in records : j <= i
    BY <1>4, <1>7, <1>8, <1>10
  <2>2. (CHOOSE j \in records : \A h \in records : h <= j) \in records
    BY <2>1
  <2>3. (CHOOSE j \in records : \A h \in records : h <= j) = i
    BY <1>8, <2>2
  <2>4. Replayed(l) = wal[i].key
    BY <1>10, <2>3 DEF Replayed
  <2>5. QED
    BY <1>4, <1>5, <2>4
<1>11. QED
  BY <1>9, <1>10

(* What is flushed stays in the log.                                        *)
LEMMA FlushedStays ==
  ASSUME TypeOK, [Next]_vars, NEW i \in 1..Len(wal), i <= flushed
  PROVE  i \in 1..Len(wal') /\ wal'[i] = wal[i]
<1>1. CASE wal' = wal
  BY <1>1
<1>2. ASSUME NEW l \in RelFileLocator, wal' = Append(wal, [loc |-> l, key |-> lastKey'])
      PROVE  i \in 1..Len(wal') /\ wal'[i] = wal[i]
  BY <1>2 DEF TypeOK
<1>3. ASSUME NEW n \in flushed..Len(wal), wal' = SubSeq(wal, 1, n)
      PROVE  i \in 1..Len(wal') /\ wal'[i] = wal[i]
  <2>1. n \in 0..Len(wal) /\ i \in 1..n
    BY DEF TypeOK
  <2>2. Len(wal') = n /\ wal'[i] = wal[i]
    BY <1>3, <2>1 DEF TypeOK
  <2>3. QED
    BY <2>1, <2>2
<1>4. QED
  BY <1>1, <1>2, <1>3, LogSteps

LEMMA RefinesStep ==
  ASSUME IInv, Anchored, IInv', Anchored', [Next]_vars
  PROVE  RK!CommitDDL
<1>1. Sheltered' <=> Sheltered
  BY LogSteps DEF IInv, Sheltered
<1>2. NoRelation \notin Key
  BY TdeMapAssumption DEF NoRelation, Key
<1>3. /\ \A l \in RelFileLocator :
           KeyOf[l] = IF Sheltered /\ l \in catalog THEN Replayed(l) ELSE NoRelation
      /\ \A l \in RelFileLocator :
           KeyOf'[l] = IF Sheltered /\ l \in catalog' THEN (Replayed(l))' ELSE NoRelation
  BY <1>1 DEF KeyOf
<1>4. ASSUME NEW l \in RelFileLocator, KeyOf'[l] # NoRelation
      PROVE  /\ Sheltered /\ l \in catalog' /\ KeyOf'[l] = (Replayed(l))'
             /\ \E i \in 1..Len(wal') : wal'[i].loc = l /\ KeyOf'[l] = wal'[i].key
  <2>1. Sheltered /\ l \in catalog' /\ KeyOf'[l] = (Replayed(l))'
    BY <1>3, <1>4
  <2>2. \E i \in 1..Len(wal') : wal'[i].loc = l /\ (Replayed(l))' = wal'[i].key
    BY <1>1, <2>1 DEF Anchored
  <2>3. QED
    BY <2>1, <2>2
<1>5. \A l \in RelFileLocator : KeyOf'[l] \in Key \cup {NoRelation}
  <2>1. \A i \in 1..Len(wal') : wal'[i].key \in Key
    <3>1. wal' \in Seq(Record)
      BY DEF IInv, TypeOK
    <3>2. \A i \in 1..Len(wal') : wal'[i] \in Record
      BY <3>1
    <3>3. QED
      BY <3>2 DEF Record
  <2>2. QED
    BY <1>4, <2>1
<1>6. ASSUME NEW l \in RelFileLocator, KeyOf[l] # NoRelation, KeyOf'[l] # NoRelation
      PROVE  KeyOf'[l] = KeyOf[l]
  <2>1. Sheltered /\ l \in catalog /\ KeyOf[l] = Replayed(l)
    BY <1>3, <1>6
  <2>2. PICK i \in 1..Len(wal) : i <= flushed /\ wal[i].loc = l /\ Replayed(l) = wal[i].key
    BY <2>1 DEF Anchored
  <2>3. i \in 1..Len(wal') /\ wal'[i] = wal[i]
    BY <2>2, FlushedStays DEF IInv
  <2>4. PICK j \in 1..Len(wal') : wal'[j].loc = l /\ KeyOf'[l] = wal'[j].key
    BY <1>4, <1>6
  <2>5. ~env'.reuseNumber
    BY <1>1, <2>1 DEF Sheltered
  <2>6. i = j
    BY <2>2, <2>3, <2>4, <2>5 DEF IInv, NumbersInv, NumbersUnique
  <2>7. QED
    BY <2>1, <2>2, <2>3, <2>4, <2>6
<1>7. ASSUME NEW l \in RelFileLocator, NEW m \in RelFileLocator, KeyOf'[l] = KeyOf'[m], l # m
      PROVE  KeyOf'[l] = NoRelation
  <2> SUFFICES ASSUME KeyOf'[l] # NoRelation PROVE FALSE
    OBVIOUS
  <2>1. PICK i \in 1..Len(wal') : wal'[i].loc = l /\ KeyOf'[l] = wal'[i].key
    BY <1>4
  <2>2. PICK j \in 1..Len(wal') : wal'[j].loc = m /\ KeyOf'[m] = wal'[j].key
    BY <1>4, <1>7
  <2>3. i = j
    BY <1>7, <2>1, <2>2 DEF IInv, KeysFresh
  <2>4. QED
    BY <1>7, <2>1, <2>2, <2>3
<1>8. KeyOf' \in [RelFileLocator -> Key \cup {NoRelation}]
  BY <1>5 DEF KeyOf
<1>9. QED
  BY <1>6, <1>7, <1>8 DEF RK!CommitDDL, RK!Exists, KeyOf

(* Creation, redo and deletion of key files implement RelationKeys: a       *)
(* committed relation has one key, its own, from the commit that creates it *)
(* to the commit that drops it; no crash of the server and no replay shows. *)
THEOREM RelationKeysImplemented == Spec => ImplementsRelationKeys
<1>1. Init => RK!Init
  BY DEF Init, RK!Init
<1>2. IInv /\ Anchored /\ IInv' /\ Anchored' /\ [Next]_vars => [RK!CommitDDL]_KeyOf
  BY RefinesStep
<1>3. QED
  BY <1>1, <1>2, ShelteredRecord, Invariance, PTL DEF Spec, ImplementsRelationKeys, RK!Spec, KeyOf
=============================================================================
