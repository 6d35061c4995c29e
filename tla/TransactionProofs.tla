-------------------------- MODULE TransactionProofs --------------------------
(***************************************************************************)
(* Proofs about what transactions leave behind.                              *)
(*                                                                          *)
(* XactHandler: key files are deleted when they should be, and only then,    *)
(* for every set of paths and every nest depth.                              *)
(*                                                                          *)
(* Freeze: no header holds an id older than relfrozenxid or relminmxid,      *)
(* vacuum advances them and finds no corruption, and freezing                *)
(* keeps what headers mean; for any table, any number of transactions and    *)
(* any threshold of skipping.                                                *)
(*                                                                          *)
(* All ids below a cutoff belong to transactions that ended before it was    *)
(* taken (Over, OverMulti), so that what a plan made of a header stays right  *)
(* whoever ends meanwhile (Planned), and who touches a page that vacuum has   *)
(* passed leaves newer ids on it (Covered).                                  *)
(***************************************************************************)
EXTENDS XactHandler, Freeze, FiniteSetTheorems, WellFoundedInduction, TLAPS

-----------------------------------------------------------------------------
(* Key files: XactHandler                                                   *)

(* Levels that are not open have created and dropped nothing, and between   *)
(* transactions the list is empty.                                          *)
OpenLevelsOnly ==
  /\ nestLevel = 0 => pendingDeletes = {}
  /\ \A l \in Level : l > nestLevel => created[l] = {} /\ dropped[l] = {}

(* A delete-at-commit entry belongs to a drop that an open level, no deeper *)
(* than the entry's own, still answers for.                                 *)
DropsAnswered ==
  \A e \in pendingDeletes : e.atCommit =>
    \E l \in Level : l <= nestLevel /\ l <= e.nestLevel /\ e.path \in dropped[l]

(* A delete-at-abort entry never names a key file of a committed relation.  *)
AbortEntriesUncommitted ==
  \A e \in pendingDeletes : ~e.atCommit => e.path \notin committed

IInv == TypeOK /\ OpenLevelsOnly /\ DropsAnswered /\ AbortEntriesUncommitted

-----------------------------------------------------------------------------
(* The callbacks at the outermost level take every entry off the list.      *)
LEMMA TopLevelProcessesAll ==
  ASSUME TypeOK PROVE Processed(1) = pendingDeletes
  BY DEF TypeOK, Processed, Entry, Level

(* Ending a (sub)transaction touches the list and the directory only by     *)
(* removing entries and files.                                              *)
LEMMA DeletesShrink ==
  ASSUME NEW isCommit \in BOOLEAN, do_pending_deletes(isCommit)
  PROVE  /\ pendingDeletes' = pendingDeletes \ Processed(nestLevel)
         /\ pendingDeletes' \subseteq pendingDeletes
         /\ files' \subseteq files
         /\ files \ files' \subseteq ToUnlink(isCommit)
  BY DEF do_pending_deletes

(* Every path the callbacks unlink comes from an entry with their flag.     *)
LEMMA ToUnlinkEntry ==
  ASSUME NEW isCommit, NEW p \in ToUnlink(isCommit)
  PROVE  \E e \in pendingDeletes :
           e \in Processed(nestLevel) /\ e.path = p /\ e.atCommit = isCommit
  BY DEF ToUnlink, Processed

(* Registering a path adds a well-formed entry of the current level.        *)
LEMMA RegisterTyped ==
  ASSUME TypeOK, nestLevel > 0, NEW p \in Path, NEW atCommit \in BOOLEAN,
         RegisterFileForDeletion(p, atCommit)
  PROVE  pendingDeletes' \in SUBSET Entry
<1> DEFINE new == [path |-> p, atCommit |-> atCommit, nestLevel |-> nestLevel]
<1>1. nestLevel \in Level
  BY XactAssumption DEF TypeOK, Level
<1>2. new \in Entry
  BY <1>1 DEF Entry
<1>3. pendingDeletes' = pendingDeletes \cup {new}
  BY DEF RegisterFileForDeletion
<1> HIDE DEF new
<1>4. QED
  BY <1>2, <1>3 DEF TypeOK

-----------------------------------------------------------------------------
(* Type correctness: every callback and every registration keeps the list a *)
(* set of well-formed entries, at any nest depth.                           *)
THEOREM TypeCorrect == Spec => []TypeOK
<1>1. Init => TypeOK
  BY XactAssumption DEF Init, TypeOK, Nothing, NoPrepared, Level, Entry
<1>2. TypeOK /\ [Next]_vars => TypeOK'
  <2> SUFFICES ASSUME TypeOK, [Next]_vars PROVE TypeOK'
    OBVIOUS
  <2> USE XactAssumption DEF TypeOK, Level
  <2>1. CASE Begin
    BY <2>1 DEF Begin
  <2>2. CASE Savepoint
    BY <2>2 DEF Savepoint
  <2>3. ASSUME NEW p \in Path, CreateKeyFork(p) PROVE TypeOK'
    <3>1. pendingDeletes' \in SUBSET Entry
      BY <2>3, RegisterTyped DEF CreateKeyFork
    <3>2. QED
      BY <2>3, <3>1 DEF CreateKeyFork
  <2>4. ASSUME NEW p \in Path, DeleteKeyFork(p) PROVE TypeOK'
    <3>1. pendingDeletes' \in SUBSET Entry
      BY <2>4, RegisterTyped DEF DeleteKeyFork
    <3>2. QED
      BY <2>4, <3>1 DEF DeleteKeyFork
  <2>5. CASE CommitCallback
    <3>1. pendingDeletes' \subseteq pendingDeletes /\ files' \subseteq files
      BY <2>5, DeletesShrink, Zenon DEF CommitCallback
    <3>2. QED
      BY <2>5, <3>1 DEF CommitCallback, Reset, Nothing
  <2>6. CASE AbortCallback
    <3>1. pendingDeletes' \subseteq pendingDeletes /\ files' \subseteq files
      BY <2>6, DeletesShrink, Zenon DEF AbortCallback
    <3>2. QED
      BY <2>6, <3>1 DEF AbortCallback, Reset, Nothing
  <2>7. CASE PrepareCallback
    BY <2>7 DEF PrepareCallback, pending_delete_cleanup, Reset, Nothing
  <2>8. ASSUME NEW isCommit \in BOOLEAN, FinishPrepared(isCommit) PROVE TypeOK'
    BY <2>8 DEF FinishPrepared, NoPrepared
  <2>9. CASE SubCommit
    BY <2>9 DEF SubCommit
  <2>10. CASE SubAbort
    <3>1. pendingDeletes' \subseteq pendingDeletes /\ files' \subseteq files
      BY <2>10, DeletesShrink, Zenon DEF SubAbort
    <3>2. QED
      BY <2>10, <3>1 DEF SubAbort
  <2>11. CASE UNCHANGED vars
    BY <2>11 DEF vars
  <2>12. QED
    BY <2>1, <2>2, <2>3, <2>4, <2>5, <2>6, <2>7, <2>8, <2>9, <2>10, <2>11
       DEF Next, pg_tde_xact_callback, pg_tde_subxact_callback
<1>3. QED
  BY <1>1, <1>2, PTL DEF Spec

-----------------------------------------------------------------------------
(* The server starts with an empty list: the invariant holds.               *)
LEMMA InvInit == Init => IInv
<1>1. Init => TypeOK
  BY XactAssumption DEF Init, TypeOK, Nothing, NoPrepared, Level, Entry
<1>2. QED
  BY <1>1 DEF Init, IInv, OpenLevelsOnly, DropsAnswered,
              AbortEntriesUncommitted, Nothing

(* The outermost callbacks leave an empty list.                             *)
LEMMA EmptyAfterTop ==
  ASSUME TypeOK, nestLevel = 1, NEW isCommit \in BOOLEAN,
         do_pending_deletes(isCommit)
  PROVE  pendingDeletes' = {}
  BY TopLevelProcessesAll, DeletesShrink

(* With no entry on the list, no open transaction and nothing created or    *)
(* dropped the invariant holds.                                             *)
LEMMA IdleInv ==
  ASSUME TypeOK', pendingDeletes' = {}, Reset
  PROVE  IInv'
  BY DEF IInv, OpenLevelsOnly, DropsAnswered, AbortEntriesUncommitted, Reset, Nothing

(* Every registration and every callback preserves the invariant.           *)
LEMMA InvNext == IInv /\ TypeOK' /\ [Next]_vars => IInv'
<1> SUFFICES ASSUME IInv, TypeOK', [Next]_vars PROVE IInv'
  OBVIOUS
<1>0. /\ TypeOK /\ OpenLevelsOnly /\ DropsAnswered /\ AbortEntriesUncommitted
  BY DEF IInv
<1>m. MaxNest \in Nat /\ nestLevel \in Nat /\ nestLevel <= MaxNest
  BY <1>0, XactAssumption DEF TypeOK
<1>1. CASE Begin
  <2>1. pendingDeletes' = {}
    BY <1>0, <1>1 DEF Begin, OpenLevelsOnly
  <2>2. OpenLevelsOnly'
    BY <1>0, <1>1, <1>m, <2>1 DEF Begin, OpenLevelsOnly, Level
  <2>3. QED
    BY <2>1, <2>2 DEF IInv, DropsAnswered, AbortEntriesUncommitted
<1>2. CASE Savepoint
  <2>1. OpenLevelsOnly'
    BY <1>0, <1>2, <1>m DEF Savepoint, OpenLevelsOnly, Level
  <2>2. DropsAnswered'
    BY <1>0, <1>2, <1>m DEF Savepoint, DropsAnswered, Level
  <2>3. AbortEntriesUncommitted'
    BY <1>0, <1>2 DEF Savepoint, AbortEntriesUncommitted
  <2>4. QED
    BY <2>1, <2>2, <2>3 DEF IInv
<1>3. ASSUME NEW p \in Path, CreateKeyFork(p) PROVE IInv'
  <2>0. nestLevel \in Level
    BY <1>3, <1>m DEF CreateKeyFork, Level
  <2>1. OpenLevelsOnly'
    BY <1>0, <1>3, <2>0, <1>m
       DEF CreateKeyFork, OpenLevelsOnly, TypeOK, Level
  <2>2. DropsAnswered'
    BY <1>0, <1>3 DEF CreateKeyFork, RegisterFileForDeletion, DropsAnswered
  <2>3. AbortEntriesUncommitted'
    BY <1>0, <1>3
       DEF CreateKeyFork, RegisterFileForDeletion, FreePath, AbortEntriesUncommitted
  <2>4. QED
    BY <2>1, <2>2, <2>3 DEF IInv
<1>4. ASSUME NEW p \in Path, DeleteKeyFork(p) PROVE IInv'
  <2>0. nestLevel \in Level
    BY <1>4, <1>m DEF DeleteKeyFork, Level
  <2>1. OpenLevelsOnly'
    BY <1>0, <1>4, <2>0, <1>m
       DEF DeleteKeyFork, OpenLevelsOnly, TypeOK, Level
  <2>2. DropsAnswered'
    <3> SUFFICES ASSUME NEW e \in pendingDeletes', e.atCommit
                 PROVE  \E l \in Level : /\ l <= nestLevel' /\ l <= e.nestLevel
                                         /\ e.path \in dropped'[l]
      BY DEF DropsAnswered
    <3>1. CASE e \in pendingDeletes
      BY <1>0, <1>4, <2>0, <3>1 DEF DeleteKeyFork, DropsAnswered, TypeOK
    <3>2. CASE e = [path |-> p, atCommit |-> TRUE, nestLevel |-> nestLevel]
      BY <1>0, <1>4, <1>m, <2>0, <3>2 DEF DeleteKeyFork, TypeOK
    <3>3. QED
      BY <1>4, <3>1, <3>2 DEF DeleteKeyFork, RegisterFileForDeletion
  <2>3. AbortEntriesUncommitted'
    BY <1>0, <1>4
       DEF DeleteKeyFork, RegisterFileForDeletion, AbortEntriesUncommitted
  <2>4. QED
    BY <2>1, <2>2, <2>3 DEF IInv
<1>5. CASE CommitCallback
  BY <1>5, IdleInv DEF CommitCallback
<1>6. CASE AbortCallback
  BY <1>0, <1>6, EmptyAfterTop, IdleInv, Zenon DEF AbortCallback
<1>7. CASE PrepareCallback
  BY <1>7, IdleInv DEF PrepareCallback, pending_delete_cleanup
<1>8. ASSUME NEW isCommit \in BOOLEAN, FinishPrepared(isCommit) PROVE IInv'
  BY <1>0, <1>8
     DEF FinishPrepared, IInv, OpenLevelsOnly, DropsAnswered, AbortEntriesUncommitted
<1>9. CASE SubCommit
  <2>0. nestLevel \in Level /\ nestLevel - 1 \in Level
    BY <1>9, <1>m DEF SubCommit, Level
  <2>1. OpenLevelsOnly'
    <3>1. nestLevel' # 0
      BY <1>9, <1>m DEF SubCommit
    <3>2. ASSUME NEW l \in Level, l > nestLevel'
          PROVE  created'[l] = {} /\ dropped'[l] = {}
      BY <1>0, <1>9, <2>0, <3>2, <1>m DEF SubCommit, OpenLevelsOnly, TypeOK, Level
    <3>3. QED
      BY <3>1, <3>2 DEF OpenLevelsOnly
  <2>2. DropsAnswered'
    <3> SUFFICES ASSUME NEW e \in pendingDeletes', e.atCommit
                 PROVE  \E l \in Level : /\ l <= nestLevel' /\ l <= e.nestLevel
                                         /\ e.path \in dropped'[l]
      BY DEF DropsAnswered
    <3>1. e \in pendingDeletes /\ e.nestLevel \in Level
      BY <1>0, <1>9 DEF SubCommit, TypeOK, Entry
    <3>2. PICK l \in Level : /\ l <= nestLevel /\ l <= e.nestLevel
                             /\ e.path \in dropped[l]
      BY <1>0, <3>1 DEF DropsAnswered
    <3>3. CASE l = nestLevel
      <4>1. e.path \in dropped'[nestLevel - 1]
        <5>1. nestLevel - 1 # nestLevel
          BY <1>m
        <5>2. dropped'[nestLevel - 1] = dropped[nestLevel - 1] \cup dropped[nestLevel]
          BY <1>0, <1>9, <2>0, <5>1 DEF SubCommit, TypeOK
        <5>3. QED
          BY <3>2, <3>3, <5>2
      <4>2. QED
        <5>1. nestLevel - 1 <= nestLevel' /\ nestLevel - 1 <= e.nestLevel
          BY <1>9, <1>m, <3>1, <3>2, <3>3 DEF SubCommit, Level
        <5>2. QED
          BY <2>0, <4>1, <5>1
    <3>4. CASE l # nestLevel
      <4>1. e.path \in dropped'[l]
        BY <1>0, <1>9, <1>m, <2>0, <3>2, <3>4 DEF SubCommit, TypeOK
      <4>2. QED
        BY <1>9, <1>m, <3>2, <3>4, <4>1 DEF SubCommit, Level
    <3>5. QED
      BY <3>3, <3>4
  <2>3. AbortEntriesUncommitted'
    BY <1>0, <1>9 DEF SubCommit, AbortEntriesUncommitted
  <2>4. QED
    BY <2>1, <2>2, <2>3 DEF IInv
<1>10. CASE SubAbort
  <2>0. nestLevel \in Level /\ nestLevel - 1 \in Level
    BY <1>10, <1>m DEF SubAbort, Level
  <2>d. pendingDeletes' = pendingDeletes \ Processed(nestLevel)
    BY <1>10, DeletesShrink, Zenon DEF SubAbort
  <2>1. OpenLevelsOnly'
    <3>1. nestLevel' # 0
      BY <1>10, <1>m DEF SubAbort
    <3>2. ASSUME NEW l \in Level, l > nestLevel'
          PROVE  created'[l] = {} /\ dropped'[l] = {}
      BY <1>0, <1>10, <2>0, <3>2, <1>m DEF SubAbort, OpenLevelsOnly, TypeOK, Level
    <3>3. QED
      BY <3>1, <3>2 DEF OpenLevelsOnly
  <2>2. DropsAnswered'
    <3> SUFFICES ASSUME NEW e \in pendingDeletes', e.atCommit
                 PROVE  \E l \in Level : /\ l <= nestLevel' /\ l <= e.nestLevel
                                         /\ e.path \in dropped'[l]
      BY DEF DropsAnswered
    <3>1. /\ e \in pendingDeletes /\ e.nestLevel \in Level
          /\ ~(e.nestLevel >= nestLevel)
      BY <1>0, <2>d DEF Processed, TypeOK, Entry
    <3>2. PICK l \in Level : /\ l <= nestLevel /\ l <= e.nestLevel
                             /\ e.path \in dropped[l]
      BY <1>0, <3>1 DEF DropsAnswered
    <3>3. l # nestLevel /\ l <= nestLevel - 1
      BY <3>1, <3>2, <1>m DEF Level
    <3>4. e.path \in dropped'[l]
      BY <1>0, <1>10, <2>0, <3>2, <3>3 DEF SubAbort, TypeOK
    <3>5. QED
      BY <1>10, <3>2, <3>3, <3>4 DEF SubAbort
  <2>3. AbortEntriesUncommitted'
    BY <1>0, <1>10, <2>d DEF SubAbort, AbortEntriesUncommitted
  <2>4. QED
    BY <2>1, <2>2, <2>3 DEF IInv
<1>11. CASE UNCHANGED vars
  BY <1>0, <1>11 DEF vars, IInv, OpenLevelsOnly, DropsAnswered,
                     AbortEntriesUncommitted
<1>12. QED
  BY <1>1, <1>2, <1>3, <1>4, <1>5, <1>6, <1>7, <1>8, <1>9, <1>10, <1>11
     DEF Next, pg_tde_xact_callback, pg_tde_subxact_callback

(* The inductive invariant holds in every reachable state.                  *)
THEOREM Invariance == Spec => []IInv
<1>1. IInv /\ TypeOK' /\ [Next]_vars => IInv'
  BY InvNext
<1>2. QED
  BY InvInit, <1>1, TypeCorrect, PTL DEF Spec

(* A commit, at any nest depth, unlinks only what the transaction dropped;  *)
(* every other ending leaves the key files of committed relations alone.    *)
THEOREM CommittedFilesSafe == Spec => UnlinkOnlyAtDroppersCommit
<1>1. IInv /\ [Next]_vars
        => [\A p \in committed : p \in files /\ p \notin files'
              => nestLevel = 1 /\ nestLevel' = 0 /\ p \in dropped[1] /\ p \notin committed']_vars
  <2> SUFFICES ASSUME IInv, [Next]_vars, NEW p \in committed,
                      p \in files, p \notin files'
               PROVE  /\ nestLevel = 1 /\ nestLevel' = 0
                      /\ p \in dropped[1] /\ p \notin committed'
    OBVIOUS
  <2>0. TypeOK /\ DropsAnswered /\ AbortEntriesUncommitted
    BY DEF IInv
  <2>1. ~do_pending_deletes(FALSE)
    <3> SUFFICES ASSUME do_pending_deletes(FALSE) PROVE FALSE
      OBVIOUS
    <3>1. p \in ToUnlink(FALSE)
      BY DeletesShrink
    <3>2. PICK e \in pendingDeletes : e.path = p /\ e.atCommit = FALSE
      BY <3>1, ToUnlinkEntry
    <3>3. QED
      BY <2>0, <3>2 DEF AbortEntriesUncommitted
  <2>2. CommitCallback
    BY <2>1 DEF Next, vars, Begin, Savepoint, CreateKeyFork, DeleteKeyFork,
                pg_tde_xact_callback, pg_tde_subxact_callback, AbortCallback,
                PrepareCallback, FinishPrepared, SubCommit, SubAbort
  <2>3. p \in ToUnlink(TRUE)
    BY <2>2, DeletesShrink, Zenon DEF CommitCallback
  <2>4. PICK e \in pendingDeletes : e.path = p /\ e.atCommit = TRUE
    BY <2>3, ToUnlinkEntry
  <2>5. PICK l \in Level : l <= nestLevel /\ p \in dropped[l]
    BY <2>0, <2>4 DEF DropsAnswered
  <2>6. l = 1
    BY <2>2, <2>5, XactAssumption DEF CommitCallback, Level
  <2>7. QED
    BY <2>2, <2>5, <2>6 DEF CommitCallback, Reset
<1>2. QED
  BY <1>1, Invariance, PTL DEF Spec, UnlinkOnlyAtDroppersCommit

-----------------------------------------------------------------------------
(* When unlink does not fail, every key file an open transaction has created *)
(* stays scheduled for deletion at abort, however its savepoints nest.       *)
THEOREM AbortReachesEveryNewFile ==
  ASSUME ~UnlinkMayFail
  PROVE  Spec => []UncommittedFilesScheduled
<1> DEFINE Sched(l, p) == \E e \in pendingDeletes :
                            e.path = p /\ ~e.atCommit /\ e.nestLevel >= l
<1>1. Init => UncommittedFilesScheduled
  BY DEF Init, UncommittedFilesScheduled, Nothing
<1>2. TypeOK /\ UncommittedFilesScheduled /\ [Next]_vars => UncommittedFilesScheduled'
  <2> SUFFICES ASSUME TypeOK, UncommittedFilesScheduled, [Next]_vars,
                      NEW l \in Level, NEW p \in created'[l], p \in files'
               PROVE  Sched(l, p)'
    BY DEF UncommittedFilesScheduled
  <2>m. MaxNest \in Nat /\ nestLevel \in Nat /\ nestLevel <= MaxNest /\ l \in Nat
    BY XactAssumption DEF TypeOK, Level
  <2>s. p \in created[l] /\ p \in files => Sched(l, p)
    BY DEF UncommittedFilesScheduled
  <2>1. CASE created' = created /\ files' = files /\ pendingDeletes \subseteq pendingDeletes'
    BY <2>1, <2>s
  <2>2. CASE Reset
    BY <2>2 DEF Reset, Nothing
  <2>3. ASSUME NEW q \in Path, CreateKeyFork(q) PROVE Sched(l, p)'
    <3>1. nestLevel \in Level
      BY <2>3, <2>m DEF CreateKeyFork, Level
    <3>2. CASE l = nestLevel /\ p = q
      <4> DEFINE e == [path |-> p, atCommit |-> FALSE, nestLevel |-> nestLevel]
      <4>1. e \in pendingDeletes'
        BY <2>3, <3>2 DEF CreateKeyFork, RegisterFileForDeletion
      <4>2. e.path = p /\ ~e.atCommit /\ e.nestLevel >= l
        BY <3>2, <2>m
      <4>3. QED
        BY <4>1, <4>2
    <3>3. CASE p \in created[l] /\ p \in files
      BY <2>3, <2>s, <3>3 DEF CreateKeyFork, RegisterFileForDeletion
    <3>4. CASE p \in created[l] /\ p \notin files
      BY <2>3, <3>1, <3>4 DEF CreateKeyFork, FreePath, Union
    <3>5. p \in created[l] \/ (l = nestLevel /\ p = q)
      BY <2>3, <3>1 DEF CreateKeyFork, TypeOK
    <3>6. QED
      BY <3>2, <3>3, <3>4, <3>5
  <2>4. ASSUME NEW q \in Path, DeleteKeyFork(q) PROVE Sched(l, p)'
    BY <2>4, <2>1 DEF DeleteKeyFork, RegisterFileForDeletion
  <2>5. CASE SubCommit
    <3>1. nestLevel \in Level /\ nestLevel - 1 \in Level /\ nestLevel - 1 # nestLevel
      BY <2>5, <2>m DEF SubCommit, Level
    <3>2. \/ p \in created[l]
          \/ l = nestLevel - 1 /\ p \in created[nestLevel]
      BY <2>5, <3>1 DEF SubCommit, TypeOK
    <3>3. CASE p \in created[l]
      BY <2>5, <2>s, <3>3 DEF SubCommit
    <3>4. CASE l = nestLevel - 1 /\ p \in created[nestLevel]
      <4>1. PICK e \in pendingDeletes :
                   e.path = p /\ ~e.atCommit /\ e.nestLevel >= nestLevel
        BY <2>5, <3>1, <3>4 DEF SubCommit, UncommittedFilesScheduled
      <4>2. e.nestLevel \in Nat
        BY <4>1, XactAssumption DEF TypeOK, Entry, Level
      <4>3. e.nestLevel >= l
        BY <3>4, <4>1, <4>2, <2>m
      <4>4. QED
        BY <2>5, <4>1, <4>3 DEF SubCommit
    <3>5. QED
      BY <3>2, <3>3, <3>4
  <2>6. CASE SubAbort
    <3>0. nestLevel \in Level
      BY <2>6, <2>m DEF SubAbort, Level
    <3>1. p \in created[l] /\ p \in files
      BY <2>6, <3>0, DeletesShrink DEF SubAbort, TypeOK
    <3>2. PICK e \in pendingDeletes : e.path = p /\ ~e.atCommit /\ e.nestLevel >= l
      BY <2>s, <3>1
    <3>3. files' = files \ ToUnlink(FALSE)
      BY <2>6 DEF SubAbort, do_pending_deletes
    <3>4. e \notin Processed(nestLevel)
      <4> SUFFICES ASSUME e \in Processed(nestLevel) PROVE FALSE
        OBVIOUS
      <4>1. e.atCommit = FALSE
        BY <3>2 DEF TypeOK, Entry
      <4>2. p \in ToUnlink(FALSE)
        BY <3>2, <4>1 DEF ToUnlink
      <4>3. QED
        BY <3>3, <4>2
    <3>5. e \in pendingDeletes'
      BY <2>6, <3>2, <3>4 DEF SubAbort, do_pending_deletes
    <3>6. QED
      BY <3>2, <3>5
  <2>7. CASE UNCHANGED vars
    BY <2>7, <2>1 DEF vars
  <2>8. QED
    BY <2>1, <2>2, <2>3, <2>4, <2>5, <2>6, <2>7
       DEF Next, pg_tde_xact_callback, pg_tde_subxact_callback, Begin, Savepoint,
           CommitCallback, AbortCallback, PrepareCallback, FinishPrepared
<1>3. QED
  BY <1>1, <1>2, TypeCorrect, PTL DEF Spec

-----------------------------------------------------------------------------
(* Without savepoints: a path has one owner (the catalogs, the open          *)
(* transaction or the prepared one), and each owner's key files are on disk. *)
OneOwner ==
  /\ created[1] \cap (committed \cup prepared.created) = {}
  /\ prepared.created \cap committed = {}
  /\ dropped[1] \subseteq committed \cup created[1]
  /\ \A e \in pendingDeletes : ~e.atCommit => e.path \notin prepared.created

OwnersHaveFiles ==
  committed \cup created[1] \cup prepared.created \subseteq files

(* Without savepoints every relation in the catalogs keeps its key file,     *)
(* whether or not unlink fails and whether or not transactions are prepared. *)
THEOREM FlatKeepsFiles ==
  ASSUME MaxNest = 1
  PROVE  Spec => []CommittedFilesKept
<1> DEFINE J == OneOwner /\ OwnersHaveFiles
<1>l. Level = {1}
  BY DEF Level
<1>u. \A f : Union(f) = f[1]
  BY <1>l DEF Union
<1>1. Init => J
  BY <1>l DEF Init, OneOwner, OwnersHaveFiles, Nothing, NoPrepared
<1>2. IInv /\ J /\ [Next]_vars => J'
  <2> SUFFICES ASSUME IInv, J, [Next]_vars PROVE J'
    OBVIOUS
  <2>0. TypeOK /\ DropsAnswered /\ AbortEntriesUncommitted /\ OpenLevelsOnly
    BY DEF IInv
  <2>1. CASE UNCHANGED <<files, committed, created, dropped, prepared>>
             /\ pendingDeletes' \subseteq pendingDeletes
    BY <2>1 DEF OneOwner, OwnersHaveFiles
  <2>2. ASSUME NEW p \in Path, CreateKeyFork(p) PROVE J'
    <3>1. created'[1] = created[1] \cup {p}
      BY <2>0, <2>2, <1>l DEF CreateKeyFork, TypeOK
    <3>2. p \notin committed \cup prepared.created
      BY <2>2 DEF CreateKeyFork, FreePath
    <3>3. OneOwner'
      <4>1. \A e \in pendingDeletes' : ~e.atCommit => e.path \notin prepared.created
        BY <2>2, <3>2 DEF CreateKeyFork, RegisterFileForDeletion, OneOwner
      <4>2. QED
        BY <2>2, <3>1, <3>2, <4>1 DEF CreateKeyFork, OneOwner
    <3>4. OwnersHaveFiles'
      BY <2>2, <3>1 DEF CreateKeyFork, OwnersHaveFiles
    <3>5. QED
      BY <3>3, <3>4
  <2>3. ASSUME NEW p \in Path, DeleteKeyFork(p) PROVE J'
    <3>1. dropped'[1] = dropped[1] \cup {p} /\ p \in committed \cup created[1]
      BY <2>0, <2>3, <1>l, <1>u DEF DeleteKeyFork, LivePath, TypeOK
    <3>2. \A e \in pendingDeletes' : ~e.atCommit => e.path \notin prepared.created
      BY <2>3 DEF DeleteKeyFork, RegisterFileForDeletion, OneOwner
    <3>3. QED
      BY <2>3, <3>1, <3>2 DEF DeleteKeyFork, OneOwner, OwnersHaveFiles
  <2>4. CASE CommitCallback
    <3>1. \A p \in files \ files' : p \in dropped[1]
      <4> SUFFICES ASSUME NEW p \in files \ files' PROVE p \in dropped[1]
        OBVIOUS
      <4>1. p \in ToUnlink(TRUE)
        BY <2>4, DeletesShrink, Zenon DEF CommitCallback
      <4>2. PICK e \in pendingDeletes : e.path = p /\ e.atCommit = TRUE
        BY <4>1, ToUnlinkEntry
      <4>3. QED
        BY <2>0, <4>2, <1>l DEF DropsAnswered
    <3>2. created'[1] = {} /\ dropped'[1] = {}
      BY <2>4, <1>l DEF CommitCallback, Reset, Nothing
    <3>3. QED
      BY <2>4, <3>1, <3>2 DEF CommitCallback, OneOwner, OwnersHaveFiles
  <2>5. CASE AbortCallback
    <3>1. \A p \in files \ files' : p \notin committed \cup prepared.created
      <4> SUFFICES ASSUME NEW p \in files \ files'
                   PROVE  p \notin committed \cup prepared.created
        OBVIOUS
      <4>1. p \in ToUnlink(FALSE)
        BY <2>5, DeletesShrink, Zenon DEF AbortCallback
      <4>2. PICK e \in pendingDeletes : e.path = p /\ e.atCommit = FALSE
        BY <4>1, ToUnlinkEntry
      <4>3. QED
        BY <2>0, <4>2 DEF AbortEntriesUncommitted, OneOwner
    <3>2. created'[1] = {} /\ dropped'[1] = {}
      BY <2>5, <1>l DEF AbortCallback, Reset, Nothing
    <3>3. pendingDeletes' \subseteq pendingDeletes
      BY <2>5, DeletesShrink, Zenon DEF AbortCallback
    <3>4. QED
      BY <2>5, <3>1, <3>2, <3>3 DEF AbortCallback, OneOwner, OwnersHaveFiles
  <2>6. CASE PrepareCallback
    <3>1. created'[1] = {} /\ dropped'[1] = {}
      BY <2>6, <1>l DEF PrepareCallback, Reset, Nothing
    <3>2. QED
      BY <2>6, <3>1 DEF PrepareCallback, pending_delete_cleanup, OneOwner, OwnersHaveFiles
  <2>7. ASSUME NEW isCommit \in BOOLEAN, FinishPrepared(isCommit) PROVE J'
    <3>1. pendingDeletes = {} /\ created[1] = {} /\ dropped[1] = {}
      BY <2>0, <2>7, <1>l DEF FinishPrepared, OpenLevelsOnly
    <3>2. QED
      BY <2>7, <3>1 DEF FinishPrepared, NoPrepared, OneOwner, OwnersHaveFiles
  <2>8. ~SubCommit /\ ~SubAbort
    <3>1. ~(nestLevel > 1)
      BY <2>0 DEF TypeOK
    <3>2. QED
      BY <3>1 DEF SubCommit, SubAbort
  <2>9. CASE Begin \/ Savepoint \/ UNCHANGED vars
    BY <2>1, <2>9 DEF Begin, Savepoint, vars
  <2>10. QED
    BY <2>2, <2>3, <2>4, <2>5, <2>6, <2>7, <2>8, <2>9
       DEF Next, pg_tde_xact_callback, pg_tde_subxact_callback
<1>3. J => CommittedFilesKept
  BY DEF OwnersHaveFiles, CommittedFilesKept
<1>4. QED
  BY <1>1, <1>2, <1>3, Invariance, PTL DEF Spec

-----------------------------------------------------------------------------
(* Freezing: Freeze                                                         *)

(* Headers, with the statuses C of transactions and the multixacts M as       *)
(* parameters: the same for the state before and after a step.               *)

MemberRec == [xid : Xid, upd : BOOLEAN]
XmaxRec == [multi : Nat, single : SUBSET MemberRec]
ItemRec == [kind : {"free", "dead", "tuple"}, xmin : 0..MaxXid, xmax : XmaxRec]
Status == {"unused", "running", "committed", "aborted"}

MembersOf(M, xm) == IF xm.multi # 0 THEN M[xm.multi] ELSE xm.single
XidsOf(M, t) == ({t.xmin} \ {Frozen}) \cup {m.xid : m \in MembersOf(M, t.xmax)}

Committed(C, x) == x = Frozen \/ C[x] = "committed"
Ended(C, x) == C[x] = "committed" \/ C[x] = "aborted"

(* A lock that is held, or an update that is under way or committed.         *)
Counts(C, m) == C[m.xid] = "running" \/ (m.upd /\ C[m.xid] = "committed")
Counting(C, ms) == {m \in ms : Counts(C, m)}

(* Members began, and at most one of them updates the row.                   *)
MembersFine(C, ms) ==
  /\ ms \subseteq MemberRec
  /\ \A m \in ms : C[m.xid] # "unused"
  /\ \A m, n \in ms : m.upd /\ n.upd => m.xid = n.xid

(* Who locks or updates a row may see it.                                    *)
ItemFine(C, M, t) ==
  /\ t \in ItemRec /\ t.xmax.multi <= Len(M)
  /\ t.xmax.multi # 0 => t.xmax.single = {}
  /\ \A m, n \in t.xmax.single : m = n
  /\ t.kind # "tuple" => t.xmin = Frozen /\ t.xmax = NoXmax
  /\ t.xmin # Frozen => C[t.xmin] # "unused"
  /\ MembersFine(C, MembersOf(M, t.xmax))
  /\ \A m \in MembersOf(M, t.xmax) : Committed(C, t.xmin) \/ t.xmin = m.xid

AtLeast(M, t, fx, fm) ==
  /\ \A x \in XidsOf(M, t) : x >= fx
  /\ t.xmax.multi # 0 => t.xmax.multi >= fm

WhollyFrozen(t) == t.xmin = Frozen /\ t.xmax = NoXmax

(* Nobody below a cutoff can run any more.                                   *)
Over(C, h) == \A x \in Xid : x < h => Ended(C, x)
OverMulti(C, M, i) ==
  /\ i <= Len(M) + 1
  /\ \A j \in 1..Len(M) : j < i => \A m \in M[j] : C[m.xid] # "running"

(* What p, planned for t, keeps of it, and the bounds pf on what is left.     *)
Keeps(C, M, ox, t, p) ==
  /\ p.kind = t.kind
  /\ t.kind # "tuple" => p = t
  /\ Counting(C, MembersOf(M, p.xmax)) = Counting(C, MembersOf(M, t.xmax))
  /\ p.xmin = t.xmin \/ (p.xmin = Frozen /\ t.xmin < ox /\ C[t.xmin] = "committed")
  /\ t.xmax.multi = 0 /\ t.xmax # p.xmax => p.xmax = NoXmax
  /\ XidsOf(M, p) \subseteq XidsOf(M, t)
  /\ p.xmax.multi # 0 => t.xmax.multi # 0 /\ p.xmax.multi >= t.xmax.multi
  /\ WhollyFrozen(t) => p = t
Bounds(M, t, p, pf) ==
  /\ AtLeast(M, p, pf.fx, pf.fm)
  /\ ~pf.required => AtLeast(M, t, pf.nfx, pf.nfm)
Planned(C, M, v, t, p) ==
  /\ ItemFine(C, M, p) /\ Keeps(C, M, v.OldestXmin, t, p) /\ Bounds(M, t, p, v.pagefrz)
  /\ v.all_frozen => WhollyFrozen(p)

-----------------------------------------------------------------------------
(* The inductive invariant.                                                  *)

PageFrz == [required : BOOLEAN, fx : Nat, fm : Nat, nfx : Nat, nfm : Nat]
VacRec ==
  [pc : {"idle", "block", "noprune", "prune", "prepare"}, aggressive : BOOLEAN,
   OldestXmin : 0..(MaxXid + 1), OldestMxact : Nat, FreezeLimit : Nat, MultiXactCutoff : Nat,
   NewRelfrozenXid : Nat, NewRelminMxid : Nat, skippedallvis : BOOLEAN,
   blk : Nat, unskippable : Nat, allvis : BOOLEAN, skipping : BOOLEAN,
   according : BOOLEAN, slot : Nat, pagefrz : PageFrz, plans : Seq(ItemRec),
   all_visible : BOOLEAN, all_frozen : BOOLEAN, dead : SUBSET Nat]

NBlocks == Len(load.pages)

FreezeTypeOK ==
  /\ load \in Loads
  /\ DOMAIN pages = 0..(NBlocks - 1) /\ pages \in [DOMAIN pages -> Seq(ItemRec)]
  /\ vm \in [DOMAIN pages -> {"none", "visible", "frozen"}]
  /\ xact \in [Xid -> Status] /\ multis \in Seq(SUBSET MemberRec)
  /\ relfrozenxid \in 1..(MaxXid + 1) /\ relminmxid \in Nat \ {0}
  /\ vac \in VacRec
  /\ touches \in Nat /\ vacuums \in Nat

MultisFine == \A i \in 1..Len(multis) : MembersFine(xact, multis[i])
PagesFine == \A b \in Block : \A o \in Slot(b) : ItemFine(xact, multis, pages[b][o])

CatalogOver == Over(xact, relfrozenxid) /\ OverMulti(xact, multis, relminmxid)
CatalogTrue ==
  \A b \in Block : \A o \in Slot(b) : AtLeast(multis, pages[b][o], relfrozenxid, relminmxid)

MapTrue == \A b \in Block : vm[b] = "frozen" => \A o \in Slot(b) : WhollyFrozen(pages[b][o])

(* The cutoffs and the trackers of a vacuum that is under way.                *)
Advanced(v, fx, fm) == v.aggressive => fx >= v.FreezeLimit /\ fm >= v.MultiXactCutoff
Trackers(v, fx, fm) == fx <= v.OldestXmin /\ fm <= v.OldestMxact /\ Advanced(v, fx, fm)
Cutoffs(C, M, rf, rm, v) ==
  /\ Over(C, v.OldestXmin) /\ OverMulti(C, M, v.OldestMxact)
  /\ rf <= v.FreezeLimit /\ v.FreezeLimit <= v.OldestXmin
  /\ rm <= v.MultiXactCutoff /\ v.MultiXactCutoff <= v.OldestMxact
  /\ Trackers(v, v.NewRelfrozenXid, v.NewRelminMxid)
  /\ v.aggressive => ~v.skippedallvis

(* Blocks that are done, or that vacuum has decided to skip.                  *)
Covered(v, b) ==
  b < v.blk \/ (v.skipping /\ b < v.unskippable /\ (b # v.blk \/ v.pc = "block"))
CoveredTrue(M, P, v) ==
  \A b \in DOMAIN P : Covered(v, b) =>
    \/ v.skippedallvis
    \/ \A o \in DOMAIN P[b] : AtLeast(M, P[b][o], v.NewRelfrozenXid, v.NewRelminMxid)

Place(P, v) ==
  /\ v.pc = "block" => v.blk <= v.unskippable
  /\ v.pc # "block" => v.blk < v.unskippable /\ v.blk \in DOMAIN P

(* The plans for a page, made up to slot.                                    *)
PageBounds(v, pf) ==
  /\ pf.fx <= v.NewRelfrozenXid /\ pf.fm <= v.NewRelminMxid
  /\ Advanced(v, pf.fx, pf.fm)
  /\ pf.nfx <= v.NewRelfrozenXid /\ pf.nfm <= v.NewRelminMxid
  /\ ~pf.required => Advanced(v, pf.nfx, pf.nfm)
Plans(C, M, P, v) ==
  v.pc = "prepare" =>
    /\ v.slot \in 1..(Len(P[v.blk]) + 1) /\ Len(v.plans) = v.slot - 1
    /\ PageBounds(v, v.pagefrz)
    /\ \A o \in 1..(v.slot - 1) : Planned(C, M, v, P[v.blk][o], v.plans[o])

VacuumInv ==
  vac.pc # "idle" =>
    /\ Cutoffs(xact, multis, relfrozenxid, relminmxid, vac)
    /\ CoveredTrue(multis, pages, vac)
    /\ Place(pages, vac) /\ Plans(xact, multis, pages, vac)

FreezeInv ==
  /\ FreezeTypeOK /\ MultisFine /\ PagesFine /\ CatalogOver /\ CatalogTrue /\ MapTrue /\ VacuumInv

-----------------------------------------------------------------------------
(* Numbers and names.                                                        *)

\* The cutoffs are ordered from 1 to one more than the last transaction.
LEMMA Numbers ==
  ASSUME FreezeAssumption
  PROVE  /\ MaxXid \in Nat /\ 1 \in Xid /\ Xid \subseteq Nat /\ Frozen \notin Xid
         /\ \A x \in Xid : x >= 1 /\ x <= MaxXid
  BY DEF FreezeAssumption, Xid, Frozen

\* A set of natural numbers that is not empty has a least one.
LEMMA LeastNatural ==
  ASSUME NEW T, T \subseteq Nat, T # {}
  PROVE  \E x \in T : \A y \in T : x <= y
<1> DEFINE R == OpToRel(<, Nat)
<1>1. IsWellFoundedOn(R, Nat)
  BY NatLessThanWellFounded
<1>2. \A x, y \in Nat : y < x => <<y, x>> \in R
  BY DEF OpToRel
<1> HIDE DEF R
<1>3. PICK x \in T : \A y \in T : ~ (<<y, x>> \in R)
  BY <1>1, WFMin, Zenon
<1>4. \A y \in T : ~(y < x)
  BY <1>2, <1>3, Zenon
<1> QED
  BY <1>4

\* Min is the least element.
LEMMA MinIsLeast ==
  ASSUME NEW S, S \subseteq Nat, S # {}
  PROVE  Min(S) \in S /\ \A n \in S : Min(S) <= n
<1>1. \E m \in S : \A n \in S : m <= n
  BY LeastNatural
<1> QED
  BY <1>1, Zenon DEF Min

\* The length of a sequence.
LEMMA LenInNat ==
  ASSUME NEW S, NEW q \in Seq(S)
  PROVE  Len(q) \in Nat
  OBVIOUS

\* The names of the model are those of the parameterised definitions.
LEMMA Names ==
  /\ \A xm : Members(xm) = MembersOf(multis, xm)
  /\ \A t : Xids(t) = XidsOf(multis, t)
  /\ \A x : Running(x) <=> xact[x] = "running"
  /\ \A x : DidCommit(x) <=> Committed(xact, x)
  /\ \A ms : Lasting(ms) = {m \in ms : Running(m.xid) \/ (m.upd /\ DidCommit(m.xid))}
<1>1. \A xm : Members(xm) = MembersOf(multis, xm)
  BY Zenon DEF Members, MembersOf
<1>2. \A t : Xids(t) = XidsOf(multis, t)
  BY <1>1, Zenon DEF Xids, XidsOf
<1>3. \A x : DidCommit(x) <=> Committed(xact, x)
  BY DEF DidCommit, Committed
<1> QED
  BY <1>1, <1>2, <1>3, Zenon DEF Running, Lasting

-----------------------------------------------------------------------------
(* Time passes: transactions begin and end, multixacts are added.             *)

Moves(C, D) ==
  /\ C \in [Xid -> Status] /\ D \in [Xid -> Status]
  /\ \A y \in Xid : /\ C[y] # "unused" => D[y] # "unused"
                    /\ Ended(C, y) => D[y] = C[y]
Grows(M, N) ==
  /\ M \in Seq(SUBSET MemberRec) /\ N \in Seq(SUBSET MemberRec)
  /\ Len(M) <= Len(N) /\ \A i \in 1..Len(M) : N[i] = M[i]

\* A multixact that a header names is there.
LEMMA ItemNamed ==
  ASSUME NEW C, NEW M, NEW t, ItemFine(C, M, t)
  PROVE  t.xmax.multi \in Nat /\ t.xmax.multi <= Len(M)
  BY DEF ItemFine, ItemRec, XmaxRec

\* It has the same members later.
LEMMA MembersStable ==
  ASSUME NEW M, NEW N, NEW t, t.xmax.multi \in Nat, t.xmax.multi <= Len(M), Grows(M, N)
  PROVE  /\ MembersOf(N, t.xmax) = MembersOf(M, t.xmax)
         /\ XidsOf(N, t) = XidsOf(M, t)
         /\ \A fx, fm : AtLeast(N, t, fx, fm) <=> AtLeast(M, t, fx, fm)
<1>1. Len(M) \in Nat
  BY DEF Grows
<1>2. t.xmax.multi # 0 => N[t.xmax.multi] = M[t.xmax.multi]
  BY <1>1 DEF Grows
<1>3. MembersOf(N, t.xmax) = MembersOf(M, t.xmax)
  BY <1>2, Zenon DEF MembersOf
<1>4. XidsOf(N, t) = XidsOf(M, t)
  BY <1>3, Zenon DEF XidsOf
<1> QED
  BY <1>3, <1>4, Zenon DEF AtLeast

\* Members that began stay so.
LEMMA MembersFineStable ==
  ASSUME NEW C, NEW D, NEW ms, MembersFine(C, ms), Moves(C, D)
  PROVE  MembersFine(D, ms)
<1>1. \A m \in ms : m.xid \in Xid
  BY DEF MembersFine, MemberRec
<1> QED
  BY <1>1, Zenon DEF MembersFine, Moves

\* Who has committed stays so.
LEMMA CommittedStable ==
  ASSUME NEW C, NEW D, NEW x \in 0..MaxXid, Committed(C, x), Moves(C, D), FreezeAssumption
  PROVE  Committed(D, x)
<1>1. CASE x = Frozen
  BY <1>1, Zenon DEF Committed
<1>2. CASE x # Frozen
  <2>1. x \in Xid
    BY <1>2, FreezeAssumption DEF Xid, Frozen, FreezeAssumption
  <2> QED
    BY <2>1, <1>2, Zenon DEF Committed, Moves, Ended
<1> QED
  BY <1>1, <1>2, Zenon

\* What is known of a header stays true.
LEMMA ItemFineStable ==
  ASSUME FreezeAssumption, NEW C, NEW D, NEW M, NEW N, NEW t, ItemFine(C, M, t), Moves(C, D), Grows(M, N)
  PROVE  ItemFine(D, N, t)
<1>1. MembersOf(N, t.xmax) = MembersOf(M, t.xmax)
  BY ItemNamed, MembersStable, Zenon
<1>2. t.xmin \in 0..MaxXid /\ t.xmax.multi \in Nat
  BY DEF ItemFine, ItemRec, XmaxRec
<1>3. t.xmin # Frozen => t.xmin \in Xid
  BY <1>2, FreezeAssumption DEF Xid, Frozen, FreezeAssumption
<1>4. t.xmax.multi <= Len(N)
  <2>1. Len(M) \in Nat /\ Len(N) \in Nat /\ Len(M) <= Len(N) /\ t.xmax.multi <= Len(M)
    BY Zenon, LenInNat DEF Grows, ItemFine
  <2> QED
    BY <2>1, <1>2
<1>5. MembersFine(D, MembersOf(M, t.xmax))
  BY MembersFineStable, Zenon DEF ItemFine
<1>6. \A m \in MembersOf(M, t.xmax) : Committed(D, t.xmin) \/ t.xmin = m.xid
  BY <1>2, CommittedStable, Zenon DEF ItemFine
<1>7. t.xmin # Frozen => D[t.xmin] # "unused"
  BY <1>3, Zenon DEF ItemFine, Moves
<1> QED
  BY <1>1, <1>4, <1>5, <1>6, <1>7, Zenon DEF ItemFine

\* A member that does not count never does again.
LEMMA CountingStable ==
  ASSUME NEW C, NEW D, NEW ms, MembersFine(C, ms), Moves(C, D)
  PROVE  Counting(D, ms) = {m \in Counting(C, ms) : Counts(D, m)}
<1>1. ASSUME NEW m \in ms, Counts(D, m)
      PROVE  Counts(C, m)
  <2>1. m.xid \in Xid /\ C[m.xid] # "unused"
    BY DEF MembersFine, MemberRec
  <2>2. C[m.xid] \in Status /\ (Ended(C, m.xid) => D[m.xid] = C[m.xid])
    BY <2>1 DEF Moves
  <2> QED
    BY <1>1, <2>1, <2>2 DEF Counts, Ended, Status
<1> QED
  BY <1>1, Zenon DEF Counting

\* A plan stays right, whoever ends.
LEMMA PlannedStable ==
  ASSUME FreezeAssumption, NEW C, NEW D, NEW M, NEW N, NEW v, NEW t, NEW p,
         ItemFine(C, M, t), Planned(C, M, v, t, p), Moves(C, D), Grows(M, N)
  PROVE  Planned(D, N, v, t, p)
<1>1. ItemFine(C, M, p) /\ ItemFine(D, N, p)
  BY ItemFineStable, Zenon DEF Planned
<1>0. /\ t.xmax.multi \in Nat /\ t.xmax.multi <= Len(M)
      /\ p.xmax.multi \in Nat /\ p.xmax.multi <= Len(M)
  BY <1>1, ItemNamed, Zenon
<1>2. /\ MembersOf(N, t.xmax) = MembersOf(M, t.xmax)
      /\ MembersOf(N, p.xmax) = MembersOf(M, p.xmax)
      /\ \A fx, fm : AtLeast(N, t, fx, fm) <=> AtLeast(M, t, fx, fm)
      /\ \A fx, fm : AtLeast(N, p, fx, fm) <=> AtLeast(M, p, fx, fm)
      /\ XidsOf(N, t) = XidsOf(M, t) /\ XidsOf(N, p) = XidsOf(M, p)
  BY <1>0, MembersStable, Zenon
<1>3. Counting(D, MembersOf(M, p.xmax)) = Counting(D, MembersOf(M, t.xmax))
  <2>1. MembersFine(C, MembersOf(M, p.xmax)) /\ MembersFine(C, MembersOf(M, t.xmax))
    BY <1>1, Zenon DEF ItemFine
  <2>2. Counting(C, MembersOf(M, p.xmax)) = Counting(C, MembersOf(M, t.xmax))
    BY Zenon DEF Planned, Keeps
  <2>3. Counting(D, MembersOf(M, p.xmax)) = {m \in Counting(C, MembersOf(M, p.xmax)) : Counts(D, m)}
    BY <2>1, CountingStable, Zenon
  <2>4. Counting(D, MembersOf(M, t.xmax)) = {m \in Counting(C, MembersOf(M, t.xmax)) : Counts(D, m)}
    BY <2>1, CountingStable, Zenon
  <2> QED
    BY <2>2, <2>3, <2>4, Zenon
<1>4. C[t.xmin] = "committed" /\ t.xmin # Frozen => D[t.xmin] = "committed"
  <2>1. t.xmin \in 0..MaxXid
    BY DEF ItemFine, ItemRec
  <2>2. t.xmin # Frozen => t.xmin \in Xid
    BY <2>1, FreezeAssumption DEF Xid, Frozen, FreezeAssumption
  <2> QED
    BY <2>2, Zenon DEF Moves, Ended
<1>5. Keeps(C, M, v.OldestXmin, t, p) /\ Bounds(M, t, p, v.pagefrz)
  BY Zenon DEF Planned
<1>6. Keeps(D, N, v.OldestXmin, t, p)
  <2>1. p.xmin = t.xmin \/ (p.xmin = Frozen /\ t.xmin < v.OldestXmin /\ D[t.xmin] = "committed")
    BY <1>4, <1>5, Zenon DEF Keeps
  <2> QED
    BY <1>2, <1>3, <1>5, <2>1, Zenon DEF Keeps
<1>7. Bounds(N, t, p, v.pagefrz)
  BY <1>2, <1>5, Zenon DEF Bounds
<1> QED
  BY <1>1, <1>6, <1>7, Zenon DEF Planned

\* A cutoff that all are over with stays one.
LEMMA OverStable ==
  ASSUME NEW C, NEW D, NEW h, Over(C, h), Moves(C, D)
  PROVE  Over(D, h)
  BY Zenon DEF Over, Moves, Ended

\* Multixacts nobody runs in stay so.
LEMMA OverMultiStable ==
  ASSUME NEW C, NEW D, NEW M, NEW N, NEW i \in Nat, OverMulti(C, M, i), Moves(C, D), Grows(M, N),
         \A j \in 1..Len(M) : MembersFine(C, M[j])
  PROVE  OverMulti(D, N, i)
<1>1. Len(M) \in Nat /\ Len(N) \in Nat /\ Len(M) <= Len(N)
  BY LenInNat, Zenon DEF Grows
<1>2. i <= Len(N) + 1
  BY <1>1 DEF OverMulti
<1>3. ASSUME NEW j \in 1..Len(N), j < i, NEW m \in N[j]
      PROVE  D[m.xid] # "running"
  <2>1. j \in 1..Len(M)
    BY <1>1, <1>3 DEF OverMulti
  <2>2. N[j] = M[j]
    BY <2>1, Zenon DEF Grows
  <2>3. C[m.xid] # "running" /\ C[m.xid] # "unused" /\ m.xid \in Xid
    BY <1>3, <2>1, <2>2 DEF OverMulti, MembersFine, MemberRec
  <2>4. Ended(C, m.xid)
    BY <2>3 DEF Moves, Ended, Status
  <2> QED
    BY <2>3, <2>4, Zenon DEF Moves
<1> QED
  BY <1>2, <1>3, Zenon DEF OverMulti

-----------------------------------------------------------------------------
(* Transactions: ids they leave are not below any cutoff.                    *)

\* Smaller cutoffs are over, too.
LEMMA OverSmaller ==
  ASSUME FreezeAssumption, NEW C, NEW M, NEW h \in Nat, NEW g \in Nat, NEW i \in Nat, NEW j \in Nat,
         M \in Seq(SUBSET MemberRec), g <= h, j <= i, Over(C, h), OverMulti(C, M, i)
  PROVE  Over(C, g) /\ OverMulti(C, M, j)
<1>1. Over(C, g)
  BY Numbers DEF Over
<1>2. Len(M) \in Nat
  BY LenInNat, Zenon
<1>3. j <= Len(M) + 1
  BY <1>2 DEF OverMulti
<1>4. \A k \in 1..Len(M) : k < j => k < i
  BY <1>2
<1> QED
  BY <1>1, <1>3, <1>4, Zenon DEF OverMulti

\* What the type invariant says of a page.
LEMMA PageTypes ==
  ASSUME FreezeTypeOK, NEW b \in Block
  PROVE  /\ b \in Nat /\ pages[b] \in Seq(ItemRec) /\ Len(pages[b]) \in Nat
         /\ Slot(b) = 1..Len(pages[b])
         /\ \A o \in Slot(b) : pages[b][o] \in ItemRec
<1>1. pages[b] \in Seq(ItemRec)
  BY Zenon DEF FreezeTypeOK, Block
<1>2. b \in Nat
  <2>1. DOMAIN pages \subseteq Nat
    <3>1. DOMAIN pages = 0..(NBlocks - 1)
      BY Zenon DEF FreezeTypeOK
    <3> QED
      BY <3>1
  <2> QED
    BY <2>1, Zenon DEF Block
<1> QED
  BY <1>1, <1>2 DEF Slot

\* What the type invariant says of a vacuum's numbers.
LEMMA VacTypes ==
  ASSUME FreezeTypeOK
  PROVE  /\ vac.OldestXmin \in 0..(MaxXid + 1) /\ vac.OldestMxact \in Nat
         /\ vac.FreezeLimit \in Nat /\ vac.MultiXactCutoff \in Nat
         /\ vac.NewRelfrozenXid \in Nat /\ vac.NewRelminMxid \in Nat
         /\ vac.blk \in Nat /\ vac.unskippable \in Nat /\ vac.slot \in Nat
         /\ vac.aggressive \in BOOLEAN /\ vac.skippedallvis \in BOOLEAN /\ vac.skipping \in BOOLEAN
         /\ vac.all_visible \in BOOLEAN /\ vac.all_frozen \in BOOLEAN
         /\ vac.pagefrz \in PageFrz /\ vac.plans \in Seq(ItemRec) /\ vac.dead \subseteq Nat
         /\ vac.pc \in {"idle", "block", "noprune", "prune", "prepare"}
         /\ relfrozenxid \in Nat /\ relminmxid \in Nat
  BY DEF FreezeTypeOK, VacRec

\* The cutoffs of a vacuum, and smaller ones, are over.
LEMMA TrackersOver ==
  ASSUME FreezeAssumption, FreezeTypeOK, VacuumInv, vac.pc # "idle", NEW g \in Nat, NEW j \in Nat,
         g <= vac.OldestXmin, j <= vac.OldestMxact
  PROVE  Over(xact, g) /\ OverMulti(xact, multis, j)
<1>1. Over(xact, vac.OldestXmin) /\ OverMulti(xact, multis, vac.OldestMxact)
  BY Zenon DEF VacuumInv, Cutoffs
<1>2. vac.OldestXmin \in Nat /\ vac.OldestMxact \in Nat /\ multis \in Seq(SUBSET MemberRec)
  BY VacTypes, Numbers DEF FreezeTypeOK
<1> QED
  BY <1>1, <1>2, OverSmaller

\* Nothing a transaction does beside a vacuum disturbs the invariant: it keeps
\* off the page that is being planned, and leaves no id below a cutoff.
LEMMA TransactionStep ==
  ASSUME FreezeAssumption, FreezeInv, FreezeTypeOK', MultisFine', MapTrue',
         Moves(xact, xact'), Grows(multis, multis'),
         UNCHANGED <<catalog, vac, load>>,
         DOMAIN pages' = DOMAIN pages,
         \A b \in Block : DOMAIN pages'[b] = Slot(b) /\ Len(pages'[b]) = Len(pages[b]),
         \A b \in Block : \A o \in Slot(b) :
           \/ pages'[b][o] = pages[b][o]
           \/ /\ ~Locked(b) /\ ItemFine(xact', multis', pages'[b][o])
              /\ \A h, i \in Nat : /\ Over(xact, h) /\ OverMulti(xact, multis, i)
                                   /\ AtLeast(multis, pages[b][o], h, i)
                                   => AtLeast(multis', pages'[b][o], h, i)
  PROVE  FreezeInv'
<1>0. /\ FreezeTypeOK /\ MultisFine /\ PagesFine /\ CatalogOver /\ CatalogTrue /\ VacuumInv
      /\ relfrozenxid' = relfrozenxid /\ relminmxid' = relminmxid /\ vac' = vac
  BY Zenon DEF FreezeInv, catalog
<1>1. PagesFine'
  <2> SUFFICES ASSUME NEW b \in Block, NEW o \in Slot(b)
               PROVE  ItemFine(xact', multis', pages'[b][o])
    BY Zenon DEF PagesFine, Block, Slot
  <2>1. ItemFine(xact, multis, pages[b][o])
    BY <1>0, Zenon DEF PagesFine
  <2>2. ItemFine(xact', multis', pages[b][o])
    BY <2>1, ItemFineStable, Zenon
  <2> QED
    BY <2>2, Zenon
<1>2. ASSUME NEW b \in Block, NEW o \in Slot(b), NEW h \in Nat, NEW i \in Nat,
             Over(xact, h), OverMulti(xact, multis, i), AtLeast(multis, pages[b][o], h, i)
      PROVE  AtLeast(multis', pages'[b][o], h, i)
  <2>1. ItemFine(xact, multis, pages[b][o])
    BY <1>0, Zenon DEF PagesFine
  <2>2. AtLeast(multis', pages[b][o], h, i)
    BY <2>1, <1>2, ItemNamed, MembersStable, Zenon
  <2>3. CASE pages'[b][o] = pages[b][o]
    BY <2>2, <2>3, Zenon
  <2>4. CASE pages'[b][o] # pages[b][o]
    BY <2>4, <1>2, Zenon
  <2> QED
    BY <2>3, <2>4, Zenon
<1>3. relfrozenxid \in Nat /\ relminmxid \in Nat /\ multis \in Seq(SUBSET MemberRec)
  BY <1>0, VacTypes DEF FreezeTypeOK
<1>4. \A j \in 1..Len(multis) : MembersFine(xact, multis[j])
  BY <1>0, Zenon DEF MultisFine
<1>5. CatalogOver'
  BY <1>0, <1>3, <1>4, OverStable, OverMultiStable, Zenon DEF CatalogOver
<1>6. CatalogTrue'
  <2> SUFFICES ASSUME NEW b \in Block, NEW o \in Slot(b)
               PROVE  AtLeast(multis', pages'[b][o], relfrozenxid, relminmxid)
    BY <1>0, Zenon DEF CatalogTrue, Block, Slot
  <2> QED
    BY <1>0, <1>2, <1>3, Zenon DEF CatalogTrue, CatalogOver
<1>7. VacuumInv'
  <2> SUFFICES ASSUME vac.pc # "idle"
               PROVE  /\ Cutoffs(xact', multis', relfrozenxid, relminmxid, vac)
                      /\ CoveredTrue(multis', pages', vac)
                      /\ Place(pages', vac) /\ Plans(xact', multis', pages', vac)
    BY <1>0, Zenon DEF VacuumInv
  <2>0. /\ Cutoffs(xact, multis, relfrozenxid, relminmxid, vac) /\ CoveredTrue(multis, pages, vac)
        /\ Place(pages, vac) /\ Plans(xact, multis, pages, vac)
    BY <1>0, Zenon DEF VacuumInv
  <2>1. Cutoffs(xact', multis', relfrozenxid, relminmxid, vac)
    <3>1. Over(xact', vac.OldestXmin)
      BY <2>0, OverStable, Zenon DEF Cutoffs
    <3>2. OverMulti(xact', multis', vac.OldestMxact)
      BY <2>0, <1>0, <1>4, VacTypes, OverMultiStable, Zenon DEF Cutoffs
    <3> QED
      BY <2>0, <3>1, <3>2, Zenon DEF Cutoffs
  <2>2. CoveredTrue(multis', pages', vac)
    <3> SUFFICES ASSUME NEW b \in Block, Covered(vac, b), ~vac.skippedallvis, NEW o \in Slot(b)
                 PROVE  AtLeast(multis', pages'[b][o], vac.NewRelfrozenXid, vac.NewRelminMxid)
      BY Zenon DEF CoveredTrue, Block, Slot
    <3>1. AtLeast(multis, pages[b][o], vac.NewRelfrozenXid, vac.NewRelminMxid)
      BY <2>0, Zenon DEF CoveredTrue, Block, Slot
    <3>2. /\ vac.NewRelfrozenXid \in Nat /\ vac.NewRelminMxid \in Nat
          /\ vac.NewRelfrozenXid <= vac.OldestXmin /\ vac.NewRelminMxid <= vac.OldestMxact
      BY <1>0, <2>0, VacTypes, Zenon DEF Cutoffs, Trackers
    <3>3. /\ Over(xact, vac.NewRelfrozenXid)
          /\ OverMulti(xact, multis, vac.NewRelminMxid)
      BY <1>0, <3>2, TrackersOver, Zenon
    <3> QED
      BY <1>2, <3>1, <3>2, <3>3, Zenon
  <2>3. Place(pages', vac)
    BY <2>0, Zenon DEF Place
  <2>4. Plans(xact', multis', pages', vac)
    <3> SUFFICES ASSUME vac.pc = "prepare"
                 PROVE  /\ vac.slot \in 1..(Len(pages'[vac.blk]) + 1) /\ Len(vac.plans) = vac.slot - 1
                        /\ PageBounds(vac, vac.pagefrz)
                        /\ \A o \in 1..(vac.slot - 1) :
                             Planned(xact', multis', vac, pages'[vac.blk][o], vac.plans[o])
      BY Zenon DEF Plans
    <3>1. /\ vac.slot \in 1..(Len(pages[vac.blk]) + 1) /\ Len(vac.plans) = vac.slot - 1
          /\ PageBounds(vac, vac.pagefrz)
          /\ \A o \in 1..(vac.slot - 1) : Planned(xact, multis, vac, pages[vac.blk][o], vac.plans[o])
      BY <2>0, Zenon DEF Plans
    <3>2. vac.blk \in Block /\ Locked(vac.blk)
      BY <2>0 DEF Place, Locked, Block
    <3>3. Len(pages'[vac.blk]) = Len(pages[vac.blk])
      BY <3>2, Zenon
    <3>4. ASSUME NEW o \in 1..(vac.slot - 1)
          PROVE  Planned(xact', multis', vac, pages'[vac.blk][o], vac.plans[o])
      <4>1. o \in Slot(vac.blk)
        BY <1>0, <3>1, <3>2, PageTypes
      <4>2. pages'[vac.blk][o] = pages[vac.blk][o]
        BY <3>2, <4>1, Zenon
      <4>3. ItemFine(xact, multis, pages[vac.blk][o])
        BY <1>0, <3>2, <4>1, Zenon DEF PagesFine
      <4>4. Planned(xact, multis, vac, pages[vac.blk][o], vac.plans[o])
        BY <3>1, Zenon
      <4>5. Planned(xact', multis', vac, pages[vac.blk][o], vac.plans[o])
        BY <4>3, <4>4, PlannedStable, Zenon
      <4> QED
        BY <4>2, <4>5, Zenon
    <3> QED
      BY <3>1, <3>3, <3>4, Zenon
  <2> QED
    BY <2>1, <2>2, <2>3, <2>4, Zenon
<1> QED
  BY <1>1, <1>5, <1>6, <1>7, Zenon DEF FreezeInv

\* A transaction ends.
LEMMA EndStep ==
  ASSUME FreezeAssumption, FreezeInv, NEW x \in Xid, End(x)
  PROVE  FreezeInv'
<1>0. FreezeTypeOK /\ MultisFine /\ MapTrue
  BY Zenon DEF FreezeInv
<1>1. /\ UNCHANGED <<pages, vm, multis, relfrozenxid, relminmxid, vac, load, touches, vacuums>>
      /\ xact[x] = "running"
  BY DEF End, table, catalog, Running
<1>2. PICK s \in {"committed", "aborted"} : xact' = [xact EXCEPT ![x] = s]
  BY Zenon DEF End
<1>3. xact \in [Xid -> Status] /\ xact' \in [Xid -> Status]
  BY <1>0, <1>2 DEF FreezeTypeOK, Status
<1>4. Moves(xact, xact')
  BY <1>1, <1>2, <1>3 DEF Moves, Ended, Status
<1>5. Grows(multis, multis')
  BY <1>0, <1>1 DEF Grows, FreezeTypeOK
<1>6. FreezeTypeOK'
  BY <1>0, <1>1, <1>3, Zenon DEF FreezeTypeOK, NBlocks
<1>7. MultisFine'
  BY <1>0, <1>1, <1>4, MembersFineStable, Zenon DEF MultisFine
<1>8. MapTrue'
  BY <1>0, <1>1, Zenon DEF MapTrue, Block, Slot
<1>9. UNCHANGED <<catalog, vac, load>>
  BY <1>1, Zenon DEF catalog
<1> QED
  BY <1>1, <1>4, <1>5, <1>6, <1>7, <1>8, <1>9, TransactionStep, Zenon DEF Block, Slot

\* A slot of a page is set.
LEMMA SlotSet ==
  ASSUME NEW S, NEW P \in Seq(S), NEW o \in 1..Len(P), NEW t \in S
  PROVE  /\ [P EXCEPT ![o] = t] \in Seq(S) /\ Len([P EXCEPT ![o] = t]) = Len(P)
         /\ DOMAIN [P EXCEPT ![o] = t] = DOMAIN P
         /\ [P EXCEPT ![o] = t][o] = t
         /\ \A n \in 1..Len(P) : n # o => [P EXCEPT ![o] = t][n] = P[n]
  OBVIOUS

\* The next transaction has not begun.
LEMMA NextXidFresh ==
  ASSUME FreezeAssumption, FreezeTypeOK
  PROVE  /\ NextXid \in 1..(MaxXid + 1)
         /\ NextXid \in Xid => xact[NextXid] = "unused"
         /\ \A y \in Xid : xact[y] = "unused" => NextXid <= y
<1> DEFINE S == {x \in 1..(MaxXid + 1) : x > MaxXid \/ xact[x] = "unused"}
<1>1. S \subseteq Nat /\ MaxXid + 1 \in S
  BY Numbers
<1>2. NextXid = Min(S)
  BY Zenon DEF NextXid
<1> HIDE DEF S
<1>3. NextXid \in S /\ \A n \in S : NextXid <= n
  BY <1>1, <1>2, MinIsLeast
<1>4. \A y \in Xid : xact[y] = "unused" => y \in S
  BY Numbers DEF Xid, S
<1> QED
  BY <1>3, <1>4, Numbers DEF Xid, S

\* Who touches a row runs afterwards, and did not end before.
LEMMA ToucherRuns ==
  ASSUME FreezeAssumption, FreezeTypeOK, NEW x \in Xid, NEW b, MayTouch(x, b),
         xact' = [xact EXCEPT ![x] = "running"]
  PROVE  /\ Moves(xact, xact') /\ ~Ended(xact, x) /\ xact'[x] = "running"
         /\ \A h \in Nat : Over(xact, h) => x >= h
<1>1. xact[x] = "running" \/ xact[x] = "unused"
  BY NextXidFresh, Zenon DEF MayTouch, Running
<1>2. ~Ended(xact, x)
  BY <1>1 DEF Ended
<1>3. xact \in [Xid -> Status] /\ xact' \in [Xid -> Status] /\ xact'[x] = "running"
  BY DEF FreezeTypeOK, Status
<1>4. \A y \in Xid : y # x => xact'[y] = xact[y]
  BY <1>3
<1>5. ASSUME NEW y \in Xid
      PROVE  /\ xact[y] # "unused" => xact'[y] # "unused"
             /\ Ended(xact, y) => xact'[y] = xact[y]
  <2>1. CASE y = x
    BY <1>2, <1>3, <2>1
  <2>2. CASE y # x
    BY <1>4, <2>2, Zenon
  <2> QED
    BY <2>1, <2>2, Zenon
<1>6. Moves(xact, xact')
  BY <1>3, <1>5, Zenon DEF Moves
<1>7. \A h \in Nat : Over(xact, h) => x >= h
  BY <1>2, Numbers DEF Over
<1> QED
  BY <1>2, <1>3, <1>6, <1>7, Zenon

\* A row is touched.
LEMMA TouchStep ==
  ASSUME FreezeAssumption, FreezeInv, NEW x \in Xid, NEW b \in Block, NEW o \in Slot(b),
         NEW t, NEW bits \in {"none", "visible"}, MayTouch(x, b), Touch(x, b, o, t, bits),
         Grows(multis, multis'), MultisFine', ItemFine(xact', multis', t),
         \A h, i \in Nat : /\ Over(xact, h) /\ OverMulti(xact, multis, i)
                           /\ AtLeast(multis, pages[b][o], h, i)
                           => AtLeast(multis', t, h, i)
  PROVE  FreezeInv'
<1>0. FreezeTypeOK /\ MapTrue
  BY Zenon DEF FreezeInv
<1>1. /\ xact' = [xact EXCEPT ![x] = "running"]
      /\ pages' = [pages EXCEPT ![b][o] = t] /\ vm' = [vm EXCEPT ![b] = bits]
      /\ touches' = touches - 1 /\ UNCHANGED <<relfrozenxid, relminmxid, vac, load, vacuums>>
  BY DEF Touch, catalog
<1>2. Moves(xact, xact')
  BY <1>0, <1>1, ToucherRuns, Zenon
<1>3. t \in ItemRec
  BY Zenon DEF ItemFine
<1>4. pages[b] \in Seq(ItemRec) /\ o \in 1..Len(pages[b]) /\ Slot(b) = 1..Len(pages[b])
  BY <1>0, PageTypes, Zenon
<1>5. /\ DOMAIN pages' = Block /\ DOMAIN vm' = DOMAIN vm
      /\ pages'[b] = [pages[b] EXCEPT ![o] = t]
      /\ \A c \in Block : c # b => pages'[c] = pages[c]
  BY <1>1, Zenon DEF Block
<1>6. /\ pages'[b] \in Seq(ItemRec) /\ Len(pages'[b]) = Len(pages[b])
      /\ DOMAIN pages'[b] = Slot(b) /\ pages'[b][o] = t
      /\ \A p \in Slot(b) : p # o => pages'[b][p] = pages[b][p]
  <2> DEFINE Q == [pages[b] EXCEPT ![o] = t]
  <2>1. /\ Q \in Seq(ItemRec) /\ Len(Q) = Len(pages[b]) /\ DOMAIN Q = DOMAIN pages[b] /\ Q[o] = t
        /\ \A n \in 1..Len(pages[b]) : n # o => Q[n] = pages[b][n]
    BY <1>3, <1>4, SlotSet
  <2> HIDE DEF Q
  <2>2. pages'[b] = Q
    BY <1>5, Zenon DEF Q
  <2> QED
    BY <1>4, <2>1, <2>2, Zenon DEF Slot
<1>7. DOMAIN pages = Block /\ pages \in [Block -> Seq(ItemRec)] /\ vm \in [Block -> {"none", "visible", "frozen"}]
  BY <1>0, Zenon DEF FreezeTypeOK, Block
<1>8. pages' \in [Block -> Seq(ItemRec)]
  <2>1. \A c \in Block : pages'[c] \in Seq(ItemRec)
    BY <1>5, <1>6, <1>7, Zenon
  <2>2. pages' = [c \in Block |-> pages'[c]]
    BY <1>1, <1>7, Zenon
  <2> QED
    BY <2>1, <2>2, Zenon
<1>9. vm' \in [Block -> {"none", "visible", "frozen"}] /\ vm'[b] = bits /\ \A c \in Block : c # b => vm'[c] = vm[c]
  <2> DEFINE V == {"none", "visible", "frozen"}
  <2>1. bits \in V
    BY DEF V
  <2>2. vm \in [Block -> V]
    BY <1>7
  <2> HIDE DEF V
  <2>3. vm' \in [Block -> V] /\ vm'[b] = bits /\ \A c \in Block : c # b => vm'[c] = vm[c]
    BY <1>1, <2>1, <2>2, Zenon
  <2> QED
    BY <2>3 DEF V
<1>10. FreezeTypeOK'
  <2>1. xact' \in [Xid -> Status] /\ multis' \in Seq(SUBSET MemberRec)
    BY <1>2, Zenon DEF Moves, Grows
  <2>2. touches' \in Nat
    BY <1>0, <1>1 DEF FreezeTypeOK, MayTouch
  <2> QED
    BY <1>0, <1>1, <1>5, <1>7, <1>8, <1>9, <2>1, <2>2, Zenon DEF FreezeTypeOK, NBlocks
<1>11. MapTrue'
  <2> SUFFICES ASSUME NEW c \in Block, vm'[c] = "frozen", NEW p \in DOMAIN pages'[c]
               PROVE  WhollyFrozen(pages'[c][p])
    BY <1>5, Zenon DEF MapTrue, Block, Slot
  <2>1. c # b
    BY <1>9
  <2> QED
    BY <1>0, <1>5, <1>9, <2>1, Zenon DEF MapTrue, Slot
<1>12. UNCHANGED <<catalog, vac, load>>
  BY <1>1, Zenon DEF catalog
<1>13. \A c \in Block : DOMAIN pages'[c] = Slot(c) /\ Len(pages'[c]) = Len(pages[c])
  BY <1>5, <1>6, Zenon DEF Slot
<1>14. ~Locked(b)
  BY Zenon DEF MayTouch
<1>15. ASSUME NEW c \in Block, NEW p \in Slot(c)
       PROVE  \/ pages'[c][p] = pages[c][p]
              \/ /\ ~Locked(c) /\ ItemFine(xact', multis', pages'[c][p])
                 /\ \A h, i \in Nat : /\ Over(xact, h) /\ OverMulti(xact, multis, i)
                                      /\ AtLeast(multis, pages[c][p], h, i)
                                      => AtLeast(multis', pages'[c][p], h, i)
  <2>1. CASE c # b
    BY <2>1, <1>5, Zenon
  <2>2. CASE c = b /\ p # o
    BY <2>2, <1>6, Zenon
  <2>3. CASE c = b /\ p = o
    <3>1. pages'[c][p] = t /\ pages[c][p] = pages[b][o] /\ ~Locked(c)
      BY <2>3, <1>6, <1>14, Zenon
    <3> QED
      BY <3>1, Zenon
  <2> QED
    BY <2>1, <2>2, <2>3, Zenon
<1> QED
  BY <1>2, <1>5, <1>7, <1>10, <1>11, <1>12, <1>13, <1>15, TransactionStep, Zenon

\* A new multixact is added.
LEMMA MultiAdded ==
  ASSUME NEW M \in Seq(SUBSET MemberRec), NEW ms \in SUBSET MemberRec
  PROVE  /\ Append(M, ms) \in Seq(SUBSET MemberRec)
         /\ Len(M) \in Nat /\ Len(Append(M, ms)) = Len(M) + 1 /\ Append(M, ms)[Len(M) + 1] = ms
         /\ \A i \in 1..Len(M) : Append(M, ms)[i] = M[i]
         /\ Grows(M, Append(M, ms)) /\ Grows(M, M)
  BY DEF Grows

\* An insertion.
LEMMA InsertStep ==
  ASSUME FreezeAssumption, FreezeInv, NEW x \in Xid, NEW b \in Block, NEW o \in Slot(b),
         pg_tde_insert(x, b, o)
  PROVE  FreezeInv'
<1> DEFINE t == Tuple(x, NoXmax)
<1>0. FreezeTypeOK /\ MultisFine
  BY Zenon DEF FreezeInv
<1>1. MayTouch(x, b) /\ Touch(x, b, o, t, "none") /\ multis' = multis
  BY Zenon DEF pg_tde_insert
<1>2. xact' = [xact EXCEPT ![x] = "running"]
  BY <1>1, Zenon DEF Touch
<1>3. Moves(xact, xact') /\ xact'[x] = "running" /\ \A h \in Nat : Over(xact, h) => x >= h
  BY <1>0, <1>1, <1>2, ToucherRuns, Zenon
<1>4. Grows(multis, multis')
  BY <1>0, <1>1 DEF Grows, FreezeTypeOK
<1>5. MultisFine'
  BY <1>0, <1>1, <1>3, MembersFineStable, Zenon DEF MultisFine
<1>6. /\ t.kind = "tuple" /\ t.xmin = x /\ t.xmax = NoXmax /\ t.xmax.multi = 0 /\ t.xmax.single = {}
      /\ MembersOf(multis', t.xmax) = {} /\ XidsOf(multis', t) \subseteq {x}
  BY DEF Tuple, NoXmax, MembersOf, XidsOf
<1>7. t \in ItemRec
  BY Numbers DEF Tuple, NoXmax, ItemRec, XmaxRec
<1> HIDE DEF t
<1>8. ItemFine(xact', multis', t)
  <2>1. MembersFine(xact', {})
    BY DEF MembersFine
  <2>2. t.xmax.multi <= Len(multis')
    BY <1>6, <1>4 DEF Grows
  <2> QED
    BY <1>3, <1>6, <1>7, <2>1, <2>2 DEF ItemFine
<1>9. ASSUME NEW h \in Nat, NEW i \in Nat, Over(xact, h)
      PROVE  AtLeast(multis', t, h, i)
  BY <1>3, <1>6, <1>9, Zenon DEF AtLeast
<1> QED
  BY <1>1, <1>4, <1>5, <1>8, <1>9, TouchStep, Zenon

\* Lasting members are those that count.
LEMMA LastingCounts ==
  ASSUME FreezeAssumption, NEW ms, MembersFine(xact, ms)
  PROVE  Lasting(ms) = Counting(xact, ms)
<1>1. \A m \in ms : m.xid # Frozen
  BY Numbers DEF MembersFine, MemberRec
<1> QED
  BY <1>1, Names DEF Counting, Counts, Committed

\* A row is updated or locked: what remains of the old xmax is joined, and the
\* row still has one updater.
LEMMA NewXmaxStep ==
  ASSUME FreezeAssumption, FreezeInv, NEW x \in Xid, NEW b \in Block, NEW o \in Slot(b),
         NEW upd \in BOOLEAN, NEW bits \in {"none", "visible"},
         MayTouch(x, b), IsTuple(pages[b][o]), Inserted(pages[b][o], x),
         upd => \A u \in Updaters(Members(pages[b][o].xmax)) : ~Running(u) /\ ~DidCommit(u),
         compute_new_xmax_infomask(x, b, o, upd, bits)
  PROVE  FreezeInv'
<1> DEFINE old == pages[b][o]
           ms == MembersOf(multis, old.xmax)
           kept == Counting(xact, ms)
           alone == kept = {} \/ (old.xmax.multi = 0 /\ \A m \in kept : m.xid = x)
           mine == Member(x, upd \/ x \in Updaters(kept))
           both == kept \cup {Member(x, upd)}
           xmax == IF alone THEN Single(mine) ELSE Multi(NextMulti)
           t == [old EXCEPT !.xmax = xmax]
<1>0. FreezeTypeOK /\ MultisFine /\ PagesFine
  BY Zenon DEF FreezeInv
<1>1. ItemFine(xact, multis, old) /\ MembersFine(xact, ms)
  BY <1>0, Zenon DEF PagesFine, ItemFine
<1>2. Lasting(Members(old.xmax)) = kept
  BY <1>1, LastingCounts, Names, Zenon
<1>3. /\ multis' = IF alone THEN multis ELSE Append(multis, both)
      /\ Touch(x, b, o, t, bits)
  BY <1>2, Zenon DEF compute_new_xmax_infomask
<1>4. xact' = [xact EXCEPT ![x] = "running"]
  BY <1>3, Zenon DEF Touch
<1>5. /\ Moves(xact, xact') /\ xact'[x] = "running" /\ \A h \in Nat : Over(xact, h) => x >= h
  BY <1>0, <1>4, ToucherRuns, Zenon
<1>6. /\ mine \in MemberRec /\ mine.xid = x
      /\ Member(x, upd) \in MemberRec /\ Member(x, upd).xid = x /\ Member(x, upd).upd = upd
  BY DEF Member, MemberRec
<1>7. kept \subseteq ms /\ ms \subseteq MemberRec /\ \A m \in kept : Counts(xact, m)
  BY <1>1, Zenon DEF Counting, MembersFine
<1>8. old \in ItemRec /\ old.kind = "tuple" /\ old.xmin \in 0..MaxXid
  BY <1>1 DEF ItemFine, ItemRec, IsTuple
<1>9. Committed(xact, old.xmin) \/ old.xmin = x
  BY Names, Zenon DEF Inserted
<1>10. Committed(xact', old.xmin) \/ old.xmin = x
  BY <1>5, <1>8, <1>9, CommittedStable, Zenon
<1>11. old.xmin # Frozen => xact'[old.xmin] # "unused"
  <2>1. old.xmin # Frozen => old.xmin \in Xid
    BY <1>8, Numbers DEF Frozen, Xid
  <2> QED
    BY <2>1, <1>1, <1>5, Zenon DEF ItemFine, Moves
<1>12. multis \in Seq(SUBSET MemberRec)
  BY <1>0, Zenon DEF FreezeTypeOK
<1>13. MembersFine(xact', kept)
  <2>1. MembersFine(xact, kept)
    BY <1>1, <1>7, Zenon DEF MembersFine
  <2> QED
    BY <2>1, <1>5, MembersFineStable, Zenon
<1>14. MembersFine(xact', both)
  <2>1. ASSUME upd, NEW m \in kept
        PROVE  ~m.upd
    <3>1. SUFFICES ASSUME m.upd PROVE FALSE
      OBVIOUS
    <3>2. m \in ms /\ Counts(xact, m) /\ m.xid # Frozen
      BY <1>7, Numbers DEF MemberRec
    <3>3. m.xid \in Updaters(Members(old.xmax))
      BY <3>1, <3>2, Names, Zenon DEF Updaters
    <3>4. ~Running(m.xid) /\ ~DidCommit(m.xid)
      BY <2>1, <3>3, Zenon
    <3> QED
      BY <3>2, <3>4, Names, Zenon DEF Counts, Committed
  <2>2. both \subseteq MemberRec
    BY <1>6, <1>7, Zenon
  <2>3. \A m \in both : xact'[m.xid] # "unused"
    BY <1>5, <1>6, <1>13 DEF MembersFine
  <2>4. \A m, n \in both : m.upd /\ n.upd => m.xid = n.xid
    BY <2>1, <1>6, <1>13, Zenon DEF MembersFine
  <2> QED
    BY <2>2, <2>3, <2>4, Zenon DEF MembersFine
<1>15. both \in SUBSET MemberRec /\ Len(multis) \in Nat
  BY <1>6, <1>7, <1>12, LenInNat, Zenon
<1>16. Grows(multis, multis')
  BY <1>3, <1>12, <1>15, MultiAdded, Zenon
<1>17. MultisFine'
  <2>1. \A i \in 1..Len(multis) : MembersFine(xact', multis[i])
    BY <1>0, <1>5, MembersFineStable, Zenon DEF MultisFine
  <2>2. CASE alone
    BY <2>1, <2>2, <1>3, Zenon DEF MultisFine
  <2>3. CASE ~alone
    <3> SUFFICES ASSUME NEW i \in 1..Len(multis') PROVE MembersFine(xact', multis'[i])
      BY Zenon DEF MultisFine
    <3>1. multis' = Append(multis, both) /\ Len(multis') = Len(multis) + 1
          /\ multis'[Len(multis) + 1] = both
          /\ \A j \in 1..Len(multis) : multis'[j] = multis[j]
      BY <2>3, <1>3, <1>12, <1>15, MultiAdded, Zenon
    <3>2. i \in 1..Len(multis) \/ i = Len(multis) + 1
      BY <3>1, <1>15
    <3> QED
      BY <3>1, <3>2, <2>1, <1>14, Zenon
  <2> QED
    BY <2>2, <2>3, Zenon
<1>18. /\ t.kind = "tuple" /\ t.xmin = old.xmin /\ t.xmax = xmax
  BY <1>8 DEF ItemRec
<1>19. t \in ItemRec
  <2>1. xmax \in XmaxRec
    BY <1>6, <1>15 DEF Single, Multi, XmaxRec, NextMulti
  <2> HIDE DEF xmax
  <2> QED
    BY <2>1, <1>8 DEF ItemRec
<1>20. /\ alone => MembersOf(multis', xmax) = {mine} /\ xmax.multi = 0 /\ xmax.single = {mine}
       /\ ~alone => /\ MembersOf(multis', xmax) = both /\ xmax.multi = Len(multis) + 1 /\ xmax.single = {}
                    /\ Len(multis') = Len(multis) + 1
  <2>1. CASE alone
    <3>1. xmax = Single(mine)
      BY <2>1, Zenon
    <3> QED
      BY <3>1, <2>1, Zenon DEF Single, MembersOf
  <2>2. CASE ~alone
    <3>1. xmax = Multi(NextMulti) /\ multis' = Append(multis, both)
      BY <2>2, <1>3, Zenon
    <3>2. xmax.multi = Len(multis) + 1 /\ xmax.single = {} /\ xmax.multi # 0
      BY <3>1, <1>15 DEF Multi, NextMulti
    <3>3. multis'[Len(multis) + 1] = both /\ Len(multis') = Len(multis) + 1
      BY <3>1, <1>12, <1>15, MultiAdded, Zenon
    <3>4. MembersOf(multis', xmax) = both
      BY <3>2, <3>3, Zenon DEF MembersOf
    <3> QED
      BY <3>2, <3>3, <3>4, <2>2, Zenon
  <2> QED
    BY <2>1, <2>2, Zenon
<1>21. MembersFine(xact', {mine})
  BY <1>5, <1>6 DEF MembersFine
<1> HIDE DEF mine, both, kept, xmax, alone, t
<1>22. ItemFine(xact', multis', t)
  <2>0. Len(multis') \in Nat
    BY <1>16, LenInNat, Zenon DEF Grows
  <2>1. CASE alone
    <3>1. \A m \in {mine} : Committed(xact', old.xmin) \/ old.xmin = m.xid
      BY <1>6, <1>10, Zenon
    <3>2. t.xmax.multi <= Len(multis')
      BY <2>0, <2>1, <1>18, <1>20
    <3>3. t.xmax.multi # 0 => t.xmax.single = {}
      BY <2>1, <1>18, <1>20, Zenon
    <3>4. \A m, n \in t.xmax.single : m = n
      BY <2>1, <1>18, <1>20, Zenon
    <3>5. MembersOf(multis', t.xmax) = {mine}
      BY <2>1, <1>18, <1>20, Zenon
    <3> QED
      BY <1>11, <1>18, <1>19, <1>21, <3>1, <3>2, <3>3, <3>4, <3>5, Zenon DEF ItemFine
  <2>2. CASE ~alone
    <3>1. \A m \in both : Committed(xact', old.xmin) \/ old.xmin = m.xid
      <4>1. \A m \in kept : Committed(xact, old.xmin) \/ old.xmin = m.xid
        BY <1>1, <1>7, Zenon DEF ItemFine
      <4>2. \A m \in kept : Committed(xact', old.xmin) \/ old.xmin = m.xid
        BY <4>1, <1>5, <1>8, CommittedStable, Zenon
      <4> QED
        BY <4>2, <1>6, <1>10, Zenon DEF both
    <3>2. t.xmax.multi <= Len(multis')
      BY <2>2, <1>15, <1>18, <1>20
    <3>3. MembersOf(multis', t.xmax) = both /\ t.xmax.single = {}
      BY <2>2, <1>18, <1>20, Zenon
    <3>4. \A m, n \in t.xmax.single : m = n
      BY <3>3, Zenon
    <3> QED
      BY <1>11, <1>14, <1>18, <1>19, <3>1, <3>2, <3>3, <3>4, Zenon DEF ItemFine
  <2> QED
    BY <2>1, <2>2, Zenon
<1>23. ASSUME NEW h \in Nat, NEW i \in Nat, Over(xact, h), OverMulti(xact, multis, i),
              AtLeast(multis, old, h, i)
       PROVE  AtLeast(multis', t, h, i)
  <2>1. x >= h
    BY <1>5, <1>23, Zenon
  <2>2. \A y \in {old.xmin} \ {Frozen} : y >= h
    BY <1>23, Zenon DEF AtLeast, XidsOf
  <2>3. \A m \in kept : m.xid >= h
    BY <1>7, <1>23, Zenon DEF AtLeast, XidsOf
  <2>4. \A m \in MembersOf(multis', t.xmax) : m.xid >= h
    <3>1. CASE alone
      BY <3>1, <1>6, <1>18, <1>20, <2>1, Zenon
    <3>2. CASE ~alone
      BY <3>2, <1>6, <1>18, <1>20, <2>1, <2>3, Zenon DEF both
    <3> QED
      BY <3>1, <3>2, Zenon
  <2>5. t.xmax.multi # 0 => t.xmax.multi >= i
    <3>1. i <= Len(multis) + 1
      BY <1>23, Zenon DEF OverMulti
    <3>2. t.xmax.multi # 0 => t.xmax.multi = Len(multis) + 1
      BY <1>18, <1>20, Zenon
    <3> QED
      BY <3>1, <3>2, <1>15
  <2> QED
    BY <2>2, <2>4, <2>5, <1>18, Zenon DEF AtLeast, XidsOf
<1> QED
  BY <1>3, <1>16, <1>17, <1>22, <1>23, TouchStep, Zenon

\* An update or a deletion.
LEMMA UpdateStep ==
  ASSUME FreezeAssumption, FreezeInv, NEW x \in Xid, NEW b \in Block, NEW o \in Slot(b), Update(x, b, o)
  PROVE  FreezeInv'
<1>1. /\ MayTouch(x, b) /\ IsTuple(pages[b][o]) /\ Inserted(pages[b][o], x)
      /\ \A u \in Updaters(Members(pages[b][o].xmax)) : ~Running(u) /\ ~DidCommit(u)
      /\ compute_new_xmax_infomask(x, b, o, TRUE, "none")
  BY Zenon DEF Update
<1> QED
  BY <1>1, NewXmaxStep, Zenon

\* A lock.
LEMMA LockStep ==
  ASSUME FreezeAssumption, FreezeInv, NEW x \in Xid, NEW b \in Block, NEW o \in Slot(b),
         pg_tde_lock_tuple(x, b, o)
  PROVE  FreezeInv'
<1> DEFINE bits == IF vm[b] = "frozen" THEN "visible" ELSE vm[b]
<1>1. /\ MayTouch(x, b) /\ IsTuple(pages[b][o]) /\ Inserted(pages[b][o], x)
      /\ compute_new_xmax_infomask(x, b, o, FALSE, bits)
  BY Zenon DEF pg_tde_lock_tuple
<1>2. bits \in {"none", "visible"}
  BY DEF FreezeInv, FreezeTypeOK, Block
<1> HIDE DEF bits
<1> QED
  BY <1>1, <1>2, NewXmaxStep, Zenon

-----------------------------------------------------------------------------
(* What freezing makes of one tuple.                                         *)

Plannable(t, v, pf, h) ==
  /\ ItemFine(xact, multis, t) /\ t.kind = "tuple"
  /\ AtLeast(multis, t, relfrozenxid, relminmxid)
  /\ v.OldestXmin \in Nat /\ v.OldestMxact \in Nat /\ v.FreezeLimit \in Nat /\ v.MultiXactCutoff \in Nat
  /\ v.FreezeLimit <= v.OldestXmin /\ v.MultiXactCutoff <= v.OldestMxact
  /\ Over(xact, v.OldestXmin) /\ OverMulti(xact, multis, v.OldestMxact)
  /\ pf \in PageFrz /\ pf.fx <= v.OldestXmin /\ pf.fm <= v.OldestMxact
  /\ h \in Nat /\ v.OldestXmin <= h /\ HTSV(t, h) # "DEAD"

\* A tuple that is not dead to all: an old insertion is committed, and an old
\* lock or update does not count.
LEMMA NotDead ==
  ASSUME FreezeAssumption, FreezeTypeOK, NEW t, ItemFine(xact, multis, t), NEW g \in Nat, NEW h \in Nat,
         Over(xact, g), g <= h, HTSV(t, h) # "DEAD"
  PROVE  /\ t.xmin # Frozen /\ t.xmin < g => xact[t.xmin] = "committed"
         /\ \A m \in MembersOf(multis, t.xmax) : m.xid < g => ~Counts(xact, m)
<1> DEFINE ms == MembersOf(multis, t.xmax)
           upd == Updaters(Members(t.xmax))
<1>1. MembersFine(xact, ms) /\ t.xmin \in 0..MaxXid /\ (t.xmin # Frozen => t.xmin \in Xid)
  BY Numbers DEF ItemFine, ItemRec, Xid, Frozen
<1>2. Members(t.xmax) = ms
  BY Names, Zenon
<1>3. HTSV(t, h) =
        IF ~DidCommit(t.xmin) THEN IF Running(t.xmin) THEN "INSERT_IN_PROGRESS" ELSE "DEAD"
        ELSE IF \E u \in upd : Running(u) THEN "DELETE_IN_PROGRESS"
        ELSE IF \E u \in upd : DidCommit(u)
          THEN IF \E u \in upd : DidCommit(u) /\ u < h THEN "DEAD" ELSE "RECENTLY_DEAD"
        ELSE "LIVE"
  BY DEF HTSV
<1> HIDE DEF ms, upd
<1>4. ASSUME t.xmin # Frozen, t.xmin < g
      PROVE  xact[t.xmin] = "committed"
  <2>1. xact[t.xmin] = "committed" \/ xact[t.xmin] = "aborted"
    BY <1>1, <1>4, Zenon DEF Over, Ended
  <2>2. CASE xact[t.xmin] = "aborted"
    <3>1. ~DidCommit(t.xmin) /\ ~Running(t.xmin)
      BY <1>4, <2>2, Names DEF Committed
    <3> QED
      BY <3>1, <1>3
  <2> QED
    BY <2>1, <2>2, Zenon
<1>5. ASSUME NEW m \in ms, m.xid < g
      PROVE  ~Counts(xact, m)
  <2>1. m.xid \in Xid /\ m.xid \in Nat /\ m.xid < h /\ m.xid # Frozen
    BY <1>1, <1>5, Numbers DEF MembersFine, MemberRec
  <2>2. Ended(xact, m.xid)
    BY <2>1, <1>5, Zenon DEF Over
  <2>3. SUFFICES ASSUME m.upd, xact[m.xid] = "committed" PROVE FALSE
    BY <2>2 DEF Counts, Ended
  <2>4. m.xid \in upd
    BY <2>3, <1>2, Zenon DEF upd, Updaters
  <2>5. DidCommit(t.xmin)
    BY <2>3, <1>5, Names, Zenon DEF ItemFine, ms, Committed
  <2>6. \A u \in upd : u = m.xid
    BY <2>3, <1>1, <1>2, Zenon DEF upd, Updaters, MembersFine
  <2>7. \A u \in upd : ~Running(u)
    BY <2>3, <2>6, Names
  <2>8. DidCommit(m.xid)
    BY <2>3, Names, Zenon DEF Committed
  <2> QED
    BY <1>3, <2>1, <2>4, <2>5, <2>7, <2>8
<1> QED
  BY <1>4, <1>5, Zenon DEF ms

\* What a verdict about xmax promises.  nm are the members of xmax afterwards.
VerdictFine(t, v, pf, w, nm) ==
  /\ w.flag \in {"none", "noop", "invalidate", "xid", "multi"}
  /\ w.xmax \in XmaxRec /\ (w.xmax.multi # 0 => w.xmax.single = {})
  /\ \A m, n \in w.xmax.single : m = n
  /\ nm \subseteq MembersOf(multis, t.xmax)
  /\ Counting(xact, nm) = Counting(xact, MembersOf(multis, t.xmax))
  /\ \A m \in nm : m.xid >= w.pagefrz.fx
  /\ w.xmax.multi # 0 => w.xmax.multi >= w.pagefrz.fm
  /\ w.flag = "none" => t.xmax = NoXmax
  /\ w.flag \in {"none", "invalidate"} => w.xmax = NoXmax
  /\ w.flag = "noop" => w.xmax = t.xmax
  /\ w.flag = "xid" => w.xmax.multi = 0
  /\ w.flag = "multi" => /\ w.xmax = Multi(NextMulti) /\ nm = w.members
                         /\ \E m \in nm : xact[m.xid] = "running"
  /\ w.flag # "multi" => /\ w.members = {} /\ nm = MembersOf(multis, w.xmax)
                         /\ w.xmax.multi <= Len(multis)
  /\ t.xmax.multi = 0 /\ w.xmax # t.xmax => w.xmax = NoXmax
  /\ w.pagefrz \in PageFrz
  /\ w.pagefrz.fx <= pf.fx /\ w.pagefrz.fm <= pf.fm
  /\ w.pagefrz.nfx = pf.nfx /\ w.pagefrz.nfm = pf.nfm
  /\ pf.required => w.pagefrz.required
  /\ pf.fx >= v.FreezeLimit => w.pagefrz.fx >= v.FreezeLimit
  /\ pf.fm >= v.MultiXactCutoff => w.pagefrz.fm >= v.MultiXactCutoff

Left(w) == IF w.flag = "multi" THEN w.members ELSE MembersOf(multis, w.xmax)

\* A verdict that leaves the bounds alone.
LEMMA VerdictFields ==
  ASSUME NEW pf \in PageFrz, NEW flag, NEW xmax, NEW members, NEW required \in BOOLEAN
  PROVE  LET w == Verdict(flag, xmax, members, required, pf) IN
         /\ w.flag = flag /\ w.xmax = xmax /\ w.members = members
         /\ w.pagefrz \in PageFrz /\ w.pagefrz.fx = pf.fx /\ w.pagefrz.fm = pf.fm
         /\ w.pagefrz.nfx = pf.nfx /\ w.pagefrz.nfm = pf.nfm
         /\ w.pagefrz.required <=> (pf.required \/ required)
  BY DEF Verdict, PageFrz

\* xmax is removed: nothing of it counts.
LEMMA InvalidateFine ==
  ASSUME NEW t, NEW v, NEW pf \in PageFrz, NEW required \in BOOLEAN,
         Counting(xact, MembersOf(multis, t.xmax)) = {}, Len(multis) \in Nat,
         pf.fx \in Nat, pf.fm \in Nat
  PROVE  VerdictFine(t, v, pf, Verdict("invalidate", NoXmax, {}, required, pf),
                     Left(Verdict("invalidate", NoXmax, {}, required, pf)))
<1> DEFINE w == Verdict("invalidate", NoXmax, {}, required, pf)
<1>1. /\ w.flag = "invalidate" /\ w.xmax = NoXmax /\ w.members = {}
      /\ w.pagefrz \in PageFrz /\ w.pagefrz.fx = pf.fx /\ w.pagefrz.fm = pf.fm
      /\ w.pagefrz.nfx = pf.nfx /\ w.pagefrz.nfm = pf.nfm
      /\ w.pagefrz.required <=> (pf.required \/ required)
  BY VerdictFields
<1> HIDE DEF w
<1>2. NoXmax \in XmaxRec /\ NoXmax.multi = 0 /\ NoXmax.single = {}
  BY DEF NoXmax, XmaxRec
<1>3. MembersOf(multis, w.xmax) = {} /\ Left(w) = {}
  BY <1>1, <1>2 DEF MembersOf, Left
<1>4. Counting(xact, {}) = {}
  BY DEF Counting
<1>6. {} \subseteq MembersOf(multis, t.xmax) /\ (pf.required => w.pagefrz.required)
  BY <1>1, Zenon
<1>7. 0 <= Len(multis) /\ pf.fx <= pf.fx /\ pf.fm <= pf.fm
  OBVIOUS
<1>8. w.flag \in {"none", "noop", "invalidate", "xid", "multi"} /\ w.flag # "none" /\ w.flag # "multi" /\ w.flag # "noop" /\ w.flag # "xid"
  BY <1>1
<1>5. VerdictFine(t, v, pf, w, Left(w))
  BY <1>1, <1>2, <1>3, <1>4, <1>6, <1>7, <1>8, Zenon DEF VerdictFine
<1> QED
  BY <1>5, Zenon DEF w

\* xmax is kept as it is.
LEMMA NoopFine ==
  ASSUME NEW t, ItemFine(xact, multis, t), NEW v, NEW pf \in PageFrz, NEW q \in PageFrz, NEW w,
         w.flag = "noop", w.xmax = t.xmax, w.members = {}, w.pagefrz = q,
         q.fx <= pf.fx, q.fm <= pf.fm, q.nfx = pf.nfx, q.nfm = pf.nfm, q.required = pf.required,
         pf.fx >= v.FreezeLimit => q.fx >= v.FreezeLimit,
         pf.fm >= v.MultiXactCutoff => q.fm >= v.MultiXactCutoff,
         \A m \in MembersOf(multis, t.xmax) : m.xid >= q.fx,
         t.xmax.multi # 0 => t.xmax.multi >= q.fm
  PROVE  VerdictFine(t, v, pf, w, Left(w))
<1>1. /\ t.xmax \in XmaxRec /\ t.xmax.multi <= Len(multis) /\ (t.xmax.multi # 0 => t.xmax.single = {})
      /\ \A m, n \in t.xmax.single : m = n
  BY DEF ItemFine, ItemRec
<1>2. Left(w) = MembersOf(multis, t.xmax)
  BY DEF Left
<1>3. w.flag \in {"none", "noop", "invalidate", "xid", "multi"} /\ w.flag # "none" /\ w.flag # "multi" /\ w.flag # "invalidate" /\ w.flag # "xid"
  OBVIOUS
<1> QED
  BY <1>1, <1>2, <1>3 DEF VerdictFine

\* An update takes the place of the multixact it is in.
LEMMA UpdaterLeft ==
  ASSUME FreezeAssumption, NEW t, NEW v, NEW pf \in PageFrz, NEW ms \in SUBSET MemberRec,
         ms \subseteq MembersOf(multis, t.xmax), t.xmax.multi # 0,
         Counting(xact, ms) = Counting(xact, MembersOf(multis, t.xmax)),
         \A m, n \in ms : m = n, \A m \in ms : m.xid >= pf.fx, Len(multis) \in Nat
  PROVE  LET w == Verdict("xid", [multi |-> 0, single |-> ms], {}, TRUE, pf) IN
         VerdictFine(t, v, pf, w, Left(w))
<1> DEFINE xm == [multi |-> 0, single |-> ms]
           w == Verdict("xid", xm, {}, TRUE, pf)
<1>1. xm \in XmaxRec /\ xm.multi = 0 /\ xm.single = ms /\ MembersOf(multis, xm) = ms
  BY DEF XmaxRec, MembersOf
<1> HIDE DEF xm
<1>2. /\ w.flag = "xid" /\ w.xmax = xm /\ w.members = {}
      /\ w.pagefrz \in PageFrz /\ w.pagefrz.fx = pf.fx /\ w.pagefrz.fm = pf.fm
      /\ w.pagefrz.nfx = pf.nfx /\ w.pagefrz.nfm = pf.nfm
      /\ w.pagefrz.required
  BY DEF Verdict, PageFrz
<1> HIDE DEF w
<1>3. Left(w) = ms
  BY <1>1, <1>2 DEF Left
<1>4. pf.fx \in Nat /\ pf.fm \in Nat
  BY DEF PageFrz
<1>5. VerdictFine(t, v, pf, w, Left(w))
  BY <1>1, <1>2, <1>3, <1>4 DEF VerdictFine
<1> QED
  BY <1>5, Zenon DEF w, xm

\* What a tuple that can be planned has as xmax.
LEMMA PlannableMulti ==
  ASSUME FreezeAssumption, FreezeTypeOK, NEW t, NEW v, NEW pf, NEW h, Plannable(t, v, pf, h), t.xmax.multi # 0
  PROVE  /\ MembersOf(multis, t.xmax) = multis[t.xmax.multi] /\ t.xmax.multi \in 1..Len(multis)
         /\ MembersFine(xact, MembersOf(multis, t.xmax))
         /\ Members(t.xmax) = MembersOf(multis, t.xmax)
         /\ \A m \in MembersOf(multis, t.xmax) : /\ m.xid >= relfrozenxid
                                                 /\ m.xid < v.OldestXmin => ~Counts(xact, m)
         /\ t.xmax.multi >= relminmxid
         /\ Len(multis) \in Nat
<1>1. ItemFine(xact, multis, t) /\ AtLeast(multis, t, relfrozenxid, relminmxid)
  BY Zenon DEF Plannable
<1>2. Len(multis) \in Nat
  BY DEF FreezeTypeOK
<1>3. t.xmax.multi \in Nat /\ t.xmax.multi <= Len(multis)
  BY <1>1, ItemNamed, Zenon
<1>4. MembersOf(multis, t.xmax) = multis[t.xmax.multi]
  BY Zenon DEF MembersOf
<1>5. \A m \in MembersOf(multis, t.xmax) : m.xid >= relfrozenxid
  BY <1>1, Zenon DEF AtLeast, XidsOf
<1>6. \A m \in MembersOf(multis, t.xmax) : m.xid < v.OldestXmin => ~Counts(xact, m)
  BY <1>1, NotDead, Zenon DEF Plannable
<1> QED
  BY <1>1, <1>2, <1>3, <1>4, <1>5, <1>6, Names DEF AtLeast, ItemFine

\* A multixact nobody runs in: its update is kept if it may count.
LEMMA FreezeOldMultiFine ==
  ASSUME FreezeAssumption, FreezeTypeOK, NEW t, NEW v, NEW pf, NEW h, Plannable(t, v, pf, h), t.xmax.multi # 0,
         t.xmax.multi < v.OldestMxact
  PROVE  VerdictFine(t, v, pf, FreezeOldMulti(t.xmax, v, pf), Left(FreezeOldMulti(t.xmax, v, pf)))
<1> DEFINE ms == MembersOf(multis, t.xmax)
           u == IF LockedOnly(t.xmax) THEN None ELSE CHOOSE x \in Updaters(Members(t.xmax)) : TRUE
           w == FreezeOldMulti(t.xmax, v, pf)
<1>0. /\ ms = multis[t.xmax.multi] /\ t.xmax.multi \in 1..Len(multis) /\ MembersFine(xact, ms)
      /\ Members(t.xmax) = ms
      /\ \A m \in ms : m.xid >= relfrozenxid /\ (m.xid < v.OldestXmin => ~Counts(xact, m))
      /\ Len(multis) \in Nat
  BY PlannableMulti, Zenon
<1>1. /\ pf \in PageFrz /\ pf.fx \in Nat /\ pf.fm \in Nat /\ pf.fx <= v.OldestXmin /\ v.OldestXmin \in Nat
      /\ OverMulti(xact, multis, v.OldestMxact)
  BY DEF Plannable, PageFrz
<1>2. \A m \in ms : xact[m.xid] # "running" /\ ~Running(m.xid)
  <2>1. \A m \in multis[t.xmax.multi] : xact[m.xid] # "running"
    BY <1>0, <1>1, Zenon DEF OverMulti
  <2>2. \A m \in ms : xact[m.xid] # "running"
    BY <1>0, <2>1, Zenon
  <2> QED
    BY <2>2, Zenon DEF Running
<1>3. w = IF \E m \in Members(t.xmax) : Running(m.xid) THEN Corrupted(pf)
          ELSE IF u = None THEN Invalidate(pf)
          ELSE IF u < relfrozenxid THEN Corrupted(pf)
          ELSE IF u < v.OldestXmin
               THEN (IF DidCommit(u) THEN Corrupted(pf) ELSE Invalidate(pf))
          ELSE Verdict("xid", Single(Member(u, TRUE)), {}, TRUE, pf)
  BY Zenon DEF FreezeOldMulti
<1>4. ms \subseteq MemberRec
  BY <1>0, Zenon DEF MembersFine
<1>5. Invalidate(pf) = Verdict("invalidate", NoXmax, {}, TRUE, pf)
  BY Zenon DEF Invalidate
<1>6. CASE LockedOnly(t.xmax)
  <2>1. u = None
    BY <1>6, Zenon
  <2>2. w = Verdict("invalidate", NoXmax, {}, TRUE, pf)
    BY <1>0, <1>2, <1>3, <1>5, <2>1, Zenon
  <2>3. \A m \in ms : ~m.upd
    BY <1>6, <1>0, Zenon DEF LockedOnly, Updaters
  <2>4. Counting(xact, ms) = {}
    BY <1>2, <2>3, Zenon DEF Counting, Counts
  <2> HIDE DEF w
  <2> QED
    BY <1>0, <1>1, <2>2, <2>4, InvalidateFine DEF w
<1>7. CASE ~LockedOnly(t.xmax)
  <2>1. Updaters(Members(t.xmax)) # {} /\ u = CHOOSE x \in Updaters(Members(t.xmax)) : TRUE
    BY <1>7, Zenon DEF LockedOnly
  <2>2. u \in Updaters(ms)
    BY <2>1, <1>0, Zenon
  <2> HIDE DEF u
  <2>3. PICK m \in ms : m.upd /\ m.xid = u
    BY <2>2, Zenon DEF Updaters
  <2>4. u \in Xid /\ u \in Nat /\ u # None /\ u # Frozen /\ u >= relfrozenxid /\ relfrozenxid \in Nat
    <3>1. u \in Xid
      BY <2>3, <1>4 DEF MemberRec
    <3>2. u >= relfrozenxid
      BY <2>3, <1>0, Zenon
    <3>3. relfrozenxid \in Nat
      BY VacTypes, Zenon
    <3> QED
      BY <3>1, <3>2, <3>3, Numbers DEF None, Frozen
  <2>5. \A n \in ms : n.upd => n.xid = u
    BY <2>3, <1>0, Zenon DEF MembersFine
  <2>6. m = Member(u, TRUE)
    BY <2>3, <1>4 DEF Member, MemberRec
  <2>7. CASE u < v.OldestXmin
    <3>1. ~DidCommit(u) /\ xact[u] # "committed"
      BY <2>3, <2>4, <2>7, <1>0, Names, Zenon DEF Counts, Committed
    <3>2. w = Verdict("invalidate", NoXmax, {}, TRUE, pf)
      <4>1. ~(u < relfrozenxid)
        BY <2>4
      <4> QED
        BY <1>0, <1>2, <1>3, <1>5, <2>4, <2>7, <3>1, <4>1, Zenon
    <3>3. Counting(xact, ms) = {}
      BY <1>2, <2>5, <3>1, Zenon DEF Counting, Counts
    <3> HIDE DEF w
    <3> QED
      BY <1>0, <1>1, <3>2, <3>3, InvalidateFine DEF w
  <2>8. CASE ~(u < v.OldestXmin)
    <3>1. w = Verdict("xid", Single(Member(u, TRUE)), {}, TRUE, pf)
      <4>1. ~(u < relfrozenxid)
        BY <2>4
      <4> QED
        BY <1>0, <1>2, <1>3, <2>4, <2>8, <4>1, Zenon
    <3> DEFINE ns == {Member(u, TRUE)}
    <3>2. Single(Member(u, TRUE)) = [multi |-> 0, single |-> ns]
      BY Zenon DEF Single
    <3>3. ns \subseteq ms /\ ns \in SUBSET MemberRec
      BY <2>6, <1>4, Zenon
    <3>4. Counting(xact, ns) = Counting(xact, ms)
      <4>1. \A n \in ms : Counts(xact, n) => n = Member(u, TRUE)
        <5> SUFFICES ASSUME NEW n \in ms, Counts(xact, n) PROVE n = Member(u, TRUE)
          OBVIOUS
        <5>1. n.upd /\ n.xid = u
          BY <1>2, <2>5, Zenon DEF Counts
        <5> QED
          BY <5>1, <1>4 DEF Member, MemberRec
      <4> QED
        BY <4>1, <3>3, Zenon DEF Counting
    <3>5. \A n \in ns : n.xid >= pf.fx
      <4>1. Member(u, TRUE).xid = u
        BY DEF Member
      <4>2. u >= pf.fx
        BY <2>4, <2>8, <1>1
      <4> QED
        BY <4>1, <4>2, Zenon
    <3>6. \A n, k \in ns : n = k
      BY Zenon
    <3> HIDE DEF w, ns
    <3>7. w = Verdict("xid", [multi |-> 0, single |-> ns], {}, TRUE, pf)
      BY <3>1, <3>2, Zenon
    <3> QED
      BY <1>0, <1>1, <3>3, <3>4, <3>5, <3>6, <3>7, UpdaterLeft DEF w
  <2> QED
    BY <2>7, <2>8, Zenon
<1> QED
  BY <1>6, <1>7, Zenon

\* A multixact that has an old id in it: what counts of it is kept.
LEMMA ReplaceMultiFine ==
  ASSUME FreezeAssumption, FreezeTypeOK, NEW t, NEW v, NEW pf, NEW h, Plannable(t, v, pf, h), t.xmax.multi # 0
  PROVE  VerdictFine(t, v, pf, ReplaceMulti(t.xmax, v, pf), Left(ReplaceMulti(t.xmax, v, pf)))
<1> DEFINE ms == MembersOf(multis, t.xmax)
           ns == KeepNeeded(ms)
           w == ReplaceMulti(t.xmax, v, pf)
<1>0. /\ MembersFine(xact, ms) /\ Members(t.xmax) = ms
      /\ \A m \in ms : m.xid < v.OldestXmin => ~Counts(xact, m)
      /\ Len(multis) \in Nat
  BY PlannableMulti, Zenon
<1>1. /\ pf \in PageFrz /\ pf.fx \in Nat /\ pf.fm \in Nat /\ pf.fx <= v.OldestXmin /\ v.OldestXmin \in Nat
      /\ OverMulti(xact, multis, v.OldestMxact) /\ pf.fm <= v.OldestMxact /\ v.OldestMxact \in Nat
  BY DEF Plannable, PageFrz
<1>2. ms \subseteq MemberRec /\ \A m \in ms : m.xid \in Xid /\ m.xid \in Nat /\ m.xid # Frozen /\ m.upd \in BOOLEAN
  BY <1>0, Numbers DEF MembersFine, MemberRec
<1>3. ns = Counting(xact, ms)
  <2>1. \A m \in ms : DidCommit(m.xid) <=> xact[m.xid] = "committed"
    BY <1>2, Names, Zenon DEF Committed
  <2>2. \A m \in ms : (IF m.upd THEN Running(m.xid) \/ DidCommit(m.xid) ELSE Running(m.xid)) <=> Counts(xact, m)
    BY <1>2, <2>1, Names DEF Counts
  <2> QED
    BY <2>2, Zenon DEF KeepNeeded, Counting
<1>4. w = IF \E m \in ns : m.xid < v.OldestXmin THEN Corrupted(pf)
          ELSE IF ns = {} THEN Invalidate(pf)
          ELSE IF \A m \in ns : m.upd
               THEN Verdict("xid", [multi |-> 0, single |-> ns], {}, TRUE, pf)
          ELSE Verdict("multi", Multi(NextMulti), ns, TRUE, pf)
  BY <1>0, Zenon DEF ReplaceMulti
<1>5. ns \subseteq ms /\ ns \in SUBSET MemberRec
  BY <1>2, <1>3, Zenon DEF Counting
<1>6. \A m \in ns : ~(m.xid < v.OldestXmin) /\ Counts(xact, m)
  BY <1>0, <1>3, Zenon DEF Counting
<1>7. \A m \in ns : m.xid >= pf.fx
  BY <1>1, <1>2, <1>5, <1>6
<1>8. Counting(xact, ns) = Counting(xact, ms)
  BY <1>3, Zenon DEF Counting
<1> HIDE DEF ns, w
<1>9. CASE ns = {}
  <2>1. w = Verdict("invalidate", NoXmax, {}, TRUE, pf)
    BY <1>4, <1>9, Zenon DEF Invalidate
  <2>2. Counting(xact, ms) = {}
    BY <1>3, <1>9, Zenon
  <2> QED
    BY <1>0, <1>1, <2>1, <2>2, InvalidateFine DEF w
<1>10. CASE ns # {} /\ \A m \in ns : m.upd
  <2>1. w = Verdict("xid", [multi |-> 0, single |-> ns], {}, TRUE, pf)
    BY <1>4, <1>6, <1>10, Zenon
  <2>2. \A m, n \in ns : m = n
    <3> SUFFICES ASSUME NEW m \in ns, NEW n \in ns PROVE m = n
      OBVIOUS
    <3>1. m.xid = n.xid /\ m.upd /\ n.upd /\ m \in MemberRec /\ n \in MemberRec
      BY <1>0, <1>5, <1>10, Zenon DEF MembersFine
    <3> QED
      BY <3>1 DEF MemberRec
  <2> QED
    BY <1>0, <1>1, <1>5, <1>7, <1>8, <2>1, <2>2, UpdaterLeft DEF w
<1>11. CASE ns # {} /\ ~ \A m \in ns : m.upd
  <2>1. w = Verdict("multi", Multi(NextMulti), ns, TRUE, pf)
    BY <1>4, <1>6, <1>11, Zenon
  <2>2. \E m \in ns : xact[m.xid] = "running"
    BY <1>6, <1>11, Zenon DEF Counts
  <2>3. /\ w.flag = "multi" /\ w.xmax = Multi(NextMulti) /\ w.members = ns
        /\ w.pagefrz \in PageFrz /\ w.pagefrz.fx = pf.fx /\ w.pagefrz.fm = pf.fm
        /\ w.pagefrz.nfx = pf.nfx /\ w.pagefrz.nfm = pf.nfm
        /\ w.pagefrz.required
    BY <1>1, <2>1 DEF Verdict, PageFrz
  <2>4. Multi(NextMulti) \in XmaxRec /\ Multi(NextMulti).single = {} /\ Multi(NextMulti).multi = Len(multis) + 1
    BY <1>0 DEF Multi, NextMulti, XmaxRec
  <2>5. Len(multis) + 1 >= pf.fm
    BY <1>0, <1>1 DEF OverMulti
  <2>6. Left(w) = ns
    BY <2>3, Zenon DEF Left
  <2>7. w.flag \in {"none", "noop", "invalidate", "xid", "multi"} /\ w.flag # "none" /\ w.flag # "noop" /\ w.flag # "invalidate" /\ w.flag # "xid"
    BY <2>3
  <2>8. pf.fx <= pf.fx /\ pf.fm <= pf.fm
    BY <1>1
  <2>9. ns \subseteq MembersOf(multis, t.xmax) /\ Counting(xact, ns) = Counting(xact, MembersOf(multis, t.xmax))
    BY <1>5, <1>8, Zenon
  <2>10. w.xmax.multi >= w.pagefrz.fm /\ w.xmax.single = {} /\ w.xmax \in XmaxRec
    BY <2>3, <2>4, <2>5, Zenon
  <2>11. VerdictFine(t, v, pf, w, Left(w))
    BY <1>7, <2>2, <2>3, <2>6, <2>7, <2>8, <2>9, <2>10, Zenon DEF VerdictFine
  <2> QED
    BY <2>11, Zenon DEF w
<1> QED
  BY <1>9, <1>10, <1>11, Zenon

\* A multixact as xmax gets a verdict that is not an error, and keeps what
\* counts of it.
LEMMA FreezeMultiXactIdFine ==
  ASSUME FreezeAssumption, FreezeTypeOK, NEW t, NEW v, NEW pf, NEW h, Plannable(t, v, pf, h), t.xmax.multi # 0
  PROVE  /\ VerdictFine(t, v, pf, FreezeMultiXactId(t.xmax, v, pf), Left(FreezeMultiXactId(t.xmax, v, pf)))
         /\ FreezeMultiXactId(t.xmax, v, pf).flag # "none"
<1> DEFINE ms == MembersOf(multis, t.xmax)
           xids == {m.xid : m \in Members(t.xmax)}
           w == FreezeMultiXactId(t.xmax, v, pf)
<1>0. /\ t.xmax.multi \in 1..Len(multis) /\ MembersFine(xact, ms) /\ Members(t.xmax) = ms
      /\ t.xmax.multi >= relminmxid
      /\ Len(multis) \in Nat
  BY PlannableMulti, Zenon
<1>1. /\ pf \in PageFrz /\ pf.fx \in Nat /\ pf.fm \in Nat
      /\ v.OldestXmin \in Nat /\ v.FreezeLimit \in Nat /\ v.MultiXactCutoff \in Nat
      /\ ItemFine(xact, multis, t) /\ relminmxid \in Nat
  BY VacTypes DEF Plannable, PageFrz
<1>2. w = IF t.xmax.multi < relminmxid THEN Corrupted(pf)
          ELSE IF t.xmax.multi < v.OldestMxact THEN FreezeOldMulti(t.xmax, v, pf)
          ELSE IF \/ \E x \in xids : x < v.FreezeLimit
                  \/ t.xmax.multi < v.MultiXactCutoff
               THEN ReplaceMulti(t.xmax, v, pf)
          ELSE Verdict("noop", t.xmax, {}, FALSE, LeaveMulti(t.xmax, pf))
  BY Zenon DEF FreezeMultiXactId
<1>3. ~(t.xmax.multi < relminmxid)
  BY <1>0, <1>1
<1>4. CASE t.xmax.multi < v.OldestMxact
  <2>1. w = FreezeOldMulti(t.xmax, v, pf)
    BY <1>2, <1>3, <1>4, Zenon
  <2>2. w.flag # "none"
    BY <2>1 DEF FreezeOldMulti, Invalidate, Corrupted, Verdict
  <2> HIDE DEF w
  <2> QED
    BY <2>1, <2>2, <1>4, FreezeOldMultiFine DEF w
<1>5. CASE ~(t.xmax.multi < v.OldestMxact) /\ ((\E x \in xids : x < v.FreezeLimit) \/ t.xmax.multi < v.MultiXactCutoff)
  <2>1. w = ReplaceMulti(t.xmax, v, pf)
    BY <1>2, <1>3, <1>5, Zenon
  <2>2. w.flag # "none"
    BY <2>1 DEF ReplaceMulti, Invalidate, Corrupted, Verdict
  <2> HIDE DEF w
  <2> QED
    BY <2>1, <2>2, ReplaceMultiFine DEF w
<1>6. CASE ~(t.xmax.multi < v.OldestMxact) /\ ~((\E x \in xids : x < v.FreezeLimit) \/ t.xmax.multi < v.MultiXactCutoff)
  <2> DEFINE q == LeaveMulti(t.xmax, pf)
             ids == {pf.fx} \cup xids
  <2>1. w = Verdict("noop", t.xmax, {}, FALSE, q)
    BY <1>2, <1>3, <1>6, Zenon
  <2>2. xids \subseteq Nat /\ \A m \in ms : m.xid \in xids
    BY <1>0, Numbers DEF MembersFine, MemberRec
  <2>3. Min(ids) \in ids /\ \A n \in ids : Min(ids) <= n
    BY <2>2, <1>1, MinIsLeast
  <2>4. q = [pf EXCEPT !.fx = Min(ids), !.fm = Older(pf.fm, t.xmax.multi)]
    BY DEF LeaveMulti
  <2>5. Min(ids) \in Nat /\ Min(ids) <= pf.fx /\ \A m \in ms : m.xid >= Min(ids)
    BY <2>2, <2>3, <1>1
  <2>6. pf.fx >= v.FreezeLimit => Min(ids) >= v.FreezeLimit
    <3>1. \A x \in xids : x >= v.FreezeLimit
      <4>1. \A x \in xids : ~(x < v.FreezeLimit)
        BY <1>6, Zenon
      <4> HIDE DEF xids
      <4> QED
        BY <1>1, <2>2, <4>1
    <3> QED
      BY <2>3, <3>1, Zenon
  <2>7. /\ Older(pf.fm, t.xmax.multi) \in Nat /\ Older(pf.fm, t.xmax.multi) <= pf.fm
        /\ t.xmax.multi >= Older(pf.fm, t.xmax.multi)
        /\ pf.fm >= v.MultiXactCutoff => Older(pf.fm, t.xmax.multi) >= v.MultiXactCutoff
    BY <1>0, <1>1, <1>6 DEF Older
  <2> HIDE DEF ids
  <2>8. /\ q \in PageFrz /\ q.fx = Min(ids) /\ q.fm = Older(pf.fm, t.xmax.multi)
        /\ q.nfx = pf.nfx /\ q.nfm = pf.nfm /\ q.required = pf.required
    BY <1>1, <2>4, <2>5, <2>7 DEF PageFrz
  <2> HIDE DEF q
  <2>9. w.flag = "noop" /\ w.xmax = t.xmax /\ w.members = {} /\ w.pagefrz = q
    BY <2>1, <2>8 DEF Verdict, PageFrz
  <2> HIDE DEF w
  <2>10. w.flag # "none"
    BY <2>9
  <2>11. /\ q.fx <= pf.fx /\ q.fm <= pf.fm
         /\ pf.fx >= v.FreezeLimit => q.fx >= v.FreezeLimit
         /\ pf.fm >= v.MultiXactCutoff => q.fm >= v.MultiXactCutoff
         /\ \A m \in MembersOf(multis, t.xmax) : m.xid >= q.fx
         /\ t.xmax.multi # 0 => t.xmax.multi >= q.fm
    BY <2>5, <2>6, <2>7, <2>8
  <2>12. VerdictFine(t, v, pf, w, Left(w))
    BY <1>1, <2>8, <2>9, <2>11, NoopFine
  <2> QED
    BY <2>10, <2>12, Zenon DEF w
<1> QED
  BY <1>4, <1>5, <1>6, Zenon

\* The verdict about the xmax of a tuple.
VerdictOf(t, v, pf) ==
  LET x == IF t.xmax.single = {} THEN None ELSE (CHOOSE m \in t.xmax.single : TRUE).xid
  IN  IF t.xmax.multi # 0 THEN FreezeMultiXactId(t.xmax, v, pf)
      ELSE IF x = None THEN Verdict("none", NoXmax, {}, FALSE, pf)
      ELSE IF x < relfrozenxid THEN Corrupted(pf)
      ELSE IF x < v.OldestXmin THEN Verdict("invalidate", NoXmax, {}, FALSE, pf)
      ELSE Verdict("noop", t.xmax, {}, FALSE, pf)

\* Also for a single transaction as xmax.
LEMMA VerdictOfFine ==
  ASSUME FreezeAssumption, FreezeTypeOK, NEW t, NEW v, NEW pf, NEW h, Plannable(t, v, pf, h)
  PROVE  VerdictFine(t, v, pf, VerdictOf(t, v, pf), Left(VerdictOf(t, v, pf)))
<1> DEFINE ms == MembersOf(multis, t.xmax)
           x == IF t.xmax.single = {} THEN None ELSE (CHOOSE m \in t.xmax.single : TRUE).xid
           w == VerdictOf(t, v, pf)
<1>1. w = IF t.xmax.multi # 0 THEN FreezeMultiXactId(t.xmax, v, pf)
          ELSE IF x = None THEN Verdict("none", NoXmax, {}, FALSE, pf)
          ELSE IF x < relfrozenxid THEN Corrupted(pf)
          ELSE IF x < v.OldestXmin THEN Verdict("invalidate", NoXmax, {}, FALSE, pf)
          ELSE Verdict("noop", t.xmax, {}, FALSE, pf)
  BY Zenon DEF VerdictOf
<1>2. /\ pf \in PageFrz /\ pf.fx \in Nat /\ pf.fm \in Nat /\ pf.fx <= v.OldestXmin /\ v.OldestXmin \in Nat
      /\ ItemFine(xact, multis, t) /\ AtLeast(multis, t, relfrozenxid, relminmxid)
      /\ Len(multis) \in Nat /\ relfrozenxid \in Nat
  <2>1. multis \in Seq(SUBSET MemberRec)
    BY Zenon DEF FreezeTypeOK
  <2>2. Len(multis) \in Nat
    BY <2>1, LenInNat, Zenon
  <2> QED
    BY <2>2, VacTypes DEF Plannable, PageFrz
<1>3. /\ t.xmax \in XmaxRec /\ (t.xmax.multi # 0 => t.xmax.single = {}) /\ \A m, n \in t.xmax.single : m = n
  BY <1>2 DEF ItemFine, ItemRec
<1>4. CASE t.xmax.multi # 0
  <2>1. w = FreezeMultiXactId(t.xmax, v, pf)
    BY <1>1, <1>4, Zenon
  <2> HIDE DEF w
  <2> QED
    BY <2>1, <1>4, FreezeMultiXactIdFine DEF w
<1>5. CASE t.xmax.multi = 0 /\ t.xmax.single = {}
  <2>0. x = None
    BY <1>5, Zenon
  <2>1. w = Verdict("none", NoXmax, {}, FALSE, pf)
    BY <1>1, <1>5, <2>0, Zenon
  <2>2. t.xmax = NoXmax
    BY <1>3, <1>5 DEF XmaxRec, NoXmax
  <2>3. NoXmax \in XmaxRec /\ NoXmax.multi = 0 /\ NoXmax.single = {} /\ MembersOf(multis, NoXmax) = {}
    BY DEF NoXmax, XmaxRec, MembersOf
  <2>4. /\ w.flag = "none" /\ w.xmax = NoXmax /\ w.members = {} /\ w.pagefrz = pf
    BY <2>1, <1>2 DEF Verdict, PageFrz
  <2> HIDE DEF w, x
  <2>5. Left(w) = {}
    BY <2>3, <2>4 DEF Left
  <2>6. w.flag \in {"none", "noop", "invalidate", "xid", "multi"} /\ w.flag # "noop" /\ w.flag # "multi" /\ w.flag # "xid"
    BY <2>4
  <2>7. pf.fx <= pf.fx /\ pf.fm <= pf.fm /\ 0 <= Len(multis)
    BY <1>2
  <2>8. VerdictFine(t, v, pf, w, Left(w))
    BY <1>2, <2>2, <2>3, <2>4, <2>5, <2>6, <2>7, Zenon DEF VerdictFine
  <2> QED
    BY <2>8, Zenon DEF w
<1>6. CASE t.xmax.multi = 0 /\ t.xmax.single # {}
  <2>1. PICK m \in t.xmax.single : x = m.xid /\ t.xmax.single = {m}
    <3>1. (CHOOSE m \in t.xmax.single : TRUE) \in t.xmax.single
      BY <1>6, Zenon
    <3> QED
      BY <1>3, <1>6, <3>1, Zenon
  <2> HIDE DEF x
  <2>2. ms = {m} /\ m \in MemberRec
    BY <2>1, <1>3, <1>6 DEF MembersOf, XmaxRec
  <2>3. x \in Nat /\ x # None
    BY <2>1, <2>2, Numbers DEF MemberRec, None
  <2>4. x >= relfrozenxid
    BY <1>2, <2>1, <2>2, Zenon DEF AtLeast, XidsOf
  <2>5. CASE x < v.OldestXmin
    <3>1. ~(x < relfrozenxid)
      BY <2>3, <2>4, <1>2
    <3>2. w = Verdict("invalidate", NoXmax, {}, FALSE, pf)
      BY <1>1, <1>6, <2>3, <2>5, <3>1, Zenon
    <3>3. ~Counts(xact, m)
      BY <2>1, <2>2, <2>5, NotDead, Zenon DEF Plannable
    <3>4. Counting(xact, ms) = {}
      BY <2>2, <3>3, Zenon DEF Counting
    <3> HIDE DEF w
    <3> QED
      BY <1>2, <3>2, <3>4, InvalidateFine DEF w
  <2>6. CASE ~(x < v.OldestXmin)
    <3>1. ~(x < relfrozenxid) /\ x >= pf.fx /\ pf.fx <= pf.fx /\ pf.fm <= pf.fm
      BY <2>3, <2>4, <2>6, <1>2
    <3>2. w = Verdict("noop", t.xmax, {}, FALSE, pf)
      BY <1>1, <1>6, <2>3, <2>6, <3>1, Zenon
    <3>3. w.flag = "noop" /\ w.xmax = t.xmax /\ w.members = {} /\ w.pagefrz = pf
      BY <3>2, <1>2 DEF Verdict, PageFrz
    <3> HIDE DEF w
    <3>4. \A n \in MembersOf(multis, t.xmax) : n.xid >= pf.fx
      BY <2>1, <2>2, <3>1, Zenon
    <3> QED
      BY <1>2, <1>6, <3>1, <3>3, <3>4, NoopFine DEF w
  <2> QED
    BY <2>5, <2>6, Zenon
<1> QED
  BY <1>4, <1>5, <1>6, Zenon

\* What the bounds become when tuples are left as they are.
LEMMA ShouldFreezeFine ==
  ASSUME FreezeAssumption, NEW ts, NEW v, NEW pf \in PageFrz,
         \A t \in ts : ItemFine(xact, multis, t),
         v.FreezeLimit \in Nat, v.MultiXactCutoff \in Nat
  PROVE  LET r == pg_tde_tuple_should_freeze(ts, v, pf) IN
         /\ r \in PageFrz /\ r.fx = pf.fx /\ r.fm = pf.fm /\ r.nfx <= pf.nfx /\ r.nfm <= pf.nfm
         /\ pf.required => r.required
         /\ \A t \in ts : AtLeast(multis, t, r.nfx, r.nfm)
         /\ ~r.required => /\ pf.nfx >= v.FreezeLimit => r.nfx >= v.FreezeLimit
                           /\ pf.nfm >= v.MultiXactCutoff => r.nfm >= v.MultiXactCutoff
<1> DEFINE xids == UNION {Xids(t) : t \in ts}
           mxids == {t.xmax.multi : t \in ts} \ {0}
           X == {pf.nfx} \cup xids
           Y == {pf.nfm} \cup mxids
           old == (\E x \in xids : x < v.FreezeLimit) \/ (\E m \in mxids : m < v.MultiXactCutoff)
           r == pg_tde_tuple_should_freeze(ts, v, pf)
<1>1. r = [pf EXCEPT !.required = \/ pf.required \/ \E x \in xids : x < v.FreezeLimit
                                  \/ \E m \in mxids : m < v.MultiXactCutoff,
                     !.nfx = Min(X), !.nfm = Min(Y)]
  BY DEF pg_tde_tuple_should_freeze
<1>2. \A t \in ts : XidsOf(multis, t) \subseteq Nat /\ t.xmax.multi \in Nat
  <2> SUFFICES ASSUME NEW t \in ts PROVE XidsOf(multis, t) \subseteq Nat /\ t.xmax.multi \in Nat
    OBVIOUS
  <2>1. ItemFine(xact, multis, t)
    OBVIOUS
  <2>2. t.xmin \in Nat /\ MembersFine(xact, MembersOf(multis, t.xmax))
    BY <2>1, Numbers DEF ItemFine, ItemRec
  <2>3. \A m \in MembersOf(multis, t.xmax) : m.xid \in Nat
    BY <2>2, Numbers DEF MembersFine, MemberRec
  <2> QED
    BY <2>1, <2>2, <2>3, ItemNamed, Zenon DEF XidsOf
<1>3. xids \subseteq Nat /\ mxids \subseteq Nat
  BY <1>2, Names, Zenon
<1>4. pf.nfx \in Nat /\ pf.nfm \in Nat /\ pf.required \in BOOLEAN
  BY DEF PageFrz
<1>5. Min(X) \in X /\ (\A n \in X : Min(X) <= n) /\ X \subseteq Nat
  BY <1>3, <1>4, MinIsLeast
<1>6. Min(Y) \in Y /\ (\A n \in Y : Min(Y) <= n) /\ Y \subseteq Nat
  BY <1>3, <1>4, MinIsLeast
<1>7. Min(X) \in Nat /\ Min(Y) \in Nat /\ Min(X) <= pf.nfx /\ Min(Y) <= pf.nfm
  BY <1>5, <1>6, Zenon
<1>8. old \in BOOLEAN /\ (pf.required \/ old) \in BOOLEAN
  OBVIOUS
<1>9. r = [pf EXCEPT !.required = pf.required \/ old, !.nfx = Min(X), !.nfm = Min(Y)]
  BY <1>1, Zenon
<1>10. \A t \in ts : AtLeast(multis, t, Min(X), Min(Y))
  <2> SUFFICES ASSUME NEW t \in ts PROVE AtLeast(multis, t, Min(X), Min(Y))
    OBVIOUS
  <2>1. XidsOf(multis, t) \subseteq X
    BY Names, Zenon
  <2>2. \A x \in XidsOf(multis, t) : x >= Min(X)
    BY <2>1, <1>5, <1>7
  <2>3. t.xmax.multi # 0 => t.xmax.multi \in Y
    BY Zenon
  <2>4. t.xmax.multi # 0 => t.xmax.multi >= Min(Y)
    BY <2>3, <1>6, <1>7
  <2> QED
    BY <2>2, <2>4, Zenon DEF AtLeast
<1>11. ~old => /\ pf.nfx >= v.FreezeLimit => Min(X) >= v.FreezeLimit
               /\ pf.nfm >= v.MultiXactCutoff => Min(Y) >= v.MultiXactCutoff
  <2> SUFFICES ASSUME ~old PROVE /\ pf.nfx >= v.FreezeLimit => Min(X) >= v.FreezeLimit
                                 /\ pf.nfm >= v.MultiXactCutoff => Min(Y) >= v.MultiXactCutoff
    BY Zenon
  <2>1. (\A x \in xids : ~(x < v.FreezeLimit)) /\ \A m \in mxids : ~(m < v.MultiXactCutoff)
    BY Zenon
  <2>2. Min(X) = pf.nfx \/ Min(X) \in xids
    BY <1>5, Zenon
  <2>3. Min(Y) = pf.nfm \/ Min(Y) \in mxids
    BY <1>6, Zenon
  <2> HIDE DEF X, Y, xids, mxids, old
  <2> QED
    BY <2>1, <2>2, <2>3, <1>3, <1>7
<1> HIDE DEF X, Y, xids, mxids, old, r
<1>12. /\ r \in PageFrz /\ r.fx = pf.fx /\ r.fm = pf.fm /\ r.nfx = Min(X) /\ r.nfm = Min(Y)
       /\ r.required <=> (pf.required \/ old)
  BY <1>7, <1>8, <1>9 DEF PageFrz
<1>13. \A t \in ts : AtLeast(multis, t, r.nfx, r.nfm)
  BY <1>10, <1>12, Zenon
<1>14. r.nfx <= pf.nfx /\ r.nfm <= pf.nfm /\ (pf.required => r.required)
  BY <1>7, <1>12, Zenon
<1>15. ~r.required => /\ pf.nfx >= v.FreezeLimit => r.nfx >= v.FreezeLimit
                      /\ pf.nfm >= v.MultiXactCutoff => r.nfm >= v.MultiXactCutoff
  BY <1>11, <1>12, Zenon
<1> QED
  BY <1>12, <1>13, <1>14, <1>15, Zenon DEF r

\* The multixacts once a tuple is planned.
With(p) == IF p.members = {} THEN multis ELSE Append(multis, p.members)

\* What planning a tuple promises.
PlanFine(t, v, pf, p) ==
  /\ p.flag # "error"
  /\ ItemFine(xact, With(p), p.after) /\ Keeps(xact, With(p), v.OldestXmin, t, p.after)
  /\ Bounds(With(p), t, p.after, p.pagefrz)
  /\ p.totally_frozen => WhollyFrozen(p.after)
  /\ p.members # {} => MembersFine(xact, p.members) /\ \E m \in p.members : xact[m.xid] = "running"
  /\ Grows(multis, With(p))
  /\ p.pagefrz \in PageFrz /\ p.totally_frozen \in BOOLEAN
  /\ p.pagefrz.fx <= pf.fx /\ p.pagefrz.fm <= pf.fm
  /\ p.pagefrz.nfx <= pf.nfx /\ p.pagefrz.nfm <= pf.nfm
  /\ pf.required => p.pagefrz.required
  /\ pf.fx >= v.FreezeLimit => p.pagefrz.fx >= v.FreezeLimit
  /\ pf.fm >= v.MultiXactCutoff => p.pagefrz.fm >= v.MultiXactCutoff
  /\ ~p.pagefrz.required => /\ pf.nfx >= v.FreezeLimit => p.pagefrz.nfx >= v.FreezeLimit
                            /\ pf.nfm >= v.MultiXactCutoff => p.pagefrz.nfm >= v.MultiXactCutoff

\* Every tuple that can be planned is planned without an error, and the plan
\* keeps what its header means.
LEMMA PlanIsFine ==
  ASSUME FreezeAssumption, FreezeTypeOK, NEW t, NEW v, NEW pf, NEW h, Plannable(t, v, pf, h)
  PROVE  PlanFine(t, v, pf, pg_tde_prepare_freeze_tuple(t, v, pf))
<1> DEFINE p == pg_tde_prepare_freeze_tuple(t, v, pf)
           w == VerdictOf(t, v, pf)
           ms == MembersOf(multis, t.xmax)
           nm == Left(w)
           xmin == IF t.xmin # Frozen /\ t.xmin < v.OldestXmin THEN Frozen ELSE t.xmin
           N == With(p)
<1>1. /\ p.flag = IF t.xmin # Frozen /\ t.xmin < relfrozenxid THEN "error" ELSE w.flag
      /\ p.after = [t EXCEPT !.xmin = xmin, !.xmax = w.xmax]
      /\ p.members = w.members
      /\ p.totally_frozen = (p.after.xmin = Frozen /\ w.flag \in {"none", "invalidate"})
      /\ p.pagefrz = IF w.pagefrz.required \/ (t.xmin = Frozen /\ w.flag = "none")
                     THEN w.pagefrz ELSE pg_tde_tuple_should_freeze({t}, v, w.pagefrz)
  BY DEF pg_tde_prepare_freeze_tuple, VerdictOf
<1>2. VerdictFine(t, v, pf, w, nm)
  BY VerdictOfFine, Zenon
<1>3. /\ ItemFine(xact, multis, t) /\ t.kind = "tuple" /\ AtLeast(multis, t, relfrozenxid, relminmxid)
      /\ v.OldestXmin \in Nat /\ v.FreezeLimit \in Nat /\ v.MultiXactCutoff \in Nat
      /\ pf \in PageFrz /\ pf.fx \in Nat /\ pf.fm \in Nat /\ pf.fx <= v.OldestXmin
      /\ relfrozenxid \in Nat
  BY VacTypes DEF Plannable, PageFrz
<1>4. /\ t \in ItemRec /\ t.xmin \in 0..MaxXid /\ t.xmin \in Nat /\ MembersFine(xact, ms)
  BY <1>3, Numbers DEF ItemFine, ItemRec
<1>5. t.xmin # Frozen /\ t.xmin < v.OldestXmin => xact[t.xmin] = "committed"
  BY <1>3, NotDead, Zenon DEF Plannable
<1> HIDE DEF p, w, nm
<1>6. p.after.kind = "tuple" /\ p.after.xmin = xmin /\ p.after.xmax = w.xmax /\ p.after \in ItemRec
  <2>1. w.xmax \in XmaxRec
    BY <1>2, Zenon DEF VerdictFine
  <2>2. xmin \in 0..MaxXid
    BY <1>4, Numbers DEF Frozen
  <2> HIDE DEF xmin
  <2> QED
    BY <1>1, <1>3, <1>4, <2>1, <2>2 DEF ItemRec
<1>7. p.flag # "error"
  <2>1. t.xmin # Frozen => t.xmin >= relfrozenxid
    BY <1>3, Zenon DEF AtLeast, XidsOf
  <2>2. ~(t.xmin # Frozen /\ t.xmin < relfrozenxid)
    BY <2>1, <1>3, <1>4
  <2>3. p.flag = w.flag
    BY <1>1, <2>2, Zenon
  <2> QED
    BY <1>2, <2>3 DEF VerdictFine
<1>8. multis \in Seq(SUBSET MemberRec) /\ Len(multis) \in Nat
  BY LenInNat, Zenon DEF FreezeTypeOK
<1>9. MembersFine(xact, nm) /\ nm \in SUBSET MemberRec
  BY <1>2, <1>4, Zenon DEF VerdictFine, MembersFine
<1>10. p.members # {} <=> w.flag = "multi"
  BY <1>1, <1>2, Zenon DEF VerdictFine
<1>11. w.flag = "multi" => p.members = nm /\ \E m \in nm : xact[m.xid] = "running"
  BY <1>1, <1>2, Zenon DEF VerdictFine
<1>12. Grows(multis, N)
  BY <1>8, <1>9, <1>10, <1>11, MultiAdded, Zenon DEF With
<1>13. MembersOf(N, p.after.xmax) = nm /\ p.after.xmax.multi <= Len(N)
  <2>1. CASE w.flag = "multi"
    <3>1. N = Append(multis, nm)
      BY <2>1, <1>10, <1>11, Zenon DEF With
    <3>2. N[Len(multis) + 1] = nm /\ Len(N) = Len(multis) + 1
      BY <3>1, <1>8, <1>9, MultiAdded, Zenon
    <3>3. p.after.xmax = Multi(NextMulti)
      BY <2>1, <1>2, <1>6, Zenon DEF VerdictFine
    <3>4. p.after.xmax.multi = Len(multis) + 1 /\ p.after.xmax.multi # 0
      BY <3>3, <1>8 DEF Multi, NextMulti
    <3>5. MembersOf(N, p.after.xmax) = nm
      BY <3>2, <3>4, Zenon DEF MembersOf
    <3> QED
      BY <3>2, <3>4, <3>5, <1>8
  <2>2. CASE w.flag # "multi"
    <3>1. N = multis
      BY <2>2, <1>10, Zenon DEF With
    <3> QED
      BY <3>1, <2>2, <1>2, <1>6, Zenon DEF VerdictFine
  <2> QED
    BY <2>1, <2>2, Zenon
<1> HIDE DEF N
<1>14. xmin = t.xmin \/ (xmin = Frozen /\ t.xmin < v.OldestXmin /\ xact[t.xmin] = "committed" /\ t.xmin # Frozen)
  BY <1>5, Zenon
<1>15. xmin # Frozen => xmin = t.xmin /\ ~(t.xmin < v.OldestXmin)
  BY Zenon
<1> HIDE DEF xmin
<1>16. ItemFine(xact, N, p.after)
  <2>1. p.after.xmin # Frozen => xact[p.after.xmin] # "unused"
    BY <1>3, <1>6, <1>15, Zenon DEF ItemFine
  <2>2. \A m \in nm : Committed(xact, p.after.xmin) \/ p.after.xmin = m.xid
    <3>1. \A m \in nm : Committed(xact, t.xmin) \/ t.xmin = m.xid
      BY <1>2, <1>3, Zenon DEF VerdictFine, ItemFine
    <3> QED
      BY <3>1, <1>6, <1>14, Zenon DEF Committed
  <2>3. (p.after.xmax.multi # 0 => p.after.xmax.single = {}) /\ \A m, n \in p.after.xmax.single : m = n
    BY <1>2, <1>6, Zenon DEF VerdictFine
  <2>4. p.after.kind # "tuple" => p.after.xmin = Frozen /\ p.after.xmax = NoXmax
    BY <1>6, Zenon
  <2> QED
    BY <1>6, <1>9, <1>13, <2>1, <2>2, <2>3, <2>4, Zenon DEF ItemFine
<1>17. MembersOf(N, t.xmax) = ms /\ \A fx, fm : AtLeast(N, t, fx, fm) <=> AtLeast(multis, t, fx, fm)
  BY <1>3, <1>12, ItemNamed, MembersStable, Zenon
<1>18. WhollyFrozen(t) => p.after = t
  <2> SUFFICES ASSUME t.xmin = Frozen, t.xmax = NoXmax PROVE p.after = t
    BY Zenon DEF WhollyFrozen
  <2>1. t.xmax.multi = 0
    BY DEF NoXmax
  <2>2. w.xmax = t.xmax
    BY <2>1, <1>2, Zenon DEF VerdictFine
  <2>3. xmin = t.xmin
    BY <1>15, Zenon
  <2> QED
    BY <2>2, <2>3, <1>1, <1>4 DEF ItemRec
<1>19. Keeps(xact, N, v.OldestXmin, t, p.after)
  <2>1. Counting(xact, MembersOf(N, p.after.xmax)) = Counting(xact, MembersOf(N, t.xmax))
    BY <1>2, <1>13, <1>17, Zenon DEF VerdictFine
  <2>2. t.xmax.multi = 0 /\ t.xmax # p.after.xmax => p.after.xmax = NoXmax
    BY <1>2, <1>6, Zenon DEF VerdictFine
  <2>3. XidsOf(N, p.after) \subseteq XidsOf(N, t)
    <3>1. nm \subseteq ms
      BY <1>2, Zenon DEF VerdictFine, ms
    <3> QED
      BY <3>1, <1>6, <1>13, <1>14, <1>17, Zenon DEF XidsOf
  <2>4. p.after.xmax.multi # 0 => t.xmax.multi # 0 /\ p.after.xmax.multi >= t.xmax.multi
    <3>1. t.xmax.multi \in Nat /\ t.xmax.multi <= Len(multis)
      BY <1>3, ItemNamed, Zenon
    <3>2. CASE w.flag = "multi"
      <4>1. p.after.xmax.multi = Len(multis) + 1
        BY <3>2, <1>2, <1>6, <1>8 DEF VerdictFine, Multi, NextMulti
      <4>2. p.after.xmax # NoXmax
        BY <4>1, <1>8 DEF NoXmax
      <4>3. t.xmax.multi = 0 => t.xmax = p.after.xmax
        BY <2>2, <4>2, Zenon
      <4> QED
        BY <4>1, <4>3, <3>1, <1>8
    <3>3. CASE w.flag = "noop"
      BY <3>1, <3>3, <1>2, <1>6 DEF VerdictFine
    <3>4. CASE w.flag \in {"none", "invalidate"}
      <4>1. p.after.xmax = NoXmax
        BY <3>4, <1>2, <1>6, Zenon DEF VerdictFine
      <4> QED
        BY <4>1 DEF NoXmax
    <3>5. CASE w.flag = "xid"
      BY <3>5, <1>2, <1>6, Zenon DEF VerdictFine
    <3>6. w.flag \in {"none", "noop", "invalidate", "xid", "multi"}
      BY <1>2, Zenon DEF VerdictFine
    <3> QED
      BY <3>2, <3>3, <3>4, <3>5, <3>6
  <2> QED
    BY <1>3, <1>6, <1>14, <1>18, <2>1, <2>2, <2>3, <2>4, Zenon DEF Keeps
<1> DEFINE q == w.pagefrz
           r == pg_tde_tuple_should_freeze({t}, v, q)
<1>20. /\ q \in PageFrz /\ q.fx <= pf.fx /\ q.fm <= pf.fm /\ q.nfx = pf.nfx /\ q.nfm = pf.nfm
       /\ pf.required => q.required
       /\ pf.fx >= v.FreezeLimit => q.fx >= v.FreezeLimit
       /\ pf.fm >= v.MultiXactCutoff => q.fm >= v.MultiXactCutoff
       /\ \A m \in nm : m.xid >= q.fx
       /\ w.xmax.multi # 0 => w.xmax.multi >= q.fm
  BY <1>2, Zenon DEF VerdictFine
<1>21. /\ r \in PageFrz /\ r.fx = q.fx /\ r.fm = q.fm /\ r.nfx <= q.nfx /\ r.nfm <= q.nfm
       /\ q.required => r.required
       /\ AtLeast(multis, t, r.nfx, r.nfm)
       /\ ~r.required => /\ q.nfx >= v.FreezeLimit => r.nfx >= v.FreezeLimit
                         /\ q.nfm >= v.MultiXactCutoff => r.nfm >= v.MultiXactCutoff
  <2>1. \A s \in {t} : ItemFine(xact, multis, s)
    BY <1>3, Zenon
  <2>2. t \in {t}
    OBVIOUS
  <2> HIDE DEF q
  <2> QED
    BY <2>1, <2>2, <1>3, <1>20, ShouldFreezeFine
<1> HIDE DEF q, r
<1>22. q.nfx \in Nat /\ q.nfm \in Nat /\ q.nfx <= q.nfx /\ q.nfm <= q.nfm /\ q.fx \in Nat
  BY <1>20 DEF PageFrz
<1>23. p.pagefrz = q \/ p.pagefrz = r
  BY <1>1, Zenon DEF q, r
<1>24. /\ p.pagefrz \in PageFrz /\ p.pagefrz.fx = q.fx /\ p.pagefrz.fm = q.fm
       /\ p.pagefrz.nfx <= pf.nfx /\ p.pagefrz.nfm <= pf.nfm
       /\ pf.required => p.pagefrz.required
  BY <1>20, <1>21, <1>22, <1>23, Zenon
<1>25. ~p.pagefrz.required =>
         /\ AtLeast(multis, t, p.pagefrz.nfx, p.pagefrz.nfm)
         /\ pf.nfx >= v.FreezeLimit => p.pagefrz.nfx >= v.FreezeLimit
         /\ pf.nfm >= v.MultiXactCutoff => p.pagefrz.nfm >= v.MultiXactCutoff
  <2>1. CASE q.required
    BY <2>1, <1>21, <1>23, Zenon
  <2>2. CASE ~q.required /\ ~(t.xmin = Frozen /\ w.flag = "none")
    <3>1. p.pagefrz = r
      BY <2>2, <1>1, Zenon DEF q, r
    <3> QED
      BY <3>1, <1>20, <1>21, Zenon
  <2>3. CASE ~q.required /\ t.xmin = Frozen /\ w.flag = "none"
    <3>1. p.pagefrz = q
      BY <2>3, <1>1, Zenon DEF q
    <3>2. t.xmax = NoXmax
      BY <2>3, <1>2, Zenon DEF VerdictFine
    <3>3. t.xmax.multi = 0 /\ t.xmax.single = {}
      BY <3>2 DEF NoXmax
    <3>4. AtLeast(multis, t, q.nfx, q.nfm)
      BY <2>3, <3>3 DEF AtLeast, XidsOf, MembersOf
    <3> QED
      BY <3>1, <3>4, <1>20, Zenon
  <2> QED
    BY <2>1, <2>2, <2>3, Zenon
<1>26. AtLeast(N, p.after, q.fx, q.fm)
  <2>1. p.after.xmin # Frozen => p.after.xmin >= q.fx
    <3>1. q.fx <= v.OldestXmin
      BY <1>3, <1>20, <1>22
    <3>2. xmin # Frozen => xmin >= q.fx
      BY <3>1, <1>3, <1>4, <1>15, <1>22
    <3> QED
      BY <3>2, <1>6, Zenon
  <2>2. \A m \in MembersOf(N, p.after.xmax) : m.xid >= q.fx
    BY <1>13, <1>20, Zenon
  <2>3. p.after.xmax.multi # 0 => p.after.xmax.multi >= q.fm
    BY <1>6, <1>20, Zenon
  <2> QED
    BY <2>1, <2>2, <2>3, Zenon DEF AtLeast, XidsOf
<1>27. Bounds(N, t, p.after, p.pagefrz)
  BY <1>17, <1>24, <1>25, <1>26, Zenon DEF Bounds
<1>28. (p.totally_frozen => WhollyFrozen(p.after)) /\ p.totally_frozen \in BOOLEAN
  <2>1. w.flag \in {"none", "invalidate"} => p.after.xmax = NoXmax
    BY <1>2, <1>6, Zenon DEF VerdictFine
  <2>2. (p.after.xmin = Frozen /\ w.flag \in {"none", "invalidate"}) \in BOOLEAN
    OBVIOUS
  <2>3. p.totally_frozen \in BOOLEAN
    BY <1>1, <2>2, Zenon
  <2>4. p.totally_frozen => p.after.xmin = Frozen /\ w.flag \in {"none", "invalidate"}
    BY <1>1, Zenon
  <2> QED
    BY <2>1, <2>3, <2>4, Zenon DEF WhollyFrozen
<1>29. p.members # {} => MembersFine(xact, p.members) /\ \E m \in p.members : xact[m.xid] = "running"
  BY <1>9, <1>10, <1>11, Zenon
<1>30. /\ p.pagefrz.fx <= pf.fx /\ p.pagefrz.fm <= pf.fm
       /\ pf.fx >= v.FreezeLimit => p.pagefrz.fx >= v.FreezeLimit
       /\ pf.fm >= v.MultiXactCutoff => p.pagefrz.fm >= v.MultiXactCutoff
  BY <1>20, <1>24, Zenon
<1>31. N = With(p)
  BY Zenon DEF N
<1>32. PlanFine(t, v, pf, p)
  BY <1>7, <1>12, <1>16, <1>19, <1>24, <1>25, <1>27, <1>28, <1>29, <1>30, <1>31, Zenon DEF PlanFine
<1> QED
  BY <1>32, Zenon DEF p

-----------------------------------------------------------------------------
(* The start.                                                                *)

\* The invariant holds at the start.
LEMMA InitInv ==
  ASSUME FreezeAssumption, FreezeInit
  PROVE  FreezeInv
<1> DEFINE P(q) == [o \in DOMAIN q |-> IF q[o] = "row" THEN Tuple(1, NoXmax) ELSE Free]
<1>1. /\ load \in Loads
      /\ pages = [b \in 0..(NBlocks - 1) |-> P(load.pages[b + 1])]
      /\ vm = [b \in DOMAIN pages |-> "none"]
      /\ xact = [x \in Xid |-> IF x = 1 THEN "committed" ELSE "unused"]
      /\ multis = <<>> /\ relfrozenxid = 1 /\ relminmxid = 1
      /\ vac = NoVac /\ touches = load.touches /\ vacuums = load.vacuums
  BY Zenon DEF FreezeInit, NBlocks
<1>2. load.pages \in Seq(Seq({"row", "free"})) /\ load.touches \in Nat /\ load.vacuums \in Nat
  BY <1>1 DEF FreezeAssumption
<1>3. NBlocks \in Nat
  BY <1>2, LenInNat, Zenon DEF NBlocks
<1>4. /\ Tuple(1, NoXmax) \in ItemRec /\ Free \in ItemRec
      /\ Tuple(1, NoXmax).kind = "tuple" /\ Tuple(1, NoXmax).xmin = 1 /\ Tuple(1, NoXmax).xmax = NoXmax
      /\ Free.kind = "free" /\ Free.xmin = Frozen /\ Free.xmax = NoXmax
      /\ NoXmax.multi = 0 /\ NoXmax.single = {}
  BY Numbers DEF Tuple, Free, Item, NoXmax, ItemRec, XmaxRec, Frozen
<1>5. ASSUME NEW q \in Seq({"row", "free"})
      PROVE  P(q) \in Seq(ItemRec) /\ \A o \in DOMAIN P(q) : P(q)[o] \in {Tuple(1, NoXmax), Free}
  <2>1. Len(q) \in Nat /\ DOMAIN q = 1..Len(q)
    OBVIOUS
  <2>2. \A o \in DOMAIN q : P(q)[o] \in {Tuple(1, NoXmax), Free} /\ P(q)[o] \in ItemRec
    BY <1>4
  <2>3. P(q) \in [1..Len(q) -> ItemRec]
    BY <2>1, <2>2, Zenon
  <2>4. P(q) \in Seq(ItemRec)
    <3> HIDE DEF P
    <3> QED
      BY <2>1, <2>3
  <2> QED
    BY <2>2, <2>4, Zenon
<1>6. \A b \in 0..(NBlocks - 1) : load.pages[b + 1] \in Seq({"row", "free"})
  <2>1. \A b \in 0..(NBlocks - 1) : b + 1 \in 1..Len(load.pages)
    BY <1>3 DEF NBlocks
  <2> QED
    BY <1>2, <2>1
<1>7. /\ DOMAIN pages = 0..(NBlocks - 1)
      /\ \A b \in DOMAIN pages : /\ pages[b] \in Seq(ItemRec)
                                 /\ \A o \in Slot(b) : pages[b][o] \in {Tuple(1, NoXmax), Free}
  <2>1. DOMAIN pages = 0..(NBlocks - 1) /\ \A b \in DOMAIN pages : pages[b] = P(load.pages[b + 1])
    BY <1>1, Zenon
  <2> HIDE DEF P
  <2> QED
    BY <2>1, <1>5, <1>6, Zenon DEF Slot
<1> HIDE DEF P
<1>8. xact \in [Xid -> Status] /\ xact[1] = "committed"
  BY <1>1, Numbers DEF Status
<1>9. FreezeTypeOK
  <2>1. pages \in [DOMAIN pages -> Seq(ItemRec)]
    <3>1. pages = [b \in DOMAIN pages |-> pages[b]]
      BY <1>1, Zenon
    <3> QED
      BY <3>1, <1>7, Zenon
  <2>2. vm \in [DOMAIN pages -> {"none", "visible", "frozen"}]
    BY <1>1
  <2>3. multis \in Seq(SUBSET MemberRec)
    BY <1>1
  <2>4. relfrozenxid \in 1..(MaxXid + 1) /\ relminmxid \in Nat \ {0}
    BY <1>1, Numbers
  <2>5. vac \in VacRec
    BY <1>1, Numbers DEF NoVac, VacRec, NoPage, PageFrz
  <2> QED
    BY <1>1, <1>2, <1>7, <1>8, <2>1, <2>2, <2>3, <2>4, <2>5, Zenon DEF FreezeTypeOK
<1>10. ASSUME NEW b \in Block, NEW o \in Slot(b)
       PROVE  ItemFine(xact, multis, pages[b][o]) /\ AtLeast(multis, pages[b][o], 1, 1)
  <2>1. Len(multis) = 0
    BY <1>1
  <2>2. /\ pages[b][o] \in ItemRec /\ pages[b][o].xmax = NoXmax
        /\ \/ pages[b][o].kind = "tuple" /\ pages[b][o].xmin = 1
           \/ pages[b][o].kind # "tuple" /\ pages[b][o].xmin = Frozen
    BY <1>4, <1>7 DEF Block
  <2>3. MembersOf(multis, pages[b][o].xmax) = {}
    BY <2>2, <1>4, Zenon DEF MembersOf
  <2>4. XidsOf(multis, pages[b][o]) \subseteq {1}
    BY <2>2, <2>3, Zenon DEF XidsOf
  <2>5. MembersFine(xact, {})
    BY DEF MembersFine
  <2>6. ItemFine(xact, multis, pages[b][o])
    BY <1>4, <1>8, <2>1, <2>2, <2>3, <2>5 DEF ItemFine
  <2>7. AtLeast(multis, pages[b][o], 1, 1)
    BY <1>4, <2>2, <2>4 DEF AtLeast
  <2> QED
    BY <2>6, <2>7, Zenon
<1>11. CatalogOver
  <2>1. Over(xact, 1)
    BY Numbers DEF Over
  <2>2. OverMulti(xact, multis, 1)
    BY <1>1 DEF OverMulti
  <2> QED
    BY <1>1, <2>1, <2>2, Zenon DEF CatalogOver
<1>12. MultisFine
  BY <1>1 DEF MultisFine
<1>13. MapTrue
  BY <1>1 DEF MapTrue, Block
<1>14. VacuumInv
  BY <1>1 DEF VacuumInv, NoVac
<1> QED
  BY <1>1, <1>9, <1>10, <1>11, <1>12, <1>13, <1>14, Zenon DEF FreezeInv, PagesFine, CatalogTrue

-----------------------------------------------------------------------------
(* Cutoffs.                                                                  *)

\* All transactions before the oldest that runs are over, and no later cutoff
\* has that.
LEMMA OldestIsOver ==
  ASSUME FreezeAssumption, FreezeTypeOK
  PROVE  /\ OldestRunning \in 1..(MaxXid + 1) /\ Over(xact, OldestRunning)
         /\ \A h \in 0..(MaxXid + 1) : Over(xact, h) => h <= OldestRunning
<1> DEFINE S == {NextXid} \cup {x \in Xid : Running(x)}
<1>1. NextXid \in 1..(MaxXid + 1) /\ (NextXid \in Xid => xact[NextXid] = "unused")
      /\ \A y \in Xid : xact[y] = "unused" => NextXid <= y
  BY NextXidFresh, Zenon
<1>2. S \subseteq 1..(MaxXid + 1) /\ S \subseteq Nat /\ S # {}
  BY <1>1, Numbers
<1>3. OldestRunning \in S /\ \A n \in S : OldestRunning <= n
  BY <1>2, MinIsLeast DEF OldestRunning
<1>4. Over(xact, OldestRunning)
  <2> SUFFICES ASSUME NEW x \in Xid, x < OldestRunning PROVE Ended(xact, x)
    BY Zenon DEF Over
  <2>1. OldestRunning \in Nat /\ NextXid \in Nat /\ x \in Nat
    BY <1>1, <1>2, <1>3, Numbers
  <2>2. ~Running(x)
    BY <2>1, <1>3
  <2>3. xact[x] # "unused"
    <3>1. OldestRunning <= NextXid
      BY <1>3
    <3> QED
      BY <3>1, <2>1, <1>1
  <2>4. xact[x] \in Status
    BY DEF FreezeTypeOK
  <2> QED
    BY <2>2, <2>3, <2>4 DEF Status, Running, Ended
<1>5. ASSUME NEW h \in 0..(MaxXid + 1), Over(xact, h)
      PROVE  h <= OldestRunning
  <2>1. OldestRunning \in 1..(MaxXid + 1) /\ MaxXid \in Nat
    BY <1>2, <1>3, Numbers, Zenon
  <2>2. OldestRunning \in Xid => ~Ended(xact, OldestRunning)
    BY <1>1, <1>3 DEF Ended, Running
  <2>3. OldestRunning \in Xid \/ OldestRunning = MaxXid + 1
    BY <2>1 DEF Xid
  <2> QED
    BY <2>1, <2>2, <2>3, <1>5 DEF Over
<1> QED
  BY <1>2, <1>3, <1>4, <1>5, Zenon

\* Nobody runs in multixacts before the oldest one that somebody runs in.
LEMMA OldestMultiIsOver ==
  ASSUME FreezeAssumption, FreezeTypeOK
  PROVE  /\ OldestRunningMulti \in Nat \ {0} /\ OverMulti(xact, multis, OldestRunningMulti)
         /\ \A i \in Nat : OverMulti(xact, multis, i) => i <= OldestRunningMulti
<1> DEFINE S == {NextMulti} \cup {i \in DOMAIN multis : \E m \in multis[i] : Running(m.xid)}
<1>1. Len(multis) \in Nat /\ DOMAIN multis = 1..Len(multis)
  BY DEF FreezeTypeOK
<1>2. S \subseteq Nat \ {0} /\ S \subseteq Nat /\ S # {} /\ NextMulti = Len(multis) + 1
  BY <1>1 DEF NextMulti
<1>3. OldestRunningMulti \in S /\ \A n \in S : OldestRunningMulti <= n
  BY <1>2, MinIsLeast DEF OldestRunningMulti
<1>4. OverMulti(xact, multis, OldestRunningMulti)
  <2>1. OldestRunningMulti \in Nat /\ OldestRunningMulti <= Len(multis) + 1
    BY <1>2, <1>3
  <2>2. ASSUME NEW j \in 1..Len(multis), j < OldestRunningMulti, NEW m \in multis[j]
        PROVE  xact[m.xid] # "running"
    <3>1. j \notin S
      BY <2>1, <2>2, <1>3
    <3> QED
      BY <3>1, <1>1, Zenon DEF Running
  <2> QED
    BY <2>1, <2>2, Zenon DEF OverMulti
<1>5. ASSUME NEW i \in Nat, OverMulti(xact, multis, i)
      PROVE  i <= OldestRunningMulti
  <2>1. OldestRunningMulti \in Nat
    BY <1>2, <1>3
  <2>2. CASE OldestRunningMulti = NextMulti
    BY <2>2, <1>2, <1>5 DEF OverMulti
  <2>3. CASE OldestRunningMulti # NextMulti
    <3>1. OldestRunningMulti \in 1..Len(multis) /\ \E m \in multis[OldestRunningMulti] : xact[m.xid] = "running"
      BY <2>3, <1>1, <1>3, Zenon DEF Running
    <3>2. ~(OldestRunningMulti < i)
      BY <3>1, <1>5, Zenon DEF OverMulti
    <3> QED
      BY <3>2, <2>1
  <2> QED
    BY <2>2, <2>3, Zenon
<1> QED
  BY <1>2, <1>3, <1>4, <1>5, Zenon

\* The number of blocks.
LEMMA Blocks ==
  ASSUME FreezeAssumption, FreezeTypeOK
  PROVE  /\ NBlocks \in Nat /\ Block = 0..(NBlocks - 1) /\ Cardinality(Block) = NBlocks
         /\ \A b \in Block : b \in Nat /\ b < NBlocks
<1>1. load.pages \in Seq(Seq({"row", "free"}))
  BY DEF FreezeAssumption, FreezeTypeOK
<1>2. NBlocks \in Nat
  BY <1>1, LenInNat, Zenon DEF NBlocks
<1>3. Block = 0..(NBlocks - 1)
  BY Zenon DEF FreezeTypeOK, Block
<1>4. Cardinality(0..(NBlocks - 1)) = IF 0 > NBlocks - 1 THEN 0 ELSE (NBlocks - 1) - 0 + 1
  BY <1>2, FS_Interval
<1>5. Cardinality(Block) = NBlocks
  BY <1>2, <1>3, <1>4
<1> QED
  BY <1>2, <1>3, <1>5

SkipsOnly(v, w) ==
  \E n \in Nat, s, a, k \in BOOLEAN :
    w = [v EXCEPT !.unskippable = n, !.skipping = s, !.allvis = a, !.skippedallvis = k]

\* Skipping: who skips a block that is not frozen remembers that.
LEMMA SkipFine ==
  ASSUME FreezeAssumption, FreezeTypeOK, NEW v \in VacRec, NEW next \in Nat, next <= NBlocks,
         NEW w, w = lazy_scan_skip(v, next)
  PROVE  /\ w \in VacRec /\ w.unskippable \in Nat /\ next <= w.unskippable
         /\ SkipsOnly(v, w)
         /\ v.skippedallvis => w.skippedallvis
         /\ v.aggressive /\ ~v.skippedallvis => ~w.skippedallvis
         /\ w.skipping /\ ~w.skippedallvis =>
              \A b \in Block : next <= b /\ b < w.unskippable => vm[b] = "frozen"
<1> DEFINE S == {Cardinality(Block)} \cup {b \in Block : b >= next /\ ~Skippable(v, b)}
           stop == Min(S)
           range == next..(stop - 1)
           skip == Cardinality(range) >= SKIP_PAGES_THRESHOLD
           allvis == stop \in Block => vm[stop] # "none"
           skipped == IF skip THEN SkippedAllVis(v, range) ELSE v.skippedallvis
<1>1. w = [v EXCEPT !.unskippable = stop, !.skipping = skip, !.allvis = allvis, !.skippedallvis = skipped]
  BY DEF lazy_scan_skip
<1>2. Cardinality(Block) = NBlocks /\ NBlocks \in Nat /\ \A b \in Block : b \in Nat /\ b < NBlocks
  BY Blocks, Zenon
<1>3. S \subseteq Nat /\ S # {} /\ \A n \in S : n >= next /\ n <= NBlocks
  BY <1>2
<1>4. stop \in S /\ \A n \in S : stop <= n
  BY <1>3, MinIsLeast
<1> HIDE DEF S, stop
<1>5. stop \in Nat /\ next <= stop /\ stop <= NBlocks
  BY <1>3, <1>4
<1>6. ASSUME NEW b \in range
      PROVE  b \in Block /\ Skippable(v, b)
  <2>1. b \in Nat /\ b >= next /\ b < stop
    BY <1>5, <1>6
  <2>2. b \in Block
    BY <2>1, <1>2, <1>5, Blocks
  <2>3. b \notin S
    BY <2>1, <1>4, <1>5
  <2> QED
    BY <2>1, <2>2, <2>3, Zenon DEF S
<1>7. \A b \in Block : next <= b /\ b < stop => b \in range
  BY <1>2, <1>5
<1>8. v.skippedallvis \in BOOLEAN
  BY DEF VacRec
<1>9. skip \in BOOLEAN /\ allvis \in BOOLEAN /\ SkippedAllVis(v, range) \in BOOLEAN
  BY <1>8 DEF SkippedAllVis
<1>10. skipped \in BOOLEAN
  BY <1>8, <1>9, Zenon
<1>11. v.skippedallvis => skipped
  BY Zenon DEF SkippedAllVis
<1>12. v.aggressive /\ ~v.skippedallvis => ~skipped
  <2> SUFFICES ASSUME v.aggressive, ~v.skippedallvis PROVE ~SkippedAllVis(v, range)
    BY Zenon
  <2> QED
    BY <1>6, Zenon DEF SkippedAllVis, Skippable
<1>13. skip /\ ~skipped => \A b \in range : vm[b] = "frozen"
  BY Zenon DEF SkippedAllVis
<1> HIDE DEF range, skip, allvis, skipped
<1>14. /\ w \in VacRec /\ w.unskippable = stop /\ w.skipping = skip /\ w.skippedallvis = skipped
  BY <1>1, <1>5, <1>9, <1>10 DEF VacRec
<1>15. SkipsOnly(v, w)
  BY <1>1, <1>5, <1>9, <1>10, Zenon DEF SkipsOnly
<1>16. w.skipping /\ ~w.skippedallvis => \A b \in Block : next <= b /\ b < w.unskippable => vm[b] = "frozen"
  BY <1>7, <1>13, <1>14, Zenon
<1> QED
  BY <1>5, <1>11, <1>12, <1>14, <1>15, <1>16, Zenon

-----------------------------------------------------------------------------
(* Vacuum.                                                                   *)

\* Smaller bounds hold, too.
LEMMA AtLeastWeaker ==
  ASSUME FreezeAssumption, NEW C, NEW M, NEW t, ItemFine(C, M, t),
         NEW fx \in Nat, NEW fm \in Nat, NEW g \in Nat, NEW j \in Nat, g <= fx, j <= fm,
         AtLeast(M, t, fx, fm)
  PROVE  AtLeast(M, t, g, j)
<1>1. t.xmin \in Nat /\ t.xmax.multi \in Nat /\ MembersFine(C, MembersOf(M, t.xmax))
  BY Numbers DEF ItemFine, ItemRec, XmaxRec
<1>2. \A m \in MembersOf(M, t.xmax) : m.xid \in Nat
  BY <1>1, Numbers DEF MembersFine, MemberRec
<1>3. \A x \in XidsOf(M, t) : x \in Nat
  BY <1>1, <1>2, Zenon DEF XidsOf
<1>4. \A x \in XidsOf(M, t) : x >= g
  BY <1>3 DEF AtLeast
<1>5. t.xmax.multi # 0 => t.xmax.multi >= j
  BY <1>1 DEF AtLeast
<1> QED
  BY <1>4, <1>5, Zenon DEF AtLeast

\* A frozen header holds no id.
LEMMA FrozenAtLeast ==
  ASSUME NEW M, NEW t, WhollyFrozen(t), NEW fx, NEW fm
  PROVE  AtLeast(M, t, fx, fm)
<1>1. t.xmax.multi = 0 /\ t.xmax.single = {} /\ t.xmin = Frozen
  BY DEF WhollyFrozen, NoXmax
<1>2. MembersOf(M, t.xmax) = {}
  BY <1>1, Zenon DEF MembersOf
<1>3. XidsOf(M, t) = {}
  BY <1>1, <1>2, Zenon DEF XidsOf
<1> QED
  BY <1>1, <1>3, Zenon DEF AtLeast

\* Slots without a tuple are like frozen ones.
LEMMA EmptySlots ==
  ASSUME FreezeAssumption, FreezeTypeOK, NEW t \in {Free, Dead}
  PROVE  /\ WhollyFrozen(t) /\ ~IsTuple(t) /\ ItemFine(xact, multis, t)
         /\ \A fx, fm : AtLeast(multis, t, fx, fm)
<1>1. /\ t \in ItemRec /\ t.kind # "tuple" /\ t.xmin = Frozen /\ t.xmax = NoXmax
      /\ NoXmax.multi = 0 /\ NoXmax.single = {}
  BY Numbers DEF Free, Dead, Item, ItemRec, XmaxRec, NoXmax, Frozen
<1>2. WhollyFrozen(t)
  BY <1>1, Zenon DEF WhollyFrozen
<1>3. MembersOf(multis, t.xmax) = {}
  BY <1>1, Zenon DEF MembersOf
<1>4. 0 <= Len(multis)
  BY DEF FreezeTypeOK
<1>5. MembersFine(xact, {})
  BY DEF MembersFine
<1>6. ItemFine(xact, multis, t)
  BY <1>1, <1>3, <1>4, <1>5, Zenon DEF ItemFine
<1> QED
  BY <1>1, <1>2, <1>6, FrozenAtLeast, Zenon DEF IsTuple

\* Nobody begins or ends, and no multixact is added.
LEMMA NothingMoves ==
  ASSUME FreezeTypeOK
  PROVE  Moves(xact, xact) /\ Grows(multis, multis)
<1>1. Moves(xact, xact)
  BY Zenon DEF Moves, FreezeTypeOK
<1>2. Grows(multis, multis)
  BY DEF Grows, FreezeTypeOK
<1> QED
  BY <1>1, <1>2

\* What a step of vacuum leaves true of the table.
LEMMA VacuumStep ==
  ASSUME FreezeAssumption, FreezeInv, FreezeTypeOK', MultisFine', MapTrue', xact' = xact, Grows(multis, multis'),
         UNCHANGED <<relfrozenxid, relminmxid>>,
         DOMAIN pages' = Block, \A b \in Block : DOMAIN pages'[b] = Slot(b),
         \A b \in Block : \A o \in Slot(b) :
           \/ pages'[b][o] = pages[b][o]
           \/ /\ ItemFine(xact, multis', pages'[b][o])
              /\ AtLeast(multis', pages'[b][o], relfrozenxid, relminmxid),
         VacuumInv'
  PROVE  FreezeInv'
<1>0. FreezeTypeOK /\ MultisFine /\ PagesFine /\ CatalogOver /\ CatalogTrue
  BY Zenon DEF FreezeInv
<1>1. Moves(xact, xact)
  BY <1>0, NothingMoves, Zenon
<1>2. ASSUME NEW b \in Block, NEW o \in Slot(b)
      PROVE  /\ ItemFine(xact, multis', pages'[b][o])
             /\ AtLeast(multis', pages'[b][o], relfrozenxid, relminmxid)
  <2>1. ItemFine(xact, multis, pages[b][o]) /\ AtLeast(multis, pages[b][o], relfrozenxid, relminmxid)
    BY <1>0, Zenon DEF PagesFine, CatalogTrue
  <2>2. ItemFine(xact, multis', pages[b][o]) /\ AtLeast(multis', pages[b][o], relfrozenxid, relminmxid)
    BY <2>1, <1>1, ItemFineStable, ItemNamed, MembersStable, Zenon
  <2> QED
    BY <2>2, Zenon
<1>3. PagesFine' /\ CatalogTrue'
  BY <1>2, Zenon DEF PagesFine, CatalogTrue, Block, Slot
<1>4. CatalogOver'
  <2>1. relfrozenxid \in Nat /\ relminmxid \in Nat
    BY <1>0, VacTypes, Zenon
  <2>2. OverMulti(xact, multis', relminmxid)
    BY <2>1, <1>0, <1>1, OverMultiStable, Zenon DEF CatalogOver, MultisFine
  <2> QED
    BY <2>2, <1>0, Zenon DEF CatalogOver
<1> QED
  BY <1>3, <1>4, Zenon DEF FreezeInv

SameCutoffs(v, w) ==
  /\ w.aggressive = v.aggressive /\ w.OldestXmin = v.OldestXmin /\ w.OldestMxact = v.OldestMxact
  /\ w.FreezeLimit = v.FreezeLimit /\ w.MultiXactCutoff = v.MultiXactCutoff

\* Cutoffs of a vacuum stay right.
LEMMA CutoffsStep ==
  ASSUME FreezeAssumption, FreezeInv, vac.pc # "idle", Grows(multis, multis'), NEW w, SameCutoffs(vac, w),
         Trackers(vac, w.NewRelfrozenXid, w.NewRelminMxid),
         w.aggressive => ~w.skippedallvis
  PROVE  Cutoffs(xact, multis', relfrozenxid, relminmxid, w)
<1>1. FreezeTypeOK /\ MultisFine /\ Cutoffs(xact, multis, relfrozenxid, relminmxid, vac)
  BY Zenon DEF FreezeInv, VacuumInv
<1>2. vac.OldestMxact \in Nat /\ Moves(xact, xact)
  BY <1>1, VacTypes, NothingMoves, Zenon
<1>3. OverMulti(xact, multis', vac.OldestMxact)
  BY <1>1, <1>2, OverMultiStable, Zenon DEF Cutoffs, MultisFine
<1>4. Trackers(w, w.NewRelfrozenXid, w.NewRelminMxid)
  BY Zenon DEF SameCutoffs, Trackers, Advanced
<1> QED
  BY <1>1, <1>3, <1>4, Zenon DEF Cutoffs, SameCutoffs

\* The blocks that are done stay so.
LEMMA CoverStep ==
  ASSUME FreezeAssumption, FreezeInv, vac.pc # "idle", Grows(multis, multis'),
         DOMAIN pages' = Block, \A b \in Block : DOMAIN pages'[b] = Slot(b),
         NEW w, w.NewRelfrozenXid \in Nat, w.NewRelminMxid \in Nat,
         w.NewRelfrozenXid <= vac.NewRelfrozenXid, w.NewRelminMxid <= vac.NewRelminMxid,
         ~w.skippedallvis => ~vac.skippedallvis,
         \A b \in Block : Covered(w, b) /\ ~w.skippedallvis =>
           \/ Covered(vac, b)
           \/ \A o \in Slot(b) : AtLeast(multis', pages'[b][o], w.NewRelfrozenXid, w.NewRelminMxid),
         \A b \in Block : \A o \in Slot(b) : Covered(vac, b) =>
           \/ pages'[b][o] = pages[b][o]
           \/ AtLeast(multis', pages'[b][o], w.NewRelfrozenXid, w.NewRelminMxid)
  PROVE  CoveredTrue(multis', pages', w)
<1>1. FreezeTypeOK /\ PagesFine /\ CoveredTrue(multis, pages, vac)
  BY Zenon DEF FreezeInv, VacuumInv
<1> SUFFICES ASSUME NEW b \in Block, Covered(w, b), ~w.skippedallvis, NEW o \in Slot(b)
             PROVE  AtLeast(multis', pages'[b][o], w.NewRelfrozenXid, w.NewRelminMxid)
  BY Zenon DEF CoveredTrue
<1> SUFFICES ASSUME Covered(vac, b), pages'[b][o] = pages[b][o]
             PROVE  AtLeast(multis', pages[b][o], w.NewRelfrozenXid, w.NewRelminMxid)
  BY Zenon
<1>2. ItemFine(xact, multis, pages[b][o]) /\ AtLeast(multis, pages[b][o], vac.NewRelfrozenXid, vac.NewRelminMxid)
  BY <1>1, Zenon DEF PagesFine, CoveredTrue, Block, Slot
<1>3. vac.NewRelfrozenXid \in Nat /\ vac.NewRelminMxid \in Nat
  BY <1>1, VacTypes, Zenon
<1>4. AtLeast(multis, pages[b][o], w.NewRelfrozenXid, w.NewRelminMxid)
  BY <1>2, <1>3, AtLeastWeaker, Zenon
<1> QED
  BY <1>2, <1>4, ItemNamed, MembersStable, Zenon

\* A step of vacuum that changes nothing but its own state.
LEMMA VacuumOnly ==
  ASSUME FreezeAssumption, FreezeInv, UNCHANGED <<table, world, catalog, load, touches>>,
         vacuums' \in Nat, vac' \in VacRec, VacuumInv'
  PROVE  FreezeInv'
<1>0. FreezeTypeOK /\ MultisFine /\ MapTrue
  BY Zenon DEF FreezeInv
<1>1. UNCHANGED <<pages, vm, xact, multis, relfrozenxid, relminmxid, load, touches>>
  BY DEF table, world, catalog
<1>2. FreezeTypeOK'
  BY <1>0, <1>1, Zenon DEF FreezeTypeOK, NBlocks
<1>3. MultisFine' /\ MapTrue'
  BY <1>0, <1>1, Zenon DEF MultisFine, MapTrue, Block, Slot
<1>4. Grows(multis, multis')
  BY <1>0, <1>1, NothingMoves, Zenon
<1> QED
  BY <1>1, <1>2, <1>3, <1>4, VacuumStep, Zenon DEF Block, Slot

\* A vacuum begins.
LEMMA StartStep ==
  ASSUME FreezeAssumption, FreezeInv, pg_tde_vacuum_rel
  PROVE  FreezeInv'
<1>0. FreezeTypeOK /\ MapTrue /\ CatalogOver
  BY Zenon DEF FreezeInv
<1>1. PICK agg \in BOOLEAN, ox \in 1..(MaxXid + 1), fl \in 1..(MaxXid + 1),
           om \in {relminmxid, OldestRunningMulti}, mc \in {relminmxid, OldestRunningMulti} :
        LET v == [NoVac EXCEPT !.pc = "block", !.aggressive = agg, !.OldestXmin = ox,
                    !.FreezeLimit = fl, !.OldestMxact = om, !.MultiXactCutoff = mc,
                    !.NewRelfrozenXid = ox, !.NewRelminMxid = om]
        IN  vacuum_get_cutoffs(v) /\ vac' = lazy_scan_skip(v, 0)
  BY Zenon DEF pg_tde_vacuum_rel
<1> DEFINE v == [NoVac EXCEPT !.pc = "block", !.aggressive = agg, !.OldestXmin = ox,
                   !.FreezeLimit = fl, !.OldestMxact = om, !.MultiXactCutoff = mc,
                   !.NewRelfrozenXid = ox, !.NewRelminMxid = om]
<1>2. vacuum_get_cutoffs(v) /\ vac' = lazy_scan_skip(v, 0)
  BY <1>1, Zenon
<1>3. relfrozenxid \in Nat /\ relminmxid \in Nat /\ OldestRunning \in Nat /\ OldestRunningMulti \in Nat
  BY <1>0, VacTypes, OldestIsOver, OldestMultiIsOver
<1>4. om \in Nat /\ mc \in Nat /\ ox \in Nat /\ fl \in Nat /\ ox \in 0..(MaxXid + 1)
  BY <1>3, Numbers
<1>5. /\ v \in VacRec /\ v.pc = "block" /\ v.aggressive = agg /\ v.OldestXmin = ox /\ v.OldestMxact = om
      /\ v.FreezeLimit = fl /\ v.MultiXactCutoff = mc /\ v.NewRelfrozenXid = ox /\ v.NewRelminMxid = om
      /\ v.skippedallvis = FALSE /\ v.blk = 0
  <2>1. NoVac \in VacRec /\ NoVac.skippedallvis = FALSE /\ NoVac.blk = 0
    BY Numbers DEF NoVac, VacRec, NoPage, PageFrz
  <2> QED
    BY <2>1, <1>4 DEF VacRec
<1> HIDE DEF v
<1>6. /\ relfrozenxid <= fl /\ fl <= ox /\ ox <= OldestRunning
      /\ om \in {relminmxid, OldestRunningMulti} /\ mc \in {relminmxid, om}
  BY <1>2, <1>3, <1>4, <1>5 DEF vacuum_get_cutoffs
<1>7. relminmxid <= OldestRunningMulti
  BY <1>0, <1>3, OldestMultiIsOver, Zenon DEF CatalogOver
<1>8. relminmxid <= om /\ relminmxid <= mc /\ mc <= om
  BY <1>3, <1>6, <1>7
<1>9. Over(xact, ox) /\ OverMulti(xact, multis, om)
  <2>1. Over(xact, OldestRunning) /\ OverMulti(xact, multis, OldestRunningMulti)
    BY <1>0, OldestIsOver, OldestMultiIsOver, Zenon
  <2>2. om <= OldestRunningMulti
    BY <1>3, <1>6, <1>7
  <2>3. multis \in Seq(SUBSET MemberRec)
    BY <1>0, Zenon DEF FreezeTypeOK
  <2> QED
    BY <2>1, <2>2, <2>3, <1>3, <1>4, <1>6, OverSmaller, Zenon
<1>10. NBlocks \in Nat /\ 0 <= NBlocks /\ 0 \in Nat
  BY <1>0, Blocks
<1>11. /\ vac' \in VacRec /\ vac'.unskippable \in Nat
       /\ SkipsOnly(v, vac')
       /\ v.aggressive /\ ~v.skippedallvis => ~vac'.skippedallvis
       /\ vac'.skipping /\ ~vac'.skippedallvis =>
            \A b \in Block : 0 <= b /\ b < vac'.unskippable => vm[b] = "frozen"
  BY <1>0, <1>2, <1>5, <1>10, SkipFine, Zenon
<1>12. /\ vac'.pc = "block" /\ vac'.aggressive = agg /\ vac'.OldestXmin = ox /\ vac'.OldestMxact = om
       /\ vac'.FreezeLimit = fl /\ vac'.MultiXactCutoff = mc /\ vac'.NewRelfrozenXid = ox
       /\ vac'.NewRelminMxid = om /\ vac'.blk = 0
  BY <1>5, <1>11 DEF VacRec, SkipsOnly
<1>13. UNCHANGED <<table, world, catalog, load, touches>> /\ vacuums' \in Nat
  BY <1>0 DEF pg_tde_vacuum_rel, FreezeTypeOK
<1>14. UNCHANGED <<pages, vm, xact, multis, relfrozenxid, relminmxid>>
  BY <1>13 DEF table, world, catalog
<1>15. Cutoffs(xact, multis, relfrozenxid, relminmxid, vac')
  <2>1. Trackers(vac', ox, om)
    BY <1>4, <1>6, <1>8, <1>12 DEF Trackers, Advanced
  <2>2. vac'.aggressive => ~vac'.skippedallvis
    BY <1>5, <1>11, <1>12, Zenon
  <2> QED
    BY <1>6, <1>8, <1>9, <1>12, <2>1, <2>2, Zenon DEF Cutoffs
<1>16. CoveredTrue(multis, pages, vac')
  <2> SUFFICES ASSUME NEW b \in Block, Covered(vac', b), ~vac'.skippedallvis, NEW o \in Slot(b)
               PROVE  AtLeast(multis, pages[b][o], vac'.NewRelfrozenXid, vac'.NewRelminMxid)
    BY Zenon DEF CoveredTrue, Block, Slot
  <2>1. b \in Nat
    BY <1>0, Blocks, Zenon
  <2>2. vac'.skipping /\ b < vac'.unskippable
    BY <2>1, <1>12 DEF Covered
  <2>3. vm[b] = "frozen"
    BY <2>1, <2>2, <1>11
  <2>4. WhollyFrozen(pages[b][o])
    BY <2>3, <1>0, Zenon DEF MapTrue
  <2> QED
    BY <2>4, FrozenAtLeast, Zenon
<1>17. Place(pages, vac') /\ Plans(xact, multis, pages, vac')
  BY <1>11, <1>12 DEF Place, Plans
<1>18. VacuumInv'
  BY <1>14, <1>15, <1>16, <1>17, Zenon DEF VacuumInv
<1> QED
  BY <1>11, <1>13, <1>18, VacuumOnly, Zenon

\* The invariant of a vacuum that changes nothing but its own state, and keeps
\* its trackers.
LEMMA VacuumGoesOn ==
  ASSUME FreezeAssumption, FreezeInv, vac.pc # "idle", NEW w, w \in VacRec, SameCutoffs(vac, w),
         w.NewRelfrozenXid = vac.NewRelfrozenXid, w.NewRelminMxid = vac.NewRelminMxid,
         w.aggressive => ~w.skippedallvis,
         ~w.skippedallvis => ~vac.skippedallvis,
         \A b \in Block : Covered(w, b) /\ ~w.skippedallvis =>
           Covered(vac, b) \/ \A o \in Slot(b) : WhollyFrozen(pages[b][o])
  PROVE  /\ Cutoffs(xact, multis, relfrozenxid, relminmxid, w)
         /\ CoveredTrue(multis, pages, w)
<1>1. FreezeTypeOK /\ CoveredTrue(multis, pages, vac) /\ Cutoffs(xact, multis, relfrozenxid, relminmxid, vac)
  BY Zenon DEF FreezeInv, VacuumInv
<1>2. Cutoffs(xact, multis, relfrozenxid, relminmxid, w)
  BY <1>1, Zenon DEF Cutoffs, SameCutoffs, Trackers, Advanced
<1>3. CoveredTrue(multis, pages, w)
  <2> SUFFICES ASSUME NEW b \in Block, Covered(w, b), ~w.skippedallvis, NEW o \in Slot(b)
               PROVE  AtLeast(multis, pages[b][o], vac.NewRelfrozenXid, vac.NewRelminMxid)
    BY Zenon DEF CoveredTrue, Block, Slot
  <2>1. CASE Covered(vac, b)
    BY <1>1, <2>1, Zenon DEF CoveredTrue, Block, Slot
  <2>2. CASE WhollyFrozen(pages[b][o])
    BY <2>2, FrozenAtLeast, Zenon
  <2> QED
    BY <2>1, <2>2, Zenon
<1> QED
  BY <1>2, <1>3

\* The next block is skipped or looked at.
LEMMA ScanBlockStep ==
  ASSUME FreezeAssumption, FreezeInv, ScanBlock
  PROVE  FreezeInv'
<1> DEFINE b == vac.blk
<1>0. FreezeTypeOK /\ MapTrue /\ VacuumInv
  BY Zenon DEF FreezeInv
<1>1. /\ vac.pc = "block" /\ b \in Block /\ UNCHANGED <<table, world, catalog, load, touches, vacuums>>
      /\ vac.pc # "idle"
  BY DEF ScanBlock, Vac
<1>2. /\ Cutoffs(xact, multis, relfrozenxid, relminmxid, vac) /\ Place(pages, vac)
      /\ vac.aggressive => ~vac.skippedallvis
  BY <1>0, <1>1, Zenon DEF VacuumInv, Cutoffs
<1>3. b \in Nat /\ vac.unskippable \in Nat /\ b <= vac.unskippable /\ vac \in VacRec /\ vacuums \in Nat
      /\ vac.skipping \in BOOLEAN
  BY <1>0, <1>1, <1>2, VacTypes, Zenon DEF Place, FreezeTypeOK
<1>4. UNCHANGED <<pages, vm, xact, multis, relfrozenxid, relminmxid>> /\ vacuums' \in Nat
  BY <1>1, <1>3 DEF table, world, catalog
<1>5. ASSUME vac' \in VacRec, SameCutoffs(vac, vac'),
             vac'.NewRelfrozenXid = vac.NewRelfrozenXid, vac'.NewRelminMxid = vac.NewRelminMxid,
             vac'.aggressive => ~vac'.skippedallvis,
             ~vac'.skippedallvis => ~vac.skippedallvis,
             \A c \in Block : Covered(vac', c) /\ ~vac'.skippedallvis =>
               Covered(vac, c) \/ \A o \in Slot(c) : WhollyFrozen(pages[c][o]),
             Place(pages, vac'), vac'.pc # "prepare"
      PROVE  FreezeInv'
  <2>1. Cutoffs(xact, multis, relfrozenxid, relminmxid, vac') /\ CoveredTrue(multis, pages, vac')
    BY <1>1, <1>5, VacuumGoesOn, Zenon
  <2>2. Plans(xact, multis, pages, vac')
    BY <1>5, Zenon DEF Plans
  <2>3. VacuumInv'
    BY <1>4, <1>5, <2>1, <2>2, Zenon DEF VacuumInv
  <2> QED
    BY <1>1, <1>4, <1>5, <2>3, VacuumOnly, Zenon
<1> DEFINE skip == lazy_scan_skip(vac, b + 1)
           here == IF b = vac.unskippable THEN [skip EXCEPT !.according = vac.allvis]
                                          ELSE [vac EXCEPT !.according = TRUE]
<1>6. PICK cleanup \in BOOLEAN :
        IF b # vac.unskippable /\ vac.skipping
        THEN cleanup /\ vac' = [vac EXCEPT !.blk = b + 1]
        ELSE vac' = [here EXCEPT !.pc = IF cleanup THEN "prune" ELSE "noprune"]
  BY Zenon DEF ScanBlock, Vac
<1> DEFINE pc == IF cleanup THEN "prune" ELSE "noprune"
<1>7. pc \in {"prune", "noprune"}
  OBVIOUS
<1>8. CASE b # vac.unskippable /\ vac.skipping
  <2>1. vac' = [vac EXCEPT !.blk = b + 1]
    BY <1>6, <1>8, Zenon
  <2>2. /\ vac' \in VacRec /\ SameCutoffs(vac, vac') /\ vac'.NewRelfrozenXid = vac.NewRelfrozenXid
        /\ vac'.NewRelminMxid = vac.NewRelminMxid /\ vac'.skippedallvis = vac.skippedallvis
        /\ vac'.blk = b + 1 /\ vac'.pc = "block" /\ vac'.skipping = vac.skipping
        /\ vac'.unskippable = vac.unskippable /\ vac'.aggressive = vac.aggressive
    <3> DEFINE n == b + 1
    <3>1. n \in Nat /\ vac' = [vac EXCEPT !.blk = n]
      BY <2>1, <1>3
    <3> HIDE DEF n, here, pc, skip
    <3>2. /\ vac' \in VacRec /\ SameCutoffs(vac, vac') /\ vac'.NewRelfrozenXid = vac.NewRelfrozenXid
          /\ vac'.NewRelminMxid = vac.NewRelminMxid /\ vac'.skippedallvis = vac.skippedallvis
          /\ vac'.blk = n /\ vac'.pc = vac.pc /\ vac'.skipping = vac.skipping
          /\ vac'.unskippable = vac.unskippable /\ vac'.aggressive = vac.aggressive
      BY <3>1, <1>3 DEF VacRec, SameCutoffs
    <3> QED
      BY <3>2, <1>1, Zenon DEF n
  <2>3. \A c \in Block : Covered(vac', c) => Covered(vac, c)
    <3>1. \A c \in Block : c \in Nat
      BY <1>0, Blocks, Zenon
    <3> HIDE DEF here, pc, skip
    <3> QED
      BY <3>1, <2>2, <1>1, <1>3, <1>8 DEF Covered
  <2>4. Place(pages, vac')
    BY <2>2, <1>3, <1>8 DEF Place
  <2>5. vac'.pc # "prepare"
    BY <2>2
  <2> QED
    BY <1>2, <1>5, <2>2, <2>3, <2>4, <2>5, Zenon
<1>9. CASE ~(b # vac.unskippable /\ vac.skipping) /\ b # vac.unskippable
  <2>1. vac' = [[vac EXCEPT !.according = TRUE] EXCEPT !.pc = pc]
    BY <1>6, <1>9, Zenon
  <2> HIDE DEF here, pc, skip
  <2>2. /\ vac' \in VacRec /\ SameCutoffs(vac, vac') /\ vac'.NewRelfrozenXid = vac.NewRelfrozenXid
        /\ vac'.NewRelminMxid = vac.NewRelminMxid /\ vac'.skippedallvis = vac.skippedallvis
        /\ vac'.blk = b /\ vac'.pc = pc /\ vac'.skipping = vac.skipping
        /\ vac'.unskippable = vac.unskippable /\ vac'.aggressive = vac.aggressive
    BY <2>1, <1>7, <1>3 DEF VacRec, SameCutoffs
  <2>3. \A c \in Block : Covered(vac', c) => Covered(vac, c)
    BY <2>2, <1>9, Zenon DEF Covered
  <2>4. vac'.pc # "prepare" /\ vac'.pc # "block"
    BY <2>2, <1>7
  <2>5. Place(pages, vac')
    BY <2>2, <2>4, <1>1, <1>3, <1>9 DEF Place, Block
  <2> QED
    BY <1>2, <1>5, <2>2, <2>3, <2>4, <2>5, Zenon
<1>10. CASE b = vac.unskippable
  <2>1. vac' = [[skip EXCEPT !.according = vac.allvis] EXCEPT !.pc = pc]
    BY <1>6, <1>10, Zenon
  <2> HIDE DEF here, pc, skip
  <2>2. b + 1 \in Nat /\ b + 1 <= NBlocks
    BY <1>0, <1>1, Blocks
  <2>0. skip = lazy_scan_skip(vac, b + 1)
    BY Zenon DEF skip
  <2>3. /\ skip \in VacRec /\ skip.unskippable \in Nat /\ b + 1 <= skip.unskippable
        /\ SkipsOnly(vac, skip)
        /\ vac.skippedallvis => skip.skippedallvis
        /\ vac.aggressive /\ ~vac.skippedallvis => ~skip.skippedallvis
        /\ skip.skipping /\ ~skip.skippedallvis =>
             \A c \in Block : b + 1 <= c /\ c < skip.unskippable => vm[c] = "frozen"
    BY <1>0, <1>3, <2>0, <2>2, SkipFine
  <2>4. /\ SameCutoffs(vac, skip) /\ skip.NewRelfrozenXid = vac.NewRelfrozenXid
        /\ skip.NewRelminMxid = vac.NewRelminMxid /\ skip.blk = b /\ skip.aggressive = vac.aggressive
    BY <2>3, <1>3 DEF VacRec, SameCutoffs, SkipsOnly
  <2>5. /\ vac' \in VacRec /\ SameCutoffs(skip, vac') /\ vac'.NewRelfrozenXid = skip.NewRelfrozenXid
        /\ vac'.NewRelminMxid = skip.NewRelminMxid /\ vac'.skippedallvis = skip.skippedallvis
        /\ vac'.blk = skip.blk /\ vac'.pc = pc /\ vac'.skipping = skip.skipping
        /\ vac'.unskippable = skip.unskippable /\ vac'.aggressive = skip.aggressive
    BY <2>1, <2>3, <1>7, <1>3 DEF VacRec, SameCutoffs
  <2>6. SameCutoffs(vac, vac')
    BY <2>4, <2>5, Zenon DEF SameCutoffs
  <2>7. vac'.pc # "prepare" /\ vac'.pc # "block"
    BY <2>5, <1>7
  <2>8. ASSUME NEW c \in Block, Covered(vac', c), ~vac'.skippedallvis
        PROVE  Covered(vac, c) \/ \A o \in Slot(c) : WhollyFrozen(pages[c][o])
    <3>1. c \in Nat
      BY <1>0, Blocks, Zenon
    <3>2. c < b \/ (vac'.skipping /\ c < vac'.unskippable /\ c # b)
      BY <2>4, <2>5, <2>7, <2>8, Zenon DEF Covered
    <3>3. CASE c < b
      BY <3>3, Zenon DEF Covered
    <3>4. CASE ~(c < b)
      <4>1. b + 1 <= c
        BY <3>1, <3>2, <3>4, <1>3
      <4>2. vm[c] = "frozen"
        BY <4>1, <3>2, <3>4, <2>3, <2>5, <2>8, Zenon
      <4> QED
        BY <4>2, <1>0, Zenon DEF MapTrue
    <3> QED
      BY <3>3, <3>4, Zenon
  <2>9. Place(pages, vac')
    BY <2>3, <2>4, <2>5, <2>7, <1>1, <1>3 DEF Place, Block
  <2> QED
    BY <1>2, <1>5, <2>3, <2>4, <2>5, <2>6, <2>7, <2>8, <2>9, Zenon
<1> QED
  BY <1>8, <1>9, <1>10, Zenon

\* A page is looked at without the cleanup lock.
LEMMA NopruneStep ==
  ASSUME FreezeAssumption, FreezeInv, lazy_scan_noprune
  PROVE  FreezeInv'
<1> DEFINE b == vac.blk
           pf == pg_tde_tuple_should_freeze(Tuples(pages[b]), vac, Fresh(vac).pagefrz)
           deads == IF \E o \in Slot(b) : pages[b][o] = Dead THEN vac.dead \cup {b} ELSE vac.dead
<1>0. FreezeTypeOK /\ MapTrue /\ VacuumInv /\ PagesFine
  BY Zenon DEF FreezeInv
<1>1. /\ vac.pc = "noprune" /\ vac.pc # "idle" /\ vac.pc # "block"
      /\ UNCHANGED <<table, world, catalog, load, touches, vacuums>>
      /\ vac' = IF MustWait(pf) THEN [vac EXCEPT !.pc = "prune"]
                ELSE [vac EXCEPT !.pc = "block", !.blk = @ + 1,
                                 !.NewRelfrozenXid = pf.nfx, !.NewRelminMxid = pf.nfm,
                                 !.dead = deads]
  BY DEF lazy_scan_noprune, Vac
<1>2. /\ Cutoffs(xact, multis, relfrozenxid, relminmxid, vac) /\ Place(pages, vac)
      /\ vac.aggressive => ~vac.skippedallvis
      /\ Trackers(vac, vac.NewRelfrozenXid, vac.NewRelminMxid)
  BY <1>0, <1>1, Zenon DEF VacuumInv, Cutoffs
<1>3. /\ b \in Nat /\ vac.unskippable \in Nat /\ b < vac.unskippable /\ b \in Block
      /\ vac \in VacRec /\ vacuums \in Nat /\ vac.dead \subseteq Nat
      /\ vac.NewRelfrozenXid \in Nat /\ vac.NewRelminMxid \in Nat /\ vac.OldestXmin \in Nat
      /\ vac.FreezeLimit \in Nat /\ vac.MultiXactCutoff \in Nat /\ vac.OldestMxact \in Nat
  <2>1. b < vac.unskippable /\ b \in Block
    BY <1>1, <1>2, Zenon DEF Place, Block
  <2>2. vac.OldestXmin \in Nat
    BY <1>0, VacTypes, Numbers
  <2> QED
    BY <1>0, <2>1, <2>2, VacTypes, Zenon DEF FreezeTypeOK
<1>4. UNCHANGED <<pages, vm, xact, multis, relfrozenxid, relminmxid>> /\ vacuums' \in Nat
  BY <1>1, <1>3 DEF table, world, catalog
<1>5. /\ Fresh(vac).pagefrz \in PageFrz
      /\ Fresh(vac).pagefrz.nfx = vac.NewRelfrozenXid /\ Fresh(vac).pagefrz.nfm = vac.NewRelminMxid
  BY <1>3 DEF Fresh, PageFrz, VacRec
<1>6. ASSUME NEW o \in Slot(b)
      PROVE  /\ pages[b][o] \in Tuples(pages[b]) \/ WhollyFrozen(pages[b][o])
             /\ ItemFine(xact, multis, pages[b][o])
  <2>1. ItemFine(xact, multis, pages[b][o])
    BY <1>0, <1>3, Zenon DEF PagesFine
  <2> QED
    BY <2>1, Zenon DEF ItemFine, WhollyFrozen, Tuples, IsTuple, Slot
<1>7. /\ pf \in PageFrz /\ pf.nfx <= vac.NewRelfrozenXid /\ pf.nfm <= vac.NewRelminMxid
      /\ \A t \in Tuples(pages[b]) : AtLeast(multis, t, pf.nfx, pf.nfm)
      /\ ~pf.required => /\ vac.NewRelfrozenXid >= vac.FreezeLimit => pf.nfx >= vac.FreezeLimit
                         /\ vac.NewRelminMxid >= vac.MultiXactCutoff => pf.nfm >= vac.MultiXactCutoff
  <2> DEFINE q == Fresh(vac).pagefrz
  <2>1. \A t \in Tuples(pages[b]) : ItemFine(xact, multis, t)
    BY <1>6, Zenon DEF Tuples, Slot
  <2>2. q \in PageFrz /\ q.nfx = vac.NewRelfrozenXid /\ q.nfm = vac.NewRelminMxid
    BY <1>5
  <2> HIDE DEF q
  <2>3. pf = pg_tde_tuple_should_freeze(Tuples(pages[b]), vac, q)
    BY Zenon DEF q
  <2> HIDE DEF pf
  <2> QED
    BY <2>1, <2>2, <2>3, <1>3, ShouldFreezeFine
<1> HIDE DEF pf
<1>8. CASE MustWait(pf)
  <2>1. vac' = [vac EXCEPT !.pc = "prune"]
    BY <1>1, <1>8, Zenon
  <2>2. /\ vac' \in VacRec /\ SameCutoffs(vac, vac') /\ vac'.NewRelfrozenXid = vac.NewRelfrozenXid
        /\ vac'.NewRelminMxid = vac.NewRelminMxid /\ vac'.skippedallvis = vac.skippedallvis
        /\ vac'.blk = b /\ vac'.pc = "prune" /\ vac'.skipping = vac.skipping
        /\ vac'.unskippable = vac.unskippable /\ vac'.aggressive = vac.aggressive
    BY <2>1, <1>3 DEF VacRec, SameCutoffs
  <2>3. vac'.pc # "prepare" /\ vac'.pc # "block" /\ vac'.pc # "idle"
    BY <2>2
  <2>4. \A c \in Block : Covered(vac', c) => Covered(vac, c)
    BY <2>2, <2>3, Zenon DEF Covered
  <2>5. Cutoffs(xact, multis, relfrozenxid, relminmxid, vac') /\ CoveredTrue(multis, pages, vac')
    BY <1>1, <1>2, <2>2, <2>4, VacuumGoesOn, Zenon
  <2>6. Place(pages, vac') /\ Plans(xact, multis, pages, vac')
    BY <2>2, <2>3, <1>3, Zenon DEF Place, Plans, Block
  <2>7. VacuumInv'
    BY <1>4, <2>5, <2>6, Zenon DEF VacuumInv
  <2> QED
    BY <1>1, <1>4, <2>2, <2>7, VacuumOnly, Zenon
<1>9. CASE ~MustWait(pf)
  <2>1. vac' = [vac EXCEPT !.pc = "block", !.blk = @ + 1,
                           !.NewRelfrozenXid = pf.nfx, !.NewRelminMxid = pf.nfm, !.dead = deads]
    BY <1>1, <1>9, Zenon
  <2>2. deads \subseteq Nat
    BY <1>3
  <2> HIDE DEF deads
  <2>3. pf.nfx \in Nat /\ pf.nfm \in Nat
    BY <1>7 DEF PageFrz
  <2>4. /\ vac' \in VacRec /\ SameCutoffs(vac, vac') /\ vac'.NewRelfrozenXid = pf.nfx
        /\ vac'.NewRelminMxid = pf.nfm /\ vac'.skippedallvis = vac.skippedallvis
        /\ vac'.blk = b + 1 /\ vac'.pc = "block" /\ vac'.skipping = vac.skipping
        /\ vac'.unskippable = vac.unskippable /\ vac'.aggressive = vac.aggressive
    <3> DEFINE n == b + 1
    <3>1. n \in Nat
      BY <1>3
    <3>2. vac' = [vac EXCEPT !.pc = "block", !.blk = n,
                             !.NewRelfrozenXid = pf.nfx, !.NewRelminMxid = pf.nfm, !.dead = deads]
      BY <2>1, Zenon
    <3> HIDE DEF n
    <3>3. /\ vac' \in VacRec /\ SameCutoffs(vac, vac') /\ vac'.NewRelfrozenXid = pf.nfx
          /\ vac'.NewRelminMxid = pf.nfm /\ vac'.skippedallvis = vac.skippedallvis
          /\ vac'.blk = n /\ vac'.pc = "block" /\ vac'.skipping = vac.skipping
          /\ vac'.unskippable = vac.unskippable /\ vac'.aggressive = vac.aggressive
      BY <3>1, <3>2, <2>2, <2>3, <1>3 DEF VacRec, SameCutoffs
    <3> QED
      BY <3>3, Zenon DEF n
  <2>5. vac'.pc # "prepare" /\ vac'.pc # "idle"
    BY <2>4
  <2>6. Trackers(vac, pf.nfx, pf.nfm)
    BY <1>2, <1>3, <1>7, <1>9, <2>3 DEF Trackers, Advanced, MustWait
  <2>7. Grows(multis, multis)
    BY <1>0, NothingMoves, Zenon
  <2>8. Cutoffs(xact, multis', relfrozenxid, relminmxid, vac')
    BY <1>1, <1>2, <1>4, <2>4, <2>6, <2>7, CutoffsStep, Zenon
  <2>9. ASSUME NEW c \in Block, Covered(vac', c)
        PROVE  Covered(vac, c) \/ \A o \in Slot(c) : AtLeast(multis, pages[c][o], pf.nfx, pf.nfm)
    <3>1. c \in Nat
      BY <1>0, Blocks, Zenon
    <3>2. Covered(vac, c) \/ c = b
      BY <3>1, <2>4, <2>9, <1>3 DEF Covered
    <3>3. \A o \in Slot(b) : AtLeast(multis, pages[b][o], pf.nfx, pf.nfm)
      BY <1>6, <1>7, FrozenAtLeast, Zenon
    <3> QED
      BY <3>2, <3>3, Zenon
  <2>10. DOMAIN pages' = Block /\ \A c \in Block : DOMAIN pages'[c] = Slot(c)
    BY <1>4, Zenon DEF Block, Slot
  <2>11. CoveredTrue(multis', pages', vac')
    BY <1>1, <1>4, <1>7, <2>3, <2>4, <2>7, <2>9, <2>10, CoverStep, Zenon
  <2>12. Place(pages', vac') /\ Plans(xact', multis', pages', vac')
    BY <1>3, <2>4 DEF Place, Plans
  <2>13. VacuumInv'
    BY <1>4, <2>8, <2>11, <2>12, Zenon DEF VacuumInv
  <2> QED
    BY <1>1, <1>4, <2>4, <2>13, VacuumOnly, Zenon
<1> QED
  BY <1>8, <1>9, Zenon

\* A page gets new items.
LEMMA PageReplaced ==
  ASSUME FreezeTypeOK, NEW b \in Block, NEW Q \in [Slot(b) -> ItemRec]
  PROVE  LET P == [pages EXCEPT ![b] = Q] IN
         /\ P \in [Block -> Seq(ItemRec)] /\ DOMAIN P = Block
         /\ P[b] = Q /\ \A c \in Block : c # b => P[c] = pages[c]
         /\ \A c \in Block : DOMAIN P[c] = Slot(c)
<1>1. pages \in [Block -> Seq(ItemRec)] /\ Len(pages[b]) \in Nat /\ Slot(b) = 1..Len(pages[b])
  BY PageTypes, Zenon DEF FreezeTypeOK, Block
<1>2. Q \in Seq(ItemRec) /\ DOMAIN Q = Slot(b)
  BY <1>1
<1> QED
  BY <1>1, <1>2, Zenon DEF Slot

\* Vacuum changes one page.
LEMMA PageStep ==
  ASSUME FreezeAssumption, FreezeInv, NEW b \in Block,
         pages' \in [Block -> Seq(ItemRec)], \A c \in Block : DOMAIN pages'[c] = Slot(c),
         \A c \in Block : c # b => pages'[c] = pages[c],
         vm' \in [Block -> {"none", "visible", "frozen"}], \A c \in Block : c # b => vm'[c] = vm[c],
         UNCHANGED <<world, catalog, load, touches, vacuums>>, vac' \in VacRec,
         \A o \in Slot(b) :
           \/ pages'[b][o] = pages[b][o]
           \/ /\ ItemFine(xact, multis, pages'[b][o])
              /\ AtLeast(multis, pages'[b][o], relfrozenxid, relminmxid),
         vm'[b] = "frozen" => \A o \in Slot(b) : WhollyFrozen(pages'[b][o]),
         VacuumInv'
  PROVE  FreezeInv'
<1>0. FreezeTypeOK /\ MultisFine /\ MapTrue /\ DOMAIN pages = Block
  BY Zenon DEF FreezeInv, Block
<1>1. UNCHANGED <<xact, multis, relfrozenxid, relminmxid, load, touches, vacuums>>
  BY DEF world, catalog
<1>2. DOMAIN pages' = Block /\ DOMAIN vm' = Block
  BY Zenon
<1>3. FreezeTypeOK'
  BY <1>0, <1>1, <1>2, Zenon DEF FreezeTypeOK, NBlocks
<1>4. MultisFine' /\ Grows(multis, multis')
  BY <1>0, <1>1, NothingMoves, Zenon DEF MultisFine
<1>5. MapTrue'
  <2> SUFFICES ASSUME NEW c \in Block, vm'[c] = "frozen", NEW o \in Slot(c)
               PROVE  WhollyFrozen(pages'[c][o])
    BY <1>2, Zenon DEF MapTrue, Block, Slot
  <2> QED
    BY <1>0, Zenon DEF MapTrue
<1>6. \A c \in Block : \A o \in Slot(c) :
        \/ pages'[c][o] = pages[c][o]
        \/ /\ ItemFine(xact, multis', pages'[c][o])
           /\ AtLeast(multis', pages'[c][o], relfrozenxid, relminmxid)
  BY <1>1, Zenon
<1> QED
  BY <1>1, <1>2, <1>3, <1>4, <1>5, <1>6, VacuumStep, Zenon

\* What is known of a vacuum that holds a page.
LEMMA HoldsPage ==
  ASSUME FreezeAssumption, FreezeInv, vac.pc \in {"noprune", "prune", "prepare"}
  PROVE  /\ FreezeTypeOK /\ PagesFine /\ MapTrue /\ CatalogTrue /\ CatalogOver /\ VacuumInv /\ MultisFine
         /\ vac.pc # "idle" /\ vac.pc # "block"
         /\ vac.blk \in Block /\ vac.blk \in Nat /\ vac.unskippable \in Nat /\ vac.blk < vac.unskippable
         /\ Cutoffs(xact, multis, relfrozenxid, relminmxid, vac) /\ Plans(xact, multis, pages, vac)
         /\ vac.aggressive => ~vac.skippedallvis
         /\ Trackers(vac, vac.NewRelfrozenXid, vac.NewRelminMxid)
         /\ vac \in VacRec
<1>0. FreezeTypeOK /\ PagesFine /\ MapTrue /\ CatalogTrue /\ CatalogOver /\ VacuumInv /\ MultisFine
  BY Zenon DEF FreezeInv
<1>1. vac.pc # "idle" /\ vac.pc # "block"
  OBVIOUS
<1>2. /\ Cutoffs(xact, multis, relfrozenxid, relminmxid, vac) /\ Plans(xact, multis, pages, vac)
      /\ Place(pages, vac)
  BY <1>0, <1>1, Zenon DEF VacuumInv
<1>3. vac.blk \in Block /\ vac.blk < vac.unskippable
  BY <1>1, <1>2, Zenon DEF Place, Block
<1> QED
  BY <1>0, <1>1, <1>2, <1>3, VacTypes, Zenon DEF Cutoffs, FreezeTypeOK

\* A page is pruned.
LEMMA PruneStep ==
  ASSUME FreezeAssumption, FreezeInv, Prune
  PROVE  FreezeInv'
<1> DEFINE b == vac.blk
<1>0. /\ FreezeTypeOK /\ PagesFine /\ MapTrue /\ VacuumInv
      /\ vac.pc = "prune" /\ vac.pc # "idle" /\ vac.pc # "block"
      /\ b \in Block /\ b \in Nat /\ vac.unskippable \in Nat /\ b < vac.unskippable
      /\ vac.aggressive => ~vac.skippedallvis
      /\ Trackers(vac, vac.NewRelfrozenXid, vac.NewRelminMxid)
      /\ vac \in VacRec
  <2>1. vac.pc = "prune" /\ vac.pc \in {"noprune", "prune", "prepare"}
    BY DEF Prune
  <2> QED
    BY <2>1, HoldsPage, Zenon
<1>1. PICK horizon \in {vac.OldestXmin, OldestRunning} :
        pages' = [pages EXCEPT ![b] = [o \in DOMAIN @ |->
                    IF IsTuple(@[o]) /\ HTSV(@[o], horizon) = "DEAD" THEN Dead ELSE @[o]]]
  BY Zenon DEF Prune
<1> DEFINE Q == [o \in Slot(b) |-> IF IsTuple(pages[b][o]) /\ HTSV(pages[b][o], horizon) = "DEAD"
                                   THEN Dead ELSE pages[b][o]]
<1>2. pages' = [pages EXCEPT ![b] = Q]
  BY <1>1, Zenon DEF Slot
<1>3. /\ vac' = [Fresh(vac) EXCEPT !.pc = "prepare", !.slot = 1, !.plans = <<>>,
                                   !.all_visible = TRUE, !.all_frozen = TRUE]
      /\ UNCHANGED <<vm, world, catalog, load, touches, vacuums>>
  BY DEF Prune, Vac
<1>4. UNCHANGED <<vm, xact, multis, relfrozenxid, relminmxid>>
  BY <1>3 DEF world, catalog
<1>5. /\ WhollyFrozen(Dead) /\ ItemFine(xact, multis, Dead) /\ Dead \in ItemRec
      /\ \A fx, fm : AtLeast(multis, Dead, fx, fm)
  BY <1>0, EmptySlots, Zenon DEF ItemFine
<1>6. \A o \in Slot(b) : Q[o] = pages[b][o] \/ Q[o] = Dead
  BY Zenon
<1>7. Q \in [Slot(b) -> ItemRec]
  BY <1>0, <1>5, PageTypes, Zenon
<1> HIDE DEF Q
<1>8. /\ pages' \in [Block -> Seq(ItemRec)] /\ DOMAIN pages' = Block
      /\ pages'[b] = Q /\ \A c \in Block : c # b => pages'[c] = pages[c]
      /\ \A c \in Block : DOMAIN pages'[c] = Slot(c)
  <2> DEFINE P == [pages EXCEPT ![b] = Q]
  <2>1. /\ P \in [Block -> Seq(ItemRec)] /\ DOMAIN P = Block
        /\ P[b] = Q /\ \A c \in Block : c # b => P[c] = pages[c]
        /\ \A c \in Block : DOMAIN P[c] = Slot(c)
    BY <1>0, <1>7, PageReplaced
  <2> HIDE DEF P
  <2>2. pages' = P
    BY <1>2, Zenon DEF P
  <2> QED
    BY <2>1, <2>2, Zenon
<1>9. \A c \in Block : \A o \in Slot(c) : pages'[c][o] = pages[c][o] \/ pages'[c][o] = Dead
  BY <1>6, <1>8, Zenon
<1>10. vac.NewRelfrozenXid \in Nat /\ vac.NewRelminMxid \in Nat
  BY <1>0, VacTypes, Zenon
<1> DEFINE q == [required |-> FALSE, fx |-> vac.NewRelfrozenXid, nfx |-> vac.NewRelfrozenXid,
                 fm |-> vac.NewRelminMxid, nfm |-> vac.NewRelminMxid]
<1>11. /\ q \in PageFrz /\ q.fx = vac.NewRelfrozenXid /\ q.nfx = vac.NewRelfrozenXid
       /\ q.fm = vac.NewRelminMxid /\ q.nfm = vac.NewRelminMxid
  BY <1>10 DEF PageFrz
<1>12. vac' = [[vac EXCEPT !.pagefrz = q] EXCEPT !.pc = "prepare", !.slot = 1, !.plans = <<>>,
                                                 !.all_visible = TRUE, !.all_frozen = TRUE]
  BY <1>3, Zenon DEF Fresh
<1> HIDE DEF q
<1>13. /\ vac' \in VacRec /\ SameCutoffs(vac, vac') /\ vac'.NewRelfrozenXid = vac.NewRelfrozenXid
       /\ vac'.NewRelminMxid = vac.NewRelminMxid /\ vac'.skippedallvis = vac.skippedallvis
       /\ vac'.blk = b /\ vac'.pc = "prepare" /\ vac'.skipping = vac.skipping
       /\ vac'.unskippable = vac.unskippable /\ vac'.aggressive = vac.aggressive
       /\ vac'.slot = 1 /\ vac'.plans = <<>> /\ vac'.pagefrz = q
  <2> DEFINE u == [vac EXCEPT !.pagefrz = q]
  <2>0. vac \in VacRec
    BY <1>0, Zenon
  <2>1. /\ u \in VacRec /\ SameCutoffs(vac, u) /\ u.NewRelfrozenXid = vac.NewRelfrozenXid
        /\ u.NewRelminMxid = vac.NewRelminMxid /\ u.skippedallvis = vac.skippedallvis
        /\ u.blk = vac.blk /\ u.skipping = vac.skipping
        /\ u.unskippable = vac.unskippable /\ u.aggressive = vac.aggressive
        /\ u.pagefrz = q
    BY <2>0, <1>11 DEF VacRec, SameCutoffs
  <2>2. vac' = [u EXCEPT !.pc = "prepare", !.slot = 1, !.plans = <<>>,
                         !.all_visible = TRUE, !.all_frozen = TRUE]
    BY <1>12, Zenon
  <2> HIDE DEF u
  <2>3. /\ vac' \in VacRec /\ SameCutoffs(u, vac') /\ vac'.NewRelfrozenXid = u.NewRelfrozenXid
        /\ vac'.NewRelminMxid = u.NewRelminMxid /\ vac'.skippedallvis = u.skippedallvis
        /\ vac'.blk = u.blk /\ vac'.pc = "prepare" /\ vac'.skipping = u.skipping
        /\ vac'.unskippable = u.unskippable /\ vac'.aggressive = u.aggressive
        /\ vac'.slot = 1 /\ vac'.plans = <<>> /\ vac'.pagefrz = u.pagefrz
    <3> DEFINE none == <<>>
    <3>1. none \in Seq(ItemRec) /\ 1 \in Nat
      OBVIOUS
    <3>2. vac' = [u EXCEPT !.pc = "prepare", !.slot = 1, !.plans = none,
                           !.all_visible = TRUE, !.all_frozen = TRUE]
      BY <2>2, Zenon
    <3> HIDE DEF none
    <3>3. vac' \in VacRec /\ vac'.slot = 1 /\ vac'.plans = none /\ vac'.pagefrz = u.pagefrz /\ vac'.pc = "prepare"
      BY <2>1, <3>1, <3>2 DEF VacRec
    <3>4. /\ SameCutoffs(u, vac') /\ vac'.NewRelfrozenXid = u.NewRelfrozenXid
          /\ vac'.NewRelminMxid = u.NewRelminMxid /\ vac'.skippedallvis = u.skippedallvis
          /\ vac'.blk = u.blk /\ vac'.skipping = u.skipping
          /\ vac'.unskippable = u.unskippable /\ vac'.aggressive = u.aggressive
      BY <2>1, <3>2 DEF VacRec, SameCutoffs
    <3> QED
      BY <3>3, <3>4, Zenon DEF none
  <2>4. SameCutoffs(vac, vac')
    BY <2>1, <2>3, Zenon DEF SameCutoffs
  <2> QED
    BY <2>1, <2>3, <2>4, Zenon
<1>14. vac'.pc # "block" /\ Grows(multis, multis')
  BY <1>0, <1>4, <1>13, NothingMoves
<1>15. Cutoffs(xact, multis', relfrozenxid, relminmxid, vac')
  BY <1>0, <1>13, <1>14, CutoffsStep, Zenon
<1>16. CoveredTrue(multis', pages', vac')
  <2>1. \A c \in Block : Covered(vac', c) => Covered(vac, c)
    BY <1>0, <1>13, <1>14, Zenon DEF Covered
  <2>2. \A c \in Block : \A o \in Slot(c) :
          pages'[c][o] = pages[c][o] \/ AtLeast(multis', pages'[c][o], vac'.NewRelfrozenXid, vac'.NewRelminMxid)
    BY <1>4, <1>5, <1>9, Zenon
  <2>3. vac'.NewRelfrozenXid <= vac.NewRelfrozenXid /\ vac'.NewRelminMxid <= vac.NewRelminMxid
        /\ vac'.NewRelfrozenXid \in Nat /\ vac'.NewRelminMxid \in Nat
    BY <1>10, <1>13
  <2> QED
    BY <1>0, <1>8, <1>13, <1>14, <2>1, <2>2, <2>3, CoverStep, Zenon
<1>17. Place(pages', vac')
  BY <1>0, <1>8, <1>13, <1>14, Zenon DEF Place
<1>18. Plans(xact', multis', pages', vac')
  <2>1. PageBounds(vac', q)
    <3>1. Advanced(vac', vac.NewRelfrozenXid, vac.NewRelminMxid)
      BY <1>0, <1>13, Zenon DEF Trackers, Advanced, SameCutoffs
    <3> QED
      BY <3>1, <1>10, <1>11, <1>13 DEF PageBounds
  <2>2. Len(pages'[b]) \in Nat
    BY <1>0, <1>8
  <2> QED
    BY <2>1, <2>2, <1>13 DEF Plans
<1>19. VacuumInv'
  BY <1>4, <1>15, <1>16, <1>17, <1>18, Zenon DEF VacuumInv
<1>20. vm' \in [Block -> {"none", "visible", "frozen"}] /\ \A c \in Block : c # b => vm'[c] = vm[c]
  BY <1>0, <1>4, Zenon DEF FreezeTypeOK, Block
<1>21. vm'[b] = "frozen" => \A o \in Slot(b) : WhollyFrozen(pages'[b][o])
  BY <1>0, <1>4, <1>5, <1>9, Zenon DEF MapTrue
<1>22. \A o \in Slot(b) :
         \/ pages'[b][o] = pages[b][o]
         \/ ItemFine(xact, multis, pages'[b][o]) /\ AtLeast(multis, pages'[b][o], relfrozenxid, relminmxid)
  BY <1>0, <1>5, <1>9, Zenon
<1> QED
  BY <1>0, <1>3, <1>8, <1>13, <1>19, <1>20, <1>21, <1>22, PageStep, Zenon

\* Plans fit smaller bounds, too.
LEMMA PlannedWeaker ==
  ASSUME FreezeAssumption, NEW C, NEW M, NEW v, NEW w, NEW t, NEW p, ItemFine(C, M, t), Planned(C, M, v, t, p),
         w.OldestXmin = v.OldestXmin, v.pagefrz \in PageFrz, w.pagefrz \in PageFrz,
         w.pagefrz.fx <= v.pagefrz.fx, w.pagefrz.fm <= v.pagefrz.fm,
         w.pagefrz.nfx <= v.pagefrz.nfx, w.pagefrz.nfm <= v.pagefrz.nfm,
         v.pagefrz.required => w.pagefrz.required, w.all_frozen => v.all_frozen
  PROVE  Planned(C, M, w, t, p)
<1>1. /\ v.pagefrz.fx \in Nat /\ v.pagefrz.fm \in Nat /\ v.pagefrz.nfx \in Nat /\ v.pagefrz.nfm \in Nat
      /\ w.pagefrz.fx \in Nat /\ w.pagefrz.fm \in Nat /\ w.pagefrz.nfx \in Nat /\ w.pagefrz.nfm \in Nat
  BY DEF PageFrz
<1>2. ItemFine(C, M, p) /\ Bounds(M, t, p, v.pagefrz)
  BY Zenon DEF Planned
<1>5. /\ AtLeast(M, p, v.pagefrz.fx, v.pagefrz.fm)
      /\ ~v.pagefrz.required => AtLeast(M, t, v.pagefrz.nfx, v.pagefrz.nfm)
  BY <1>2, Zenon DEF Bounds
<1>3. AtLeast(M, p, w.pagefrz.fx, w.pagefrz.fm)
  BY <1>1, <1>2, <1>5, AtLeastWeaker
<1>4. ~w.pagefrz.required => AtLeast(M, t, w.pagefrz.nfx, w.pagefrz.nfm)
  BY <1>1, <1>5, AtLeastWeaker
<1> QED
  BY <1>3, <1>4, Zenon DEF Planned, Bounds

\* A sequence is extended.
LEMMA Appended ==
  ASSUME NEW S, NEW q \in Seq(S), NEW e \in S, NEW n \in Nat, Len(q) = n - 1
  PROVE  /\ Len(Append(q, e)) = n /\ Append(q, e)[n] = e
         /\ \A o \in 1..(n - 1) : Append(q, e)[o] = q[o]
         /\ Append(q, e) \in Seq(S)
  OBVIOUS

\* One more tuple is planned.
LEMMA PlanAppended ==
  ASSUME FreezeAssumption, FreezeInv, vac.pc = "prepare", vac.slot \in Slot(vac.blk), Grows(multis, multis'),
         NEW w, NEW p \in ItemRec, SameCutoffs(vac, w), w.NewRelfrozenXid = vac.NewRelfrozenXid,
         w.NewRelminMxid = vac.NewRelminMxid, w.blk = vac.blk, w.slot = vac.slot + 1,
         w.plans = Append(vac.plans, p), w.pagefrz \in PageFrz,
         w.pagefrz.fx <= vac.pagefrz.fx, w.pagefrz.fm <= vac.pagefrz.fm,
         w.pagefrz.nfx <= vac.pagefrz.nfx, w.pagefrz.nfm <= vac.pagefrz.nfm,
         vac.pagefrz.required => w.pagefrz.required, w.all_frozen => vac.all_frozen,
         Advanced(vac, vac.pagefrz.fx, vac.pagefrz.fm) => Advanced(vac, w.pagefrz.fx, w.pagefrz.fm),
         ~w.pagefrz.required /\ Advanced(vac, vac.pagefrz.nfx, vac.pagefrz.nfm)
           => Advanced(vac, w.pagefrz.nfx, w.pagefrz.nfm),
         Planned(xact, multis', w, pages[vac.blk][vac.slot], p)
  PROVE  Plans(xact, multis', pages, w)
<1> DEFINE b == vac.blk
<1>0. FreezeTypeOK /\ PagesFine /\ b \in Block /\ Plans(xact, multis, pages, vac)
  <2>1. vac.pc \in {"noprune", "prune", "prepare"}
    OBVIOUS
  <2> QED
    BY <2>1, HoldsPage, Zenon
<1>1. /\ Len(vac.plans) = vac.slot - 1 /\ PageBounds(vac, vac.pagefrz)
      /\ \A o \in 1..(vac.slot - 1) : Planned(xact, multis, vac, pages[b][o], vac.plans[o])
  BY <1>0, Zenon DEF Plans
<1>2. /\ Slot(b) = 1..Len(pages[b]) /\ Len(pages[b]) \in Nat
      /\ vac.slot \in 1..Len(pages[b]) /\ vac.plans \in Seq(ItemRec) /\ vac.slot \in Nat
      /\ vac.pagefrz \in PageFrz
  BY <1>0, PageTypes, VacTypes, Zenon
<1>3. /\ w.slot \in 1..(Len(pages[b]) + 1) /\ Len(w.plans) = w.slot - 1
      /\ w.plans[vac.slot] = p /\ \A o \in 1..(vac.slot - 1) : w.plans[o] = vac.plans[o]
      /\ \A o \in 1..(w.slot - 1) : o = vac.slot \/ o \in 1..(vac.slot - 1)
  <2>1. /\ Len(w.plans) = vac.slot /\ w.plans[vac.slot] = p
        /\ \A o \in 1..(vac.slot - 1) : w.plans[o] = vac.plans[o]
    BY <1>1, <1>2, Appended
  <2>2. w.slot - 1 = vac.slot /\ w.slot \in 1..(Len(pages[b]) + 1)
    BY <1>2
  <2>3. \A o \in 1..vac.slot : o = vac.slot \/ o \in 1..(vac.slot - 1)
    BY <1>2
  <2> QED
    BY <2>1, <2>2, <2>3, Zenon
<1>4. PageBounds(w, w.pagefrz)
  <2>1. /\ vac.pagefrz.fx \in Nat /\ vac.pagefrz.fm \in Nat /\ vac.pagefrz.nfx \in Nat /\ vac.pagefrz.nfm \in Nat
        /\ w.pagefrz.fx \in Nat /\ w.pagefrz.fm \in Nat /\ w.pagefrz.nfx \in Nat /\ w.pagefrz.nfm \in Nat
        /\ vac.NewRelfrozenXid \in Nat /\ vac.NewRelminMxid \in Nat
    BY <1>0, <1>2, VacTypes DEF PageFrz
  <2>2. /\ vac.pagefrz.fx <= vac.NewRelfrozenXid /\ vac.pagefrz.fm <= vac.NewRelminMxid
        /\ vac.pagefrz.nfx <= vac.NewRelfrozenXid /\ vac.pagefrz.nfm <= vac.NewRelminMxid
    BY <1>1, Zenon DEF PageBounds
  <2>3. /\ w.pagefrz.fx <= w.NewRelfrozenXid /\ w.pagefrz.fm <= w.NewRelminMxid
        /\ w.pagefrz.nfx <= w.NewRelfrozenXid /\ w.pagefrz.nfm <= w.NewRelminMxid
    <3>1. \A i, j, k \in Nat : i <= j /\ j <= k => i <= k
      OBVIOUS
    <3>2. w.pagefrz.fx <= vac.NewRelfrozenXid /\ w.pagefrz.nfx <= vac.NewRelfrozenXid
      BY <2>1, <2>2, <3>1, Zenon
    <3>3. w.pagefrz.fm <= vac.NewRelminMxid /\ w.pagefrz.nfm <= vac.NewRelminMxid
      BY <2>1, <2>2, <3>1, Zenon
    <3> QED
      BY <3>2, <3>3, Zenon
  <2>4. \A fx, fm : Advanced(w, fx, fm) <=> Advanced(vac, fx, fm)
    BY Zenon DEF Advanced, SameCutoffs
  <2>5. Advanced(w, w.pagefrz.fx, w.pagefrz.fm)
    BY <1>1, <2>4, Zenon DEF PageBounds
  <2>6. ~w.pagefrz.required => Advanced(w, w.pagefrz.nfx, w.pagefrz.nfm)
    BY <1>1, <2>4, Zenon DEF PageBounds
  <2> QED
    BY <2>3, <2>5, <2>6, Zenon DEF PageBounds
<1>5. ASSUME NEW o \in 1..(vac.slot - 1)
      PROVE  Planned(xact, multis', w, pages[b][o], vac.plans[o])
  <2>1. o \in Slot(b)
    BY <1>2
  <2>2. ItemFine(xact, multis, pages[b][o])
    BY <2>1, <1>0, Zenon DEF PagesFine
  <2>3. Moves(xact, xact)
    BY <1>0, NothingMoves, Zenon
  <2>4. Planned(xact, multis', vac, pages[b][o], vac.plans[o]) /\ ItemFine(xact, multis', pages[b][o])
    BY <2>2, <2>3, <1>1, PlannedStable, ItemFineStable, Zenon
  <2>5. w.OldestXmin = vac.OldestXmin
    BY Zenon DEF SameCutoffs
  <2> QED
    BY <2>4, <2>5, <1>2, PlannedWeaker, Zenon
<1>6. \A o \in 1..(w.slot - 1) : Planned(xact, multis', w, pages[b][o], w.plans[o])
  BY <1>3, <1>5, Zenon
<1> QED
  BY <1>3, <1>4, <1>6, Zenon DEF Plans

\* Vacuum goes on with the page it holds.
LEMMA HoldStep ==
  ASSUME FreezeAssumption, FreezeInv, vac.pc \in {"prune", "prepare"}, vac' \in VacRec,
         vac'.pc \in {"prune", "prepare"}, Grows(multis, multis'), MultisFine',
         UNCHANGED <<table, xact, catalog, load, touches, vacuums>>,
         SameCutoffs(vac, vac'), vac'.NewRelfrozenXid = vac.NewRelfrozenXid,
         vac'.NewRelminMxid = vac.NewRelminMxid, vac'.skippedallvis = vac.skippedallvis,
         vac'.blk = vac.blk, vac'.skipping = vac.skipping, vac'.unskippable = vac.unskippable,
         Plans(xact, multis', pages, vac')
  PROVE  FreezeInv'
<1>0. /\ FreezeTypeOK /\ MapTrue /\ vac.pc # "idle" /\ vac.pc # "block" /\ vac.blk \in Block
      /\ vac.blk < vac.unskippable /\ Trackers(vac, vac.NewRelfrozenXid, vac.NewRelminMxid)
      /\ vac.aggressive => ~vac.skippedallvis
  <2>1. vac.pc \in {"noprune", "prune", "prepare"}
    OBVIOUS
  <2> QED
    BY <2>1, HoldsPage, Zenon
<1>1. UNCHANGED <<pages, vm, xact, relfrozenxid, relminmxid, load, touches, vacuums>>
  BY DEF table, catalog
<1>2. vac'.pc # "block" /\ vac'.pc # "idle"
  OBVIOUS
<1>3. DOMAIN pages' = Block /\ \A c \in Block : DOMAIN pages'[c] = Slot(c)
  BY <1>1, Zenon DEF Block, Slot
<1>4. FreezeTypeOK'
  BY <1>0, <1>1, Zenon DEF FreezeTypeOK, NBlocks, Grows
<1>5. Cutoffs(xact, multis', relfrozenxid, relminmxid, vac')
  BY <1>0, CutoffsStep, Zenon DEF SameCutoffs
<1>6. CoveredTrue(multis', pages', vac')
  <2>1. \A c \in Block : Covered(vac', c) => Covered(vac, c)
    BY <1>0, <1>2, Zenon DEF Covered
  <2>2. vac'.NewRelfrozenXid <= vac.NewRelfrozenXid /\ vac'.NewRelminMxid <= vac.NewRelminMxid
        /\ vac'.NewRelfrozenXid \in Nat /\ vac'.NewRelminMxid \in Nat
    BY <1>0, VacTypes
  <2>3. \A c \in Block : \A o \in Slot(c) : pages'[c][o] = pages[c][o]
    BY <1>1, Zenon
  <2> QED
    BY <1>0, <1>3, <2>1, <2>2, <2>3, CoverStep, Zenon
<1>7. Place(pages', vac')
  BY <1>0, <1>1, <1>2, Zenon DEF Place, Block
<1>8. VacuumInv'
  BY <1>1, <1>5, <1>6, <1>7, Zenon DEF VacuumInv
<1>9. MapTrue'
  BY <1>0, <1>1, Zenon DEF MapTrue, Block, Slot
<1> QED
  BY <1>1, <1>3, <1>4, <1>8, <1>9, VacuumStep, Zenon

\* A tuple is planned.
LEMMA PrepareStep ==
  ASSUME FreezeAssumption, FreezeInv, Prepare
  PROVE  FreezeInv'
<1> DEFINE b == vac.blk
           t == pages[b][vac.slot]
           p == pg_tde_prepare_freeze_tuple(t, vac, vac.pagefrz)
           next == [vac EXCEPT !.slot = @ + 1]
<1>1. /\ vac.pc = "prepare" /\ vac.slot \in Slot(b) /\ UNCHANGED <<table, xact, catalog, load, touches, vacuums>>
      /\ IF ~IsTuple(t) THEN vac' = [next EXCEPT !.plans = Append(@, t)] /\ multis' = multis
         ELSE IF HTSV(t, vac.OldestXmin) = "DEAD"
              THEN vac' = [vac EXCEPT !.pc = "prune"] /\ multis' = multis
         ELSE IF p.flag = "error" THEN vac' = [vac EXCEPT !.pc = "error"] /\ multis' = multis
         ELSE /\ vac' = [next EXCEPT !.plans = Append(@, p.after), !.pagefrz = p.pagefrz,
                                     !.all_visible = @ /\ Visible(t, vac),
                                     !.all_frozen = @ /\ p.totally_frozen]
              /\ multis' = With(p)
  BY DEF Prepare, Vac, With
<1>2. vac.pc \in {"prune", "prepare"} /\ vac.pc \in {"noprune", "prune", "prepare"}
  BY <1>1
<1>3. /\ FreezeTypeOK /\ PagesFine /\ CatalogTrue /\ MultisFine /\ b \in Block
      /\ Cutoffs(xact, multis, relfrozenxid, relminmxid, vac) /\ Plans(xact, multis, pages, vac)
      /\ vac \in VacRec /\ Trackers(vac, vac.NewRelfrozenXid, vac.NewRelminMxid)
  BY <1>2, HoldsPage, Zenon
<1>4. /\ vac.slot \in Nat /\ vac.plans \in Seq(ItemRec) /\ vac.pagefrz \in PageFrz
      /\ vac.all_frozen \in BOOLEAN /\ vac.all_visible \in BOOLEAN
      /\ vac.OldestXmin \in 0..(MaxXid + 1) /\ vac.OldestMxact \in Nat
      /\ vac.FreezeLimit \in Nat /\ vac.MultiXactCutoff \in Nat
      /\ vac.NewRelfrozenXid \in Nat /\ vac.NewRelminMxid \in Nat
  BY <1>3, VacTypes, Zenon
<1>5. ItemFine(xact, multis, t) /\ AtLeast(multis, t, relfrozenxid, relminmxid) /\ t \in ItemRec
  BY <1>1, <1>3, Zenon DEF PagesFine, CatalogTrue, ItemFine
<1>6. Grows(multis, multis) /\ (multis' = multis => MultisFine')
  BY <1>1, <1>3, NothingMoves, Zenon DEF MultisFine
<1>7. PageBounds(vac, vac.pagefrz)
  BY <1>1, <1>3, Zenon DEF Plans
<1>8. /\ vac.pagefrz.fx \in Nat /\ vac.pagefrz.fm \in Nat /\ vac.pagefrz.nfx \in Nat /\ vac.pagefrz.nfm \in Nat
  BY <1>4 DEF PageFrz
<1> HIDE DEF p, t
<1>9. CASE ~IsTuple(t)
  <2>1. multis' = multis /\ vac' = [next EXCEPT !.plans = Append(@, t)]
    BY <1>1, <1>9, Zenon
  <2> DEFINE n == vac.slot + 1
             plans == Append(vac.plans, t)
  <2>2. n \in Nat /\ plans \in Seq(ItemRec) /\ vac' = [vac EXCEPT !.slot = n, !.plans = plans]
    BY <2>1, <1>3, <1>4, <1>5 DEF VacRec
  <2> HIDE DEF n, plans, next
  <2>3. /\ vac' \in VacRec /\ SameCutoffs(vac, vac') /\ vac'.NewRelfrozenXid = vac.NewRelfrozenXid
        /\ vac'.NewRelminMxid = vac.NewRelminMxid /\ vac'.skippedallvis = vac.skippedallvis
        /\ vac'.blk = vac.blk /\ vac'.pc = vac.pc /\ vac'.skipping = vac.skipping
        /\ vac'.unskippable = vac.unskippable /\ vac'.slot = n /\ vac'.plans = plans
        /\ vac'.pagefrz = vac.pagefrz /\ vac'.all_frozen = vac.all_frozen
    BY <2>2, <1>3 DEF VacRec, SameCutoffs
  <2>4. WhollyFrozen(t)
    BY <1>5, <1>9, Zenon DEF ItemFine, IsTuple, WhollyFrozen
  <2>5. Planned(xact, multis', vac', pages[b][vac.slot], t)
    <3>1. Keeps(xact, multis', vac'.OldestXmin, t, t)
      <4>1. t.xmax.multi # 0 => t.xmax.multi >= t.xmax.multi
        BY <2>4 DEF WhollyFrozen, NoXmax
      <4> QED
        BY <4>1, <1>9, Zenon DEF Keeps, IsTuple
    <3>2. Bounds(multis', t, t, vac'.pagefrz)
      BY <2>4, FrozenAtLeast, Zenon DEF Bounds
    <3> QED
      BY <1>5, <2>1, <2>4, <3>1, <3>2, Zenon DEF Planned, t
  <2>6. Grows(multis, multis') /\ MultisFine'
    BY <1>6, <2>1, Zenon
  <2>7. Plans(xact, multis', pages, vac')
    <3>1. /\ vac.pagefrz.fx <= vac.pagefrz.fx /\ vac.pagefrz.fm <= vac.pagefrz.fm
          /\ vac.pagefrz.nfx <= vac.pagefrz.nfx /\ vac.pagefrz.nfm <= vac.pagefrz.nfm
      BY <1>8
    <3>2. ~vac.pagefrz.required => Advanced(vac, vac.pagefrz.nfx, vac.pagefrz.nfm)
      BY <1>7, Zenon DEF PageBounds
    <3> QED
      BY <1>1, <1>4, <1>5, <2>3, <2>5, <2>6, <3>1, <3>2, PlanAppended, Zenon DEF n, plans
  <2>8. vac'.pc \in {"prune", "prepare"}
    BY <1>2, <2>3
  <2> QED
    BY <1>1, <1>2, <2>3, <2>6, <2>7, <2>8, HoldStep, Zenon
<1>10. CASE IsTuple(t) /\ HTSV(t, vac.OldestXmin) = "DEAD"
  <2>1. multis' = multis /\ vac' = [vac EXCEPT !.pc = "prune"]
    BY <1>1, <1>10, Zenon
  <2>2. /\ vac' \in VacRec /\ SameCutoffs(vac, vac') /\ vac'.NewRelfrozenXid = vac.NewRelfrozenXid
        /\ vac'.NewRelminMxid = vac.NewRelminMxid /\ vac'.skippedallvis = vac.skippedallvis
        /\ vac'.blk = vac.blk /\ vac'.pc = "prune" /\ vac'.skipping = vac.skipping
        /\ vac'.unskippable = vac.unskippable
    BY <2>1, <1>3 DEF VacRec, SameCutoffs
  <2>3. vac'.pc # "prepare" /\ vac'.pc \in {"prune", "prepare"}
    BY <2>2
  <2>4. Plans(xact, multis', pages, vac')
    BY <2>3, Zenon DEF Plans
  <2>5. Grows(multis, multis') /\ MultisFine'
    BY <1>6, <2>1, Zenon
  <2> QED
    BY <1>1, <1>2, <2>2, <2>3, <2>4, <2>5, HoldStep, Zenon
<1>11. CASE IsTuple(t) /\ HTSV(t, vac.OldestXmin) # "DEAD"
  <2>1. Plannable(t, vac, vac.pagefrz, vac.OldestXmin)
    <3>1. vac.OldestXmin \in Nat /\ vac.OldestXmin <= vac.OldestXmin
      BY <1>4, Numbers
    <3>2. vac.pagefrz.fx <= vac.OldestXmin /\ vac.pagefrz.fm <= vac.OldestMxact
      <4>1. /\ vac.pagefrz.fx <= vac.NewRelfrozenXid /\ vac.pagefrz.fm <= vac.NewRelminMxid
            /\ vac.NewRelfrozenXid <= vac.OldestXmin /\ vac.NewRelminMxid <= vac.OldestMxact
        BY <1>3, <1>7, Zenon DEF PageBounds, Trackers
      <4>2. \A i, j, k \in Nat : i <= j /\ j <= k => i <= k
        OBVIOUS
      <4> QED
        BY <1>4, <1>8, <3>1, <4>1, <4>2, Zenon
    <3> QED
      BY <1>3, <1>4, <1>5, <1>11, <3>1, <3>2, Zenon DEF Plannable, IsTuple, Cutoffs
  <2>2. PlanFine(t, vac, vac.pagefrz, p)
    BY <1>3, <2>1, PlanIsFine, Zenon DEF p
  <2>3. /\ vac' = [next EXCEPT !.plans = Append(@, p.after), !.pagefrz = p.pagefrz,
                               !.all_visible = @ /\ Visible(t, vac),
                               !.all_frozen = @ /\ p.totally_frozen]
        /\ multis' = With(p)
    BY <1>1, <1>11, <2>2, Zenon DEF PlanFine
  <2> DEFINE n == vac.slot + 1
             plans == Append(vac.plans, p.after)
             visible == vac.all_visible /\ Visible(t, vac)
             frozen == vac.all_frozen /\ p.totally_frozen
  <2>4. p.after \in ItemRec /\ p.totally_frozen \in BOOLEAN /\ p.pagefrz \in PageFrz
    BY <2>2, Zenon DEF PlanFine, ItemFine
  <2>5. visible \in BOOLEAN /\ frozen \in BOOLEAN
    BY <1>4, <2>4 DEF Visible
  <2>6. /\ n \in Nat /\ plans \in Seq(ItemRec)
        /\ vac' = [vac EXCEPT !.slot = n, !.plans = plans, !.pagefrz = p.pagefrz,
                              !.all_visible = visible, !.all_frozen = frozen]
    BY <2>3, <2>4, <1>3, <1>4 DEF VacRec
  <2> HIDE DEF n, plans, visible, frozen, next
  <2>7. /\ vac' \in VacRec /\ SameCutoffs(vac, vac') /\ vac'.NewRelfrozenXid = vac.NewRelfrozenXid
        /\ vac'.NewRelminMxid = vac.NewRelminMxid /\ vac'.skippedallvis = vac.skippedallvis
        /\ vac'.blk = vac.blk /\ vac'.pc = vac.pc /\ vac'.skipping = vac.skipping
        /\ vac'.unskippable = vac.unskippable /\ vac'.slot = n /\ vac'.plans = plans
        /\ vac'.pagefrz = p.pagefrz /\ vac'.all_frozen = frozen
    BY <2>4, <2>5, <2>6, <1>3 DEF VacRec, SameCutoffs
  <2>8. Grows(multis, multis')
    BY <2>2, <2>3, Zenon DEF PlanFine
  <2>9. MultisFine'
    <3>1. CASE p.members = {}
      BY <3>1, <2>3, <1>6, Zenon DEF With
    <3>2. CASE p.members # {}
      <4> SUFFICES ASSUME NEW i \in 1..Len(multis') PROVE MembersFine(xact, multis'[i])
        BY <1>1, Zenon DEF MultisFine
      <4>1. MembersFine(xact, p.members) /\ p.members \in SUBSET MemberRec
        BY <3>2, <2>2, Zenon DEF PlanFine, MembersFine
      <4>2. multis' = Append(multis, p.members) /\ multis \in Seq(SUBSET MemberRec)
        BY <3>2, <2>3, <1>3, Zenon DEF With, FreezeTypeOK
      <4>3. /\ Len(multis') = Len(multis) + 1 /\ multis'[Len(multis) + 1] = p.members
            /\ \A j \in 1..Len(multis) : multis'[j] = multis[j] /\ Len(multis) \in Nat
        BY <4>1, <4>2, MultiAdded, Zenon
      <4>4. i \in 1..Len(multis) \/ i = Len(multis) + 1
        <5>1. Len(multis) \in Nat
          BY <4>2, LenInNat, Zenon
        <5> QED
          BY <4>3, <5>1
      <4> QED
        BY <4>1, <4>3, <4>4, <1>3, Zenon DEF MultisFine
    <3> QED
      BY <3>1, <3>2, Zenon
  <2>10. Planned(xact, multis', vac', pages[b][vac.slot], p.after)
    <3>1. vac'.OldestXmin = vac.OldestXmin /\ (vac'.all_frozen => WhollyFrozen(p.after))
      BY <2>2, <2>7, Zenon DEF PlanFine, SameCutoffs, frozen
    <3> QED
      BY <2>2, <2>3, <2>7, <3>1, Zenon DEF PlanFine, Planned, t
  <2>11. Plans(xact, multis', pages, vac')
    <3>1. /\ p.pagefrz.fx <= vac.pagefrz.fx /\ p.pagefrz.fm <= vac.pagefrz.fm
          /\ p.pagefrz.nfx <= vac.pagefrz.nfx /\ p.pagefrz.nfm <= vac.pagefrz.nfm
          /\ vac.pagefrz.required => p.pagefrz.required
      BY <2>2, Zenon DEF PlanFine
    <3>2. Advanced(vac, vac.pagefrz.fx, vac.pagefrz.fm) => Advanced(vac, p.pagefrz.fx, p.pagefrz.fm)
      BY <2>2, Zenon DEF PlanFine, Advanced
    <3>3. ~p.pagefrz.required /\ Advanced(vac, vac.pagefrz.nfx, vac.pagefrz.nfm)
            => Advanced(vac, p.pagefrz.nfx, p.pagefrz.nfm)
      BY <2>2, Zenon DEF PlanFine, Advanced
    <3>4. frozen => vac.all_frozen
      BY Zenon DEF frozen
    <3> QED
      BY <1>1, <2>4, <2>7, <2>8, <2>10, <3>1, <3>2, <3>3, <3>4, PlanAppended, Zenon DEF n, plans
  <2>12. vac'.pc \in {"prune", "prepare"}
    BY <1>2, <2>7
  <2> QED
    BY <1>1, <1>2, <2>7, <2>8, <2>9, <2>11, <2>12, HoldStep, Zenon
<1> QED
  BY <1>9, <1>10, <1>11, Zenon

\* Freezing as planned is no error.
LEMMA PlanRight ==
  ASSUME FreezeAssumption, NEW v, NEW t, NEW p, ItemFine(xact, multis, t), Planned(xact, multis, v, t, p)
  PROVE  ~PlanWrong(t, p)
<1>1. Keeps(xact, multis, v.OldestXmin, t, p)
  BY Zenon DEF Planned
<1>2. t.xmin # p.xmin => DidCommit(t.xmin)
  BY <1>1, Names, Zenon DEF Keeps, Committed
<1>3. ASSUME t.xmax.multi = 0, t.xmax # p.xmax, NEW u \in Updaters(t.xmax.single), DidCommit(u)
      PROVE  FALSE
  <2>1. MembersOf(multis, t.xmax) = t.xmax.single
    BY <1>3, Zenon DEF MembersOf
  <2>2. PICK m \in t.xmax.single : m.upd /\ m.xid = u
    BY <1>3, Zenon DEF Updaters
  <2>3. m.xid # Frozen
    BY <2>1, <2>2, Numbers DEF ItemFine, MembersFine, MemberRec
  <2>4. m \in Counting(xact, MembersOf(multis, t.xmax))
    BY <2>1, <2>2, <2>3, <1>3, Names, Zenon DEF Counting, Counts, Committed
  <2>5. p.xmax = NoXmax
    BY <1>1, <1>3, Zenon DEF Keeps
  <2>6. MembersOf(multis, p.xmax) = {}
    BY <2>5 DEF MembersOf, NoXmax
  <2>7. m \in Counting(xact, {})
    BY <2>4, <2>6, <1>1, Zenon DEF Keeps
  <2> QED
    BY <2>7, Zenon DEF Counting
<1> QED
  BY <1>2, <1>3, Zenon DEF PlanWrong

\* A plan holds no id that the header does not hold, and no older multixact.
LEMMA KeepsBounds ==
  ASSUME NEW C, NEW M, NEW v, NEW t, NEW p, ItemFine(C, M, t), Planned(C, M, v, t, p),
         NEW fx, NEW fm \in Nat, AtLeast(M, t, fx, fm)
  PROVE  AtLeast(M, p, fx, fm)
<1>1. Keeps(C, M, v.OldestXmin, t, p) /\ ItemFine(C, M, p)
  BY Zenon DEF Planned
<1>2. t.xmax.multi \in Nat /\ p.xmax.multi \in Nat
  BY <1>1, ItemNamed, Zenon
<1>3. p.xmax.multi # 0 => t.xmax.multi >= fm /\ p.xmax.multi >= t.xmax.multi
  BY <1>1, Zenon DEF Keeps, AtLeast
<1>4. p.xmax.multi # 0 => p.xmax.multi >= fm
  BY <1>2, <1>3
<1>5. \A x \in XidsOf(M, p) : x >= fx
  BY <1>1, Zenon DEF Keeps, AtLeast
<1> QED
  BY <1>4, <1>5, Zenon DEF AtLeast

\* A page is frozen, or left as it is.
LEMMA DecideStep ==
  ASSUME FreezeAssumption, FreezeInv, DecideFreezing
  PROVE  FreezeInv'
<1> DEFINE b == vac.blk
           pf == vac.pagefrz
           page == pages[b]
           deads == IF \E o \in Slot(b) : page[o] = Dead THEN vac.dead \cup {b} ELSE vac.dead
           none == \A o \in Slot(b) : vac.plans[o] = page[o]
<1>0. /\ FreezeTypeOK /\ PagesFine /\ CatalogTrue /\ MapTrue /\ VacuumInv /\ vac.pc = "prepare"
      /\ vac.pc # "idle" /\ vac.pc # "block"
      /\ b \in Block /\ b \in Nat /\ vac.unskippable \in Nat /\ b < vac.unskippable
      /\ Plans(xact, multis, pages, vac)
      /\ vac.aggressive => ~vac.skippedallvis
      /\ Trackers(vac, vac.NewRelfrozenXid, vac.NewRelminMxid)
      /\ vac \in VacRec
  <2>1. vac.pc = "prepare" /\ vac.pc \in {"noprune", "prune", "prepare"}
    BY DEF DecideFreezing
  <2> QED
    BY <2>1, HoldsPage, Zenon
<1>1. /\ vac.slot \in Nat /\ vac.plans \in Seq(ItemRec) /\ pf \in PageFrz /\ vac.dead \subseteq Nat
      /\ vac.NewRelfrozenXid \in Nat /\ vac.NewRelminMxid \in Nat /\ vac.OldestXmin \in Nat
      /\ vac.OldestMxact \in Nat /\ relfrozenxid \in Nat /\ relminmxid \in Nat
  <2>1. vac.OldestXmin \in Nat
    BY <1>0, VacTypes, Numbers
  <2> QED
    BY <1>0, <2>1, VacTypes, Zenon
<1>2. Slot(b) = 1..Len(page) /\ Len(page) \in Nat /\ page \in Seq(ItemRec)
  BY <1>0, PageTypes, Zenon
<1>3. /\ Len(vac.plans) = vac.slot - 1 /\ PageBounds(vac, pf)
      /\ \A o \in 1..(vac.slot - 1) : Planned(xact, multis, vac, page[o], vac.plans[o])
      /\ vac.slot \in 1..(Len(page) + 1)
  BY <1>0, Zenon DEF Plans
<1>4. vac.slot = Len(page) + 1
  <2>1. vac.slot \notin Slot(b)
    BY Zenon DEF DecideFreezing
  <2> QED
    BY <2>1, <1>2, <1>3
<1>5. vac.plans \in [Slot(b) -> ItemRec]
  BY <1>1, <1>2, <1>3, <1>4
<1>6. ASSUME NEW o \in Slot(b)
      PROVE  /\ Planned(xact, multis, vac, page[o], vac.plans[o])
             /\ ItemFine(xact, multis, page[o]) /\ ItemFine(xact, multis, vac.plans[o])
             /\ AtLeast(multis, vac.plans[o], relfrozenxid, relminmxid)
             /\ ~PlanWrong(page[o], vac.plans[o])
  <2>1. o \in 1..(vac.slot - 1)
    BY <1>2, <1>4
  <2>2. Planned(xact, multis, vac, page[o], vac.plans[o])
    BY <2>1, <1>3, Zenon
  <2>3. ItemFine(xact, multis, page[o]) /\ AtLeast(multis, page[o], relfrozenxid, relminmxid)
    BY <1>0, Zenon DEF PagesFine, CatalogTrue
  <2>4. AtLeast(multis, vac.plans[o], relfrozenxid, relminmxid)
    BY <2>2, <2>3, <1>1, KeepsBounds
  <2> QED
    BY <2>2, <2>3, <2>4, PlanRight, Zenon DEF Planned
<1>7. PICK fpi \in BOOLEAN :
        LET freeze == pf.required \/ none \/ (vac.all_visible /\ vac.all_frozen /\ fpi)
            v == [vac EXCEPT !.pc = "block", !.blk = @ + 1, !.slot = 0, !.plans = <<>>,
                    !.pagefrz = NoPage, !.all_visible = FALSE, !.all_frozen = FALSE,
                    !.NewRelfrozenXid = IF freeze THEN pf.fx ELSE pf.nfx,
                    !.NewRelminMxid = IF freeze THEN pf.fm ELSE pf.nfm,
                    !.dead = deads]
            seen == [vac EXCEPT !.all_frozen = @ /\ freeze, !.dead = v.dead]
        IN  IF freeze /\ \E o \in Slot(b) : PlanWrong(page[o], vac.plans[o])
            THEN Vac([vac EXCEPT !.pc = "error"]) /\ UNCHANGED table
            ELSE /\ pages' = IF freeze THEN [pages EXCEPT ![b] = vac.plans] ELSE pages
                 /\ vm' = [vm EXCEPT ![b] = NewBits(seen, @)]
                 /\ Vac(v)
  BY Zenon DEF DecideFreezing
<1> DEFINE freeze == pf.required \/ none \/ (vac.all_visible /\ vac.all_frozen /\ fpi)
           fx == IF freeze THEN pf.fx ELSE pf.nfx
           fm == IF freeze THEN pf.fm ELSE pf.nfm
           v == [vac EXCEPT !.pc = "block", !.blk = @ + 1, !.slot = 0, !.plans = <<>>,
                   !.pagefrz = NoPage, !.all_visible = FALSE, !.all_frozen = FALSE,
                   !.NewRelfrozenXid = fx, !.NewRelminMxid = fm, !.dead = deads]
           seen == [vac EXCEPT !.all_frozen = @ /\ freeze, !.dead = v.dead]
           Q == IF freeze THEN vac.plans ELSE page
<1>8. /\ pages' = IF freeze THEN [pages EXCEPT ![b] = vac.plans] ELSE pages
      /\ vm' = [vm EXCEPT ![b] = NewBits(seen, @)]
      /\ vac' = v /\ UNCHANGED <<catalog, load, touches, vacuums>>
  BY <1>6, <1>7, Zenon DEF Vac
<1>9. freeze \in BOOLEAN /\ (~freeze => ~pf.required)
  OBVIOUS
<1>10. UNCHANGED <<world, catalog, load, touches, vacuums>>
  BY <1>8, Zenon DEF DecideFreezing
<1>11. deads \subseteq Nat
  BY <1>0, <1>1
<1>12. seen.all_frozen => freeze /\ vac.all_frozen
  BY <1>0 DEF VacRec
<1>13. NewBits(seen, vm[b]) \in {"none", "visible", "frozen"} /\ (NewBits(seen, vm[b]) = "frozen" => vm[b] = "frozen" \/ seen.all_frozen)
  <2>1. vm[b] \in {"none", "visible", "frozen"}
    BY <1>0 DEF FreezeTypeOK, Block
  <2> HIDE DEF seen
  <2> QED
    BY <2>1 DEF NewBits
<1> HIDE DEF freeze, deads, seen, none
<1>14. /\ pages' \in [Block -> Seq(ItemRec)] /\ DOMAIN pages' = Block
       /\ pages'[b] = Q /\ \A c \in Block : c # b => pages'[c] = pages[c]
       /\ \A c \in Block : DOMAIN pages'[c] = Slot(c)
  <2>1. CASE freeze
    <3> DEFINE P == [pages EXCEPT ![b] = vac.plans]
    <3>1. /\ P \in [Block -> Seq(ItemRec)] /\ DOMAIN P = Block
          /\ P[b] = vac.plans /\ \A c \in Block : c # b => P[c] = pages[c]
          /\ \A c \in Block : DOMAIN P[c] = Slot(c)
      BY <1>0, <1>5, PageReplaced
    <3> HIDE DEF P
    <3>2. pages' = P
      BY <1>8, <2>1, Zenon DEF P
    <3> QED
      BY <2>1, <3>1, <3>2, Zenon
  <2>2. CASE ~freeze
    BY <2>2, <1>0, <1>8, Zenon DEF FreezeTypeOK, Block, Slot
  <2> QED
    BY <2>1, <2>2, Zenon
<1>15. /\ pf.fx \in Nat /\ pf.fm \in Nat /\ pf.nfx \in Nat /\ pf.nfm \in Nat
  BY <1>1 DEF PageFrz
<1>16. fx \in Nat /\ fm \in Nat /\ fx <= vac.NewRelfrozenXid /\ fm <= vac.NewRelminMxid /\ Advanced(vac, fx, fm)
  BY <1>3, <1>9, <1>15, Zenon DEF PageBounds
<1>17. Trackers(vac, fx, fm)
  <2>1. vac.NewRelfrozenXid <= vac.OldestXmin /\ vac.NewRelminMxid <= vac.OldestMxact
    BY <1>0, Zenon DEF Trackers
  <2>2. \A i, j, k \in Nat : i <= j /\ j <= k => i <= k
    OBVIOUS
  <2>3. fx <= vac.OldestXmin
    BY <1>1, <1>16, <2>1, <2>2, Zenon
  <2>4. fm <= vac.OldestMxact
    BY <1>1, <1>16, <2>1, <2>2, Zenon
  <2> QED
    BY <1>16, <2>3, <2>4, Zenon DEF Trackers
<1>18. ASSUME NEW o \in Slot(b)
       PROVE  AtLeast(multis, pages'[b][o], fx, fm)
  <2>1. Bounds(multis, page[o], vac.plans[o], pf)
    BY <1>6, Zenon DEF Planned
  <2>2. CASE freeze
    BY <2>1, <2>2, <1>14, Zenon DEF Bounds
  <2>3. CASE ~freeze
    BY <2>1, <2>3, <1>9, <1>14, Zenon DEF Bounds
  <2> QED
    BY <2>2, <2>3, Zenon
<1> HIDE DEF fx, fm
<1>19. /\ v \in VacRec /\ SameCutoffs(vac, v) /\ v.NewRelfrozenXid = fx
       /\ v.NewRelminMxid = fm /\ v.skippedallvis = vac.skippedallvis
       /\ v.blk = b + 1 /\ v.pc = "block" /\ v.skipping = vac.skipping
       /\ v.unskippable = vac.unskippable /\ v.aggressive = vac.aggressive
  <2> DEFINE n == b + 1
             empty == <<>>
             u == [vac EXCEPT !.slot = 0, !.plans = empty, !.pagefrz = NoPage,
                              !.all_visible = FALSE, !.all_frozen = FALSE]
  <2>1. n \in Nat /\ empty \in Seq(ItemRec) /\ NoPage \in PageFrz /\ 0 \in Nat
    BY <1>0 DEF NoPage, PageFrz
  <2> HIDE DEF n, empty
  <2>2. /\ u \in VacRec /\ SameCutoffs(vac, u) /\ u.skippedallvis = vac.skippedallvis
        /\ u.skipping = vac.skipping /\ u.unskippable = vac.unskippable /\ u.aggressive = vac.aggressive
        /\ u.blk = b
    <3>1. vac \in VacRec
      BY <1>0, Zenon
    <3> QED
      BY <2>1, <3>1 DEF VacRec, SameCutoffs
  <2>3. v = [u EXCEPT !.pc = "block", !.blk = n, !.NewRelfrozenXid = fx, !.NewRelminMxid = fm, !.dead = deads]
    BY <1>0, <2>1 DEF VacRec, n, empty
  <2> HIDE DEF u, v
  <2>4. /\ v \in VacRec /\ SameCutoffs(u, v) /\ v.NewRelfrozenXid = fx
        /\ v.NewRelminMxid = fm /\ v.skippedallvis = u.skippedallvis
        /\ v.blk = n /\ v.pc = "block" /\ v.skipping = u.skipping
        /\ v.unskippable = u.unskippable /\ v.aggressive = u.aggressive
    BY <2>1, <2>2, <2>3, <1>11, <1>16 DEF VacRec, SameCutoffs
  <2> QED
    BY <2>2, <2>4, Zenon DEF SameCutoffs, n
<1> HIDE DEF v
<1>20. UNCHANGED <<xact, multis, relfrozenxid, relminmxid>> /\ Grows(multis, multis')
  <2>1. UNCHANGED <<xact, multis, relfrozenxid, relminmxid>>
    BY <1>10 DEF world, catalog
  <2> QED
    BY <2>1, <1>0, NothingMoves, Zenon
<1>21. Cutoffs(xact, multis', relfrozenxid, relminmxid, vac')
  BY <1>0, <1>8, <1>17, <1>19, <1>20, CutoffsStep, Zenon
<1>22. CoveredTrue(multis', pages', vac')
  <2>1. ASSUME NEW c \in Block, Covered(vac', c)
        PROVE  Covered(vac, c) \/ c = b
    <3>1. c \in Nat
      BY <1>0, Blocks, Zenon
    <3>2. c < b + 1 \/ (vac.skipping /\ c < vac.unskippable)
      BY <2>1, <1>8, <1>19, Zenon DEF Covered
    <3> QED
      BY <3>1, <3>2, <1>0 DEF Covered
  <2>2. \A c \in Block : \A o \in Slot(c) : pages'[c][o] = pages[c][o] \/ AtLeast(multis', pages'[c][o], fx, fm)
    BY <1>14, <1>18, <1>20, Zenon
  <2>3. \A o \in Slot(b) : AtLeast(multis', pages'[b][o], fx, fm)
    BY <1>18, <1>20, Zenon
  <2> QED
    BY <1>0, <1>8, <1>14, <1>16, <1>19, <1>20, <2>1, <2>2, <2>3, CoverStep, Zenon
<1>23. Place(pages', vac') /\ Plans(xact', multis', pages', vac')
  BY <1>0, <1>8, <1>19 DEF Place, Plans
<1>24. VacuumInv'
  BY <1>20, <1>21, <1>22, <1>23, Zenon DEF VacuumInv
<1>25. vm' \in [Block -> {"none", "visible", "frozen"}] /\ (\A c \in Block : c # b => vm'[c] = vm[c])
       /\ vm'[b] = NewBits(seen, vm[b])
  <2> DEFINE V == {"none", "visible", "frozen"}
             bits == NewBits(seen, vm[b])
  <2>1. vm \in [Block -> V] /\ bits \in V /\ vm' = [vm EXCEPT ![b] = bits]
    BY <1>0, <1>8, <1>13, Zenon DEF FreezeTypeOK, Block
  <2> HIDE DEF V, bits
  <2>2. vm' \in [Block -> V] /\ (\A c \in Block : c # b => vm'[c] = vm[c]) /\ vm'[b] = bits
    BY <1>0, <2>1, Zenon
  <2> QED
    BY <2>2, Zenon DEF V, bits
<1>26. ASSUME vm'[b] = "frozen", NEW o \in Slot(b)
       PROVE  WhollyFrozen(pages'[b][o])
  <2>1. Planned(xact, multis, vac, page[o], vac.plans[o])
    BY <1>6, Zenon
  <2>2. CASE vm[b] = "frozen"
    <3>1. WhollyFrozen(page[o])
      BY <2>2, <1>0, Zenon DEF MapTrue
    <3>2. vac.plans[o] = page[o]
      BY <2>1, <3>1, Zenon DEF Planned, Keeps
    <3> QED
      BY <3>1, <3>2, <1>14, Zenon
  <2>3. CASE vm[b] # "frozen"
    <3>1. freeze /\ vac.all_frozen
      BY <2>3, <1>12, <1>13, <1>25, <1>26, Zenon
    <3> QED
      BY <2>1, <3>1, <1>14, Zenon DEF Planned
  <2> QED
    BY <2>2, <2>3, Zenon
<1>27. \A o \in Slot(b) :
         \/ pages'[b][o] = pages[b][o]
         \/ ItemFine(xact, multis, pages'[b][o]) /\ AtLeast(multis, pages'[b][o], relfrozenxid, relminmxid)
  BY <1>6, <1>14, Zenon
<1> QED
  BY <1>0, <1>8, <1>10, <1>14, <1>19, <1>24, <1>25, <1>26, <1>27, PageStep, Zenon

\* Dead slots of a page become free.
LEMMA VacuumPageStep ==
  ASSUME FreezeAssumption, FreezeInv, NEW b \in Block, lazy_vacuum_pg_tde_page(b)
  PROVE  FreezeInv'
<1> DEFINE Q == [o \in Slot(b) |-> IF pages[b][o] = Dead THEN Free ELSE pages[b][o]]
           visible == \A t \in Tuples(Q) : Visible(t, vac)
           frozen == \A t \in Tuples(Q) : ~pg_tde_tuple_needs_eventual_freeze(t)
           bits == IF ~visible THEN vm[b] ELSE IF frozen \/ vm[b] = "frozen" THEN "frozen" ELSE "visible"
           dead == vac.dead \ {b}
<1>0. FreezeTypeOK /\ PagesFine /\ CatalogTrue /\ MapTrue /\ VacuumInv
  BY Zenon DEF FreezeInv
<1>1. /\ vac.pc = "block" /\ vac.pc # "idle" /\ vac.pc # "prepare"
      /\ pages' = [pages EXCEPT ![b] = Q]
      /\ vm' = [vm EXCEPT ![b] = bits]
      /\ vac' = [vac EXCEPT !.dead = dead]
      /\ UNCHANGED <<world, catalog, load, touches, vacuums>>
  BY DEF lazy_vacuum_pg_tde_page, Scanned, Vac
<1>2. vac \in VacRec /\ dead \subseteq Nat /\ vac.NewRelfrozenXid \in Nat /\ vac.NewRelminMxid \in Nat
  BY <1>0, VacTypes, Zenon DEF FreezeTypeOK
<1>3. /\ Cutoffs(xact, multis, relfrozenxid, relminmxid, vac) /\ Place(pages, vac)
      /\ vac.aggressive => ~vac.skippedallvis
      /\ Trackers(vac, vac.NewRelfrozenXid, vac.NewRelminMxid)
  BY <1>0, <1>1, Zenon DEF VacuumInv, Cutoffs
<1>4. /\ WhollyFrozen(Free) /\ ItemFine(xact, multis, Free) /\ Free \in ItemRec
      /\ \A fx, fm : AtLeast(multis, Free, fx, fm)
  BY <1>0, EmptySlots, Zenon DEF ItemFine
<1>5. \A o \in Slot(b) : Q[o] = pages[b][o] \/ Q[o] = Free
  BY Zenon
<1>6. Q \in [Slot(b) -> ItemRec]
  BY <1>0, <1>4, PageTypes, Zenon
<1>7. frozen \/ vm[b] = "frozen" => \A o \in Slot(b) : WhollyFrozen(Q[o])
  <2> SUFFICES ASSUME frozen \/ vm[b] = "frozen", NEW o \in Slot(b) PROVE WhollyFrozen(Q[o])
    OBVIOUS
  <2>1. CASE vm[b] = "frozen"
    BY <2>1, <1>0, <1>4, <1>5, Zenon DEF MapTrue
  <2>2. CASE frozen
    <3>1. ItemFine(xact, multis, Q[o])
      BY <1>0, <1>4, <1>5, Zenon DEF PagesFine
    <3>2. Q[o] \in Tuples(Q) \/ ~IsTuple(Q[o])
      BY Zenon DEF Tuples
    <3>3. CASE ~IsTuple(Q[o])
      BY <3>1, <3>3, Zenon DEF ItemFine, IsTuple, WhollyFrozen
    <3>4. CASE Q[o] \in Tuples(Q)
      BY <3>4, <2>2, Zenon DEF pg_tde_tuple_needs_eventual_freeze, WhollyFrozen
    <3> QED
      BY <3>2, <3>3, <3>4, Zenon
  <2> QED
    BY <2>1, <2>2, Zenon
<1>8. vm[b] \in {"none", "visible", "frozen"}
  BY <1>0 DEF FreezeTypeOK, Block
<1> HIDE DEF Q, visible, frozen, dead
<1>9. bits \in {"none", "visible", "frozen"} /\ (bits = "frozen" => frozen \/ vm[b] = "frozen")
  BY <1>8
<1> HIDE DEF bits
<1>10. /\ pages' \in [Block -> Seq(ItemRec)] /\ DOMAIN pages' = Block
       /\ pages'[b] = Q /\ \A c \in Block : c # b => pages'[c] = pages[c]
       /\ \A c \in Block : DOMAIN pages'[c] = Slot(c)
  <2> DEFINE P == [pages EXCEPT ![b] = Q]
  <2>1. /\ P \in [Block -> Seq(ItemRec)] /\ DOMAIN P = Block
        /\ P[b] = Q /\ \A c \in Block : c # b => P[c] = pages[c]
        /\ \A c \in Block : DOMAIN P[c] = Slot(c)
    BY <1>0, <1>6, PageReplaced
  <2> HIDE DEF P
  <2>2. pages' = P
    BY <1>1, Zenon DEF P
  <2> QED
    BY <2>1, <2>2, Zenon
<1>11. \A c \in Block : \A o \in Slot(c) : pages'[c][o] = pages[c][o] \/ pages'[c][o] = Free
  BY <1>5, <1>10, Zenon
<1>12. /\ vac' \in VacRec /\ SameCutoffs(vac, vac') /\ vac'.NewRelfrozenXid = vac.NewRelfrozenXid
       /\ vac'.NewRelminMxid = vac.NewRelminMxid /\ vac'.skippedallvis = vac.skippedallvis
       /\ vac'.blk = vac.blk /\ vac'.pc = vac.pc /\ vac'.skipping = vac.skipping
       /\ vac'.unskippable = vac.unskippable /\ vac'.aggressive = vac.aggressive
  BY <1>1, <1>2 DEF VacRec, SameCutoffs
<1>13. UNCHANGED <<xact, multis, relfrozenxid, relminmxid>> /\ Grows(multis, multis')
  <2>1. UNCHANGED <<xact, multis, relfrozenxid, relminmxid>>
    BY <1>1 DEF world, catalog
  <2> QED
    BY <2>1, <1>0, NothingMoves, Zenon
<1>14. Cutoffs(xact, multis', relfrozenxid, relminmxid, vac')
  BY <1>1, <1>3, <1>12, <1>13, CutoffsStep, Zenon
<1>15. CoveredTrue(multis', pages', vac')
  <2>1. \A c \in Block : Covered(vac', c) => Covered(vac, c)
    BY <1>12, Zenon DEF Covered
  <2>2. \A c \in Block : \A o \in Slot(c) :
          pages'[c][o] = pages[c][o] \/ AtLeast(multis', pages'[c][o], vac'.NewRelfrozenXid, vac'.NewRelminMxid)
    BY <1>4, <1>11, <1>13, Zenon
  <2>3. vac'.NewRelfrozenXid <= vac.NewRelfrozenXid /\ vac'.NewRelminMxid <= vac.NewRelminMxid
        /\ vac'.NewRelfrozenXid \in Nat /\ vac'.NewRelminMxid \in Nat
    BY <1>2, <1>12
  <2> QED
    BY <1>1, <1>10, <1>12, <1>13, <2>1, <2>2, <2>3, CoverStep, Zenon
<1>16. Place(pages', vac') /\ Plans(xact', multis', pages', vac')
  BY <1>1, <1>3, <1>12, Zenon DEF Place, Plans
<1>17. VacuumInv'
  BY <1>13, <1>14, <1>15, <1>16, Zenon DEF VacuumInv
<1>18. vm' \in [Block -> {"none", "visible", "frozen"}] /\ (\A c \in Block : c # b => vm'[c] = vm[c])
       /\ vm'[b] = bits
  <2> DEFINE V == {"none", "visible", "frozen"}
  <2>1. vm \in [Block -> V] /\ bits \in V /\ vm' = [vm EXCEPT ![b] = bits]
    BY <1>0, <1>1, <1>9, Zenon DEF FreezeTypeOK, Block
  <2> HIDE DEF V
  <2>2. vm' \in [Block -> V] /\ (\A c \in Block : c # b => vm'[c] = vm[c]) /\ vm'[b] = bits
    BY <2>1, Zenon
  <2> QED
    BY <2>2, Zenon DEF V
<1>19. vm'[b] = "frozen" => \A o \in Slot(b) : WhollyFrozen(pages'[b][o])
  BY <1>7, <1>9, <1>10, <1>18, Zenon
<1>20. \A o \in Slot(b) :
         \/ pages'[b][o] = pages[b][o]
         \/ ItemFine(xact, multis, pages'[b][o]) /\ AtLeast(multis, pages'[b][o], relfrozenxid, relminmxid)
  BY <1>4, <1>11, Zenon
<1> QED
  BY <1>1, <1>10, <1>12, <1>17, <1>18, <1>19, <1>20, PageStep, Zenon

\* The larger of two numbers.
LEMMA MaxOfTwo ==
  ASSUME NEW m \in Nat, NEW n \in Nat
  PROVE  Max({m, n}) \in {m, n} /\ Max({m, n}) >= m /\ Max({m, n}) >= n
<1>1. \E x \in {m, n} : \A y \in {m, n} : x >= y
  <2>1. CASE m >= n
    BY <2>1
  <2>2. CASE ~(m >= n)
    BY <2>2
  <2> QED
    BY <2>1, <2>2
<1>2. Max({m, n}) \in {m, n} /\ \A y \in {m, n} : Max({m, n}) >= y
  BY <1>1, Zenon DEF Max
<1> QED
  BY <1>2, Zenon

\* The catalog follows a vacuum that has seen all blocks.
LEMMA UpdatePgClassStep ==
  ASSUME FreezeAssumption, FreezeInv, UpdatePgClass
  PROVE  FreezeInv'
<1> DEFINE nf == IF vac.skippedallvis THEN relfrozenxid ELSE Max({relfrozenxid, vac.NewRelfrozenXid})
           nm == IF vac.skippedallvis THEN relminmxid ELSE Max({relminmxid, vac.NewRelminMxid})
<1>0. FreezeTypeOK /\ MultisFine /\ PagesFine /\ CatalogOver /\ CatalogTrue /\ MapTrue /\ VacuumInv
  BY Zenon DEF FreezeInv
<1>1. /\ vac.pc = "block" /\ vac.pc # "idle" /\ vac.blk \notin Block
      /\ relfrozenxid' = nf /\ relminmxid' = nm /\ vac' = NoVac
      /\ UNCHANGED <<pages, vm, xact, multis, load, touches, vacuums>>
  BY DEF UpdatePgClass, Scanned, table, world
<1>2. CoveredTrue(multis, pages, vac) /\ Trackers(vac, vac.NewRelfrozenXid, vac.NewRelminMxid)
  BY <1>0, <1>1, Zenon DEF VacuumInv, Cutoffs
<1>3. /\ relfrozenxid \in 1..(MaxXid + 1) /\ relminmxid \in Nat \ {0} /\ MaxXid \in Nat
      /\ vac.NewRelfrozenXid \in Nat /\ vac.NewRelminMxid \in Nat /\ vac.blk \in Nat
      /\ vac.OldestXmin \in 0..(MaxXid + 1) /\ vac.OldestMxact \in Nat
      /\ vac.NewRelfrozenXid <= vac.OldestXmin /\ vac.NewRelminMxid <= vac.OldestMxact
  BY <1>0, <1>2, VacTypes, Numbers, Zenon DEF FreezeTypeOK, Trackers
<1>4. /\ nf \in {relfrozenxid, vac.NewRelfrozenXid} /\ nf >= relfrozenxid
      /\ nm \in {relminmxid, vac.NewRelminMxid} /\ nm >= relminmxid
  <2>1. relfrozenxid \in Nat /\ relminmxid \in Nat /\ relfrozenxid >= relfrozenxid /\ relminmxid >= relminmxid
    BY <1>3
  <2> QED
    BY <1>3, <2>1, MaxOfTwo, Zenon
<1>5. nf \in 1..(MaxXid + 1) /\ nm \in Nat \ {0} /\ nf \in Nat /\ nm \in Nat
  <2> HIDE DEF nf, nm
  <2> QED
    BY <1>3, <1>4
<1>6. FreezeTypeOK'
  <2>1. NoVac \in VacRec
    BY Numbers DEF NoVac, VacRec, NoPage, PageFrz
  <2> QED
    BY <1>0, <1>1, <1>5, <2>1, Zenon DEF FreezeTypeOK, NBlocks
<1>7. CatalogOver'
  <2>1. Over(xact, vac.NewRelfrozenXid) /\ OverMulti(xact, multis, vac.NewRelminMxid)
    BY <1>0, <1>1, <1>3, TrackersOver, Zenon
  <2>2. Over(xact, nf) /\ OverMulti(xact, multis, nm)
    <3> HIDE DEF nf, nm
    <3> QED
      BY <2>1, <1>0, <1>4, Zenon DEF CatalogOver
  <2> QED
    BY <2>2, <1>1, Zenon DEF CatalogOver
<1>8. CatalogTrue'
  <2> SUFFICES ASSUME NEW b \in Block, NEW o \in Slot(b)
               PROVE  AtLeast(multis, pages[b][o], nf, nm)
    BY <1>1, Zenon DEF CatalogTrue, Block, Slot
  <2>1. AtLeast(multis, pages[b][o], relfrozenxid, relminmxid)
    BY <1>0, Zenon DEF CatalogTrue
  <2>2. CASE vac.skippedallvis
    BY <2>1, <2>2, Zenon
  <2>3. CASE ~vac.skippedallvis
    <3>1. b < vac.blk
      BY <1>0, <1>1, <1>3, Blocks
    <3>2. AtLeast(multis, pages[b][o], vac.NewRelfrozenXid, vac.NewRelminMxid)
      BY <3>1, <2>3, <1>2, Zenon DEF CoveredTrue, Covered, Block, Slot
    <3> HIDE DEF nf, nm
    <3> QED
      BY <2>1, <3>2, <1>4, Zenon DEF AtLeast
  <2> QED
    BY <2>2, <2>3, Zenon
<1>9. VacuumInv'
  BY <1>1 DEF VacuumInv, NoVac
<1>10. MultisFine' /\ PagesFine' /\ MapTrue'
  BY <1>0, <1>1, Zenon DEF MultisFine, PagesFine, MapTrue, Block, Slot
<1> QED
  BY <1>6, <1>7, <1>8, <1>9, <1>10, Zenon DEF FreezeInv

\* The cutoffs of a rewrite, and the copy of a tuple.
RewriteVac(ox, fl, mc) ==
  [NoVac EXCEPT !.OldestXmin = ox, !.OldestMxact = NextMulti, !.FreezeLimit = fl, !.MultiXactCutoff = mc]
Copied(t, ox) == IsTuple(t) /\ HTSV(t, ox) # "DEAD"
Rewritten(ox, fl, mc) ==
  [b \in Block |-> [o \in Slot(b) |->
     IF Copied(pages[b][o], ox) THEN pg_tde_freeze_tuple(pages[b][o], RewriteVac(ox, fl, mc)).after
                                ELSE Free]]

\* Nobody runs in a rewrite, so that no multixact is made.
LEMMA RewriteTuple ==
  ASSUME FreezeAssumption, FreezeInv, NEW b \in Block, NEW o \in Slot(b),
         \A x \in Xid : ~Running(x),
         NEW ox \in 1..(MaxXid + 1), NEW fl \in 1..(MaxXid + 1), NEW mc \in {relminmxid, NextMulti},
         vacuum_get_cutoffs(RewriteVac(ox, fl, mc)), Copied(pages[b][o], ox),
         NEW p, p = pg_tde_freeze_tuple(pages[b][o], RewriteVac(ox, fl, mc))
  PROVE  /\ p.flag # "error"
         /\ ItemFine(xact, multis, p.after) /\ Keeps(xact, multis, fl, pages[b][o], p.after)
         /\ AtLeast(multis, p.after, fl, mc)
<1> DEFINE t == pages[b][o]
           u == RewriteVac(ox, fl, mc)
           v == [u EXCEPT !.OldestXmin = u.FreezeLimit, !.OldestMxact = u.MultiXactCutoff]
           pf == [required |-> TRUE, fx |-> u.FreezeLimit, nfx |-> u.FreezeLimit,
                  fm |-> u.MultiXactCutoff, nfm |-> u.MultiXactCutoff]
<1>0. /\ FreezeTypeOK /\ CatalogOver /\ ItemFine(xact, multis, t)
      /\ AtLeast(multis, t, relfrozenxid, relminmxid)
  BY Zenon DEF FreezeInv, PagesFine, CatalogTrue
<1>1. /\ Len(multis) \in Nat /\ NextMulti = Len(multis) + 1 /\ multis \in Seq(SUBSET MemberRec)
      /\ relfrozenxid \in Nat /\ relminmxid \in Nat /\ MaxXid \in Nat
      /\ OldestRunning \in Nat /\ Over(xact, OldestRunning)
  <2>1. /\ Len(multis) \in Nat /\ NextMulti = Len(multis) + 1 /\ multis \in Seq(SUBSET MemberRec)
    BY <1>0 DEF FreezeTypeOK, NextMulti
  <2>2. OldestRunning \in 1..(MaxXid + 1) /\ Over(xact, OldestRunning) /\ MaxXid \in Nat
    BY <1>0, OldestIsOver, Numbers, Zenon
  <2>3. OldestRunning \in Nat
    BY <2>2
  <2> QED
    BY <1>0, <2>1, <2>2, <2>3, VacTypes, Zenon
<1>2. ox \in Nat /\ fl \in Nat /\ mc \in Nat
  BY <1>1
<1>3. u.OldestXmin = ox /\ u.OldestMxact = NextMulti /\ u.FreezeLimit = fl /\ u.MultiXactCutoff = mc
  BY DEF RewriteVac, NoVac
<1>4. v.OldestXmin = fl /\ v.OldestMxact = mc /\ v.FreezeLimit = fl /\ v.MultiXactCutoff = mc
  BY <1>3 DEF RewriteVac, NoVac
<1>5. pf \in PageFrz /\ pf.fx = fl /\ pf.fm = mc
  BY <1>2, <1>3 DEF PageFrz
<1>6. p = pg_tde_prepare_freeze_tuple(t, v, pf)
  BY Zenon DEF pg_tde_freeze_tuple
<1>7. ox <= OldestRunning /\ fl <= ox
  <2>1. u.OldestXmin \in relfrozenxid..OldestRunning /\ u.FreezeLimit \in relfrozenxid..u.OldestXmin
    BY Zenon DEF vacuum_get_cutoffs
  <2> HIDE DEF u
  <2> QED
    BY <2>1, <1>1, <1>2, <1>3
<1> HIDE DEF u, v, pf
<1>8. OverMulti(xact, multis, mc)
  <2>1. CASE mc = relminmxid
    BY <2>1, <1>0, Zenon DEF CatalogOver
  <2>2. CASE mc = NextMulti
    <3>1. ASSUME NEW j \in 1..Len(multis), NEW m \in multis[j] PROVE xact[m.xid] # "running"
      <4>1. MembersFine(xact, multis[j])
        BY Zenon DEF FreezeInv, MultisFine
      <4>2. m.xid \in Xid
        BY <4>1 DEF MembersFine, MemberRec
      <4> QED
        BY <4>2, Zenon DEF Running
    <3>2. mc <= Len(multis) + 1
      BY <2>2, <1>1
    <3> QED
      BY <3>1, <3>2, Zenon DEF OverMulti
  <2> QED
    BY <2>1, <2>2, Zenon
<1>9. Over(xact, fl)
  <2>1. fl <= OldestRunning /\ mc <= mc
    BY <1>1, <1>2, <1>7
  <2> QED
    BY <2>1, <1>1, <1>2, <1>8, OverSmaller, Zenon
<1>10. Plannable(t, v, pf, ox)
  <2>1. fl <= fl /\ mc <= mc
    BY <1>2
  <2> QED
    BY <2>1, <1>0, <1>2, <1>4, <1>5, <1>7, <1>8, <1>9, Zenon DEF Plannable, Copied, IsTuple, t
<1>11. PlanFine(t, v, pf, p)
  BY <1>0, <1>6, <1>10, PlanIsFine, Zenon
<1>12. p.members = {}
  <2> SUFFICES ASSUME p.members # {} PROVE FALSE
    BY Zenon
  <2>1. MembersFine(xact, p.members) /\ \E m \in p.members : xact[m.xid] = "running"
    BY <1>11, Zenon DEF PlanFine
  <2>2. \A m \in p.members : m.xid \in Xid
    BY <2>1 DEF MembersFine, MemberRec
  <2> QED
    BY <2>1, <2>2, Zenon DEF Running
<1>13. With(p) = multis
  BY <1>12, Zenon DEF With
<1>14. /\ p.flag # "error" /\ ItemFine(xact, multis, p.after) /\ Keeps(xact, multis, fl, t, p.after)
       /\ Bounds(multis, t, p.after, p.pagefrz)
  BY <1>4, <1>11, <1>13, Zenon DEF PlanFine
<1>15. /\ p.pagefrz.fx \in Nat /\ p.pagefrz.fm \in Nat /\ p.pagefrz.fx >= fl /\ p.pagefrz.fm >= mc
  <2>1. fl >= fl /\ mc >= mc
    BY <1>2
  <2>2. p.pagefrz \in PageFrz /\ p.pagefrz.fx >= fl /\ p.pagefrz.fm >= mc
    BY <2>1, <1>4, <1>5, <1>11, Zenon DEF PlanFine
  <2> QED
    BY <2>2 DEF PageFrz
<1>16. AtLeast(multis, p.after, p.pagefrz.fx, p.pagefrz.fm)
  BY <1>14, Zenon DEF Bounds
<1>17. fl <= p.pagefrz.fx /\ mc <= p.pagefrz.fm
  BY <1>2, <1>15
<1>18. AtLeast(multis, p.after, fl, mc)
  BY <1>2, <1>14, <1>15, <1>16, <1>17, AtLeastWeaker, Zenon
<1> QED
  BY <1>14, <1>18, Zenon DEF t

\* A rewrite meets no corruption, and takes its cutoffs from the catalog.
LEMMA RewriteChoice ==
  ASSUME FreezeAssumption, FreezeInv, RewriteTable
  PROVE  \E ox, fl \in 1..(MaxXid + 1), mc \in {relminmxid, NextMulti} :
           /\ vacuum_get_cutoffs(RewriteVac(ox, fl, mc))
           /\ pages' = Rewritten(ox, fl, mc) /\ vm' = [b \in Block |-> "none"]
           /\ relfrozenxid' = fl /\ relminmxid' = mc /\ UNCHANGED vac
<1>1. \A x \in Xid : ~Running(x)
  BY Zenon DEF RewriteTable
<1>2. PICK ox \in 1..(MaxXid + 1), fl \in 1..(MaxXid + 1), mc \in {relminmxid, NextMulti} :
        LET v == [NoVac EXCEPT !.OldestXmin = ox, !.OldestMxact = NextMulti,
                               !.FreezeLimit = fl, !.MultiXactCutoff = mc]
            copied(t) == IsTuple(t) /\ HTSV(t, ox) # "DEAD"
            wrong == \E b \in Block : \E t \in Tuples(pages[b]) :
                       copied(t) /\ pg_tde_freeze_tuple(t, v).flag = "error"
        IN  /\ vacuum_get_cutoffs(v)
            /\ IF wrong THEN vac' = [v EXCEPT !.pc = "error"] /\ UNCHANGED <<table, catalog>>
               ELSE /\ pages' = [b \in Block |-> [o \in Slot(b) |->
                         IF copied(pages[b][o]) THEN pg_tde_freeze_tuple(pages[b][o], v).after
                                                ELSE Free]]
                    /\ vm' = [b \in Block |-> "none"]
                    /\ relfrozenxid' = fl /\ relminmxid' = mc
                    /\ UNCHANGED vac
  BY Zenon DEF RewriteTable
<1> DEFINE v == RewriteVac(ox, fl, mc)
           wrong == \E b \in Block : \E t \in Tuples(pages[b]) :
                      Copied(t, ox) /\ pg_tde_freeze_tuple(t, v).flag = "error"
<1>3. /\ vacuum_get_cutoffs(v)
      /\ IF wrong THEN vac' = [v EXCEPT !.pc = "error"] /\ UNCHANGED <<table, catalog>>
         ELSE /\ pages' = [b \in Block |-> [o \in Slot(b) |->
                   IF Copied(pages[b][o], ox) THEN pg_tde_freeze_tuple(pages[b][o], v).after
                                              ELSE Free]]
              /\ vm' = [b \in Block |-> "none"]
              /\ relfrozenxid' = fl /\ relminmxid' = mc
              /\ UNCHANGED vac
  BY <1>2, Zenon DEF RewriteVac, Copied
<1>4. ~wrong
  <2> SUFFICES ASSUME NEW b \in Block, NEW t \in Tuples(pages[b]), Copied(t, ox),
                      pg_tde_freeze_tuple(t, v).flag = "error"
               PROVE  FALSE
    BY Zenon
  <2>1. PICK o \in Slot(b) : pages[b][o] = t
    BY Zenon DEF Tuples, Slot
  <2>2. Copied(pages[b][o], ox) /\ pg_tde_freeze_tuple(pages[b][o], v).flag = "error"
    BY <2>1, Zenon
  <2>3. PICK p : p = pg_tde_freeze_tuple(pages[b][o], RewriteVac(ox, fl, mc))
    OBVIOUS
  <2>4. Copied(pages[b][o], ox) /\ vacuum_get_cutoffs(RewriteVac(ox, fl, mc))
    BY <2>2, <1>3, Zenon
  <2>5. p.flag # "error"
    BY <2>3, <2>4, <1>1, RewriteTuple, Zenon
  <2> QED
    BY <2>2, <2>3, <2>5, Zenon
<1>5. pages' = Rewritten(ox, fl, mc)
  BY <1>3, <1>4, Zenon DEF Rewritten
<1> QED
  BY <1>3, <1>4, <1>5, Zenon

\* A table is rewritten.
LEMMA RewriteStep ==
  ASSUME FreezeAssumption, FreezeInv, RewriteTable
  PROVE  FreezeInv'
<1>0. FreezeTypeOK /\ MultisFine /\ CatalogOver
  BY Zenon DEF FreezeInv
<1>1. PICK ox \in 1..(MaxXid + 1), fl \in 1..(MaxXid + 1), mc \in {relminmxid, NextMulti} :
        /\ vacuum_get_cutoffs(RewriteVac(ox, fl, mc))
        /\ pages' = Rewritten(ox, fl, mc) /\ vm' = [b \in Block |-> "none"]
        /\ relfrozenxid' = fl /\ relminmxid' = mc /\ UNCHANGED vac
  BY RewriteChoice, Zenon
<1>2. /\ vac.pc = "idle" /\ \A x \in Xid : ~Running(x)
      /\ UNCHANGED <<xact, multis, load, touches>> /\ vacuums' \in Nat
  BY <1>0 DEF RewriteTable, world, FreezeTypeOK
<1>3. /\ DOMAIN pages' = Block /\ DOMAIN vm' = Block
      /\ \A b \in Block : /\ DOMAIN pages'[b] = Slot(b) /\ vm'[b] = "none"
                          /\ \A o \in Slot(b) :
                               pages'[b][o] = IF Copied(pages[b][o], ox)
                                              THEN pg_tde_freeze_tuple(pages[b][o], RewriteVac(ox, fl, mc)).after
                                              ELSE Free
  BY <1>1, Zenon DEF Rewritten
<1>4. /\ ItemFine(xact, multis, Free) /\ Free \in ItemRec
      /\ \A fx, fm : AtLeast(multis, Free, fx, fm)
  BY <1>0, EmptySlots, Zenon DEF ItemFine
<1>5. ASSUME NEW b \in Block, NEW o \in Slot(b)
      PROVE  ItemFine(xact, multis, pages'[b][o]) /\ AtLeast(multis, pages'[b][o], fl, mc)
  <2>1. CASE Copied(pages[b][o], ox)
    <3>1. PICK p : p = pg_tde_freeze_tuple(pages[b][o], RewriteVac(ox, fl, mc))
      OBVIOUS
    <3>2. ItemFine(xact, multis, p.after) /\ AtLeast(multis, p.after, fl, mc)
      BY <2>1, <3>1, <1>1, <1>2, RewriteTuple, Zenon
    <3> QED
      BY <2>1, <3>1, <3>2, <1>3, Zenon
  <2>2. CASE ~Copied(pages[b][o], ox)
    BY <2>2, <1>3, <1>4, Zenon
  <2> QED
    BY <2>1, <2>2, Zenon
<1>6. pages' \in [Block -> Seq(ItemRec)]
  <2>1. ASSUME NEW b \in Block PROVE pages'[b] \in Seq(ItemRec)
    <3>1. Slot(b) = 1..Len(pages[b]) /\ Len(pages[b]) \in Nat
      BY <1>0, PageTypes, Zenon
    <3> DEFINE f == [o \in Slot(b) |-> IF Copied(pages[b][o], ox)
                                       THEN pg_tde_freeze_tuple(pages[b][o], RewriteVac(ox, fl, mc)).after
                                       ELSE Free]
    <3>2. pages'[b] = f
      BY <1>1, Zenon DEF Rewritten
    <3>3. \A o \in Slot(b) : pages'[b][o] \in ItemRec
      BY <1>5, Zenon DEF ItemFine
    <3>4. f \in [Slot(b) -> ItemRec]
      BY <3>2, <3>3, Zenon
    <3> HIDE DEF f
    <3>5. f \in Seq(ItemRec)
      BY <3>1, <3>4
    <3> QED
      BY <3>2, <3>5, Zenon
  <2>2. pages' = [b \in Block |-> pages'[b]]
    BY <1>1, Zenon DEF Rewritten
  <2> QED
    BY <2>1, <2>2, Zenon
<1>7. vm' \in [Block -> {"none", "visible", "frozen"}]
  BY <1>1
<1>8. /\ Len(multis) \in Nat /\ NextMulti = Len(multis) + 1 /\ multis \in Seq(SUBSET MemberRec)
      /\ relfrozenxid \in Nat /\ relminmxid \in Nat \ {0} /\ MaxXid \in Nat
      /\ OldestRunning \in Nat /\ Over(xact, OldestRunning)
  <2>1. /\ Len(multis) \in Nat /\ NextMulti = Len(multis) + 1 /\ multis \in Seq(SUBSET MemberRec)
        /\ relminmxid \in Nat \ {0}
    BY <1>0 DEF FreezeTypeOK, NextMulti
  <2>2. OldestRunning \in 1..(MaxXid + 1) /\ Over(xact, OldestRunning) /\ MaxXid \in Nat
    BY <1>0, OldestIsOver, Numbers, Zenon
  <2>3. OldestRunning \in Nat
    BY <2>2
  <2> QED
    BY <1>0, <2>1, <2>2, <2>3, VacTypes, Zenon
<1>9. mc \in Nat \ {0} /\ fl \in Nat /\ ox \in Nat
  BY <1>8
<1>10. FreezeTypeOK'
  <2>1. DOMAIN pages' = DOMAIN pages
    BY <1>3, Zenon DEF Block
  <2>2. relfrozenxid' \in 1..(MaxXid + 1) /\ relminmxid' \in Nat \ {0}
    BY <1>1, <1>9, Zenon
  <2> QED
    BY <1>0, <1>1, <1>2, <1>6, <1>7, <2>1, <2>2, Zenon DEF FreezeTypeOK, NBlocks, Block
<1>11. MultisFine'
  BY <1>0, <1>2, Zenon DEF MultisFine
<1>12. PagesFine' /\ CatalogTrue'
  BY <1>1, <1>2, <1>3, <1>5, Zenon DEF PagesFine, CatalogTrue, Block, Slot
<1>13. CatalogOver'
  <2>1. OverMulti(xact, multis, mc)
    <3>1. CASE mc = relminmxid
      BY <3>1, <1>0, Zenon DEF CatalogOver
    <3>2. CASE mc = NextMulti
      <4>1. ASSUME NEW j \in 1..Len(multis), NEW m \in multis[j] PROVE xact[m.xid] # "running"
        <5>1. MembersFine(xact, multis[j])
          BY <1>0, Zenon DEF MultisFine
        <5>2. m.xid \in Xid
          BY <5>1 DEF MembersFine, MemberRec
        <5> QED
          BY <5>2, <1>2, Zenon DEF Running
      <4>2. mc <= Len(multis) + 1
        BY <3>2, <1>8
      <4> QED
        BY <4>1, <4>2, Zenon DEF OverMulti
    <3> QED
      BY <3>1, <3>2, Zenon
  <2>2. fl <= OldestRunning
    <3> DEFINE u == RewriteVac(ox, fl, mc)
    <3>1. u.OldestXmin \in relfrozenxid..OldestRunning /\ u.FreezeLimit \in relfrozenxid..u.OldestXmin
      BY <1>1, Zenon DEF vacuum_get_cutoffs
    <3>2. u.OldestXmin = ox /\ u.FreezeLimit = fl
      BY DEF RewriteVac, NoVac
    <3> HIDE DEF u
    <3> QED
      BY <3>1, <3>2, <1>8, <1>9
  <2>3. Over(xact, fl)
    <3>1. mc <= mc /\ mc \in Nat
      BY <1>9
    <3> QED
      BY <2>1, <2>2, <3>1, <1>8, <1>9, OverSmaller, Zenon
  <2> QED
    BY <2>1, <2>3, <1>1, <1>2, Zenon DEF CatalogOver
<1>14. MapTrue'
  BY <1>3 DEF MapTrue, Block
<1>15. VacuumInv'
  BY <1>1, <1>2, Zenon DEF VacuumInv
<1> QED
  BY <1>10, <1>11, <1>12, <1>13, <1>14, <1>15, Zenon DEF FreezeInv

-----------------------------------------------------------------------------
(* The invariant holds, and what follows from it.                            *)

\* Every step keeps the invariant.
LEMMA StepInv ==
  ASSUME FreezeAssumption, FreezeInv, [FreezeNext]_freezeVars
  PROVE  FreezeInv'
<1>1. CASE UNCHANGED freezeVars
  <2>1. UNCHANGED <<pages, vm, xact, multis, relfrozenxid, relminmxid, vac, load, touches, vacuums>>
    BY <1>1 DEF freezeVars, table, world, catalog
  <2>2. FreezeTypeOK' /\ MultisFine' /\ PagesFine' /\ CatalogOver' /\ CatalogTrue' /\ MapTrue'
    BY <2>1, Zenon DEF FreezeInv, FreezeTypeOK, NBlocks, MultisFine, PagesFine, CatalogOver, CatalogTrue, MapTrue, Block, Slot
  <2>3. VacuumInv'
    BY <2>1, Zenon DEF FreezeInv, VacuumInv
  <2> QED
    BY <2>2, <2>3, Zenon DEF FreezeInv
<1>2. ASSUME NEW x \in Xid, End(x) PROVE FreezeInv'
  BY <1>2, EndStep, Zenon
<1>3. ASSUME NEW x \in Xid, NEW b \in Block, NEW o \in Slot(b),
             pg_tde_insert(x, b, o) \/ Update(x, b, o) \/ pg_tde_lock_tuple(x, b, o)
      PROVE  FreezeInv'
  BY <1>3, InsertStep, UpdateStep, LockStep, Zenon
<1>4. CASE pg_tde_vacuum_rel
  BY <1>4, StartStep, Zenon
<1>5. CASE ScanBlock
  BY <1>5, ScanBlockStep, Zenon
<1>6. CASE lazy_scan_noprune
  BY <1>6, NopruneStep, Zenon
<1>7. CASE Prune
  BY <1>7, PruneStep, Zenon
<1>8. CASE Prepare
  BY <1>8, PrepareStep, Zenon
<1>9. CASE DecideFreezing
  BY <1>9, DecideStep, Zenon
<1>10. ASSUME NEW b \in Block, lazy_vacuum_pg_tde_page(b) PROVE FreezeInv'
  BY <1>10, VacuumPageStep, Zenon
<1>11. CASE UpdatePgClass
  BY <1>11, UpdatePgClassStep, Zenon
<1>12. CASE RewriteTable
  BY <1>12, RewriteStep, Zenon
<1> QED
  BY <1>1, <1>2, <1>3, <1>4, <1>5, <1>6, <1>7, <1>8, <1>9, <1>10, <1>11, <1>12, Zenon DEF FreezeNext

\* The invariant holds always.
THEOREM FreezeInvariance ==
  ASSUME FreezeAssumption
  PROVE  FreezeSpec => []FreezeInv
<1>1. FreezeInit => FreezeInv
  BY InitInv
<1>2. FreezeInv /\ [FreezeNext]_freezeVars => FreezeInv'
  BY StepInv
<1> QED
  BY <1>1, <1>2, PTL DEF FreezeSpec

\* Pages, multixacts, transactions, catalog and what a vacuum has in hand keep
\* their types.
THEOREM FreezeTypeCorrect ==
  ASSUME FreezeAssumption
  PROVE  FreezeSpec => []FreezeTypeOK
<1>1. FreezeInv => FreezeTypeOK
  BY Zenon DEF FreezeInv
<1> QED
  BY <1>1, FreezeInvariance, PTL

\* No header holds an id older than relfrozenxid or relminmxid, of whose
\* transactions the status may have been discarded.
THEOREM NoOldIds ==
  ASSUME FreezeAssumption
  PROVE  FreezeSpec => []RelfrozenxidTrue
<1>1. FreezeInv => RelfrozenxidTrue
  <2> SUFFICES ASSUME FreezeInv, NEW b \in Block, NEW t \in Tuples(pages[b])
               PROVE  /\ \A x \in Xids(t) : x >= relfrozenxid
                      /\ t.xmax.multi # 0 => t.xmax.multi >= relminmxid
    BY Zenon DEF RelfrozenxidTrue
  <2>1. PICK o \in Slot(b) : pages[b][o] = t
    BY Zenon DEF Tuples, Slot
  <2>2. AtLeast(multis, t, relfrozenxid, relminmxid)
    BY <2>1, Zenon DEF FreezeInv, CatalogTrue
  <2> QED
    BY <2>2, Names, Zenon DEF AtLeast
<1> QED
  BY <1>1, FreezeInvariance, PTL

\* An aggressive vacuum advances relfrozenxid and relminmxid to its cutoffs for
\* freezing, and no vacuum reports corruption.
THEOREM Advances ==
  ASSUME FreezeAssumption
  PROVE  FreezeSpec => []VacuumAdvances
<1>1. FreezeInv => VacuumAdvances
  <2> SUFFICES ASSUME FreezeInv PROVE VacuumAdvances
    OBVIOUS
  <2>1. vac.pc \in {"idle", "block", "noprune", "prune", "prepare"}
    BY VacTypes, Zenon DEF FreezeInv
  <2>2. vac.pc # "error"
    BY <2>1
  <2>3. ASSUME vac.aggressive, Scanned
        PROVE  /\ ~vac.skippedallvis
               /\ vac.NewRelfrozenXid >= vac.FreezeLimit
               /\ vac.NewRelminMxid >= vac.MultiXactCutoff
    <3>1. vac.pc # "idle"
      BY <2>3 DEF Scanned
    <3>2. Cutoffs(xact, multis, relfrozenxid, relminmxid, vac)
      BY <3>1, Zenon DEF FreezeInv, VacuumInv
    <3> QED
      BY <2>3, <3>2, Zenon DEF Cutoffs, Trackers, Advanced
  <2> QED
    BY <2>2, <2>3, Zenon DEF VacuumAdvances
<1> QED
  BY <1>1, FreezeInvariance, PTL

-----------------------------------------------------------------------------
(* Freezing keeps rows.                                                      *)

MeaningOf(C, M, t) ==
  [inserter |-> IF t.xmin = Frozen THEN "committed" ELSE C[t.xmin],
   held |-> {m \in MembersOf(M, t.xmax) : C[m.xid] = "running"},
   updated |-> {u \in Updaters(MembersOf(M, t.xmax)) : Committed(C, u)}]

(* What FreezeKeepsRows says of a row when nobody touches it, begins or ends. *)
RowKept(b, o) ==
  IF IsTuple(pages'[b][o])
  THEN /\ MeaningOf(xact, multis', pages'[b][o]) = MeaningOf(xact, multis, pages[b][o])
       /\ pages'[b][o].xmin = pages[b][o].xmin \/ pages[b][o].xmin < OldestRunning
  ELSE HTSV(pages[b][o], OldestRunning) = "DEAD"

\* What counts of a header decides what it means.
LEMMA KeepsMeaning ==
  ASSUME FreezeAssumption, NEW C, NEW M, NEW h, NEW t, NEW p,
         ItemFine(C, M, t), ItemFine(C, M, p), Keeps(C, M, h, t, p)
  PROVE  MeaningOf(C, M, p) = MeaningOf(C, M, t)
<1>1. ASSUME NEW ms, MembersFine(C, ms)
      PROVE  /\ {m \in ms : C[m.xid] = "running"} = {m \in Counting(C, ms) : C[m.xid] = "running"}
             /\ {u \in Updaters(ms) : Committed(C, u)} =
                  {m.xid : m \in {n \in Counting(C, ms) : n.upd /\ C[n.xid] = "committed"}}
  <2>1. \A m \in ms : m.xid # Frozen
    BY <1>1, Numbers DEF MembersFine, MemberRec
  <2>2. {m \in ms : C[m.xid] = "running"} = {m \in Counting(C, ms) : C[m.xid] = "running"}
    BY Zenon DEF Counting, Counts
  <2>3. \A u \in {v \in Updaters(ms) : Committed(C, v)} :
          u \in {m.xid : m \in {n \in Counting(C, ms) : n.upd /\ C[n.xid] = "committed"}}
    BY <2>1, Zenon DEF Counting, Counts, Updaters, Committed
  <2>4. \A m \in {n \in Counting(C, ms) : n.upd /\ C[n.xid] = "committed"} :
          m.xid \in {u \in Updaters(ms) : Committed(C, u)}
    BY Zenon DEF Counting, Updaters, Committed
  <2> QED
    BY <2>2, <2>3, <2>4, Zenon
<1>2. MembersFine(C, MembersOf(M, t.xmax)) /\ MembersFine(C, MembersOf(M, p.xmax))
  BY Zenon DEF ItemFine
<1>3. Counting(C, MembersOf(M, p.xmax)) = Counting(C, MembersOf(M, t.xmax))
  BY Zenon DEF Keeps
<1>4. /\ {m \in MembersOf(M, p.xmax) : C[m.xid] = "running"} = {m \in MembersOf(M, t.xmax) : C[m.xid] = "running"}
      /\ {u \in Updaters(MembersOf(M, p.xmax)) : Committed(C, u)} = {u \in Updaters(MembersOf(M, t.xmax)) : Committed(C, u)}
  BY <1>1, <1>2, <1>3, Zenon
<1>5. (IF p.xmin = Frozen THEN "committed" ELSE C[p.xmin]) = (IF t.xmin = Frozen THEN "committed" ELSE C[t.xmin])
  BY Zenon DEF Keeps
<1> QED
  BY <1>4, <1>5, Zenon DEF MeaningOf

\* A row that is left alone.
LEMMA RowSame ==
  ASSUME FreezeAssumption, FreezeInv, NEW b \in Block, NEW o \in Slot(b), IsTuple(pages[b][o]),
         pages'[b][o] = pages[b][o], Grows(multis, multis')
  PROVE  RowKept(b, o)
<1>1. ItemFine(xact, multis, pages[b][o])
  BY Zenon DEF FreezeInv, PagesFine
<1>2. MembersOf(multis', pages[b][o].xmax) = MembersOf(multis, pages[b][o].xmax)
  BY <1>1, ItemNamed, MembersStable, Zenon
<1> QED
  BY <1>2, Zenon DEF RowKept, MeaningOf

\* A row that is frozen.
LEMMA RowFrozen ==
  ASSUME FreezeAssumption, FreezeInv, NEW b \in Block, NEW o \in Slot(b), IsTuple(pages[b][o]),
         multis' = multis, NEW h \in Nat, h <= OldestRunning,
         ItemFine(xact, multis, pages'[b][o]), Keeps(xact, multis, h, pages[b][o], pages'[b][o])
  PROVE  RowKept(b, o)
<1>1. ItemFine(xact, multis, pages[b][o]) /\ FreezeTypeOK
  BY Zenon DEF FreezeInv, PagesFine
<1>2. MeaningOf(xact, multis, pages'[b][o]) = MeaningOf(xact, multis, pages[b][o])
  BY <1>1, KeepsMeaning, Zenon
<1>3. IsTuple(pages'[b][o])
  BY Zenon DEF Keeps, IsTuple
<1>4. pages'[b][o].xmin = pages[b][o].xmin \/ pages[b][o].xmin < h
  BY Zenon DEF Keeps
<1>5. pages[b][o].xmin \in 0..MaxXid /\ MaxXid \in Nat /\ OldestRunning \in 1..(MaxXid + 1)
  BY <1>1, Numbers, OldestIsOver, Zenon DEF ItemFine, ItemRec
<1>6. pages[b][o].xmin < h => pages[b][o].xmin < OldestRunning
  BY <1>5
<1> QED
  BY <1>2, <1>3, <1>4, <1>6, Zenon DEF RowKept

\* A row that goes was dead to all.
LEMMA RowGone ==
  ASSUME FreezeAssumption, FreezeInv, NEW b \in Block, NEW o \in Slot(b),
         ~IsTuple(pages'[b][o]), NEW h \in Nat, h <= OldestRunning,
         HTSV(pages[b][o], h) = "DEAD"
  PROVE  RowKept(b, o)
<1> DEFINE t == pages[b][o]
           upd == Updaters(Members(t.xmax))
<1>1. ItemFine(xact, multis, t) /\ FreezeTypeOK
  BY Zenon DEF FreezeInv, PagesFine
<1>2. OldestRunning \in Nat
  BY <1>1, OldestIsOver, Numbers
<1>3. \A u \in upd : u \in Nat
  <2>1. MembersFine(xact, Members(t.xmax))
    BY <1>1, Names, Zenon DEF ItemFine
  <2>2. \A m \in Members(t.xmax) : m.xid \in Nat
    BY <2>1, Numbers DEF MembersFine, MemberRec
  <2> QED
    BY <2>2, Zenon DEF Updaters
<1>4. \A k : HTSV(t, k) =
        IF ~DidCommit(t.xmin) THEN IF Running(t.xmin) THEN "INSERT_IN_PROGRESS" ELSE "DEAD"
        ELSE IF \E u \in upd : Running(u) THEN "DELETE_IN_PROGRESS"
        ELSE IF \E u \in upd : DidCommit(u)
          THEN IF \E u \in upd : DidCommit(u) /\ u < k THEN "DEAD" ELSE "RECENTLY_DEAD"
        ELSE "LIVE"
  BY DEF HTSV
<1> HIDE DEF t, upd
<1>5. \A u \in upd : u < h => u < OldestRunning
  BY <1>2, <1>3
<1>6. HTSV(t, h) = "DEAD"
  BY Zenon DEF t
<1>7. HTSV(t, OldestRunning) = "DEAD"
  BY <1>4, <1>5, <1>6
<1> QED
  BY <1>7, Zenon DEF RowKept, t

\* A cutoff of a vacuum is not later than the oldest transaction that runs.
LEMMA CutoffIsOld ==
  ASSUME FreezeAssumption, FreezeInv, vac.pc # "idle"
  PROVE  vac.OldestXmin \in Nat /\ vac.OldestXmin <= OldestRunning
<1>1. FreezeTypeOK /\ Over(xact, vac.OldestXmin)
  BY Zenon DEF FreezeInv, VacuumInv, Cutoffs
<1>2. vac.OldestXmin \in 0..(MaxXid + 1)
  BY <1>1, VacTypes, Zenon
<1>3. vac.OldestXmin <= OldestRunning
  BY <1>1, <1>2, OldestIsOver, Zenon
<1> QED
  BY <1>2, <1>3, Numbers

\* An item is added at the end of a sequence.
LEMMA AppendGrows ==
  ASSUME NEW M \in Seq(SUBSET MemberRec), NEW ms, Append(M, ms) \in Seq(SUBSET MemberRec)
  PROVE  Grows(M, Append(M, ms))
<1> DEFINE S == (SUBSET MemberRec) \cup {ms}
<1>1. M \in Seq(S) /\ ms \in S
  <2>1. SUBSET MemberRec \subseteq S
    OBVIOUS
  <2> HIDE DEF S
  <2>2. M \in Seq(S)
    BY <2>1
  <2> QED
    BY <2>2 DEF S
<1> HIDE DEF S
<1>2. Len(M) \in Nat /\ Len(Append(M, ms)) = Len(M) + 1 /\ \A i \in 1..Len(M) : Append(M, ms)[i] = M[i]
  BY <1>1
<1> QED
  BY <1>2 DEF Grows

\* Pruning removes rows that are dead to all.
LEMMA PruneKeeps ==
  ASSUME FreezeAssumption, FreezeInv, Prune, NEW b \in Block, NEW o \in Slot(b), IsTuple(pages[b][o])
  PROVE  RowKept(b, o)
<1>0. vac.pc \in {"noprune", "prune", "prepare"} /\ vac.pc # "idle" /\ FreezeTypeOK /\ UNCHANGED multis
  BY DEF Prune, FreezeInv, world
<1>1. vac.blk \in Block /\ OldestRunning \in Nat
  <2>1. OldestRunning \in 1..(MaxXid + 1) /\ MaxXid \in Nat
    BY <1>0, OldestIsOver, Numbers, Zenon
  <2> QED
    BY <2>1, <1>0, HoldsPage
<1>2. PICK horizon \in {vac.OldestXmin, OldestRunning} :
        pages' = [pages EXCEPT ![vac.blk] = [p \in DOMAIN @ |->
                    IF IsTuple(@[p]) /\ HTSV(@[p], horizon) = "DEAD" THEN Dead ELSE @[p]]]
  BY Zenon DEF Prune
<1>3. horizon \in Nat /\ horizon <= OldestRunning
  BY <1>0, <1>1, CutoffIsOld
<1>4. Grows(multis, multis')
  BY <1>0, NothingMoves, Zenon
<1>5. CASE b = vac.blk /\ HTSV(pages[b][o], horizon) = "DEAD"
  <2>1. pages'[b][o] = Dead
    BY <1>1, <1>2, <1>5, Zenon DEF Block, Slot
  <2>2. ~IsTuple(pages'[b][o])
    BY <2>1 DEF Dead, Item, IsTuple
  <2> QED
    BY <2>2, <1>3, <1>5, RowGone, Zenon
<1>6. CASE b # vac.blk \/ HTSV(pages[b][o], horizon) # "DEAD"
  <2>1. pages'[b][o] = pages[b][o]
    BY <1>1, <1>2, <1>6, Zenon DEF Block, Slot
  <2> QED
    BY <2>1, <1>4, RowSame, Zenon
<1> QED
  BY <1>5, <1>6, Zenon

\* A page is frozen as it was planned.
LEMMA DecideKeeps ==
  ASSUME FreezeAssumption, FreezeInv, DecideFreezing, NEW b \in Block, NEW o \in Slot(b), IsTuple(pages[b][o])
  PROVE  RowKept(b, o)
<1>0. /\ vac.pc = "prepare" /\ vac.pc \in {"noprune", "prune", "prepare"} /\ vac.pc # "idle"
      /\ UNCHANGED multis /\ vac.slot \notin Slot(vac.blk)
  BY DEF DecideFreezing, world
<1>1. /\ vac.blk \in Block /\ Plans(xact, multis, pages, vac) /\ FreezeTypeOK
      /\ Grows(multis, multis')
  BY <1>0, HoldsPage, NothingMoves, Zenon
<1>2. pages' = pages \/ pages' = [pages EXCEPT ![vac.blk] = vac.plans]
  <2>1. \/ UNCHANGED table
        \/ pages' = pages \/ pages' = [pages EXCEPT ![vac.blk] = vac.plans]
    BY Zenon DEF DecideFreezing
  <2> QED
    BY <2>1 DEF table
<1>3. CASE pages'[b][o] = pages[b][o]
  BY <1>1, <1>3, RowSame, Zenon
<1>4. CASE pages'[b][o] # pages[b][o]
  <2>1. b = vac.blk /\ pages'[b][o] = vac.plans[o]
    BY <1>1, <1>2, <1>4, Zenon DEF Block
  <2>2. /\ Slot(b) = 1..Len(pages[b]) /\ Len(pages[b]) \in Nat
    BY <1>1, PageTypes, Zenon
  <2>3. /\ vac.slot \in 1..(Len(pages[b]) + 1)
        /\ \A p \in 1..(vac.slot - 1) : Planned(xact, multis, vac, pages[b][p], vac.plans[p])
    BY <1>0, <1>1, <2>1, Zenon DEF Plans
  <2>4. vac.slot \notin Slot(b)
    BY <1>0, <2>1, Zenon
  <2>5. o \in 1..(vac.slot - 1)
    BY <2>2, <2>3, <2>4
  <2>6. Planned(xact, multis, vac, pages[b][o], vac.plans[o])
    BY <2>3, <2>5, Zenon
  <2>7. vac.OldestXmin \in Nat /\ vac.OldestXmin <= OldestRunning
    BY <1>0, CutoffIsOld, Zenon
  <2> QED
    BY <1>0, <2>1, <2>6, <2>7, RowFrozen, Zenon DEF Planned
<1> QED
  BY <1>3, <1>4, Zenon

\* The second pass of a vacuum removes no row.
LEMMA VacuumPageKeeps ==
  ASSUME FreezeAssumption, FreezeInv, NEW c \in Block, lazy_vacuum_pg_tde_page(c),
         NEW b \in Block, NEW o \in Slot(b), IsTuple(pages[b][o])
  PROVE  RowKept(b, o)
<1>1. UNCHANGED multis /\ FreezeTypeOK
  BY DEF lazy_vacuum_pg_tde_page, world, FreezeInv
<1>2. pages' = [pages EXCEPT ![c] = [p \in Slot(c) |-> IF pages[c][p] = Dead THEN Free ELSE pages[c][p]]]
  BY Zenon DEF lazy_vacuum_pg_tde_page
<1>3. pages[b][o] # Dead
  BY DEF Dead, Item, IsTuple
<1>4. pages'[b][o] = pages[b][o]
  BY <1>2, <1>3, Zenon DEF Block
<1> QED
  BY <1>1, <1>4, NothingMoves, RowSame, Zenon

\* A rewrite copies all rows but those that are dead to all.
LEMMA RewriteKeeps ==
  ASSUME FreezeAssumption, FreezeInv, RewriteTable, NEW b \in Block, NEW o \in Slot(b), IsTuple(pages[b][o])
  PROVE  RowKept(b, o)
<1>0. UNCHANGED multis /\ FreezeTypeOK /\ \A x \in Xid : ~Running(x)
  BY DEF RewriteTable, world, FreezeInv
<1>1. PICK ox \in 1..(MaxXid + 1), fl \in 1..(MaxXid + 1), mc \in {relminmxid, NextMulti} :
        /\ vacuum_get_cutoffs(RewriteVac(ox, fl, mc))
        /\ pages' = Rewritten(ox, fl, mc)
  BY RewriteChoice, Zenon
<1>2. ox \in Nat /\ fl \in Nat /\ ox <= OldestRunning /\ fl <= OldestRunning
  <2> DEFINE u == RewriteVac(ox, fl, mc)
  <2>1. u.OldestXmin \in relfrozenxid..OldestRunning /\ u.FreezeLimit \in relfrozenxid..u.OldestXmin
    BY <1>1, Zenon DEF vacuum_get_cutoffs
  <2>2. u.OldestXmin = ox /\ u.FreezeLimit = fl
    BY DEF RewriteVac, NoVac
  <2>3. OldestRunning \in 1..(MaxXid + 1) /\ MaxXid \in Nat
    BY <1>0, OldestIsOver, Numbers, Zenon
  <2> HIDE DEF u
  <2> QED
    BY <2>1, <2>2, <2>3
<1>3. pages'[b][o] = IF Copied(pages[b][o], ox)
                     THEN pg_tde_freeze_tuple(pages[b][o], RewriteVac(ox, fl, mc)).after ELSE Free
  BY <1>1, Zenon DEF Rewritten
<1>4. CASE Copied(pages[b][o], ox)
  <2>1. PICK p : p = pg_tde_freeze_tuple(pages[b][o], RewriteVac(ox, fl, mc))
    OBVIOUS
  <2>2. ItemFine(xact, multis, p.after) /\ Keeps(xact, multis, fl, pages[b][o], p.after)
    BY <2>1, <1>0, <1>1, <1>4, RewriteTuple, Zenon
  <2>3. pages'[b][o] = p.after
    BY <2>1, <1>3, <1>4, Zenon
  <2> QED
    BY <2>2, <2>3, <1>0, <1>2, RowFrozen, Zenon
<1>5. CASE ~Copied(pages[b][o], ox)
  <2>1. ~IsTuple(pages'[b][o])
    BY <1>3, <1>5 DEF Free, Item, IsTuple
  <2>2. HTSV(pages[b][o], ox) = "DEAD"
    BY <1>5, Zenon DEF Copied
  <2> QED
    BY <2>1, <2>2, <1>2, RowGone, Zenon
<1> QED
  BY <1>4, <1>5, Zenon

\* Whatever vacuum and rewrites do keeps rows.
LEMMA RowsKept ==
  ASSUME FreezeAssumption, FreezeInv, FreezeInv', [FreezeNext]_freezeVars, touches' = touches, xact' = xact,
         NEW b \in Block, NEW o \in Slot(b), IsTuple(pages[b][o])
  PROVE  RowKept(b, o)
<1>0. FreezeTypeOK /\ touches \in Nat /\ multis \in Seq(SUBSET MemberRec) /\ multis' \in Seq(SUBSET MemberRec)
  BY Zenon DEF FreezeInv, FreezeTypeOK
<1>1. ASSUME UNCHANGED table, UNCHANGED multis PROVE RowKept(b, o)
  <2>1. pages'[b][o] = pages[b][o]
    BY <1>1 DEF table
  <2> QED
    BY <2>1, <1>0, <1>1, NothingMoves, RowSame, Zenon
<1>2. CASE UNCHANGED freezeVars
  <2>1. UNCHANGED table /\ UNCHANGED multis
    BY <1>2 DEF freezeVars, world
  <2> QED
    BY <2>1, <1>1, Zenon
<1>3. ASSUME NEW x \in Xid, End(x) PROVE FALSE
  <2>1. PICK s \in {"committed", "aborted"} : xact' = [xact EXCEPT ![x] = s]
    BY <1>3, Zenon DEF End
  <2>2. xact[x] = "running" /\ xact \in [Xid -> Status]
    BY <1>0, <1>3, Zenon DEF End, Running, FreezeTypeOK
  <2>3. xact'[x] = s
    BY <2>1, <2>2, Zenon
  <2> QED
    BY <2>2, <2>3
<1>4. ASSUME NEW x \in Xid, NEW c \in Block, NEW p \in Slot(c),
             pg_tde_insert(x, c, p) \/ Update(x, c, p) \/ pg_tde_lock_tuple(x, c, p)
      PROVE  FALSE
  <2>1. touches' = touches - 1
    BY <1>4 DEF pg_tde_insert, Update, pg_tde_lock_tuple, compute_new_xmax_infomask, Touch
  <2> QED
    BY <2>1, <1>0
<1>5. CASE pg_tde_vacuum_rel \/ ScanBlock \/ lazy_scan_noprune \/ UpdatePgClass
  <2>1. UNCHANGED table /\ UNCHANGED multis
    BY <1>5 DEF pg_tde_vacuum_rel, ScanBlock, lazy_scan_noprune, UpdatePgClass, world
  <2> QED
    BY <2>1, <1>1, Zenon
<1>6. CASE Prune
  BY <1>6, PruneKeeps, Zenon
<1>7. CASE Prepare
  <2>1. pages'[b][o] = pages[b][o]
    BY <1>7 DEF Prepare, table
  <2>2. multis' = multis \/ \E ms : multis' = Append(multis, ms)
    BY <1>7, Zenon DEF Prepare
  <2>3. Grows(multis, multis')
    BY <2>2, <1>0, AppendGrows, NothingMoves, Zenon
  <2> QED
    BY <2>1, <2>3, RowSame, Zenon
<1>8. CASE DecideFreezing
  BY <1>8, DecideKeeps, Zenon
<1>9. ASSUME NEW c \in Block, lazy_vacuum_pg_tde_page(c) PROVE RowKept(b, o)
  BY <1>9, VacuumPageKeeps, Zenon
<1>10. CASE RewriteTable
  BY <1>10, RewriteKeeps, Zenon
<1> QED
  BY <1>2, <1>3, <1>4, <1>5, <1>6, <1>7, <1>8, <1>9, <1>10, Zenon DEF FreezeNext

\* Freezing, with plans made while transactions end, keeps what headers mean to
\* those who read them: locks, updates and insertions; and a row that goes was
\* dead to all.
THEOREM RowsKeepTheirMeaning ==
  ASSUME FreezeAssumption
  PROVE  FreezeSpec => FreezeKeepsRows
<1> DEFINE Kept == touches' = touches /\ xact' = xact =>
                     \A b \in Block : \A o \in {p \in Slot(b) : IsTuple(pages[b][p])} :
                       LET t == pages[b][o]
                       IN  IF IsTuple(pages'[b][o])
                           THEN /\ Meaning(pages[b][o])' = Meaning(t)
                                /\ pages'[b][o].xmin = t.xmin \/ t.xmin < OldestRunning
                           ELSE HTSV(t, OldestRunning) = "DEAD"
<1>1. FreezeInv /\ FreezeInv' /\ [FreezeNext]_freezeVars => [Kept]_freezeVars
  <2> SUFFICES ASSUME FreezeInv, FreezeInv', [FreezeNext]_freezeVars, touches' = touches, xact' = xact,
                      NEW b \in Block, NEW o \in Slot(b), IsTuple(pages[b][o])
               PROVE  IF IsTuple(pages'[b][o])
                      THEN /\ Meaning(pages[b][o])' = Meaning(pages[b][o])
                           /\ pages'[b][o].xmin = pages[b][o].xmin \/ pages[b][o].xmin < OldestRunning
                      ELSE HTSV(pages[b][o], OldestRunning) = "DEAD"
    BY Zenon
  <2>1. RowKept(b, o)
    BY RowsKept, Zenon
  <2>2. Meaning(pages[b][o]) = MeaningOf(xact, multis, pages[b][o])
    BY Zenon DEF Meaning, MeaningOf, Members, MembersOf, Running, DidCommit, Committed
  <2>3. Meaning(pages[b][o])' = MeaningOf(xact, multis', pages'[b][o])
    BY Zenon DEF Meaning, MeaningOf, Members, MembersOf, Running, DidCommit, Committed
  <2> QED
    BY <2>1, <2>2, <2>3, Zenon DEF RowKept
<1>2. FreezeSpec => []FreezeInv
  BY FreezeInvariance
<1> QED
  BY <1>1, <1>2, PTL DEF FreezeSpec, FreezeKeepsRows
=============================================================================
