----------------------------- MODULE XactHandler -----------------------------
(***************************************************************************)
(* The transaction callbacks of pg_tde (src/transam/pg_tde_xact_handler.c)  *)
(* in one backend: the list of key files (relfilenode.tde) to unlink when   *)
(* the transaction, or a subtransaction of it, ends.                        *)
(*                                                                          *)
(* The list pendingDeletes is kept as a set of entries: every entry is      *)
(* handled on its own and unlinking a path twice is only a WARNING, so the  *)
(* list's order and duplicates have no effect.                              *)
(*                                                                          *)
(* committed, created, dropped and prepared are history variables: what the *)
(* catalogs say, under the server's transaction semantics, about the        *)
(* relation a key file belongs to.  No guard of the modelled code reads     *)
(* them; they only keep the callers to paths that exist.                    *)
(***************************************************************************)
EXTENDS Naturals

CONSTANTS
  Path,           \* key file paths, one per relfilenode
  MaxNest,        \* bound on the transaction nest level (1: no savepoints)
  UnlinkMayFail,  \* durable_unlink(path, WARNING) may leave the file in place
  TwoPhase        \* PREPARE TRANSACTION is used

ASSUME XactAssumption ==
  /\ MaxNest \in Nat \ {0}
  /\ UnlinkMayFail \in BOOLEAN
  /\ TwoPhase \in BOOLEAN

VARIABLES
  nestLevel,       \* GetCurrentTransactionNestLevel(); 0 between transactions
  pendingDeletes,  \* head of the list of PendingFileDelete entries
  files,           \* key files on disk
  committed,       \* history: key files of the relations in the catalogs
  created,         \* history: per open level, key files created by it
  dropped,         \* history: per open level, key files it asked to drop
  prepared         \* history: what the prepared transaction created, dropped

vars == <<nestLevel, pendingDeletes, files, committed, created, dropped, prepared>>

Level == 1..MaxNest
Nothing == [l \in Level |-> {}]
Entry == [path : Path, atCommit : BOOLEAN, nestLevel : Level]
Union(f) == UNION {f[l] : l \in Level}

\* pendingDeletes (the linked list of pg_tde_xact_handler.c) holds entries of
\* real nest levels only; the rest is the server's view of relations and files.
TypeOK ==
  /\ nestLevel \in 0..MaxNest
  /\ pendingDeletes \in SUBSET Entry
  /\ files \in SUBSET Path
  /\ committed \in SUBSET Path
  /\ created \in [Level -> SUBSET Path]
  /\ dropped \in [Level -> SUBSET Path]
  /\ prepared \in [inUse : BOOLEAN, created : SUBSET Path, dropped : SUBSET Path]

NoPrepared == [inUse |-> FALSE, created |-> {}, dropped |-> {}]

Init ==
  /\ nestLevel = 0
  /\ pendingDeletes = {}
  /\ files = {}
  /\ committed = {}
  /\ created = Nothing
  /\ dropped = Nothing
  /\ prepared = NoPrepared

-----------------------------------------------------------------------------
(* The list operations.                                                     *)

RegisterAtTopLevel(path, atCommit) ==
  pendingDeletes' =
    pendingDeletes \cup {[path |-> path, atCommit |-> atCommit, nestLevel |-> 1]}

RegisterFileForDeletion(path, atCommit) ==
  pendingDeletes' =
    pendingDeletes \cup
      {[path |-> path, atCommit |-> atCommit, nestLevel |-> nestLevel]}

\* The entries do_pending_deletes takes off the list.
Processed(level) == {e \in pendingDeletes : e.nestLevel >= level}

\* The files it is called to unlink.
UnlinkIgnoringFlag(isCommit) == {e.path : e \in Processed(nestLevel)}
ToUnlink(isCommit) ==
  {e.path : e \in {f \in Processed(nestLevel) : f.atCommit = isCommit}}

do_pending_deletes(isCommit) ==
  /\ pendingDeletes' = pendingDeletes \ Processed(nestLevel)
  /\ \E failed \in IF UnlinkMayFail THEN SUBSET ToUnlink(isCommit) ELSE {{}} :
       files' = files \ (ToUnlink(isCommit) \ failed)

\* After a COMMIT the list is empty already; after a PREPARE the entries go.
pending_delete_cleanup == pendingDeletes' = {}

-----------------------------------------------------------------------------
(* What a transaction does between its callbacks.                           *)

Begin ==
  /\ nestLevel = 0
  /\ nestLevel' = 1
  /\ UNCHANGED <<pendingDeletes, files, committed, created, dropped, prepared>>

Savepoint ==
  /\ nestLevel \in 1..(MaxNest - 1)
  /\ nestLevel' = nestLevel + 1
  /\ UNCHANGED <<pendingDeletes, files, committed, created, dropped, prepared>>

\* A relfilenode is free when no relation, committed, in progress or prepared,
\* has storage under it.  A stale key file may still lie at the path.
FreePath(p) ==
  p \notin committed \cup Union(created) \cup prepared.created

LivePath(p) ==
  p \in (committed \cup Union(created)) \ (Union(dropped) \cup prepared.dropped)

CreateKeyFork(p) ==
  /\ nestLevel > 0
  /\ FreePath(p)
  /\ files' = files \cup {p}
  /\ RegisterFileForDeletion(p, FALSE)
  /\ created' = [created EXCEPT ![nestLevel] = @ \cup {p}]
  /\ UNCHANGED <<nestLevel, committed, dropped, prepared>>

DeleteKeyFork(p) ==
  /\ nestLevel > 0
  /\ LivePath(p)
  /\ RegisterFileForDeletion(p, TRUE)
  /\ dropped' = [dropped EXCEPT ![nestLevel] = @ \cup {p}]
  /\ UNCHANGED <<nestLevel, files, committed, created, prepared>>

-----------------------------------------------------------------------------
(* The callbacks.                                                           *)

Reset == nestLevel' = 0 /\ created' = Nothing /\ dropped' = Nothing

CommitCallback ==
  /\ nestLevel = 1
  /\ do_pending_deletes(TRUE) /\ pendingDeletes' = {}
  /\ committed' = (committed \cup created[1]) \ dropped[1]
  /\ Reset
  /\ UNCHANGED prepared

AbortCallback ==
  /\ nestLevel = 1
  /\ do_pending_deletes(FALSE)
  /\ Reset
  /\ UNCHANGED <<committed, prepared>>

PrepareCallback ==
  /\ nestLevel = 1
  /\ TwoPhase /\ ~prepared.inUse
  /\ pending_delete_cleanup
  /\ prepared' = [inUse |-> TRUE, created |-> created[1], dropped |-> dropped[1]]
  /\ Reset
  /\ UNCHANGED <<files, committed>>

pg_tde_xact_callback == CommitCallback \/ AbortCallback \/ PrepareCallback

\* COMMIT PREPARED and ROLLBACK PREPARED run in a transaction of their own,
\* whose pendingDeletes list is empty: the callbacks have nothing to do.
FinishPrepared(isCommit) ==
  /\ nestLevel = 0
  /\ prepared.inUse
  /\ committed' = IF isCommit
                    THEN (committed \cup prepared.created) \ prepared.dropped
                    ELSE committed
  /\ prepared' = NoPrepared
  /\ UNCHANGED <<nestLevel, pendingDeletes, files, created, dropped>>

\* RELEASE SAVEPOINT: the server moves the subtransaction's effects to its
\* parent; the callback ignores SUBXACT_EVENT_COMMIT_SUB.
SubCommit ==
  /\ nestLevel > 1
  /\ nestLevel' = nestLevel - 1
  /\ created' = [created EXCEPT ![nestLevel - 1] = @ \cup created[nestLevel],
                                ![nestLevel] = {}]
  /\ dropped' = [dropped EXCEPT ![nestLevel - 1] = @ \cup dropped[nestLevel],
                                ![nestLevel] = {}]
  /\ UNCHANGED <<pendingDeletes, files, committed, prepared>>

\* ROLLBACK TO SAVEPOINT and errors: SUBXACT_EVENT_ABORT_SUB.
SubAbort ==
  /\ nestLevel > 1
  /\ do_pending_deletes(FALSE)
  /\ nestLevel' = nestLevel - 1
  /\ created' = [created EXCEPT ![nestLevel] = {}]
  /\ dropped' = [dropped EXCEPT ![nestLevel] = {}]
  /\ UNCHANGED <<committed, prepared>>

pg_tde_subxact_callback == SubCommit \/ SubAbort

Next ==
  \/ Begin
  \/ Savepoint
  \/ \E p \in Path : CreateKeyFork(p) \/ DeleteKeyFork(p)
  \/ pg_tde_xact_callback
  \/ pg_tde_subxact_callback
  \/ \E isCommit \in BOOLEAN : FinishPrepared(isCommit)

Spec == Init /\ [][Next]_vars

-----------------------------------------------------------------------------
(* Properties.                                                              *)

\* A key file of a relation in the catalogs goes away only in the commit of
\* the transaction that drops the relation: no abort, savepoint rollback or
\* left-over list entry of another transaction unlinks it.
UnlinkOnlyAtDroppersCommit ==
  [][\A p \in committed : p \in files /\ p \notin files'
        => nestLevel = 1 /\ nestLevel' = 0 /\ p \in dropped[1] /\ p \notin committed']_vars

\* Every key file an open transaction has created and that is still on disk
\* is on the list for deletion at abort, with a level deep enough for the
\* abort of the (sub)transaction that owns the relation to reach it.
UncommittedFilesScheduled ==
  \A l \in Level : \A p \in created[l] \cap files :
    \E e \in pendingDeletes : e.path = p /\ ~e.atCommit /\ e.nestLevel >= l

\* Every relation in the catalogs has its key file.
CommittedFilesKept == committed \subseteq files

=============================================================================
