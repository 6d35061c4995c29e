# pg_tde: verification project

`pg_tde` is a PostgreSQL 16 extension: a table access method forked from the
heap that encrypts tuples, with one internal key per relation stored in a
`.tde` file beside the relation, itself encrypted with a master key of a
keyring.  Paths below are those of the repository, whose C sources are in
`src/`.

## Inventory

| Component | State | Operations | Interacts with | What is hard, what makes it correct |
|---|---|---|---|---|
| Pending deletes (`src/transam/pg_tde_xact_handler.c`) | `pendingDeletes`, a backend-local list of (path, atCommit, nestLevel) | register, transaction and subtransaction callbacks | key fork creation and drop; the server's transaction manager | savepoints, two-phase commit, failing unlink. A committed relation keeps its key file; an aborted one leaves none |
| Keyring (`src/keyring/`) | the cache in shared memory (1024 slots, `keyCount`), the file or Vault store | get, get latest, generate, store | key fork reading and writing | no lock; errors raised by `longjmp`; restart. What a fork is encrypted with can be fetched again |
| Relation keys (`src/access/pg_tde_tdemap.c`, `pg_tde_ddl.c`) | `.tde` files, the WAL record `XLOG_TDE_CREATE_FORK`, a backend-local cache `tde_rel_key_map` | create, write, read, cache, delete, redo | pending deletes, keyring, access method callbacks | crash between log, write and disk; checkpoint; relation numbers reused. The rows of a relation are readable as long as it exists |
| Tuple encryption (`src/encryption/`) | none | `pg_tde_crypt`: a counter-mode XOR in batches | every reader and writer of pages | block and batch boundaries. Encrypting and decrypting use the same keystream byte for a byte |
| Page compaction (`src/access/pg_tde_prune.c`) | a page | `TdePageRepairFragmentation`, `pgtde_compactify_tuples`, pruning | encryption (the keystream depends on the tuple's offset) | overlapping moves, re-encryption. No live tuple is lost or garbled |
| TOAST (`src/access/pg_tdetoast.c`) | chunks of a value; the tuple in the executor's slot | toast a row for insert, update or delete; encrypt and store; fetch a slice | encryption, heap operations, the executor | chunk and slice arithmetic, missing chunks; what is encrypted, where it lies and who uses it afterwards. A row reads back as it was written |
| Visibility (`src/access/pg_tdeam_visibility.c`) | tuple header, hint bits | `HeapTupleSatisfies*` | transaction status, snapshots | transactions that end during a check; hint bits and crashes |
| Heap operations (`src/access/pg_tdeam.c`) | pages | insert, delete, update, lock, speculative insertion | visibility, pruning, placement, TOAST, WAL | sleeping on other transactions without the buffer lock |
| Scans (`src/access/pg_tdeam.c`, `pg_tdeam_handler.c`) | scan descriptor: position, direction, limits; the shared allocator of a parallel scan | begin, rescan, set limits, fetch; next block for a worker | heap pages, which others change meanwhile | wrap-around, turning, limits at a border. A scan is a cursor: every row once, in order |
| Freezing (`src/access/pg_tdeam.c`, `pg_tde_vacuumlazy.c`) | tuple headers, multixacts, `relfrozenxid`, `relminmxid` | plan and execute the freezing of a page; skip pages; update `pg_class` | vacuum, rewrite, transaction status | members of a multixact end while it is judged; pages skipped by bits read earlier. The status of a transaction is discarded only when no header needs it |
| Vacuum (`src/access/pg_tde_vacuumlazy.c`) | dead items, visibility map, free space map | three phases and truncation | pruning, indexes, freezing, placement | concurrent backends between the phases |
| Rewrite (`src/access/pg_tde_rewrite.c`, `pg_tdeam_handler.c`) | two hash tables of half-seen update chains; a new heap whose pages are not in shared buffers; mappings for logical decoding, one file per transaction | copy for CLUSTER and VACUUM FULL, rewrite and dead tuples, end, checkpoint of the mappings, redo | heap, WAL, checkpoints, logical decoding | order in which chain members arrive; checkpoints and crashes beside it. No version is lost, chains lead where they led |
| Tuple placement (`src/access/pg_tde_io.c`), visibility map (`src/access/pg_tde_visibilitymap.c`) | buffer locks and pins, two bits per page, free space map | get buffer for tuple, extend; pin, set, clear, truncate | heap, vacuum | lock order, pages that change before they are locked, bits that are set while not true. A tuple gets a page it fits on, and nobody waits forever |
| DML redo functions of `pg_tdeam.c` | | | | not reachable: `src/pg_tde.c` registers only the resource manager of key forks, DML records carry the core heap's identifiers |
| Keyring configuration, initialisation | GUCs | parsing at startup | | no behaviour of its own |


## Modules

| Module | Models | Composition |
|---|---|---|
| `XactHandler` | pending deletes of key files, with savepoints, prepared transactions and failing unlinks | proofs in `TransactionProofs` |
| `Keyring` | the key cache in shared memory, the file and Vault providers, the two callers | proofs in `KeyringProofs`; one step per access to shared memory or provider |
| `RelationKeys` | abstract: a relation has one key from its creation to its drop | implemented by `TdeMap` |
| `TdeMap` | key files, their log record and redo, the backend cache, DDL, checkpoints and crashes | proofs in `TdeMapProofs`; `INSTANCE RelationKeys`; pending deletes are the flat case of `XactHandler`, master keys are left to `Keyring` |
| `Crypt` | the batch loop of `pg_tde_crypt` | proofs in `EncryptionProofs` |
| `Compactify` | `TdePageRepairFragmentation` with `pgtde_compactify_tuples` | a tuple's keystream is what `Crypt` shows: a function of the byte's position |
| `Toast` | encryption of an out-of-line value and the fetch of a slice | proofs in `EncryptionProofs`; keystreams as in `Compactify` |
| `ToastRow` | rows with long values through INSERT, UPDATE, DELETE and speculative insertion | proofs in `EncryptionProofs`; values are whole; their chunks are `Toast` |
| `Visibility` | the visibility checks, hint bits, delete and row lock of one tuple | proofs in `VisibilityProofs` |
| `HeapPage` | one page with an index: inserts, deletes, HOT, ordinary and moving updates, pruning, index fetches, lazy vacuum | proofs in `HeapPageProofs`; what a snapshot sees is a function of transaction states (`Visibility`), where tuples lie is left to `Compactify` |
| `Placement` | the search for a page and the extension of the table, with the visibility map and a vacuum that truncates | proofs in `PlacementProofs`; a page is the number of its tuples, the tuples are `HeapPage`'s |
| `Freeze` | freezing by vacuum and rewrite, skipping, the horizons in `pg_class` | proofs in `TransactionProofs`; visibility is a function of transaction states, as in `HeapPage` |
| `Cursor` | abstract: what a scan promises whoever fetches from it | implemented by `Scan` |
| `Scan` | sequential, block range, TID range and parallel scans | proofs in `ScanProofs`; `INSTANCE Cursor` |
| `Rewrite` | CLUSTER and VACUUM FULL: chains, new pages, mapping files, checkpoints, crashes, redo | freezing on the way is left to `Freeze` |

`MC*` modules hold the definitions a configuration needs.  Two of them run
several modules that share no state, one at a time: `task` picks one in the
initial state and the others stand still.  `MCParts` does so with `Crypt`,
`Toast`, `Compactify`, `ToastRow` (without speculative insertions, which have
a run of their own) and `Scan`; `MCTransactions` with `XactHandler` ("files")
and `Freeze` ("headers").  `MCVisibility` has a VIEW: where no crash can come
and every commit is flushed, nothing reads the log's records, the disk or the
LSNs, and a transaction that ended matters only as long as a header names it.

### How state and actions correspond to the code

**`XactHandler`.**  `pendingDeletes` is the list of the same name as a set of
(path, atCommit, nestLevel).  `nestLevel` is `GetCurrentTransactionNestLevel`.
`RegisterFileForDeletion` is the registration,
`pg_tde_xact_callback` and `pg_tde_subxact_callback` with `do_pending_deletes`
and `pending_delete_cleanup` are part of the actions that end a transaction or
savepoint, as they are in the server.  Which relation is committed is kept
beside it, as history for the properties.

**`Keyring`.**  `keys` and `keyCount` are `keyringCache`.  `pc` says where a
backend is; each read or write of the shared cache, each provider request and
each half of the file dump is a step of its own, because none of them is under
a lock (`keyCount++` is a load and a store), and a search of the cache and the
request that follows it are two steps.  `elog(ERROR)` leaves the call without the
code after it.  `Restart` may come at any point.

The code does lose keys, in ways that no property can forbid.  Two history
variables, which no action reads, say when:

* `raced` is set for good when a backend starts to fill the cache while another one
  is in `keyringCacheStoreKey` or in the store behind it, or when it takes a key out of
  the cache that its owner has not stored yet.
* `orphans` are the keys whose store died (the `longjmp` past `keyCount--` leaves such
  a key in the cache) and the keys that were in the file when `fopen(.., "w")`
  emptied it, until a dump has them again.

Everything else is in: other backends search the cache, hold pointers into it and
wait for the vault while one of them enters a key, stores it, has it refused and
takes it out again, or dies doing so.  What happens beyond the first door is in the
model too, up to `TakePointer`, whose guard stops a call where the pointer would name
memory outside of the slots; `TypeCorrect` and `VaultWrittenOnce` speak of that part
as well.

**`TdeMap`.**  `disk` and `durable` are the `.tde` files as processes see them
and as a system crash would leave them; `wal`, `flushed` and `redo` are the log
records of key forks, the flushed part of it and the checkpoint's redo pointer.
`pg_tde_create_key_fork` logs, `pg_tde_write_key_fork` writes, and a crash or a
failed write can come in between.  `catalog`, `txn` and `pages` are the server
around the code, and are marked external.

**`Crypt`.**  `batch_start_block`, `batch_no` and the bytes done are those of
the loop in `pg_tde_crypt`; AES is a keystream that depends on the block
number and the byte in the block only.  The 100-block batch is the constant
that bounds the buffer.

**`Compactify`.**  A byte of the page is a cell: whose byte it is, and the set
of keystream positions it is XORed with, so that encrypting twice with one
position cancels and decrypting with another does not.  `upper`, `copy_tail`,
`copy_head` and `i` are the locals of the loop, an iteration is a step.

**`Toast`.**  Cells as above; one step per chunk of the scan.

**`ToastRow`.**  `stmt` is a statement with the tuple in its slot, `rows` and
`toast` what lies on the pages of the table and its TOAST table, `want` what
the statement was told to write.  Bytes carry `enc`: whether they are under the
keystream, so that encrypting twice gives the plain bytes back.  Which
attributes the rounds of `pg_tde_toast_insert_or_update` compress (`zip`) and
push out (`out`) is any choice that makes the row fit and no larger one than
needed; a value is encrypted in the memory it lies in, which is the slot's
tuple unless it was compressed or fetched.  `DeformOnPage` is what the toaster
reads of an old tuple that it is given as it lies on the page.

**`Visibility`.**  One tuple, its header as a record.  The
`HeapTupleSatisfies` functions look at the inserter's hint bits, at the proc
array, at the commit log, then at the deleter likewise; each look is a step and
transactions begin and end in between.  Their differences are the tables of
conclusions (`Verdict`-like operators `DeletedByMe`, `Reports`, `Horizon`).
`pg_tde_delete` and `pg_tde_lock_tuple` hold the buffer exclusively while they
look and write, and not while they sleep.  `wal` is the log of commits and of
changes of the tuple; a crash cuts it at `flushed` and replays what is left on the
page on disk (`Redo`: the last change wins, it brings no hint bits of `xmin`).

**`HeapPage`.**  `lp` is the line pointer array, each pointer with its tuple's
header: `ctid`, `heapOnly` and `hotUpdated` are what makes chains.  `pruneXid`,
`full` and `allVisible` are `pd_prune_xid`, `PD_PAGE_FULL` and `PD_ALL_VISIBLE`
with the bit of the visibility map.  An action is what a backend does under one
lock of the buffer.  An update that does not fit is two: `UpdateLock` leaves the
old tuple locked and the page unlocked (and pinned), `UpdateHere` or
`UpdateMove` finishes it.  `pg_tde_page_prune` judges all tuples first (`Seen`,
by a horizon that may move once on the way), then plans chain by chain
(`heap_prune_chain`: `FollowChain` is one turn of its loop), then executes the
plan.  `vac` is the vacuum: what it read from the visibility map, its
`OldestXmin` and the dead items it collected; each pass over the page and the
pass over the index is an action, so that other backends come in between.
`rows`, `made` and `gone` are history: the rows that exist by what transactions
did, whatever is left on the page.

**`Placement`.**  `lock` is the owner of each page's buffer lock, `be` the
locals of each backend, the map pages it has pinned (`vmTarget`, `vmOther`)
among them.  A step ends where a lock is taken or given up, or where
`PD_ALL_VISIBLE` is read of a page that is not locked.  The targets of the
search (target block of the relcache, free space map, last page, extension) are
taken in the order of `pg_tde_RelationGetBufferForTuple`;
`GetVisibilityMapPins` gives both locks up and takes them in block order.  The
caller's critical section, with the PANIC of a page that turns out full and the
error of `visibilitymap_clear` for a wrong map page, is the last step.  Vacuum
empties pages, marks them, counts the empty pages at the end from behind and
truncates; it gives its relation lock up when someone waits.  A pinned page is
not pruned (`Pinned`), but vacuum may still mark it.  An insert of one row is
the bulk insert of one.  Left out: the release of superfluous pins, and COPY
FREEZE.  `RelationTruncate` calls the server's
`visibilitymap_prepare_truncate`, of which the repository holds the same text.

**`Freeze`.**  `vac` is `LVRelState`: cutoffs, trackers and where the scan is.
`Prepare` plans one tuple per step (`pg_tde_prepare_freeze_tuple` with
`FreezeMultiXactId`) and `DecideFreezing` executes the plans of a page or none,
so that transactions end between two tuples and between planning and executing.
PD_ALL_VISIBLE and the map's bits are kept as one, so that the branches that
repair a difference between them (lines 1124 to 1163 of `pg_tde_vacuumlazy.c`)
have nothing to do.  The table has an index: without one, the second pass does
the same to a page at once.  A check that a transaction is not running and the
look at its commit status are one step here and two in `Visibility`, which also
has the hint bits.  Left out: `xmax` of upgraded clusters, `xvac`, multixacts
without members, the MultiXact cache.  The comments "TODO decrypt" (about line
2023 of `pg_tde_vacuumlazy.c`, 6785 of `pg_tdeam.c`) are about reads of
headers, and headers are never encrypted.

**`Scan`.**  `sc` is the scan descriptor of a worker: `rs_cblock`,
`rs_startblock`, `rs_numblocks`, and for page mode the offsets found visible when
the page was read.  One step reads a page or moves to the next offset.  `prm` is
what the scan was begun with.  A synchronized scan may start at any block.  Page
mode is that of MVCC snapshots; a scan without it sees passing rows too.  The
refinement mapping numbers the places of the table in the order of the scan, so
that the cursor's position is the number of the row returned last.  Scan keys
(`HeapKeyTest`) are left out: they drop rows after the cursor has moved.

**`Rewrite`.**  The history phase makes the old heap: what transactions and
vacuums can have left, with line pointers reused.  `unresolved` and `tidMap`
are the hash tables `rs_unresolved_tups` and `rs_old_new_tid_map`; `cur` is the
copy in hand, whose insertion and the resolving of links through it (`Resolve`)
are the turns of the loop in `rewrite_pg_tde_tuple`.  Of the new heap there is
the page under construction, the blocks written and those synced, and the log;
of a mapping file what is in memory (`pending`), written and synced.  Records
of mappings are replayed by the server's `heap2_redo`, and its checkpoints call
the server's `CheckPointLogicalRewriteHeap`; the repository's copies have the
same text.  The table is logged (`RelationNeedsWAL`).  The mark of a row that
moved to another partition becomes a `t_ctid` to itself, as in the server.  A
crash before the commit is not modelled: the files of the new heap are then
never read.

## Runs

TLC runs the passing runs of this table to the end of the state space; a run
marked **violation** ends with a counterexample.

| Run | Module and bounds | Shows |
|---|---|---|
| `transactions` | `XactHandler`, savepoints to depth 3, two-phase commit. `Freeze`: 4 transactions; two vacuums of two pages, or one of rows that two or three transactions update and lock | an uncommitted file is scheduled for removal at the level that created it; a committed file is unlinked only by the commit of the transaction that dropped it. No header holds an id older than `relfrozenxid` or `relminmxid`; freezing leaves every row what it was to every reader; an aggressive vacuum gets as far as its cutoff, and none reports corruption |
| `xact_savepoint` | `XactHandler`, depth 2 | **violation**: a released savepoint's entry keeps its level, and rolling back a later sibling unlinks the key of a relation that commits |
| `keyring` | two backends, three providers that refuse, fail, die or answer, 0 or 1 version in the vault, 2 keys generated, 2 forks, 4 slots, restarts | unless the backends raced: the key of a fork is in the store after a restart at any point; a fork is decrypted with its own key, whoever enters or takes back keys meanwhile; the cache agrees with the store; calls end.  Orphaned keys excepted |
| `keyring_race` | two backends, vault without keys, requests that do not die | **violation**: both get 404 for version 1 before either has stored it and both generate it; the first stores its key and encrypts a fork, the POST of the second replaces that key |
| `parts` | `Crypt`: batches of two blocks, every offset to 40 and length to 70 | the keystream byte of a position does not depend on the range; all bytes are processed |
| | `Toast`: values to 17 bytes in chunks of 5, offsets around chunk borders, any chunks missing | a slice is complete and decrypted, or an error; copies fit the buffer |
| | `Compactify`: 3 tuples of two lengths, 3 to 6 line pointers (with 6, two surviving tuples take the copy-one-by-one path), every order, every subset that survives | no tuple is overwritten before it is moved, line pointers and free hint are right; the tuples of a uniform page still decrypt |
| | `ToastRow`: 2 attributes, 2 texts of which one compresses, 3 statements | committed rows read back as they were meant |
| | `Scan`: tables to 3 blocks of 2 line pointers, 1 change, 2 workers | a scan is a cursor: `Scan` implements `Cursor` (but for limited scans that turn, see below); a parallel scan returns every row once |
| `compact_unequal` | `Compactify`, lengths 3 and 6 | **violation**: a tuple is re-encrypted with its neighbour's length |
| `toast_row` | `ToastRow` with speculative insertions | **violation**: the value was encrypted in the slot's tuple; the second attempt encrypts it again, and the row reads back as ciphertext |
| `tde_map_kept` | 2 backends, 2 relation numbers, 2 tablespaces, 2 keys, 2 crashes; a sheltered environment and one where the operating system crashes and tables move | keys are lost only through the two doors named below; logged keys are recovered; `TdeMap` implements `RelationKeys` |
| `visibility` | 2 backends; 4 transactions that delete and lock; 3 with 2 commands and MVCC snapshots; 3 with dirty snapshots; 2 with asynchronous commit and a crash beside vacuum | one committed deleter; a row lock and a delete exclude each other; MVCC snapshots are exact; a dirty check that reports nobody is conclusive; no check says invisible of a tuple the command sees; hint bits are true; what vacuum calls dead no snapshot sees |
| `heap_page` | 1 row at the start and 2 more tuples, 3 line pointers, 2 keys, 2 writing transactions, 1 reader; the page holds 2 tuples | under a snapshot, sequential and index scans return the right versions once each; a line pointer never comes to lead to another version; pruning leaves no dead tuple behind, whenever the horizon moves; what vacuum collected is dead until it frees it; the all-visible bit is true |
| `rewrite` | 1 row at the start, 3 places, 3 transactions, 4 changes, new pages of 2 tuples; with one change also 1 checkpoint, 2 crashes, logical decoding and partition moves | every version a snapshot may need is in the new heap, after crashes too; update links lead to the copy of what they led to; the mapping files hold every move that decoding needs |
| `placement` | 2 full pages, at most 4; one backend bulk inserts or updates, one appends or updates, beside a vacuum; pages of 2 tuples, map pages of 2 blocks | no PANIC and no error of the map; no row is cut off; the map has no bit that the page does not have, for pages cut off and added again too; operations end |

**Why the bounds are enough.**  The savepoint depth of 3 allows two levels of
release above a sibling.  A cache of five slots is larger than the keys that
can be generated, so that no run stops at the end of the cache.  In `Crypt` and
`Toast` the interesting cases are the positions of the range relative to block,
batch and chunk borders, and the ranges cover every combination of first, inner
and last one.  Three tuples are the least with a moved run before and after a
gap.  Two crashes let one come during recovery from the other.  Two backends
and three transactions let a transaction end between two looks of a check while
a third takes its place; the fourth transaction of the workload with locks is a
second locker while a deleter sleeps.  The log bound is what these transactions
can write.  In `HeapPage` the row at the start is at line pointer 2, so that
there is a free pointer before it and one after it and a chain may run in
either direction; two transactions and two new tuples make a chain of three; a
page for two tuples fills up, so that updates have to leave it and pruning
becomes worth while; and a horizon that lags by one transaction is the least
with which a chain is judged by two horizons.

In `Rewrite` four changes make a chain of three versions whose first place is
reused by another row, which is what the hash tables have to tell apart; a page
of two tuples is flushed while the third waits, a flush of two mappings leaves
one in memory, and of two crashes one comes during recovery.  With faults one
change is enough: what can be lost is a page or a mapping, not a link.  In
`Placement` both pages are full, so that every operation has to look for another
one and the table grows by one block or two; four blocks lie under two map
pages, so that the page locked need not belong to the map page pinned.  In
`Freeze` two pages let one be skipped and the other frozen, three touches make a
multixact with an updater and a locker in it, a second vacuum meets what the
first left.  In `Keyring` two keys can be generated beside one that is stored, so
that a backend finds, misses, enters and takes back keys beside the other.  Two
that asked the vault for the same key enter it twice; four slots are enough for
that, as before a race no call ends at the last slot, which `CallsEnd` would show.
In `Scan` three blocks have a first, an inner and a last one for
every start block, with an empty page among them; ranges lie inside, at and past
the ends.

**Fairness.**  `Keyring` (`CallsEnd`) has weak fairness of each backend's next
step: a process inside the keyring waits for no other process (there is no
lock), and requests end, with an answer or an error.  After a race the property
asks nothing: a loop may then follow versions that the other backend keeps adding,
and `keyCount` may be below zero.  Starting calls and
restarting are not assumed to happen.  `Placement` (`OperationsEnd`) has weak
fairness of each backend's and of vacuum's next step: a process that is not
waiting for a lock runs on, and a lock that stays free is granted.
Starting an operation or a vacuum is not assumed.  Nothing is assumed of the
order in which waiters get a lock, so that a deadlock or an endless search
shows.

`CHECK_DEADLOCK FALSE` is used where the bounded system really ends: an
algorithm that is done, or all transactions, keys, statements or crashes used
up.  A deadlock of buffer locks is a violation of `OperationsEnd`.

## Proofs

`TransactionProofs`, of `XactHandler` (for any set of paths and any nesting bound):

* `TypeCorrect`: the type invariant.
* `CommittedFilesSafe`: no step unlinks a key file for a commit except the
  commit of the transaction that dropped it.
* `AbortReachesEveryNewFile`: if unlink does not fail, a file that an open
  transaction created and nobody committed is on the list for abort.
* `FlatKeepsFiles`: without savepoints, no committed relation loses its key
  file; the counterpart of the violation run.

They rest on one inductive invariant `IInv`, proved in `Invariance` with one
step per action.  Besides the types it says that levels that are not open have
created and dropped nothing (`OpenLevelsOnly`), that an entry for commit belongs
to a drop an open level still answers for (`DropsAnswered`), and that no entry
for abort names a committed file (`AbortEntriesUncommitted`).  None of the
properties says this by itself, and each needs it when a transaction ends.
`FlatKeepsFiles` adds that a path has one owner and owners have their files.

`EncryptionProofs`, of `Crypt` (for every batch size, offset and length):
`CryptCorrect`, the loop
uses the keystream byte of the position and stays in the batch buffer, and
`NothingLeftOut`, it leaves no byte out.  The invariant adds where the next batch
starts (`Aligned`): at the keystream position of the next data byte, or past the
end.

`EncryptionProofs`, of `Toast` (for every chunk size, header length, value, slice
and set of missing chunks): `ToastTypeCorrect`; `SliceFetched`, a fetch without an error returns
the bytes of the slice, decrypted; `CopiesFit`, no copy passes the end of its
buffer.  The loop invariant says that every byte of the slice that lies before
the next expected chunk is the right one (`Fetched`); `SliceChunks` and
`ChunkWindow` are the arithmetic of chunks, proved from the quotient and rest of
a division.

`EncryptionProofs`, of `ToastRow` (for any number of long values, any texts, row
sizes and plain statements; `ToastRowAssumption` says that attributes are finitely
many numbers): `RowTypeCorrect`; `RowsReadBack`, a visible row reads back as its
statement meant it.  The invariant says that what lies in a row, or in the slot of
the statement under way, reads back (`Reads`), that a row's entries have its fate
(`Lasts`) and that an UPDATE still sees the row it replaces (`StmtFine`).  Both
need that the toaster takes nothing on the page for a toast pointer, and so deletes
no entry (`OnPageNoPointer`, the deviation below), and that entries are numbered
without a gap (`Ranks`).  With speculative insertions it is false (`toast_row`).

`TdeMapProofs` (for any relations, files, transactions and bounds):

* `TypeCorrect`, in every environment.
* `KeysFound` and `KeysRecovered`, and `RelationKeysImplemented`, the refinement of
  `RelationKeys`: where relation numbers are not used twice.  With reuse the key
  cache gives a relation somebody else's key, the deviation below.

The invariant relates log, checkpoint and disk positions (`LogPositions`), keeps
keys of different files apart (`KeysFresh`) and says, under no reuse, which
numbers are in use and by whom (`NumbersUsed`, `NumbersUnique`, `Creators`,
`Takers`), that cache, file and relation agree on the key (`KeysAgree`), that a
pending entry answers for each file that is created or dropped
(`PendingAnswered`), that a commit has flushed the record of its file
(`CommittedFlushed`) and that a file missing on disk has its record after the
redo point (`RecordsExist`, `FilesKept`).

`KeyringProofs` (for any finite number of backends, any limits, a store that refuses,
fails or dies in the middle of a request, and restarts between any two steps):

* `TypeCorrect`, races included.  No more keys are generated than the bound
  allows, because a value is reserved for every call that may still generate
  one (`Reserved`), and no name is higher than the last value (`NamesBounded`).
* `VaultWrittenOnce`, races included: a vault that has version 1 when the server
  starts is never written again (`Untouched`).  All races lead through the first key or
  the shared cache.
* `ForksKept`, `OwnKeyReturned` and `CacheAgrees`: the three invariants of the run.

The invariant of the last three (`IInv`) is the types, and `Good` as long as nobody raced.
One backend at most is between the start of `keyringCacheStoreKey` and the end of its
store (`OneActive`), which is what the door says, and the rest is what the others
may rely on meanwhile.  A slot is `Settled` when no refused store can take it back:
all in use, but the last one while its key is not stored.  Pointers are to settled
slots only (`PointersOK`), a settled slot holds what the store has or an orphan
(`CacheOK`), and the active backend's key is in the last slot under a name the
store does not have (`ActiveOK`), so that storing it takes nothing from a fork
(`ForksOK`).  For the file provider names are distinct in cache and file
(`UniqueNames`), so that the first key of a name that a restart finds is the only one
(`FoundUnique`).  A step is shown to keep this for its own backend, and to leave the others
what they rely on (`OthersKeep`, `SettledKept`).

`PlacementProofs` (for any backends, block numbers, page size, request sizes and
free space): `MapBitsTrue`, the visibility map has no bit set that its page does not
have, through extension and truncation; `NoOperationPanics`, no insertion meets a page it does not fit
on, and no bit is set or cleared through the wrong map page.  The argument is
rely-guarantee: `IInv` is a global part (`Shape`, `TableType`, `MapTrue`,
`VacuumInv`) and, for each backend, what it knows of the pages and locks it holds
(`Local`).  A step is shown to establish the local part of its own backend, and
to disturb that of no other, because what a backend relies on is behind a lock
the other would need.  Backends are arbitrary in number, so this is more than
the run's two.

`VisibilityProofs` (for any backends, transactions, subtransactions, commands,
crashes and any workload): `HintBitsCorrect`, no hint bit says what `pg_xact` will not,
asynchronous commits and crashes included; `OneDeleterCorrect` and
`LocksExcludeCorrect`, one deletion at most becomes final and a row lock keeps
others from deleting; `MVCCExactCorrect`, `DirtyConclusiveCorrect` and
`DeadIsInvisibleCorrect`, each check answers what it promises although transactions
end between its looks at shared state; `NeverInvisibleCorrect`, the error "attempted
to delete invisible tuple" is not raised.  The invariant `IInv` says

* of the header, that each hint bit is true and that a commit it tells of is in
  the log where the page cannot reach the disk before it (`TupleInv` with `Backed`;
  `DiskInv` says the same of the page on disk, where it must be flushed);
* of the log, that what redo may start from is well formed and that from a
  deleter's commit on every record names that deleter (`LogInv`, `DeletesLogged`):
  without this a crash could bring a deleted tuple back;
* of the history, that a deletion that may be final is the header's updater and a
  running locker is in its xmax (`DeleteInv`, `GrantInv`), and that nobody else has
  touched a tuple whose inserter is running (`OwnInv`);
* of each call, what it knows at each of its steps (`CourseInv`), what its answer
  means (`VerdictInv`), and what a sleeper waits for (`SleepInv`).

What a call knows is settled: a transaction that is not running does not run
again and keeps its outcome (`Ages`), and the header keeps all but hint bits while
somebody holds the buffer (`BufferInv`).  So `CallKept`, one lemma, shows that no
step of another backend disturbs a call; `CallStep` does the rest for the steps of
a check, and each hint bit is justified once (`HintXminTrue`,
`HintXmaxCommittedTrue`, `HintXmaxInvalidTrue`).  Only a crash breaks `Ages`; it
leaves no calls, and `Redone` says what redo makes of the page.

`HeapPageProofs` (for any number of readers, keys, transactions, line pointers,
tuples and any lag of the horizon): `TypeCorrect`; `Scans`, the sequential scan and
the index scans of a snapshot find exactly the versions it sees, each once;
`Lookups`, an index entry leads a snapshot to the same version whatever happens
between; `NoRetry`, pruning leaves no dead tuple with storage; `Collected`, what the
second pass of vacuum frees is dead; `AllVisible`, the all-visible bit is true.  The
assumption is that the rows of the start fit on the page.  The argument has three
parts.

* The page is a graph: `Leads` is an edge from a redirected line pointer to its
  target, or from a HOT updated tuple to its next version.  No two edges meet, ids
  grow along them (`EdgeInv`), and every heap-only tuple that is not aborted has
  somebody before it (`Anchored`).  So every tuple belongs to one root (`HasRoot`,
  `ChainsApart`), the search is the chain of its root (`SearchIs`), and neither it
  nor the loop of `heap_prune_chain` is cut off by the size of the page
  (`WalkEnds`).
* `Gone` is what no snapshot sees that is held or will be taken.  A tuple judged
  dead by any horizon that was correct is gone (`DeadIsGone`), and so is all that
  comes before it in its chain (`GoneBefore`).  `PlanInv` is the invariant of the
  loop of `pg_tde_page_prune`: the plan clears what is gone, heads of chains whole,
  and redirects a root to the first version that stays.  `PruneLeaves` says what
  this makes of the page.  The rest of the invariant speaks of versions that are
  not gone only, so that one lemma, `LeftKeeps`, does for pruning and for the
  second pass of vacuum.
* Inserts, deletes and updates change the header of one tuple and add one at most:
  `WriteStep` has them all, and `WriteKeeps` shows once that it keeps the invariant.

The other parts say that the rows are the current versions (`RowsInv`), that what
somebody may still need is reached from an entry in the index, or one its
transaction has yet to make (`IndexInv`, `PendingInv`), that a snapshot is shown
what it was shown at first (`SeenInv`), that vacuum's horizon is behind everybody
and its dead line pointers are dead, and without entries before the second pass
(`VacInv`).  `TupleInv` has the facts of headers that those need: only a tuple that
one may see is removed, and whoever sees the removal sees the insertion.  None of
the five properties is inductive: that scans stay exact at a later pruning follows
from chains they have not looked at.

`TransactionProofs`, of `Freeze` (for any table, any number of transactions, multixacts,
row changes and vacuums and any skipping threshold; `FreezeAssumption` says that the
bounds are natural numbers and that tables are sequences of pages, and TLC evaluates
it in `MCTransactions`): `FreezeTypeCorrect`; `NoOldIds`, no header holds an id older than
`relfrozenxid` or `relminmxid`; `Advances`, an aggressive vacuum advances both to
its cutoffs, and nothing is reported as corruption; `RowsKeepTheirMeaning`, freezing
keeps locks, updates and insertions, although transactions end between a plan and
its execution.  The argument:

* A cutoff is over (`Over`, `OverMulti`): no transaction below it, and no member of a
  multixact below it, runs any more.  So no header can get an id from below it
  after vacuum looked.
* What a header means depends only on the members that count (`Counting`): those
  that run, and updaters that committed.  A plan keeps those and raises the rest
  to the cutoffs (`Planned`), and stays such a plan when others end
  (`PlannedStable`).  That is why `FreezeMultiXactId` may look at the members of a
  multixact one after the other.
* Every tuple that pruning left can be planned for without an error
  (`PlanIsFine`), from what pages and multixacts are like (`PagesFine`,
  `MultisFine`).
* The blocks vacuum is done with, or decided to skip, hold no id below its trackers
  (`Covered`, `CoveredTrue`), unless it skipped an all-visible page that is not
  all-frozen and will not touch `pg_class`; all-frozen pages hold no id at all
  (`MapTrue`).
* Inserts, updates, locks and ends of transactions are shown to keep all this once
  (`TransactionStep`); a rewrite is a plan made while nobody runs (`RewriteTuple`).

`ScanProofs` (for any table, any number of participants, tables as long as one likes
and any changes by others; `ScanAssumption` says that tables are sequences of pages and
that there is a leader): `EveryRowOnce`, the participants of a parallel scan return no
tuple twice and, when all of them are done, every row that was there throughout.  The
invariant speaks of blocks.  A block that was given out is held by one participant at
most (`Holds`), which is on its way to it (`Coming`: nothing of it is returned) or on
it (`On`: of its rows those up to the participant's position are returned, and
nothing beyond: `Upto`), or it is done with (`Done`).  What one participant does
touches no block of another (`LocalReturned`), and what other transactions do keeps the
rows that last (`LocalKept`).  `Lookup` shows that the search on a page goes from one
position to the next row, whether it walks the line pointers, which vacuum may cut
off behind it, or the list of visible ones noted before; `OrderedLines` is what that
list is.  A scan that is not parallel gives out no block (`SerialOK`).

Only model-checked:

* Liveness (`CallsEnd`, `OperationsEnd`): out of the prover's reach.
* `RowsStay`, `LayoutKept`, `UniformTuplesReadable`: what they compare is a sum over a
  set or a function of any size, a fold, and facts about folds need induction
  with an operator as parameter.
* `ScanIsCursor`: not proved.  A place in the order of the scan is the rest of a
  division plus a product of two parameters, and a fetch compares such places; that
  arithmetic is nonlinear, which the solver handles badly.
* The invariants of `Rewrite`: not proved.

## Deviations met while modelling

Four have a run, above.  The others show up when a constant is changed or a
property taken in its stronger form:

| Where | What | How to see it |
|---|---|---|
| `pg_tde_xact_handler.c:51` | at PREPARE the list is freed as if it were in the two-phase state file; ROLLBACK PREPARED leaves the key file | `XactHandler`: `Prepare`, then the rollback, leaves the file with no entry |
| `keyring_vault.c:208` | a failed request is `elog(ERROR)`, which jumps past the removal of the key from the cache; the next caller encrypts a fork with a key the store does not have | `Keyring`: drop the orphans from `ForksRecoverable`, one backend |
| `keyring_file.c:63` | a crash between `fopen(.., "w")` and the `fwrite` loses the keys the file had.  The file of a server that has a key is rewritten when two backends found none: one has stored version 1 before the other, which looks for the latest key and generates one in two calls (`pg_tde_tdemap.c:100`), comes to its second call, and generates version 2 | `Keyring`: drop the orphans from `ForksRecoverable`, two backends, file |
| `keyring_api.c:14` | without a lock, a backend encrypts its fork with a key that another one has entered and not stored yet; if that store then fails, the fork is lost | `Keyring`: drop `raced` from `ForksRecoverable`, two backends, vault |
| `keyring_api.c:51` | two backends that enter a key at once write to one slot and count two: a key is lost and a slot without a name is in use.  When an increment is lost and both stores are refused, `keyCount` goes below zero | `Keyring`: `keyCount # Wrapped`, or `keys[s].name # 0` of slots in use, two backends |
| `pg_tde_prune.c:1350` | re-encryption starts at byte 24 of the tuple, also if a NULL bitmap makes the header longer; `documentation/docs/index.md:21` says the bitmap is not encrypted | `Compactify`: `HOff = {4}` and `TuplesReadable` |
| `enc_tuple.c:165` | tuples of TOAST tables are not encrypted, compaction re-encrypts them | `Kinds = {"toast"}` and `TuplesReadable` |
| `pg_tde_prune.c:288` | prune records are replayed by the core heap, which does not re-encrypt | `Kinds = {"redo"}` and `TuplesReadable` |
| `pg_tdetoast.c:802` | a slice with offset > 0 is decrypted from keystream position 0 | `Toast`: drop `sliceoffset = 0` from `SliceDecrypted` |
| `pg_tdeam_handler.c:669` | SET TABLESPACE says "Create and copy all forks of the relation"; the key file is none of them, and the moved rows have no key | `TdeMap`: `RowsReadable` with `moveSpace` |
| `pg_tde_tdemap.c:141` | the key file is not synced before a checkpoint passes its record | `TdeMap`: `RowsReadable` with `osCrash` |
| `pg_tde_tdemap.c:270` | the key cache compares relation numbers only and is never invalidated | `TdeMap`: `RowsReadable` with `reuseNumber` |
| `pg_tdetoast.c:870` | because the value is encrypted in the slot's tuple, not only a retried speculative insertion but also RETURNING, AFTER triggers and EXCLUDED see ciphertext | `ToastRow`: `slot` after `pg_tde_insert` (`InPlace`) |
| `pg_tdetoast.c:142` (also 76; callers `pg_tdeam.c:2907`, 3637, 5896) | the toaster gets the old tuple as it lies on the page, encrypted: it does not recognise external values, and their TOAST entries are never deleted. `ExtractReplicaIdentity` (`pg_tdeam.c:2779`) reads the same ciphertext | `ToastRow`: `DeformOnPage` finds no external value, entries of deleted rows stay |
| `pg_tdeam.c:697` | a TID range scan that turns after its first page ends early: `rs_numblocks` is counted down in both directions (in the server too) | `Scan`: drop `turned` from `ScanIsCursor` |

## Not modelled

* The cipher itself, base64 and JSON, the HTTP client: conversions without state.
* `keyring_config.c`, `pg_tde.c`: registration and parsing at start.
* The redo functions of `pg_tdeam.c`: not reachable, see the inventory.
* `HEAP_MOVED_IN` and `HEAP_MOVED_OFF`: written by servers before 9.0 only.
* Failures met as data, with no state to follow: a Vault answer that is not
  base64 gives length -1 (`keyring_vault.c:286`); the block counter is shifted by
  more than its width (`enc_aes.c:177`, undefined, on common machines the low
  bits again); an unlink that fails is a WARNING (`UnlinkMayFail` of
  `XactHandler` has it, the runs do not).
* Of pruning and vacuum: `old_snapshot_threshold`; a transaction that aborts
  between two looks of one pruning (the retry in `lazy_scan_prune`), which
  `HeapPage` sees before or after; more than one index; parallel index vacuum,
  statistics, progress reports, the size of the dead item array.
* Of the heap: in-place updates, the chase of update chains by `tuple_lock` and
  `pg_tde_lock_updated_tuple`, checks with `SnapshotToast`,
  `SnapshotNonVacuumable` and historic snapshots.
* Of scans: bitmap, sample and analyze scans, index validation, prefetching.
* Of TOAST: `toast_flatten_tuple` and its like, which build composite values.
* Of the visibility map: the layout of a map page and `visibilitymap_count`.
* Of rewrites: the file names of mappings and the comment about a safe upper
  bound of their size.

## Plan

Done: pending deletes, keyring, relation keys with their abstract
specification, encryption, compaction, TOAST slices and toasted rows, visibility,
the heap page with pruning and vacuum, tuple placement with the visibility map
and truncation, scans with their abstract specification, rewrites, freezing.
Left, in the order of importance:

1. **Proofs**: the chains of `Rewrite`.
2. **Composition** of `Keyring` with `TdeMap`: the master key of a fork through
   crashes of the server while a fork is created.
3. **Lockers along an update chain** and the remaining visibility checks.
