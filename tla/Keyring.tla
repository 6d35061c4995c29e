------------------------------- MODULE Keyring -------------------------------
(***************************************************************************)
(* The master-key keyring (src/keyring/keyring_api.c, keyring_file.c,       *)
(* keyring_vault.c): a cache of keys in shared memory that every backend    *)
(* reads and appends to without a lock, in front of a key file or a vault.  *)
(*                                                                          *)
(* The clients are the two callers in src/access/pg_tde_tdemap.c: writing a *)
(* key fork takes the latest master key, or generates one; reading a fork   *)
(* fetches the master key the fork names.                                   *)
(*                                                                          *)
(* There is one internal name ("master-key"), so a key name is its version; *)
(* key bytes are numbers, fresh for every generated key.  Name 0 and data 0 *)
(* are the zeroed bytes of shared memory.                                   *)
(*                                                                          *)
(* Without a lock the code can lose keys.  Two history variables, which no  *)
(* action reads, say through which doors: `raced' and `orphans'.  The       *)
(* properties hold for every number of backends and every failure, but for  *)
(* what went through a door.                                                *)
(***************************************************************************)
EXTENDS Naturals, FiniteSets

CONSTANTS
  Backend,        \* the processes that use the keyring
  Providers,      \* the values of keyringProvider that are considered
  Cap,            \* bound: slots of the cache that are modelled
  MaxVersion,     \* bound: versions the vault can hold when the server starts
  MaxData,        \* bound: keys that are ever generated
  MaxForks,       \* bound: key forks that are ever written
  MayFail         \* whether curl and fopen may fail, which is elog(ERROR)

ASSUME KeyringAssumption ==
  /\ IsFiniteSet(Backend)
  /\ Providers \subseteq {"file", "vault", "unknown"}
  /\ {Cap, MaxVersion, MaxData, MaxForks} \subseteq Nat
  /\ MayFail \subseteq BOOLEAN

VARIABLES
  requestMayFail,  \* requests of this server may fail without an answer
  keyringProvider, \* set when the configuration file is loaded, at start
  keys, keyCount,  \* keyringCache
  vault,           \* the KV store: version -> data, 0 where there is none
  file,            \* the dumped cache in the data file; empty: no keys
  pc,              \* per backend: what it does next
  call,            \* per backend: which caller keyringGetKey returns to
  version,         \* per backend: i of the loops; the name it works on
  ptr, prev,       \* per backend: returned keyInfo, as a slot, or NoSlot
  kd,              \* per backend: keyData local variable
  count,           \* per backend: keyCount loaded by keyCount++
  forks,           \* key forks on disk: name stored, data they are encrypted with
  reading,         \* per backend: the fork it decrypts
  lastData,        \* last value RAND_bytes produced
  raced,           \* history: a backend filled the cache beside another one
                   \* doing so, or took a key that was not stored yet
  orphans          \* history: keys whose store died, or that were in the file
                   \* when fopen emptied it, and are not dumped since

cacheVars == <<keys, keyCount>>
providerVars == <<requestMayFail, keyringProvider, vault, file>>
callVars == <<pc, call, version, ptr, prev, kd, count, reading>>
doors == <<raced, orphans>>
vars == <<cacheVars, providerVars, callVars, forks, lastData, doors>>

Slot == 0..(Cap - 1)
NoSlot == Cap
Version == 0..(MaxVersion + MaxData + 1)
Data == 0..(MaxVersion + MaxData)
keyInfo == [name : Version, data : Data]
Zero == [name |-> 0, data |-> 0]
EmptyCache == [s \in Slot |-> Zero]
EmptyFile == [keys |-> EmptyCache, keyCount |-> 0]
NoFork == Zero
Wrapped == Cap + 1   \* the unsigned keyCount after 0 - 1: past every slot

\* The shared cache, the providers and the callers' locals; a pointer into the
\* cache is the slot the caller filled or found.
TypeOK ==
  /\ keyringProvider \in Providers /\ requestMayFail \in MayFail
  /\ keys \in [Slot -> keyInfo] /\ keyCount \in 0..Wrapped
  /\ vault \in [Version -> Data]
  /\ file \in [keys : [Slot -> keyInfo], keyCount : 0..Wrapped]
  /\ pc \in [Backend -> {"idle", "get", "request", "name", "data", "load", "inc", "ptr",
                         "store", "dump", "encrypt", "decrypt"}]
  /\ call \in [Backend -> {"latest", "generate", "store", "read"}]
  /\ version \in [Backend -> Version]
  /\ ptr \in [Backend -> 0..Cap] /\ prev \in [Backend -> 0..Cap]
  /\ kd \in [Backend -> Data] /\ count \in [Backend -> 0..Cap]
  /\ forks \subseteq keyInfo /\ reading \in [Backend -> keyInfo]
  /\ lastData \in Data /\ raced \in BOOLEAN /\ orphans \subseteq keyInfo

\* A server starting up: the cache is zeroed and, for the file provider, read
\* back from the file; from no file, or an empty one, fread reads nothing.
CacheAtStart == IF keyringProvider = "file" THEN file ELSE EmptyFile

\* The vault holds the versions 1..n that earlier servers stored in it.
Init ==
  /\ keyringProvider \in Providers /\ requestMayFail \in MayFail
  /\ \E n \in 0..MaxVersion : vault = [v \in Version |-> IF v \in 1..n THEN v ELSE 0]
  /\ file = EmptyFile
  /\ keys = EmptyCache /\ keyCount = 0
  /\ pc = [b \in Backend |-> "idle"]
  /\ call = [b \in Backend |-> "read"]
  /\ version = [b \in Backend |-> 0]
  /\ ptr = [b \in Backend |-> NoSlot] /\ prev = [b \in Backend |-> NoSlot]
  /\ kd = [b \in Backend |-> 0] /\ count = [b \in Backend |-> 0]
  /\ forks = {} /\ reading = [b \in Backend |-> NoFork]
  /\ lastData = MaxVersion
  /\ raced = FALSE /\ orphans = {}

-----------------------------------------------------------------------------
Goto(b, l) == pc' = [pc EXCEPT ![b] = l]
Set(f, b, x) == [f EXCEPT ![b] = x]

\* A backend is in keyringCacheStoreKey; its new key is not in the store yet.
Filling(b) == pc[b] \in {"name", "data", "load", "inc", "ptr"}
Storing(b) == call[b] = "store" /\ pc[b] # "encrypt"
Beside(b) == \E c \in Backend \ {b} : Filling(c) \/ Storing(c)
BeingStored(b, d) == \E c \in Backend \ {b} : Storing(c) /\ kd[c] = d

\* elog(ERROR), ereport(ERROR) and a finished call leave the same local state.
Leave(b) ==
  /\ Goto(b, "idle")
  /\ call' = Set(call, b, "read")
  /\ version' = Set(version, b, 0)
  /\ ptr' = Set(ptr, b, NoSlot) /\ prev' = Set(prev, b, NoSlot)
  /\ kd' = Set(kd, b, 0) /\ count' = Set(count, b, 0)
  /\ reading' = Set(reading, b, NoFork)

MayGenerate == {c \in Backend : call[c] \in {"latest", "generate"}}

\* pg_tde_write_key_fork calls keyringGetLatestKey.  The last conjunct is the
\* bound on generated keys.
WriteKeyFork(b) ==
  /\ pc[b] = "idle" /\ Cardinality(forks) < MaxForks
  /\ lastData + Cardinality(MayGenerate) < MaxVersion + MaxData
  /\ Goto(b, "get")
  /\ call' = Set(call, b, "latest") /\ version' = Set(version, b, 1)
  /\ UNCHANGED <<cacheVars, providerVars, ptr, prev, kd, count, forks, reading,
                 lastData, doors>>

\* pg_tde_get_keys_from_fork calls keyringGetKey with the name in the file.
ReadKeyFork(b, f) ==
  /\ pc[b] = "idle"
  /\ Goto(b, "get")
  /\ call' = Set(call, b, "read") /\ version' = Set(version, b, f.name)
  /\ reading' = Set(reading, b, f)
  /\ UNCHANGED <<cacheVars, providerVars, ptr, prev, kd, count, forks, lastData,
                 doors>>

\* keyringGetKey returned slot s to pg_tde_get_keys_from_fork, or to the loop
\* of keyringGetLatestKey or keyringGenerateKey.
ReturnFoundNoAdvance(b, s) ==
  /\ IF call[b] = "read" THEN Goto(b, "decrypt") ELSE Goto(b, "get")
  /\ ptr' = IF call[b] = "read" THEN Set(ptr, b, s) ELSE ptr
  /\ prev' = IF call[b] = "latest" THEN Set(prev, b, s) ELSE prev
  /\ UNCHANGED <<call, version>>

ReturnFound(b, s) ==
  /\ IF call[b] = "read" THEN Goto(b, "decrypt") ELSE Goto(b, "get")
  /\ ptr' = IF call[b] = "read" THEN Set(ptr, b, s) ELSE ptr
  /\ prev' = IF call[b] = "latest" THEN Set(prev, b, s) ELSE prev
  /\ version' = IF call[b] = "read" THEN version
                ELSE Set(version, b, version[b] + 1)
  /\ UNCHANGED call

\* keyringGetKey returned NULL.  The reader fails; the latest version is the
\* one before, if there is one; otherwise the generating loop starts, and
\* ends at the first free version with fresh key bytes to store.
ReaderFails(b) == call[b] = "read" /\ Leave(b) /\ UNCHANGED <<lastData, raced>>

LatestFound(b) ==
  /\ call[b] = "latest" /\ prev[b] # NoSlot
  /\ Goto(b, "encrypt") /\ ptr' = Set(ptr, b, prev[b])
  /\ UNCHANGED <<call, version, prev, kd, count, reading, lastData, raced>>

StartGenerate(b) ==
  /\ call[b] = "latest" /\ prev[b] = NoSlot
  /\ Goto(b, "get") /\ call' = Set(call, b, "generate")
  /\ version' = Set(version, b, 1)
  /\ UNCHANGED <<ptr, prev, kd, count, reading, lastData, raced>>

Generate(b) ==
  /\ call[b] = "generate"
  /\ Goto(b, "name") /\ call' = Set(call, b, "store")
  /\ lastData' = lastData + 1 /\ kd' = Set(kd, b, lastData')
  /\ raced' = (raced \/ Beside(b))
  /\ UNCHANGED <<version, ptr, prev, count, reading>>

ReturnNotFound(b) ==
  ReaderFails(b) \/ LatestFound(b) \/ StartGenerate(b) \/ Generate(b)

\* The scan of keyringGetKey: the first slot in use with this name.
Hits(v) == {s \in Slot : s < keyCount /\ keys[s].name = v}
FirstHit(v, s) == s \in Hits(v) /\ \A t \in Hits(v) : s <= t

GetKeyCached(b) ==
  /\ pc[b] = "get"
  /\ \E s \in Slot :
       /\ FirstHit(version[b], s)
       /\ ReturnFound(b, s)
       /\ raced' = (raced \/ BeingStored(b, keys[s].data))
  /\ UNCHANGED <<cacheVars, providerVars, kd, count, forks, reading, lastData,
                 orphans>>

\* The file provider does not look further.
GetKeyNotFound(b) ==
  /\ pc[b] = "get" /\ Hits(version[b]) = {}
  /\ keyringProvider # "vault"
  /\ ReturnNotFound(b)
  /\ UNCHANGED <<cacheVars, providerVars, forks, orphans>>

\* Other backends may enter the same key before the vault answers.
RequestKey(b) ==
  /\ pc[b] = "get" /\ Hits(version[b]) = {}
  /\ keyringProvider = "vault"
  /\ Goto(b, "request")
  /\ UNCHANGED <<cacheVars, providerVars, call, version, ptr, prev, kd, count,
                 forks, reading, lastData, doors>>

\* The GET request: 404, a stored key, or elog(ERROR).
keyringVaultGetKey(b) ==
  /\ pc[b] = "request"
  /\ \/ /\ vault[version[b]] = 0
        /\ ReturnNotFound(b)
     \/ /\ vault[version[b]] # 0
        /\ kd' = Set(kd, b, vault[version[b]])
        /\ Goto(b, "name")
        /\ raced' = (raced \/ Beside(b))
        /\ UNCHANGED <<call, version, ptr, prev, count, reading, lastData>>
     \/ requestMayFail /\ Leave(b) /\ UNCHANGED <<lastData, raced>>
  /\ UNCHANGED <<cacheVars, providerVars, forks, orphans>>

-----------------------------------------------------------------------------
(* keyringCacheStoreKey: every line reads keyCount again, without a lock.    *)

StoreName(b) ==
  /\ pc[b] = "name" /\ keyCount < Cap
  /\ keys' = [keys EXCEPT ![keyCount] = [name |-> version[b], data |-> @.data]]
  /\ Goto(b, "data")
  /\ UNCHANGED <<keyCount, providerVars, call, version, ptr, prev, kd, count,
                 forks, reading, lastData, doors>>

StoreData(b) ==
  /\ pc[b] = "data" /\ keyCount < Cap
  /\ keys' = [keys EXCEPT ![keyCount] = [name |-> @.name, data |-> kd[b]]]
  /\ Goto(b, "load")
  /\ UNCHANGED <<keyCount, providerVars, call, version, ptr, prev, kd, count,
                 forks, reading, lastData, doors>>

LoadCount(b) ==
  /\ pc[b] = "load" /\ keyCount < Cap
  /\ count' = Set(count, b, keyCount)
  /\ Goto(b, "inc")
  /\ UNCHANGED <<cacheVars, providerVars, call, version, ptr, prev, kd, forks,
                 reading, lastData, doors>>

IncCount(b) ==
  /\ pc[b] = "inc"
  /\ keyCount' = count[b] + 1
  /\ Goto(b, "ptr")
  /\ UNCHANGED <<keys, providerVars, call, version, ptr, prev, kd, count, forks,
                 reading, lastData, doors>>

\* After a race keyCount may have been taken below one; the memory the pointer
\* then names is not modelled, and the call goes no further.
TakePointerPastEnd(b) ==
  /\ pc[b] = "ptr" /\ keyCount \in 1..Cap
  /\ IF call[b] = "store"
       THEN /\ Goto(b, "store") /\ ptr' = Set(ptr, b, keyCount - 1)
            /\ UNCHANGED <<call, version, prev>>
       ELSE ReturnFound(b, keyCount)
  /\ UNCHANGED <<cacheVars, providerVars, kd, count, forks, reading, lastData,
                 doors>>

TakePointerReaderPastEnd(b) ==
  /\ pc[b] = "ptr" /\ keyCount \in 1..Cap
  /\ IF call[b] = "store"
       THEN /\ Goto(b, "store") /\ ptr' = Set(ptr, b, keyCount - 1)
            /\ UNCHANGED <<call, version, prev>>
       ELSE ReturnFound(b, IF call[b] = "read" THEN keyCount ELSE keyCount - 1)
  /\ UNCHANGED <<cacheVars, providerVars, kd, count, forks, reading, lastData,
                 doors>>

TakePointer(b) ==
  /\ pc[b] = "ptr" /\ keyCount \in 1..Cap
  /\ IF call[b] = "store"
       THEN /\ Goto(b, "store") /\ ptr' = Set(ptr, b, keyCount - 1)
            /\ UNCHANGED <<call, version, prev>>
       ELSE ReturnFound(b, keyCount - 1)
  /\ UNCHANGED <<cacheVars, providerVars, kd, count, forks, reading, lastData,
                 doors>>

-----------------------------------------------------------------------------
(* keyringStoreKey after the key is in the cache.                            *)

\* "if we are here, storeKey failed, remove from cache"; the caller then
\* reports that it has no master key.
StoreFailedKeepsKey(b) ==
  /\ Leave(b)
  /\ UNCHANGED <<cacheVars, forks, lastData>>

StoreFailed(b) ==
  /\ keyCount' = IF keyCount = 0 THEN Wrapped ELSE keyCount - 1
  /\ Leave(b)
  /\ UNCHANGED <<keys, forks, lastData>>

StoreUnknown(b) ==
  /\ pc[b] = "store" /\ keyringProvider = "unknown"
  /\ StoreFailed(b)
  /\ UNCHANGED <<providerVars, doors>>

\* The POST request replaces the secret of that name.  It may be refused (not
\* 2xx); the transport may fail before or after the vault has applied it.
keyringVaultStoreKey(b) ==
  /\ pc[b] = "store" /\ keyringProvider = "vault"
  /\ LET posted == [vault EXCEPT ![keys[ptr[b]].name] = keys[ptr[b]].data] IN
     \/ /\ vault' = posted
        /\ Goto(b, "encrypt")
        /\ UNCHANGED <<cacheVars, call, version, ptr, prev, kd, count, reading,
                       forks, lastData, orphans>>
     \/ StoreFailed(b) /\ UNCHANGED <<vault, orphans>>
     \/ /\ requestMayFail /\ Leave(b)
        /\ \/ vault' = posted /\ UNCHANGED orphans
           \/ UNCHANGED vault /\ orphans' = orphans \cup {keys[ptr[b]]}
        /\ UNCHANGED <<cacheVars, forks, lastData>>
  /\ UNCHANGED <<requestMayFail, keyringProvider, file, raced>>

\* The keys in use of a dumped cache.
InUse(cache) == {cache.keys[s] : s \in {t \in Slot : t < cache.keyCount}}

\* fopen(.., "w") empties the file, or elog(ERROR).
keyringFileOpen(b) ==
  /\ pc[b] = "store" /\ keyringProvider = "file"
  /\ \/ /\ file' = EmptyFile
        /\ orphans' = orphans \cup InUse(file)
        /\ Goto(b, "dump")
        /\ UNCHANGED <<call, version, ptr, prev, kd, count, reading>>
     \/ /\ requestMayFail /\ Leave(b) /\ UNCHANGED file
        /\ orphans' = orphans \cup {keys[ptr[b]]}
  /\ UNCHANGED <<requestMayFail, keyringProvider, cacheVars, vault, forks, lastData,
                 raced>>

keyringFileDump(b) ==
  /\ pc[b] = "dump"
  /\ file' = [keys |-> keys, keyCount |-> keyCount]
  /\ orphans' = orphans \ InUse(file')
  /\ Goto(b, "encrypt")
  /\ UNCHANGED <<requestMayFail, keyringProvider, cacheVars, vault, call, version, ptr, prev,
                 kd, count, forks, reading, lastData, raced>>

-----------------------------------------------------------------------------
(* The callers use the key the pointer refers to.                            *)

EncryptFork(b) ==
  /\ pc[b] = "encrypt"
  /\ forks' = forks \cup {keys[ptr[b]]}
  /\ Leave(b)
  /\ UNCHANGED <<cacheVars, providerVars, lastData, doors>>

DecryptFork(b) ==
  /\ pc[b] = "decrypt"
  /\ Leave(b)
  /\ UNCHANGED <<cacheVars, providerVars, forks, lastData, doors>>

\* A shutdown, or a crash at any point of a call, and a start: every process is
\* new.
Restart ==
  /\ keys' = CacheAtStart.keys /\ keyCount' = CacheAtStart.keyCount
  /\ pc' = [b \in Backend |-> "idle"]
  /\ call' = [b \in Backend |-> "read"]
  /\ version' = [b \in Backend |-> 0]
  /\ ptr' = [b \in Backend |-> NoSlot] /\ prev' = [b \in Backend |-> NoSlot]
  /\ kd' = [b \in Backend |-> 0] /\ count' = [b \in Backend |-> 0]
  /\ reading' = [b \in Backend |-> NoFork]
  /\ UNCHANGED <<providerVars, forks, lastData, doors>>

Step(b) ==
  \/ GetKeyCached(b) \/ GetKeyNotFound(b)
  \/ RequestKey(b) \/ keyringVaultGetKey(b)
  \/ StoreName(b) \/ StoreData(b) \/ LoadCount(b) \/ IncCount(b) \/ TakePointer(b)
  \/ StoreUnknown(b) \/ keyringVaultStoreKey(b)
  \/ keyringFileOpen(b) \/ keyringFileDump(b)
  \/ EncryptFork(b) \/ DecryptFork(b)

Next ==
  \/ \E b \in Backend :
       \/ WriteKeyFork(b)
       \/ \E f \in forks : ReadKeyFork(b, f)
       \/ Step(b)
  \/ Restart

\* A backend inside the keyring keeps running until its call ends.
Spec == Init /\ [][Next]_vars /\ \A b \in Backend : WF_vars(Step(b))

-----------------------------------------------------------------------------
(* Properties.                                                               *)

\* The first key of that name among the keys in use of a dumped cache.
FoundIn(cache, v) ==
  LET hits == {s \in Slot : s < cache.keyCount /\ cache.keys[s].name = v}
  IN IF hits = {} THEN 0
     ELSE cache.keys[CHOOSE s \in hits : \A t \in hits : s <= t].data

\* What a server started now would find under a name.
Stored(v) == IF keyringProvider = "vault" THEN vault[v] ELSE FoundIn(file, v)

\* "the master key is retrieved from the key store to decrypt the table": the
\* key each fork is encrypted with is in the key store under the name the fork
\* holds, so that a restart loses no fork, at whatever point of whose calls it
\* comes; but for forks of a key whose store died, and unless backends raced.
ForksRecoverable ==
  raced \/ \A f \in forks :
             \/ f \in orphans
             \/ f.name # 0 /\ f.data # 0 /\ Stored(f.name) = f.data

\* Unless backends raced, a backend decrypts a fork with the key it was
\* encrypted with, whoever entered, removed or left keys in the cache since its
\* pointer was returned; but where a key whose store died is one of the two.
DecryptsWithForksKey ==
  raced \/ \A b \in Backend : pc[b] = "decrypt" =>
             \/ keys[ptr[b]] = reading[b]
             \/ reading[b] \in orphans \/ keys[ptr[b]] \in orphans

\* "if we are here, storeKey failed, remove from cache": unless backends raced,
\* a key in the cache is in the key store under its name, or is being stored,
\* or its store died without an answer.
CacheMatchesStore ==
  raced \/ \A s \in Slot : s < keyCount =>
             \/ keys[s].data # 0 /\ keys[s].data = Stored(keys[s].name)
             \/ \E b \in Backend : Storing(b) /\ kd[b] = keys[s].data
             \/ keys[s] \in orphans

\* Every call into the keyring returns or fails: the version loops end, unless
\* a race made the cache grow without bound or below zero.
CallsEnd == \A b \in Backend : (pc[b] # "idle") ~> (pc[b] = "idle" \/ raced)

\* "Generates next available version": a fork whose key is in the key store
\* does not lose it to a key that another backend generates.
ForkKeyKept ==
  [][\A f \in forks : Stored(f.name) = f.data => Stored(f.name)' = f.data]_vars

=============================================================================
