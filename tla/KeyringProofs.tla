---------------------------- MODULE KeyringProofs ----------------------------
(***************************************************************************)
(* Proofs about Keyring, for any number of backends, a key store that may   *)
(* refuse, fail or die in the middle of a request, and restarts at any      *)
(* point.  The types hold always, and a vault that has a key is never       *)
(* written again.  The rest holds but for what goes through the two doors   *)
(* that Keyring names: as long as no backend fills the shared cache beside  *)
(* another one, or takes a key before it is stored (`raced'), every fork    *)
(* that is not of an orphaned key can be decrypted, and is decrypted with   *)
(* its own key.                                                             *)
(***************************************************************************)
EXTENDS Keyring, FiniteSetTheorems, TLAPS

-----------------------------------------------------------------------------
(* Types, for races too: every name in use is at most the last data value,  *)
(* and a value is reserved for every call that may still generate a key.    *)

VersionBounded(b) ==
  /\ version[b] <= lastData + 1
  /\ call[b] \in {"read", "store"} \/ Filling(b) => version[b] <= lastData

\* Names of keys, entered and on the way.
NamesBounded ==
  /\ \A s \in Slot : keys[s].name <= lastData /\ file.keys[s].name <= lastData
  /\ \A v \in Version : vault[v] # 0 => v <= lastData
  /\ \A f \in forks : f.name <= lastData
  /\ \A b \in Backend : VersionBounded(b)

Reserved == lastData + Cardinality(MayGenerate) <= MaxVersion + MaxData

\* A pointer that is about to be used is a slot; a key is stored by the call
\* that generated it.
Places ==
  \A b \in Backend :
    /\ pc[b] \in {"store", "dump", "encrypt", "decrypt"} => ptr[b] \in Slot
    /\ call[b] = "store" => pc[b] \notin {"idle", "get", "request", "decrypt"}

LEMMA Numbers ==
  /\ Cap \in Nat /\ MaxVersion \in Nat /\ MaxData \in Nat /\ MaxForks \in Nat
  /\ MaxVersion + MaxData \in Nat
  /\ 0 \in Version /\ 1 \in Version /\ 0 \in Data /\ NoSlot \in 0..Cap
<1>1. Cap \in Nat /\ MaxVersion \in Nat /\ MaxData \in Nat /\ MaxForks \in Nat
  BY KeyringAssumption
<1> QED
  BY <1>1 DEF Version, Data, NoSlot

TypeInv == TypeOK /\ NamesBounded /\ Reserved /\ Places

\* The calls that may generate only become fewer, but in WriteKeyFork.
LEMMA FewerReserved ==
  ASSUME TypeOK, Reserved, lastData' = lastData, MayGenerate' \subseteq MayGenerate
  PROVE  Reserved'
<1>1. IsFiniteSet(MayGenerate)
  <2>1. MayGenerate \subseteq Backend
    BY DEF MayGenerate
  <2> QED
    BY <2>1, FS_Subset, KeyringAssumption
<1>2. Cardinality(MayGenerate') <= Cardinality(MayGenerate)
  BY <1>1, FS_Subset
<1>3. Cardinality(MayGenerate) \in Nat /\ Cardinality(MayGenerate') \in Nat
  BY <1>1, FS_Subset, FS_CardinalityType
<1> QED
  BY <1>2, <1>3, KeyringAssumption DEF Reserved, TypeOK, Data

LEMMA ReservedBound ==
  ASSUME Reserved, TypeOK
  PROVE  /\ Cardinality(MayGenerate) \in Nat /\ lastData <= MaxVersion + MaxData
         /\ \A b \in MayGenerate : lastData < MaxVersion + MaxData
<1>1. IsFiniteSet(MayGenerate)
  <2>1. MayGenerate \subseteq Backend
    BY DEF MayGenerate
  <2> QED
    BY <2>1, FS_Subset, KeyringAssumption
<1>2. Cardinality(MayGenerate) \in Nat
  BY <1>1, FS_CardinalityType
<1>3. ASSUME NEW b \in MayGenerate PROVE Cardinality(MayGenerate) # 0
  BY <1>1, <1>3, FS_EmptySet
<1> QED
  BY <1>2, <1>3, KeyringAssumption DEF Reserved, TypeOK, Data

LEMMA InitTyped == Init => TypeInv
<1> SUFFICES ASSUME Init PROVE TypeInv
  OBVIOUS
<1> USE Numbers
<1>1. EmptyCache \in [Slot -> keyInfo] /\ Zero \in keyInfo
  BY DEF EmptyCache, Zero, keyInfo, Version, Data
<1>2. TypeOK
  <2>1. PICK n \in 0..MaxVersion : vault = [v \in Version |-> IF v \in 1..n THEN v ELSE 0]
    BY DEF Init
  <2>2. vault \in [Version -> Data]
    BY <2>1 DEF Version, Data
  <2>3. file \in [keys : [Slot -> keyInfo], keyCount : 0..Wrapped]
    BY <1>1 DEF Init, EmptyFile, Wrapped
  <2>4. lastData \in Data /\ keyCount \in 0..Wrapped
    BY DEF Init, Data, Wrapped
  <2>5. reading \in [Backend -> keyInfo] /\ forks \subseteq keyInfo
    BY <1>1 DEF Init, NoFork
  <2>6. /\ keyringProvider \in Providers /\ requestMayFail \in MayFail
        /\ keys \in [Slot -> keyInfo] /\ raced \in BOOLEAN /\ orphans \subseteq keyInfo
    BY <1>1 DEF Init
  <2>7. /\ pc \in [Backend -> {"idle", "get", "request", "name", "data", "load", "inc", "ptr",
                                 "store", "dump", "encrypt", "decrypt"}]
        /\ call \in [Backend -> {"latest", "generate", "store", "read"}]
    BY DEF Init
  <2>8. /\ version \in [Backend -> Version]
        /\ ptr \in [Backend -> 0..Cap] /\ prev \in [Backend -> 0..Cap]
        /\ kd \in [Backend -> Data] /\ count \in [Backend -> 0..Cap]
    BY DEF Init
  <2> QED
    BY <2>2, <2>3, <2>4, <2>5, <2>6, <2>7, <2>8 DEF TypeOK
<1>3. NamesBounded
  <2>1. PICK n \in 0..MaxVersion : vault = [v \in Version |-> IF v \in 1..n THEN v ELSE 0]
    BY DEF Init
  <2>2. \A v \in Version : vault[v] # 0 => v <= lastData
    BY <2>1 DEF Init, Version
  <2>3. \A s \in Slot : keys[s].name <= lastData /\ file.keys[s].name <= lastData
    BY DEF Init, EmptyFile, EmptyCache, Zero
  <2>4. ASSUME NEW b \in Backend PROVE VersionBounded(b)
    BY DEF Init, VersionBounded
  <2> QED
    BY <2>2, <2>3, <2>4 DEF Init, NamesBounded
<1>4. Reserved
  <2>1. MayGenerate = {}
    BY DEF Init, MayGenerate
  <2> QED
    BY <2>1, FS_EmptySet DEF Init, Reserved
<1>5. Places
  BY DEF Init, Places
<1> QED
  BY <1>2, <1>3, <1>4, <1>5 DEF TypeInv

\* A call that leaves, whatever it did to the key store and the cache.
LEMMA LeaveTyped ==
  ASSUME TypeInv, NEW b \in Backend, Leave(b), lastData' = lastData, forks' = forks,
         requestMayFail' = requestMayFail, keyringProvider' = keyringProvider,
         keys' = keys, keyCount' \in 0..Wrapped, file' = file, raced' \in BOOLEAN,
         vault' \in [Version -> Data],
         \A v \in Version : vault'[v] # 0 => v <= lastData,
         orphans' \subseteq keyInfo
  PROVE  TypeInv'
<1> USE Numbers
<1>1. NoFork \in keyInfo /\ NoSlot \in 0..Cap /\ 0 \in Version /\ 0 \in Data
  BY DEF NoFork, Zero, NoSlot, keyInfo, Version, Data
<1>2. TypeOK'
  BY <1>1 DEF TypeInv, TypeOK, Leave, Goto, Set
<1>3. NamesBounded'
  BY DEF TypeInv, TypeOK, NamesBounded, VersionBounded, Leave, Goto, Set, Filling, Data
<1>4. Reserved'
  <2>1. MayGenerate' \subseteq MayGenerate
    BY DEF MayGenerate, TypeInv, TypeOK, Leave, Set
  <2> QED
    BY <2>1, FewerReserved DEF TypeInv
<1>5. Places'
  BY DEF Places, TypeInv, TypeOK, Leave, Goto, Set
<1> QED
  BY <1>2, <1>3, <1>4, <1>5 DEF TypeInv

LEMMA WriteKeyForkTyped ==
  ASSUME TypeInv, NEW b \in Backend, WriteKeyFork(b)
  PROVE  TypeInv'
<1> USE Numbers DEF WriteKeyFork, Goto, Set, cacheVars, providerVars, doors
<1>1. TypeOK'
  BY DEF TypeInv, TypeOK, Version
<1>2. NamesBounded'
  BY DEF TypeInv, TypeOK, NamesBounded, VersionBounded, Filling, Data
<1>3. Reserved'
  <2>1. MayGenerate' \subseteq MayGenerate \cup {b}
    BY DEF MayGenerate, TypeInv, TypeOK
  <2>2. IsFiniteSet(MayGenerate)
    <3>1. MayGenerate \subseteq Backend
      BY DEF MayGenerate
    <3> QED
      BY <3>1, FS_Subset, KeyringAssumption
  <2>3a. Cardinality(MayGenerate) \in Nat
    BY <2>2, FS_CardinalityType
  <2>3b. /\ IsFiniteSet(MayGenerate \cup {b})
         /\ Cardinality(MayGenerate \cup {b})
              = IF b \in MayGenerate THEN Cardinality(MayGenerate) ELSE Cardinality(MayGenerate) + 1
    BY <2>2, FS_AddElement
  <2>3. /\ IsFiniteSet(MayGenerate \cup {b})
        /\ Cardinality(MayGenerate \cup {b}) <= Cardinality(MayGenerate) + 1
        /\ Cardinality(MayGenerate) \in Nat
    BY <2>3a, <2>3b
  <2>4. Cardinality(MayGenerate') <= Cardinality(MayGenerate \cup {b})
    BY <2>1, <2>3, FS_Subset
  <2>5. Cardinality(MayGenerate') \in Nat /\ Cardinality(MayGenerate \cup {b}) \in Nat
    BY <2>1, <2>3, FS_Subset, FS_CardinalityType
  <2> QED
    BY <2>3, <2>4, <2>5 DEF Reserved, TypeInv, TypeOK, Data
<1>4. Places'
  BY DEF Places, TypeInv, TypeOK
<1> QED
  BY <1>1, <1>2, <1>3, <1>4 DEF TypeInv

LEMMA ReadKeyForkTyped ==
  ASSUME TypeInv, NEW b \in Backend, NEW f \in forks, ReadKeyFork(b, f)
  PROVE  TypeInv'
<1> USE Numbers DEF ReadKeyFork, Goto, Set, cacheVars, providerVars, doors
<1>1. TypeOK'
  BY DEF TypeInv, TypeOK, keyInfo
<1>2. NamesBounded'
  <2>0. lastData \in Nat /\ f.name \in Nat /\ f.name <= lastData
    BY DEF TypeInv, TypeOK, NamesBounded, Data, keyInfo, Version
  <2>1. ASSUME NEW c \in Backend PROVE VersionBounded(c)'
    BY <2>0, <2>1 DEF TypeInv, TypeOK, NamesBounded, VersionBounded, Filling
  <2> QED
    BY <2>1 DEF TypeInv, NamesBounded
<1>3. Reserved'
  <2>1. MayGenerate' \subseteq MayGenerate
    BY DEF MayGenerate, TypeInv, TypeOK
  <2> QED
    BY <2>1, FewerReserved DEF TypeInv
<1>4. Places'
  BY DEF Places, TypeInv, TypeOK
<1> QED
  BY <1>1, <1>2, <1>3, <1>4 DEF TypeInv

LEMMA ReturnFoundTyped ==
  ASSUME TypeInv, NEW b \in Backend, NEW s \in Slot, ReturnFound(b, s),
         version[b] <= lastData, call[b] # "store", raced' \in BOOLEAN,
         UNCHANGED <<cacheVars, providerVars, kd, count, forks, reading, lastData, orphans>>
  PROVE  TypeInv'
<1> USE Numbers DEF ReturnFound, Goto, Set, cacheVars, providerVars
<1>0. lastData <= MaxVersion + MaxData /\ version[b] + 1 \in Version /\ s \in 0..Cap
  <2>1. lastData <= MaxVersion + MaxData /\ lastData \in Nat
    BY ReservedBound DEF TypeInv, TypeOK, Data
  <2>2. version[b] \in Nat
    BY DEF TypeInv, TypeOK, Version
  <2> QED
    BY <2>1, <2>2 DEF Version, Slot
<1>1. TypeOK'
  BY <1>0 DEF TypeInv, TypeOK
<1>2. NamesBounded'
  <2>0. lastData \in Nat /\ version[b] \in Nat
    BY DEF TypeInv, TypeOK, Data, Version
  <2>1. ASSUME NEW c \in Backend PROVE VersionBounded(c)'
    BY <2>0, <2>1 DEF TypeInv, TypeOK, NamesBounded, VersionBounded, Filling
  <2> QED
    BY <2>1 DEF TypeInv, NamesBounded
<1>3. Reserved'
  <2>1. MayGenerate' = MayGenerate
    BY DEF MayGenerate
  <2> QED
    BY <2>1, FewerReserved DEF TypeInv
<1>4. Places'
  BY DEF Places, TypeInv, TypeOK
<1> QED
  BY <1>1, <1>2, <1>3, <1>4 DEF TypeInv

LEMMA GetKeyCachedTyped ==
  ASSUME TypeInv, NEW b \in Backend, GetKeyCached(b)
  PROVE  TypeInv'
<1>1. PICK s \in Slot : /\ FirstHit(version[b], s) /\ ReturnFound(b, s)
                        /\ raced' = (raced \/ BeingStored(b, keys[s].data))
  BY DEF GetKeyCached
<1>2. version[b] <= lastData
  BY <1>1 DEF FirstHit, Hits, TypeInv, NamesBounded
<1>3. raced' \in BOOLEAN /\ call[b] # "store"
  BY <1>1 DEF TypeInv, TypeOK, Places, GetKeyCached
<1> QED
  BY <1>1, <1>2, <1>3, ReturnFoundTyped DEF GetKeyCached

LEMMA ReturnNotFoundTyped ==
  ASSUME TypeInv, NEW b \in Backend, pc[b] \in {"get", "request"}, ReturnNotFound(b),
         UNCHANGED <<cacheVars, providerVars, forks, orphans>>
  PROVE  TypeInv'
<1> USE Numbers DEF Goto, Set, cacheVars, providerVars
<1>0. /\ vault \in [Version -> Data] /\ keyCount \in 0..Wrapped /\ orphans \subseteq keyInfo
      /\ \A v \in Version : vault[v] # 0 => v <= lastData
      /\ raced \in BOOLEAN /\ lastData \in Nat
  BY DEF TypeInv, TypeOK, NamesBounded, Data
<1>1. CASE ReaderFails(b)
  BY <1>0, <1>1, LeaveTyped DEF ReaderFails
<1>2. CASE LatestFound(b)
  <2> USE <1>2 DEF LatestFound
  <2>1. TypeOK' /\ Places'
    BY DEF TypeInv, TypeOK, Places, NoSlot, Slot
  <2>2. ASSUME NEW c \in Backend PROVE VersionBounded(c)'
    BY <2>2 DEF TypeInv, TypeOK, NamesBounded, VersionBounded, Filling
  <2>3. NamesBounded'
    BY <2>2 DEF TypeInv, NamesBounded
  <2>4. MayGenerate' = MayGenerate
    BY DEF MayGenerate
  <2> QED
    BY <2>1, <2>3, <2>4, FewerReserved DEF TypeInv
<1>3. CASE StartGenerate(b)
  <2> USE <1>3 DEF StartGenerate
  <2>1. TypeOK' /\ Places'
    BY DEF TypeInv, TypeOK, Places
  <2>2. ASSUME NEW c \in Backend PROVE VersionBounded(c)'
    BY <1>0, <2>2 DEF TypeInv, TypeOK, NamesBounded, VersionBounded, Filling
  <2>3. NamesBounded'
    BY <2>2 DEF TypeInv, NamesBounded
  <2>4. MayGenerate' \subseteq MayGenerate
    BY DEF MayGenerate, TypeInv, TypeOK
  <2> QED
    BY <2>1, <2>3, <2>4, FewerReserved DEF TypeInv
<1>4. CASE Generate(b)
  <2> USE <1>4 DEF Generate
  <2>1. b \in MayGenerate /\ lastData' = lastData + 1 /\ lastData' \in Data
    BY ReservedBound DEF MayGenerate, TypeInv, TypeOK, Data
  <2>2. TypeOK' /\ Places'
    BY <2>1 DEF TypeInv, TypeOK, Places
  <2>3. NamesBounded'
    <3>1. ASSUME NEW c \in Backend PROVE VersionBounded(c)'
      <4>1. version[c] \in Nat
        BY <3>1 DEF TypeInv, TypeOK, Version
      <4> QED
        BY <1>0, <2>1, <3>1, <4>1 DEF TypeInv, TypeOK, NamesBounded, VersionBounded, Filling
    <3>2. /\ \A s \in Slot : keys[s].name \in Nat /\ file.keys[s].name \in Nat
          /\ \A v \in Version : v \in Nat
          /\ \A f \in forks : f.name \in Nat
      BY DEF TypeInv, TypeOK, keyInfo, Version
    <3> QED
      BY <1>0, <2>1, <3>1, <3>2 DEF TypeInv, NamesBounded
  <2>4. Reserved'
    <3>1. MayGenerate' = MayGenerate \ {b}
      BY <2>1 DEF MayGenerate, TypeInv, TypeOK
    <3>2. IsFiniteSet(MayGenerate)
      <4>1. MayGenerate \subseteq Backend
        BY DEF MayGenerate
      <4> QED
        BY <4>1, FS_Subset, KeyringAssumption
    <3>3. Cardinality(MayGenerate') = Cardinality(MayGenerate) - 1
      BY <2>1, <3>1, <3>2, FS_RemoveElement
    <3> QED
      BY <1>0, <2>1, <3>3, ReservedBound DEF Reserved, TypeInv
  <2> QED
    BY <2>2, <2>3, <2>4 DEF TypeInv
<1> QED
  BY <1>1, <1>2, <1>3, <1>4 DEF ReturnNotFound

\* A step that changes only the cache, pc and the pointers of a call.
LEMMA FillTyped ==
  ASSUME TypeInv, NEW b \in Backend, NEW l, pc' = [pc EXCEPT ![b] = l],
         l \in {"request", "name", "data", "load", "inc", "ptr", "store", "dump", "encrypt"},
         l \in {"name", "data", "load", "inc", "ptr"} => version[b] <= lastData,
         l = "request" => call[b] # "store",
         keys' \in [Slot -> keyInfo], \A s \in Slot : keys'[s].name <= lastData,
         keyCount' \in 0..Wrapped, kd' \in [Backend -> Data], count' \in [Backend -> 0..Cap],
         ptr' \in [Backend -> 0..Cap],
         \A c \in Backend : pc'[c] \in {"store", "dump", "encrypt", "decrypt"} => ptr'[c] \in Slot,
         vault' \in [Version -> Data], \A v \in Version : vault'[v] # 0 => v <= lastData,
         file' \in [keys : [Slot -> keyInfo], keyCount : 0..Wrapped],
         \A s \in Slot : file'.keys[s].name <= lastData,
         raced' \in BOOLEAN, orphans' \subseteq keyInfo,
         UNCHANGED <<requestMayFail, keyringProvider, call, version, prev, forks, reading,
                     lastData>>
  PROVE  TypeInv'
<1>1. TypeOK'
  BY DEF TypeInv, TypeOK
<1>2. Places'
  BY DEF TypeInv, TypeOK, Places
<1>3. ASSUME NEW c \in Backend PROVE VersionBounded(c)'
  BY <1>3 DEF TypeInv, TypeOK, NamesBounded, VersionBounded, Filling
<1>4. NamesBounded'
  BY <1>3 DEF TypeInv, NamesBounded
<1>5. MayGenerate' = MayGenerate
  BY DEF MayGenerate
<1> QED
  BY <1>1, <1>2, <1>4, <1>5, FewerReserved DEF TypeInv

LEMMA FillStepTyped ==
  ASSUME TypeInv, NEW b \in Backend,
         RequestKey(b) \/ StoreName(b) \/ StoreData(b) \/ LoadCount(b) \/ IncCount(b)
  PROVE  TypeInv'
<1> USE Numbers DEF Goto, Set, cacheVars, providerVars, doors
<1>0. /\ vault \in [Version -> Data] /\ \A v \in Version : vault[v] # 0 => v <= lastData
      /\ file \in [keys : [Slot -> keyInfo], keyCount : 0..Wrapped]
      /\ \A s \in Slot : file.keys[s].name <= lastData /\ keys[s].name <= lastData
      /\ keys \in [Slot -> keyInfo] /\ keyCount \in 0..Wrapped
      /\ kd \in [Backend -> Data] /\ count \in [Backend -> 0..Cap] /\ ptr \in [Backend -> 0..Cap]
      /\ raced \in BOOLEAN /\ orphans \subseteq keyInfo
      /\ version[b] \in Version /\ VersionBounded(b)
      /\ \A c \in Backend : pc[c] \in {"store", "dump", "encrypt", "decrypt"} => ptr[c] \in Slot
      /\ pc \in [Backend -> {"idle", "get", "request", "name", "data", "load", "inc", "ptr",
                             "store", "dump", "encrypt", "decrypt"}]
  BY DEF TypeInv, TypeOK, NamesBounded, Places
<1>1. CASE RequestKey(b)
  <2>1. call[b] # "store"
    BY <1>1 DEF RequestKey, TypeInv, Places
  <2> QED
    BY <1>0, <1>1, <2>1, FillTyped DEF RequestKey
<1>2. CASE StoreName(b)
  <2>1. version[b] <= lastData
    BY <1>0, <1>2 DEF StoreName, VersionBounded, Filling
  <2>2. keyCount \in Slot
    BY <1>0, <1>2 DEF StoreName, Slot
  <2>3. keys' \in [Slot -> keyInfo] /\ \A s \in Slot : keys'[s].name <= lastData
    BY <1>0, <1>2, <2>1, <2>2 DEF StoreName, keyInfo
  <2> QED
    BY <1>0, <1>2, <2>1, <2>3, FillTyped DEF StoreName
<1>3. CASE StoreData(b)
  <2>1. version[b] <= lastData
    BY <1>0, <1>3 DEF StoreData, VersionBounded, Filling
  <2>2. keyCount \in Slot /\ kd[b] \in Data
    BY <1>0, <1>3 DEF StoreData, Slot
  <2>3. keys' \in [Slot -> keyInfo] /\ \A s \in Slot : keys'[s].name <= lastData
    BY <1>0, <1>3, <2>1, <2>2 DEF StoreData, keyInfo
  <2> QED
    BY <1>0, <1>3, <2>1, <2>3, FillTyped DEF StoreData
<1>4. CASE LoadCount(b)
  <2>1. version[b] <= lastData
    BY <1>0, <1>4 DEF LoadCount, VersionBounded, Filling
  <2>2. count' \in [Backend -> 0..Cap]
    BY <1>0, <1>4 DEF LoadCount
  <2> QED
    BY <1>0, <1>4, <2>1, <2>2, FillTyped DEF LoadCount
<1>5. CASE IncCount(b)
  <2>1. version[b] <= lastData
    BY <1>0, <1>5 DEF IncCount, VersionBounded, Filling
  <2>2. keyCount' \in 0..Wrapped
    BY <1>0, <1>5 DEF IncCount, Wrapped
  <2> QED
    BY <1>0, <1>5, <2>1, <2>2, FillTyped DEF IncCount
<1> QED
  BY <1>1, <1>2, <1>3, <1>4, <1>5

LEMMA VaultGetTyped ==
  ASSUME TypeInv, NEW b \in Backend, keyringVaultGetKey(b)
  PROVE  TypeInv'
<1> USE Numbers DEF Goto, Set, cacheVars, providerVars, keyringVaultGetKey
<1>0. /\ vault \in [Version -> Data] /\ \A v \in Version : vault[v] # 0 => v <= lastData
      /\ file \in [keys : [Slot -> keyInfo], keyCount : 0..Wrapped]
      /\ \A s \in Slot : file.keys[s].name <= lastData /\ keys[s].name <= lastData
      /\ keys \in [Slot -> keyInfo] /\ keyCount \in 0..Wrapped
      /\ kd \in [Backend -> Data] /\ count \in [Backend -> 0..Cap] /\ ptr \in [Backend -> 0..Cap]
      /\ raced \in BOOLEAN /\ orphans \subseteq keyInfo
      /\ version[b] \in Version
      /\ \A c \in Backend : pc[c] \in {"store", "dump", "encrypt", "decrypt"} => ptr[c] \in Slot
      /\ pc \in [Backend -> {"idle", "get", "request", "name", "data", "load", "inc", "ptr",
                             "store", "dump", "encrypt", "decrypt"}]
  BY DEF TypeInv, TypeOK, NamesBounded, Places
<1>1. CASE vault[version[b]] = 0 /\ ReturnNotFound(b)
  BY <1>1, ReturnNotFoundTyped
<1>2. CASE requestMayFail /\ Leave(b) /\ UNCHANGED <<lastData, raced>>
  BY <1>0, <1>2, LeaveTyped
<1>3. CASE /\ vault[version[b]] # 0
           /\ kd' = Set(kd, b, vault[version[b]])
           /\ Goto(b, "name")
           /\ raced' = (raced \/ Beside(b))
           /\ UNCHANGED <<call, version, ptr, prev, count, reading, lastData>>
  <2>1. version[b] <= lastData /\ vault[version[b]] \in Data
    BY <1>0, <1>3
  <2>2. kd' \in [Backend -> Data] /\ raced' \in BOOLEAN
    BY <1>0, <1>3, <2>1
  <2> QED
    BY <1>0, <1>3, <2>1, <2>2, FillTyped
<1> QED
  BY <1>1, <1>2, <1>3

LEMMA TakePointerTyped ==
  ASSUME TypeInv, NEW b \in Backend, TakePointer(b)
  PROVE  TypeInv'
<1> USE Numbers DEF Goto, Set, cacheVars, providerVars, doors
<1>0. /\ vault \in [Version -> Data] /\ \A v \in Version : vault[v] # 0 => v <= lastData
      /\ file \in [keys : [Slot -> keyInfo], keyCount : 0..Wrapped]
      /\ \A s \in Slot : file.keys[s].name <= lastData /\ keys[s].name <= lastData
      /\ keys \in [Slot -> keyInfo] /\ keyCount \in 0..Wrapped
      /\ kd \in [Backend -> Data] /\ count \in [Backend -> 0..Cap] /\ ptr \in [Backend -> 0..Cap]
      /\ raced \in BOOLEAN /\ orphans \subseteq keyInfo
      /\ version[b] <= lastData
      /\ \A c \in Backend : pc[c] \in {"store", "dump", "encrypt", "decrypt"} => ptr[c] \in Slot
      /\ pc \in [Backend -> {"idle", "get", "request", "name", "data", "load", "inc", "ptr",
                             "store", "dump", "encrypt", "decrypt"}]
  BY DEF TypeInv, TypeOK, NamesBounded, Places, VersionBounded, Filling, TakePointer
<1>1. keyCount - 1 \in Slot /\ keyCount - 1 \in 0..Cap
  BY <1>0 DEF TakePointer, Slot
<1>2. CASE call[b] = "store"
  <2>1. /\ pc' = [pc EXCEPT ![b] = "store"] /\ ptr' = [ptr EXCEPT ![b] = keyCount - 1]
        /\ UNCHANGED <<call, version, prev, kd, count, forks, reading, lastData, raced, orphans>>
        /\ UNCHANGED <<keys, keyCount, requestMayFail, keyringProvider, vault, file>>
    BY <1>2 DEF TakePointer
  <2>2. ptr' \in [Backend -> 0..Cap]
    BY <1>0, <1>1, <2>1
  <2>3. \A c \in Backend : pc'[c] \in {"store", "dump", "encrypt", "decrypt"} => ptr'[c] \in Slot
    BY <1>0, <1>1, <2>1
  <2> QED
    BY <1>0, <2>1, <2>2, <2>3, FillTyped
<1>3. CASE call[b] # "store"
  BY <1>0, <1>1, <1>3, ReturnFoundTyped DEF TakePointer
<1> QED
  BY <1>2, <1>3

LEMMA StoreTyped ==
  ASSUME TypeInv, NEW b \in Backend,
         StoreUnknown(b) \/ keyringVaultStoreKey(b) \/ keyringFileOpen(b) \/ keyringFileDump(b)
  PROVE  TypeInv'
<1> USE Numbers DEF Goto, Set, cacheVars, providerVars, doors
<1>0. /\ vault \in [Version -> Data] /\ \A v \in Version : vault[v] # 0 => v <= lastData
      /\ file \in [keys : [Slot -> keyInfo], keyCount : 0..Wrapped]
      /\ \A s \in Slot : file.keys[s].name <= lastData /\ keys[s].name <= lastData
      /\ keys \in [Slot -> keyInfo] /\ keyCount \in 0..Wrapped
      /\ kd \in [Backend -> Data] /\ count \in [Backend -> 0..Cap] /\ ptr \in [Backend -> 0..Cap]
      /\ raced \in BOOLEAN /\ orphans \subseteq keyInfo
      /\ \A c \in Backend : pc[c] \in {"store", "dump", "encrypt", "decrypt"} => ptr[c] \in Slot
      /\ pc \in [Backend -> {"idle", "get", "request", "name", "data", "load", "inc", "ptr",
                             "store", "dump", "encrypt", "decrypt"}]
      /\ lastData \in Nat
  BY DEF TypeInv, TypeOK, NamesBounded, Places, Data
<1>1. ptr[b] \in Slot /\ keys[ptr[b]] \in keyInfo /\ keys[ptr[b]].name <= lastData
  BY <1>0 DEF StoreUnknown, keyringVaultStoreKey, keyringFileOpen, keyringFileDump
<1>2. ASSUME StoreFailed(b) PROVE keyCount' \in 0..Wrapped
  BY <1>0, <1>2 DEF StoreFailed, Wrapped
<1>3. CASE StoreUnknown(b)
  BY <1>0, <1>2, <1>3, LeaveTyped DEF StoreUnknown, StoreFailed
<1>4. CASE keyringVaultStoreKey(b)
  <2> DEFINE posted == [vault EXCEPT ![keys[ptr[b]].name] = keys[ptr[b]].data]
  <2>1. posted \in [Version -> Data] /\ \A v \in Version : posted[v] # 0 => v <= lastData
    BY <1>0, <1>1 DEF keyInfo
  <2>2. CASE vault' = posted /\ pc' = [pc EXCEPT ![b] = "encrypt"]
             /\ UNCHANGED <<cacheVars, call, version, ptr, prev, kd, count, reading,
                            forks, lastData, orphans>>
    <3>1. ptr[b] \in Slot /\ \A c \in Backend :
            pc'[c] \in {"store", "dump", "encrypt", "decrypt"} => ptr'[c] \in Slot
      BY <1>0, <1>1, <2>2
    <3> HIDE DEF posted
    <3> QED
      BY <1>0, <1>4, <2>1, <2>2, <3>1, FillTyped DEF keyringVaultStoreKey
  <2>3. CASE StoreFailed(b) /\ UNCHANGED <<vault, orphans>>
    BY <1>0, <1>2, <1>4, <2>3, LeaveTyped DEF keyringVaultStoreKey, StoreFailed
  <2>4. CASE /\ requestMayFail /\ Leave(b)
             /\ \/ vault' = posted /\ UNCHANGED orphans
                \/ UNCHANGED vault /\ orphans' = orphans \cup {keys[ptr[b]]}
             /\ UNCHANGED <<cacheVars, forks, lastData>>
    <3> HIDE DEF posted
    <3>1. /\ vault' \in [Version -> Data] /\ \A v \in Version : vault'[v] # 0 => v <= lastData
          /\ orphans' \subseteq keyInfo
      BY <1>0, <1>1, <2>1, <2>4
    <3> QED
      BY <1>0, <1>4, <2>4, <3>1, LeaveTyped DEF keyringVaultStoreKey
  <2> QED
    BY <1>4, <2>2, <2>3, <2>4 DEF keyringVaultStoreKey
<1>5. CASE keyringFileOpen(b)
  <2>1. CASE /\ file' = EmptyFile /\ orphans' = orphans \cup InUse(file)
             /\ pc' = [pc EXCEPT ![b] = "dump"]
             /\ UNCHANGED <<call, version, ptr, prev, kd, count, reading>>
    <3>1. orphans' \subseteq keyInfo
      BY <1>0, <2>1 DEF InUse
    <3>2. /\ file' \in [keys : [Slot -> keyInfo], keyCount : 0..Wrapped]
          /\ \A s \in Slot : file'.keys[s].name <= lastData
      BY <1>0, <2>1 DEF EmptyFile, EmptyCache, Zero, keyInfo, Wrapped
    <3>3. \A c \in Backend :
            pc'[c] \in {"store", "dump", "encrypt", "decrypt"} => ptr'[c] \in Slot
      BY <1>0, <1>1, <2>1
    <3> QED
      BY <1>0, <1>5, <2>1, <3>1, <3>2, <3>3, FillTyped DEF keyringFileOpen
  <2>2. CASE /\ requestMayFail /\ Leave(b) /\ UNCHANGED file
             /\ orphans' = orphans \cup {keys[ptr[b]]}
    BY <1>0, <1>1, <1>5, <2>2, LeaveTyped DEF keyringFileOpen
  <2> QED
    BY <1>5, <2>1, <2>2 DEF keyringFileOpen
<1>6. CASE keyringFileDump(b)
  <2>1. \A c \in Backend :
          pc'[c] \in {"store", "dump", "encrypt", "decrypt"} => ptr'[c] \in Slot
    BY <1>0, <1>1, <1>6 DEF keyringFileDump
  <2>2. orphans' \subseteq keyInfo
    BY <1>0, <1>6 DEF keyringFileDump
  <2> QED
    BY <1>0, <1>6, <2>1, <2>2, FillTyped DEF keyringFileDump
<1> QED
  BY <1>3, <1>4, <1>5, <1>6

LEMMA UseTyped ==
  ASSUME TypeInv, NEW b \in Backend, EncryptFork(b) \/ DecryptFork(b)
  PROVE  TypeInv'
<1> USE Numbers DEF Goto, Set, cacheVars, providerVars, doors
<1>0. /\ vault \in [Version -> Data] /\ \A v \in Version : vault[v] # 0 => v <= lastData
      /\ keyCount \in 0..Wrapped /\ raced \in BOOLEAN /\ orphans \subseteq keyInfo
  BY DEF TypeInv, TypeOK, NamesBounded
<1>1. CASE DecryptFork(b)
  BY <1>0, <1>1, LeaveTyped DEF DecryptFork
<1>2. CASE EncryptFork(b)
  <2> USE <1>2 DEF EncryptFork
  <2>1. /\ keys[ptr[b]] \in keyInfo /\ keys[ptr[b]].name <= lastData /\ lastData \in Nat
    BY DEF TypeInv, TypeOK, NamesBounded, Places, Data
  <2>2. NoFork \in keyInfo
    BY DEF NoFork, Zero, keyInfo
  <2>3. TypeOK' /\ Places'
    BY <2>1, <2>2 DEF TypeInv, TypeOK, Places, Leave
  <2>4. ASSUME NEW c \in Backend PROVE VersionBounded(c)'
    BY <2>1, <2>4 DEF TypeInv, TypeOK, NamesBounded, VersionBounded, Filling, Leave
  <2>5. NamesBounded'
    BY <2>1, <2>4 DEF TypeInv, NamesBounded
  <2>6. MayGenerate' \subseteq MayGenerate
    BY DEF MayGenerate, TypeInv, TypeOK, Leave
  <2> QED
    BY <2>3, <2>5, <2>6, FewerReserved DEF TypeInv
<1> QED
  BY <1>1, <1>2

LEMMA RestartTyped == TypeInv /\ Restart => TypeInv'
<1> SUFFICES ASSUME TypeInv, Restart PROVE TypeInv'
  OBVIOUS
<1> USE Numbers DEF Restart, providerVars, doors
<1>1. /\ EmptyCache \in [Slot -> keyInfo] /\ NoFork \in keyInfo /\ 0 \in 0..Wrapped
      /\ lastData \in Nat
      /\ \A s \in Slot : EmptyCache[s].name <= lastData
  BY DEF EmptyCache, NoFork, Zero, keyInfo, Wrapped, TypeInv, TypeOK, Data
<1>2. /\ CacheAtStart.keys \in [Slot -> keyInfo] /\ CacheAtStart.keyCount \in 0..Wrapped
      /\ \A s \in Slot : CacheAtStart.keys[s].name <= lastData
  BY <1>1 DEF CacheAtStart, EmptyFile, TypeInv, TypeOK, NamesBounded
<1>3. TypeOK' /\ Places'
  BY <1>1, <1>2 DEF TypeInv, TypeOK, Places
<1>4. NamesBounded'
  <2>1. ASSUME NEW c \in Backend PROVE VersionBounded(c)'
    BY <1>1, <2>1 DEF VersionBounded
  <2> QED
    BY <1>1, <1>2, <2>1 DEF TypeInv, NamesBounded
<1>5. MayGenerate' \subseteq MayGenerate
  BY DEF MayGenerate
<1> QED
  BY <1>3, <1>4, <1>5, FewerReserved DEF TypeInv

LEMMA NextTyped == TypeInv /\ [Next]_vars => TypeInv'
<1> SUFFICES ASSUME TypeInv, [Next]_vars PROVE TypeInv'
  OBVIOUS
<1>1. CASE Restart
  BY <1>1, RestartTyped
<1>2. ASSUME NEW b \in Backend, WriteKeyFork(b) PROVE TypeInv'
  BY <1>2, WriteKeyForkTyped
<1>3. ASSUME NEW b \in Backend, NEW f \in forks, ReadKeyFork(b, f) PROVE TypeInv'
  BY <1>3, ReadKeyForkTyped
<1>4. ASSUME NEW b \in Backend, Step(b) PROVE TypeInv'
  <2>1. CASE GetKeyNotFound(b)
    BY <1>4, <2>1, ReturnNotFoundTyped DEF GetKeyNotFound
  <2> QED
    BY <1>4, <2>1, GetKeyCachedTyped, VaultGetTyped, FillStepTyped, TakePointerTyped,
       StoreTyped, UseTyped DEF Step
<1>5. CASE UNCHANGED vars
  BY <1>5 DEF vars, cacheVars, providerVars, callVars, doors, TypeInv, TypeOK, NamesBounded,
     VersionBounded, Filling, Reserved, MayGenerate, Places
<1> QED
  BY <1>1, <1>2, <1>3, <1>4, <1>5 DEF Next

\* Cache, key stores, calls and forks keep their types, for any backends,
\* through races, failures and restarts; in particular no more keys are
\* generated and no higher version is asked for than the bounds allow.
THEOREM TypeCorrect == Spec => []TypeOK
<1>1. TypeInv => TypeOK
  BY DEF TypeInv
<1> QED
  BY <1>1, InitTyped, NextTyped, PTL DEF Spec

-----------------------------------------------------------------------------
(* A vault that has a key is not written again, whatever races.              *)

\* The vault holds what it held at first, and nobody is generating a key.
Untouched(V) ==
  /\ keyringProvider = "vault" /\ vault = V
  /\ keyCount \in 0..Cap
  /\ \A b \in Backend :
       /\ call[b] \in {"latest", "read"}
       /\ call[b] = "latest" => version[b] = 1 \/ prev[b] # NoSlot
       /\ pc[b] = "inc" => count[b] < Cap
       /\ pc[b] \notin {"store", "dump"}

LEMMA UntouchedKept ==
  ASSUME NEW V, V[1] # 0, TypeInv, Untouched(V), [Next]_vars
  PROVE  Untouched(V)'
<1> USE Numbers DEF Goto, Set, cacheVars, providerVars, doors
<1>0. /\ pc \in [Backend -> {"idle", "get", "request", "name", "data", "load", "inc", "ptr",
                             "store", "dump", "encrypt", "decrypt"}]
      /\ call \in [Backend -> {"latest", "generate", "store", "read"}]
      /\ version \in [Backend -> Version] /\ prev \in [Backend -> 0..Cap]
      /\ count \in [Backend -> 0..Cap]
  BY DEF TypeInv, TypeOK
<1>1. CASE Restart
  BY <1>1 DEF Restart, Untouched, CacheAtStart, EmptyFile
<1>2. ASSUME NEW b \in Backend, WriteKeyFork(b) PROVE Untouched(V)'
  BY <1>0, <1>2 DEF WriteKeyFork, Untouched
<1>3. ASSUME NEW b \in Backend, NEW f \in forks, ReadKeyFork(b, f) PROVE Untouched(V)'
  BY <1>0, <1>3 DEF ReadKeyFork, Untouched
<1>4. ASSUME NEW b \in Backend, Step(b) PROVE Untouched(V)'
  <2>1. ASSUME NEW s \in Slot, ReturnFound(b, s), pc[b] \in {"get", "ptr"},
               UNCHANGED <<cacheVars, providerVars, count>>
        PROVE  Untouched(V)'
    <3>1. s # NoSlot
      BY DEF Slot, NoSlot
    <3> QED
      BY <1>0, <2>1, <3>1 DEF ReturnFound, Untouched
  <2>2. CASE GetKeyCached(b)
    BY <2>1, <2>2 DEF GetKeyCached
  <2>3. CASE GetKeyNotFound(b)
    BY <2>3 DEF GetKeyNotFound, Untouched
  <2>4. CASE RequestKey(b)
    BY <1>0, <2>4 DEF RequestKey, Untouched
  <2>5. CASE keyringVaultGetKey(b)
    <3>1. CASE vault[version[b]] = 0 /\ ReturnNotFound(b)
      <4>1. call[b] = "latest" => prev[b] # NoSlot
        BY <3>1 DEF Untouched
      <4> QED
        BY <1>0, <2>5, <3>1, <4>1 DEF keyringVaultGetKey, Untouched, ReturnNotFound, ReaderFails,
           LatestFound, StartGenerate, Generate, Leave
    <3>2. CASE ~(vault[version[b]] = 0 /\ ReturnNotFound(b))
      BY <1>0, <2>5, <3>2 DEF keyringVaultGetKey, Untouched, Leave
    <3> QED
      BY <3>1, <3>2
  <2>6. CASE StoreName(b) \/ StoreData(b)
    BY <1>0, <2>6 DEF StoreName, StoreData, Untouched
  <2>7. CASE LoadCount(b)
    BY <1>0, <2>7 DEF LoadCount, Untouched
  <2>8. CASE IncCount(b)
    BY <1>0, <2>8 DEF IncCount, Untouched
  <2>9. CASE TakePointer(b)
    <3>1. keyCount - 1 \in Slot /\ call[b] # "store"
      BY <2>9 DEF TakePointer, Untouched, Slot
    <3> QED
      BY <2>1, <2>9, <3>1 DEF TakePointer
  <2>10. CASE StoreUnknown(b) \/ keyringVaultStoreKey(b) \/ keyringFileOpen(b) \/ keyringFileDump(b)
    BY <2>10 DEF StoreUnknown, keyringVaultStoreKey, keyringFileOpen, keyringFileDump, Untouched
  <2>11. CASE EncryptFork(b) \/ DecryptFork(b)
    BY <1>0, <2>11 DEF EncryptFork, DecryptFork, Untouched, Leave
  <2> QED
    BY <1>4, <2>2, <2>3, <2>4, <2>5, <2>6, <2>7, <2>8, <2>9, <2>10, <2>11 DEF Step
<1>5. CASE UNCHANGED vars
  BY <1>5 DEF vars, callVars, Untouched
<1> QED
  BY <1>1, <1>2, <1>3, <1>4, <1>5 DEF Next

\* keyringStoreKey of a server whose vault has version 1 when it starts is never
\* reached: no race between backends, no failed request and no restart writes
\* the vault again.  All the doors of Keyring lead to the first key or to the
\* shared cache.
THEOREM VaultWrittenOnce ==
  ASSUME NEW V, V[1] # 0
  PROVE  Spec /\ keyringProvider = "vault" /\ vault = V => [](vault = V)
<1>1. Init /\ keyringProvider = "vault" /\ vault = V => Untouched(V)
  BY Numbers DEF Init, Untouched
<1>2. TypeInv /\ Untouched(V) /\ [Next]_vars => TypeInv' /\ Untouched(V)'
  BY NextTyped, UntouchedKept
<1>3. Untouched(V) => vault = V
  BY DEF Untouched
<1> QED
  BY <1>1, <1>2, <1>3, InitTyped, PTL DEF Spec

-----------------------------------------------------------------------------
(* The inductive invariant, as long as no backend raced.                     *)

Active(b) == Filling(b) \/ Storing(b)

\* keyringCacheStoreKey is between its first line and keyCount++.
Entering(b) == pc[b] \in {"name", "data", "load", "inc"}

\* The new key is complete in the last slot in use, and not in the store.
Unsaved(b) == call[b] = "store" /\ pc[b] \in {"ptr", "store", "dump"}

\* A slot in use that no failing store will take back.
Settled(s) ==
  /\ s \in Slot /\ s < keyCount
  /\ s = keyCount - 1 => \A b \in Backend : ~Unsaved(b)

UniqueNames(cache) ==
  \A s, t \in Slot :
    s < cache.keyCount /\ t < cache.keyCount /\ cache.keys[s].name = cache.keys[t].name => s = t

OneActive == \A b, c \in Backend : Active(b) /\ Active(c) => b = c

\* A slot in use holds what the store has, an orphan, or the unsaved key.
CacheOK ==
  /\ keyCount \in 0..Cap
  /\ \A s \in Slot : s < keyCount =>
       /\ keys[s].name # 0 /\ keys[s].data # 0
       /\ \/ keys[s].data = Stored(keys[s].name)
          \/ keys[s] \in orphans
          \/ s = keyCount - 1 /\ \E b \in Backend : Unsaved(b)

\* Without a vault, names are distinct in the cache, and so in what is dumped.
FileOK ==
  keyringProvider # "vault" =>
    /\ UniqueNames([keys |-> keys, keyCount |-> keyCount])
    /\ UniqueNames(file) /\ file.keyCount \in 0..Cap
    /\ \A s \in Slot : s < file.keyCount => file.keys[s].name # 0 /\ file.keys[s].data # 0
    /\ \A b \in Backend :
         /\ pc[b] # "request"
         /\ Entering(b) => call[b] = "store" /\ Hits(version[b]) = {}

ForksOK ==
  \A f \in forks : f.name # 0 /\ f.data # 0 /\ (f \in orphans \/ Stored(f.name) = f.data)

\* What the locals of a call say.
CallOK(b) ==
  /\ pc[b] # "idle" /\ call[b] = "read" => reading[b] \in forks /\ version[b] = reading[b].name
  /\ call[b] \in {"latest", "generate"} => version[b] # 0
  /\ pc[b] \in {"store", "dump"} => call[b] = "store"
  /\ pc[b] = "decrypt" => call[b] = "read"

PointersOK(b) ==
  /\ pc[b] \in {"encrypt", "decrypt"} => Settled(ptr[b])
  /\ prev[b] # NoSlot => Settled(prev[b])
  /\ pc[b] = "decrypt" => keys[ptr[b]].name = reading[b].name

\* The key on its way into the cache, and from there into the store.
ActiveOK(b) ==
  /\ version[b] # 0 /\ kd[b] # 0
  /\ call[b] = "store" /\ keyringProvider = "vault" => vault[version[b]] = 0
  /\ call[b] # "store" => kd[b] = Stored(version[b])
  /\ pc[b] \in {"data", "load", "inc"} => keyCount < Cap /\ keys[keyCount].name = version[b]
  /\ pc[b] \in {"load", "inc"} => keys[keyCount].data = kd[b]
  /\ pc[b] = "inc" => count[b] = keyCount
  /\ pc[b] \in {"ptr", "store", "dump"} =>
       keyCount >= 1 /\ keys[keyCount - 1] = [name |-> version[b], data |-> kd[b]]
  /\ pc[b] \in {"store", "dump"} => ptr[b] = keyCount - 1
  /\ pc[b] = "dump" => keyringProvider = "file" /\ file = EmptyFile

Good ==
  /\ OneActive /\ CacheOK /\ FileOK /\ ForksOK /\ vault[0] = 0
  /\ \A b \in Backend : CallOK(b) /\ PointersOK(b) /\ (Active(b) => ActiveOK(b))

IInv == TypeInv /\ (raced \/ Good)

-----------------------------------------------------------------------------
(* The key store and the cache under a name.                                 *)

LEMMA StoredSame ==
  ASSUME UNCHANGED <<keyringProvider, vault, file>>
  PROVE  \A v : Stored(v)' = Stored(v)
  BY DEF Stored

LEMMA HitsSame ==
  ASSUME UNCHANGED <<keys, keyCount>>
  PROVE  \A v : Hits(v)' = Hits(v)
  BY DEF Hits

\* In a dump with distinct names, a name leads to the one slot that has it.
LEMMA FoundUnique ==
  ASSUME NEW cache, UniqueNames(cache), NEW s \in Slot, s < cache.keyCount
  PROVE  FoundIn(cache, cache.keys[s].name) = cache.keys[s].data
<1> DEFINE hits == {t \in Slot : t < cache.keyCount /\ cache.keys[t].name = cache.keys[s].name}
<1>1. hits = {s}
  BY DEF UniqueNames
<1>2. (CHOOSE u \in hits : \A t \in hits : u <= t) = s
  <2>1. s <= s
    BY DEF Slot
  <2> QED
    BY <1>1, <2>1
<1> QED
  BY <1>1, <1>2 DEF FoundIn

LEMMA FoundUsed ==
  ASSUME NEW cache, UniqueNames(cache), NEW v, FoundIn(cache, v) # 0
  PROVE  \E s \in Slot : /\ s < cache.keyCount /\ cache.keys[s].name = v
                         /\ cache.keys[s].data = FoundIn(cache, v)
<1> DEFINE hits == {t \in Slot : t < cache.keyCount /\ cache.keys[t].name = v}
<1>1. hits # {}
  BY DEF FoundIn
<1>2. PICK s \in hits : TRUE
  BY <1>1
<1> QED
  BY <1>2, FoundUnique

LEMMA FoundNothing == \A v : FoundIn(EmptyFile, v) = 0
<1> SUFFICES ASSUME NEW v PROVE FoundIn(EmptyFile, v) = 0
  OBVIOUS
<1>1. {s \in Slot : s < EmptyFile.keyCount /\ EmptyFile.keys[s].name = v} = {}
  BY DEF EmptyFile, Slot
<1> QED
  BY <1>1 DEF FoundIn

-----------------------------------------------------------------------------
(* What a step of one backend leaves to the others.                          *)

OthersKeep(b) ==
  \A c \in Backend \ {b} :
    /\ pc'[c] = pc[c] /\ call'[c] = call[c] /\ version'[c] = version[c]
    /\ ptr'[c] = ptr[c] /\ prev'[c] = prev[c] /\ kd'[c] = kd[c]
    /\ count'[c] = count[c] /\ reading'[c] = reading[c]

SettledKept == \A s \in Slot : Settled(s) => Settled(s)' /\ keys'[s].name = keys[s].name

LEMMA OthersOK ==
  ASSUME Good, NEW b \in Backend, OthersKeep(b), forks \subseteq forks', SettledKept
  PROVE  \A c \in Backend \ {b} : CallOK(c)' /\ PointersOK(c)'
<1> SUFFICES ASSUME NEW c \in Backend \ {b} PROVE CallOK(c)' /\ PointersOK(c)'
  OBVIOUS
<1>1. CallOK(c) /\ PointersOK(c)
  BY DEF Good
<1>2. CallOK(c)'
  BY <1>1 DEF CallOK, OthersKeep
<1>3. PointersOK(c)'
  <2>1. \A s : Settled(s) => s \in Slot
    BY DEF Settled
  <2> QED
    BY <1>1, <2>1 DEF PointersOK, OthersKeep, SettledKept, NoSlot
<1> QED
  BY <1>2, <1>3

\* A step of a backend while no other one is in the cache or the store.
LEMMA AloneStep ==
  ASSUME Good, NEW b \in Backend, OthersKeep(b), forks' = forks, SettledKept,
         \A c \in Backend \ {b} : ~Active(c),
         CacheOK', FileOK', ForksOK', (vault[0])' = 0,
         CallOK(b)', PointersOK(b)', Active(b)' => ActiveOK(b)'
  PROVE  Good'
<1>1. \A c \in Backend \ {b} : CallOK(c)' /\ PointersOK(c)'
  BY OthersOK
<1>2. \A c \in Backend \ {b} : ~Active(c)'
  BY DEF Active, Filling, Storing, OthersKeep
<1>3. OneActive'
  BY <1>2 DEF OneActive
<1> QED
  BY <1>1, <1>2, <1>3 DEF Good

\* A step outside of the cache and the store, beside any other backend.
LEMMA LocalStep ==
  ASSUME Good, NEW b \in Backend, OthersKeep(b), forks \subseteq forks',
         UNCHANGED <<cacheVars, providerVars, orphans>>, ~Active(b), ~Active(b)',
         ForksOK', CallOK(b)', PointersOK(b)', pc[b] # "request" /\ pc'[b] = "request" =>
         keyringProvider = "vault"
  PROVE  Good'
<1> USE DEF cacheVars, providerVars
<1>0. /\ \A v : Stored(v)' = Stored(v)
      /\ \A v : Hits(v)' = Hits(v)
  BY StoredSame, HitsSame
<1>1. \A c \in Backend : Active(c)' = Active(c)
  BY DEF Active, Filling, Storing, OthersKeep
<1>2. \A c \in Backend : Unsaved(c)' = Unsaved(c)
  BY DEF Active, Filling, Storing, Unsaved, OthersKeep
<1>3. OneActive'
  BY <1>1 DEF Good, OneActive
<1>4. CacheOK'
  BY <1>0, <1>2 DEF Good, CacheOK
<1>5. SettledKept
  BY <1>2 DEF SettledKept, Settled
<1>6. \A c \in Backend \ {b} : CallOK(c)' /\ PointersOK(c)'
  BY <1>5, OthersOK
<1>7. FileOK'
  <2> SUFFICES ASSUME keyringProvider # "vault" PROVE FileOK'
    BY DEF FileOK
  <2>1. ASSUME NEW c \in Backend
        PROVE  /\ pc'[c] # "request"
               /\ Entering(c)' => call'[c] = "store" /\ Hits(version[c])' = {}
    <3>1. /\ pc[c] # "request"
          /\ Entering(c) => call[c] = "store" /\ Hits(version[c]) = {}
      BY <2>1 DEF Good, FileOK
    <3>2. CASE c = b
      BY <3>1, <3>2 DEF Active, Filling, Entering
    <3>3. CASE c # b
      BY <1>0, <3>1, <3>3 DEF OthersKeep, Entering
    <3> QED
      BY <3>2, <3>3
  <2> QED
    BY <2>1 DEF Good, FileOK, UniqueNames
<1>8. ASSUME NEW c \in Backend, Active(c)' PROVE ActiveOK(c)'
  <2>1. c # b /\ ActiveOK(c)
    BY <1>1, <1>8 DEF Good
  <2> QED
    BY <1>0, <2>1 DEF OthersKeep, ActiveOK
<1> QED
  BY <1>3, <1>4, <1>6, <1>7, <1>8 DEF Good

LEMMA Others ==
  ASSUME TypeInv, NEW b \in Backend,
         WriteKeyFork(b) \/ (\E f \in forks : ReadKeyFork(b, f)) \/ Step(b)
  PROVE  OthersKeep(b)
<1> USE DEF Goto, Set, callVars, TypeInv, TypeOK, OthersKeep
<1>0. ASSUME Leave(b) PROVE OthersKeep(b)
  BY <1>0 DEF Leave
<1>1. CASE WriteKeyFork(b) \/ (\E f \in forks : ReadKeyFork(b, f))
  BY <1>1 DEF WriteKeyFork, ReadKeyFork
<1>2. ASSUME NEW s, ReturnFound(b, s), UNCHANGED <<kd, count, reading>> PROVE OthersKeep(b)
  BY <1>2 DEF ReturnFound
<1>3. ASSUME ReturnNotFound(b) PROVE OthersKeep(b)
  BY <1>0, <1>3 DEF ReturnNotFound, ReaderFails, LatestFound, StartGenerate, Generate
<1>4. CASE GetKeyCached(b) \/ GetKeyNotFound(b) \/ RequestKey(b)
  BY <1>2, <1>3, <1>4 DEF GetKeyCached, GetKeyNotFound, RequestKey
<1>5. CASE keyringVaultGetKey(b)
  BY <1>0, <1>3, <1>5 DEF keyringVaultGetKey
<1>6. CASE StoreName(b) \/ StoreData(b) \/ LoadCount(b) \/ IncCount(b)
  BY <1>6 DEF StoreName, StoreData, LoadCount, IncCount
<1>7. CASE TakePointer(b)
  BY <1>2, <1>7 DEF TakePointer
<1>8. CASE StoreUnknown(b) \/ keyringVaultStoreKey(b)
  BY <1>0, <1>8 DEF StoreUnknown, keyringVaultStoreKey, StoreFailed
<1>9. CASE keyringFileOpen(b) \/ keyringFileDump(b)
  BY <1>0, <1>9 DEF keyringFileOpen, keyringFileDump
<1>10. CASE EncryptFork(b) \/ DecryptFork(b)
  BY <1>0, <1>10 DEF EncryptFork, DecryptFork
<1> QED
  BY <1>1, <1>4, <1>5, <1>6, <1>7, <1>8, <1>9, <1>10 DEF Step

-----------------------------------------------------------------------------
(* Steps outside of the cache and the store.                                 *)

LEMMA LocalSettled ==
  ASSUME NEW b \in Backend, OthersKeep(b), UNCHANGED cacheVars, ~Active(b), ~Active(b)'
  PROVE  \A s : Settled(s)' = Settled(s)
<1>1. \A c \in Backend : Unsaved(c)' = Unsaved(c)
  BY DEF Active, Filling, Storing, Unsaved, OthersKeep
<1> QED
  BY <1>1 DEF cacheVars, Settled

LEMMA ForksOKSame ==
  ASSUME ForksOK, UNCHANGED <<keyringProvider, vault, file>>, forks' = forks, orphans' = orphans
  PROVE  ForksOK'
  BY StoredSame DEF ForksOK

\* A call that ends without having touched the cache or the store.
LEMMA LeaveGood ==
  ASSUME TypeInv, Good, NEW b \in Backend, Leave(b), OthersKeep(b), ~Active(b),
         UNCHANGED <<cacheVars, providerVars, orphans, forks>>
  PROVE  Good'
<1> USE DEF Goto, Set, TypeInv, TypeOK
<1>1. ~Active(b)'
  BY DEF Leave, Active, Filling, Storing
<1>2. CallOK(b)' /\ PointersOK(b)'
  BY DEF Leave, CallOK, PointersOK
<1>3. pc'[b] = "idle"
  BY DEF Leave
<1>4. ForksOK'
  BY ForksOKSame DEF Good, providerVars
<1> QED
  BY <1>1, <1>2, <1>3, <1>4, LocalStep

LEMMA StartGood ==
  ASSUME TypeInv, Good, NEW b \in Backend,
         WriteKeyFork(b) \/ (\E f \in forks : ReadKeyFork(b, f)) \/ RequestKey(b)
  PROVE  Good'
<1> USE DEF Goto, Set, doors
<1>0. /\ OthersKeep(b) /\ UNCHANGED <<cacheVars, providerVars, orphans, forks>>
      /\ CallOK(b) /\ PointersOK(b)
  BY Others DEF Step, WriteKeyFork, ReadKeyFork, RequestKey, Good
<1>1. ~Active(b) /\ ~Active(b)'
  BY DEF WriteKeyFork, ReadKeyFork, RequestKey, Active, Filling, Storing, TypeInv, TypeOK, Places
<1>2. \A s : Settled(s)' = Settled(s)
  BY <1>0, <1>1, LocalSettled
<1>3. CallOK(b)'
  BY <1>0 DEF CallOK, WriteKeyFork, ReadKeyFork, RequestKey, TypeInv, TypeOK
<1>4. PointersOK(b)'
  BY <1>0, <1>2 DEF PointersOK, WriteKeyFork, ReadKeyFork, RequestKey, TypeInv, TypeOK
<1>5. ForksOK'
  BY <1>0, ForksOKSame DEF Good, providerVars
<1>6. pc'[b] = "request" => keyringProvider = "vault"
  BY DEF WriteKeyFork, ReadKeyFork, RequestKey, TypeInv, TypeOK
<1> QED
  BY <1>0, <1>1, <1>3, <1>4, <1>5, <1>6, LocalStep

\* keyringGetKey returns a slot that no failing store takes back.
LEMMA ReturnFoundGood ==
  ASSUME TypeInv, Good, NEW b \in Backend, NEW s, ReturnFound(b, s),
         call[b] # "store", pc[b] # "idle", Settled(s), keys[s].name = version[b],
         UNCHANGED <<keys, forks, reading>>, \A t : Settled(t) => Settled(t)'
  PROVE  CallOK(b)' /\ PointersOK(b)'
<1>0. CallOK(b) /\ PointersOK(b) /\ version[b] \in Nat
  BY DEF Good, TypeInv, TypeOK, Version
<1>1. CallOK(b)'
  BY <1>0 DEF ReturnFound, Goto, Set, CallOK, TypeInv, TypeOK
<1>2. PointersOK(b)'
  BY <1>0 DEF ReturnFound, Goto, Set, PointersOK, CallOK, TypeInv, TypeOK
<1> QED
  BY <1>1, <1>2

LEMMA GetKeyCachedGood ==
  ASSUME TypeInv, Good, NEW b \in Backend, GetKeyCached(b), ~raced'
  PROVE  Good'
<1> USE DEF Goto, Set, cacheVars, providerVars
<1>1. PICK s \in Slot : /\ FirstHit(version[b], s) /\ ReturnFound(b, s)
                        /\ raced' = (raced \/ BeingStored(b, keys[s].data))
  BY DEF GetKeyCached
<1>2. OthersKeep(b) /\ pc[b] = "get" /\ call[b] # "store"
  BY Others DEF Step, GetKeyCached, TypeInv, Places
<1>3. s < keyCount /\ keys[s].name = version[b]
  BY <1>1 DEF FirstHit, Hits
<1>4. Settled(s)
  <2>1. ASSUME NEW c \in Backend, Unsaved(c), s = keyCount - 1 PROVE FALSE
    <3>1. c # b /\ Storing(c) /\ Active(c)
      BY <1>2, <2>1 DEF Unsaved, Storing, Active
    <3>2. keys[s] = [name |-> version[c], data |-> kd[c]]
      BY <2>1, <3>1 DEF Good, ActiveOK, Unsaved
    <3>3. BeingStored(b, keys[s].data)
      BY <3>1, <3>2 DEF BeingStored
    <3> QED
      BY <1>1, <3>3
  <2> QED
    BY <1>3, <2>1 DEF Settled
<1>5. ~Active(b) /\ ~Active(b)'
  BY <1>1, <1>2 DEF ReturnFound, Active, Filling, Storing, TypeInv, TypeOK
<1>6. \A t : Settled(t)' = Settled(t)
  BY <1>2, <1>5, LocalSettled DEF GetKeyCached
<1>7. CallOK(b)' /\ PointersOK(b)'
  BY <1>1, <1>2, <1>3, <1>4, <1>6, ReturnFoundGood DEF GetKeyCached
<1>8. ForksOK'
  BY ForksOKSame DEF Good, GetKeyCached
<1>9. pc'[b] # "request"
  BY <1>1, <1>2 DEF ReturnFound, TypeInv, TypeOK
<1> QED
  BY <1>2, <1>5, <1>7, <1>8, <1>9, LocalStep DEF GetKeyCached

\* A backend enters keyringCacheStoreKey, while no other one is in the cache or
\* the store.
LEMMA EnterGood ==
  ASSUME TypeInv, Good, NEW b \in Backend, OthersKeep(b), ~Active(b), ~Beside(b),
         UNCHANGED <<cacheVars, providerVars, orphans, forks>>,
         pc'[b] = "name", CallOK(b)', prev'[b] = prev[b], ActiveOK(b)',
         keyringProvider # "vault" => call'[b] = "store" /\ Hits(version'[b]) = {}
  PROVE  Good'
<1> USE DEF cacheVars, providerVars
<1>1. \A c \in Backend \ {b} : ~Active(c)
  BY DEF Beside, Active
<1>2. \A c \in Backend : ~Unsaved(c) /\ ~Unsaved(c)'
  <2>1. \A c \in Backend : ~Unsaved(c)
    BY <1>1 DEF Active, Unsaved, Filling, Storing
  <2> QED
    BY <2>1 DEF Unsaved, OthersKeep
<1>3. SettledKept
  BY <1>2 DEF SettledKept, Settled
<1>4. CacheOK'
  BY <1>2, StoredSame DEF Good, CacheOK
<1>5. FileOK'
  <2> SUFFICES ASSUME keyringProvider # "vault" PROVE FileOK'
    BY DEF FileOK
  <2>1. ASSUME NEW c \in Backend
        PROVE  /\ pc'[c] # "request"
               /\ Entering(c)' => call'[c] = "store" /\ Hits(version[c])' = {}
    <3>1. CASE c = b
      BY <3>1, HitsSame
    <3>2. CASE c # b
      BY <2>1, <3>2, HitsSame DEF Good, FileOK, OthersKeep, Entering
    <3> QED
      BY <3>1, <3>2
  <2> QED
    BY <2>1 DEF Good, FileOK, UniqueNames
<1>6. ForksOK' /\ (vault[0])' = 0
  BY ForksOKSame DEF Good
<1>7. PointersOK(b)'
  <2>1. \A s : Settled(s) => Settled(s)'
    BY <1>3 DEF SettledKept, Settled
  <2> QED
    BY <2>1 DEF PointersOK, Good
<1> QED
  BY <1>1, <1>3, <1>4, <1>5, <1>6, <1>7, AloneStep

LEMMA ReturnNotFoundGood ==
  ASSUME TypeInv, Good, NEW b \in Backend, pc[b] \in {"get", "request"}, ReturnNotFound(b),
         ~raced', OthersKeep(b), UNCHANGED <<cacheVars, providerVars, orphans, forks>>,
         keyringProvider = "vault" => vault[version[b]] = 0,
         keyringProvider # "vault" => Hits(version[b]) = {}
  PROVE  Good'
<1> USE DEF Goto, Set, TypeInv, TypeOK
<1>0. /\ ~Active(b) /\ call[b] # "store" /\ CallOK(b) /\ PointersOK(b)
  BY DEF Active, Filling, Storing, Places, Good
<1>1. CASE ReaderFails(b)
  BY <1>0, <1>1, LeaveGood DEF ReaderFails
<1>2. CASE LatestFound(b) \/ StartGenerate(b)
  <2>1. ~Active(b)' /\ pc'[b] # "request"
    BY <1>0, <1>2 DEF LatestFound, StartGenerate, Active, Filling, Storing
  <2>2. \A t : Settled(t)' = Settled(t)
    BY <1>0, <2>1, LocalSettled
  <2>3. CallOK(b)'
    BY <1>0, <1>2 DEF LatestFound, StartGenerate, CallOK
  <2>4. PointersOK(b)'
    BY <1>0, <1>2, <2>2 DEF LatestFound, StartGenerate, PointersOK
  <2>5. ForksOK'
    BY ForksOKSame DEF Good, providerVars
  <2> QED
    BY <1>0, <2>1, <2>3, <2>4, <2>5, LocalStep
<1>3. CASE Generate(b)
  <2> USE <1>3 DEF Generate
  <2>1. ~Beside(b) /\ pc'[b] = "name" /\ call'[b] = "store" /\ version' = version
        /\ prev' = prev
    OBVIOUS
  <2>2. kd'[b] # 0 /\ version[b] # 0
    BY <1>0 DEF CallOK, Data
  <2>3. CallOK(b)'
    BY <2>1 DEF CallOK
  <2>4. ActiveOK(b)'
    BY <2>1, <2>2 DEF ActiveOK, providerVars
  <2> QED
    BY <1>0, <2>1, <2>3, <2>4, EnterGood
<1> QED
  BY <1>1, <1>2, <1>3 DEF ReturnNotFound

LEMMA VaultGetGood ==
  ASSUME TypeInv, Good, NEW b \in Backend, keyringVaultGetKey(b), ~raced'
  PROVE  Good'
<1> USE DEF Goto, Set, keyringVaultGetKey
<1>0. /\ OthersKeep(b) /\ ~Active(b) /\ call[b] # "store" /\ CallOK(b)
      /\ UNCHANGED <<cacheVars, providerVars, orphans, forks>>
      /\ keyringProvider = "vault"
  BY Others DEF Step, Active, Filling, Storing, TypeInv, Places, Good, FileOK
<1>1. CASE vault[version[b]] = 0 /\ ReturnNotFound(b)
  BY <1>0, <1>1, ReturnNotFoundGood
<1>2. CASE Leave(b)
  BY <1>0, <1>2, LeaveGood
<1>3. CASE /\ vault[version[b]] # 0
           /\ kd' = Set(kd, b, vault[version[b]])
           /\ Goto(b, "name")
           /\ raced' = (raced \/ Beside(b))
           /\ UNCHANGED <<call, version, ptr, prev, count, reading, lastData>>
  <2>1. pc'[b] = "name" /\ kd'[b] = vault[version[b]] /\ ~Beside(b)
    BY <1>3 DEF TypeInv, TypeOK
  <2>2. version[b] # 0
    BY <1>3 DEF Good
  <2>3. CallOK(b)'
    BY <1>0, <1>3, <2>1 DEF CallOK
  <2>4. kd'[b] = Stored(version[b])'
    BY <1>0, <1>3, <2>1 DEF Stored, providerVars
  <2>5. ActiveOK(b)'
    <3>1. call'[b] # "store" /\ version'[b] # 0 /\ kd'[b] # 0
      BY <1>0, <1>3, <2>1, <2>2
    <3> QED
      BY <2>1, <2>4, <3>1 DEF ActiveOK
  <2> QED
    BY <1>0, <1>3, <2>1, <2>3, <2>5, EnterGood
<1> QED
  BY <1>1, <1>2, <1>3

\* A fork is written with a key that is stored or orphaned.
LEMMA UseGood ==
  ASSUME TypeInv, Good, NEW b \in Backend, EncryptFork(b) \/ DecryptFork(b)
  PROVE  Good'
<1> USE DEF Goto, Set
<1>0. OthersKeep(b) /\ ~Active(b) /\ UNCHANGED <<cacheVars, providerVars, orphans>>
  BY Others DEF Step, EncryptFork, DecryptFork, Active, Filling, Storing, TypeInv, Places, doors
<1>1. CASE DecryptFork(b)
  BY <1>0, <1>1, LeaveGood DEF DecryptFork
<1>2. CASE EncryptFork(b)
  <2>1. Settled(ptr[b])
    BY <1>2 DEF EncryptFork, Good, PointersOK
  <2>2. /\ keys[ptr[b]].name # 0 /\ keys[ptr[b]].data # 0
        /\ \/ keys[ptr[b]] \in orphans
           \/ Stored(keys[ptr[b]].name) = keys[ptr[b]].data
    BY <2>1 DEF Settled, Good, CacheOK
  <2>3. forks' = forks \cup {keys[ptr[b]]}
    BY <1>2 DEF EncryptFork
  <2>4. ForksOK'
    BY <1>0, <2>2, <2>3, StoredSame DEF Good, ForksOK, providerVars
  <2>5. ~Active(b)' /\ CallOK(b)' /\ PointersOK(b)' /\ pc'[b] # "request"
    BY <1>2 DEF EncryptFork, Leave, Active, Filling, Storing, CallOK, PointersOK, TypeInv, TypeOK
  <2> QED
    BY <1>0, <2>3, <2>4, <2>5, LocalStep
<1> QED
  BY <1>1, <1>2

-----------------------------------------------------------------------------
(* Steps in keyringCacheStoreKey and keyringStoreKey.                        *)

LEMMA AloneInCache ==
  ASSUME TypeInv, Good, NEW b \in Backend, Active(b)
  PROVE  /\ \A c \in Backend \ {b} : ~Active(c) /\ ~Unsaved(c) /\ ~Entering(c)
         /\ CallOK(b) /\ PointersOK(b) /\ ActiveOK(b)
         /\ keyCount \in 0..Cap /\ Cap \in Nat
<1>1. \A c \in Backend \ {b} : ~Active(c)
  BY DEF Good, OneActive
<1>2. \A c \in Backend : Unsaved(c) \/ Entering(c) => Active(c)
  BY DEF Unsaved, Entering, Active, Filling, Storing
<1> QED
  BY <1>1, <1>2, Numbers DEF Good, CacheOK

\* The lines before keyCount++ touch no slot in use.
LEMMA FillGood ==
  ASSUME TypeInv, Good, NEW b \in Backend, StoreName(b) \/ StoreData(b) \/ LoadCount(b)
  PROVE  Good'
<1> USE DEF Goto, Set, cacheVars, providerVars, doors
<1>0. /\ OthersKeep(b) /\ Active(b) /\ Entering(b) /\ Entering(b)' /\ Active(b)'
      /\ ~Unsaved(b) /\ ~Unsaved(b)' /\ keyCount < Cap
      /\ keyCount' = keyCount /\ call' = call /\ version' = version /\ ptr' = ptr
      /\ prev' = prev /\ kd' = kd /\ forks' = forks /\ reading' = reading
      /\ orphans' = orphans /\ UNCHANGED <<keyringProvider, vault, file>>
      /\ pc[b] \in {"name", "data", "load"} /\ pc'[b] \in {"data", "load", "inc"}
  <2>1. OthersKeep(b)
    BY Others DEF Step
  <2>2. /\ pc[b] \in {"name", "data", "load"} /\ pc'[b] \in {"data", "load", "inc"}
        /\ keyCount < Cap /\ keyCount' = keyCount /\ call' = call /\ version' = version
        /\ ptr' = ptr /\ prev' = prev /\ kd' = kd /\ forks' = forks /\ reading' = reading
        /\ orphans' = orphans /\ UNCHANGED <<keyringProvider, vault, file>>
    <3>0. pc \in [Backend -> {"idle", "get", "request", "name", "data", "load", "inc", "ptr",
                              "store", "dump", "encrypt", "decrypt"}]
      BY DEF TypeInv, TypeOK
    <3>1. CASE StoreName(b)
      BY <3>0, <3>1 DEF StoreName
    <3>2. CASE StoreData(b)
      BY <3>0, <3>2 DEF StoreData
    <3>3. CASE LoadCount(b)
      BY <3>0, <3>3 DEF LoadCount
    <3> QED
      BY <3>1, <3>2, <3>3
  <2> QED
    BY <2>1, <2>2 DEF Active, Filling, Entering, Unsaved
<1>1. /\ \A c \in Backend \ {b} : ~Active(c) /\ ~Unsaved(c) /\ ~Entering(c)
      /\ CallOK(b) /\ PointersOK(b) /\ ActiveOK(b) /\ keyCount \in 0..Cap /\ Cap \in Nat
  BY <1>0, AloneInCache
<1>2. \A s \in Slot : s < keyCount => keys'[s] = keys[s]
  <2> SUFFICES ASSUME NEW s \in Slot, s < keyCount PROVE keys'[s] = keys[s]
    OBVIOUS
  <2>1. s # keyCount /\ keys \in [Slot -> keyInfo]
    BY <1>1 DEF Slot, TypeInv, TypeOK
  <2>2. CASE StoreName(b)
    BY <2>1, <2>2 DEF StoreName
  <2>3. CASE StoreData(b)
    BY <2>1, <2>3 DEF StoreData
  <2>4. CASE LoadCount(b)
    BY <2>4 DEF LoadCount
  <2> QED
    BY <2>2, <2>3, <2>4
<1>3. \A c \in Backend : ~Unsaved(c) /\ ~Unsaved(c)' /\ (Entering(c)' => c = b)
  BY <1>0, <1>1 DEF Unsaved, Entering, OthersKeep
<1>4. \A s : Settled(s)' = Settled(s)
  BY <1>0, <1>3 DEF Settled
<1>5. SettledKept
  BY <1>2, <1>4 DEF SettledKept, Settled
<1>6. \A v : Stored(v)' = Stored(v)
  BY <1>0, StoredSame
<1>7. CacheOK'
  BY <1>0, <1>2, <1>3, <1>6 DEF Good, CacheOK
<1>8. \A v : Hits(v)' = Hits(v)
  BY <1>0, <1>2 DEF Hits
<1>9. FileOK'
  <2> SUFFICES ASSUME keyringProvider # "vault" PROVE FileOK'
    BY <1>0 DEF FileOK
  <2>1. UniqueNames([keys |-> keys, keyCount |-> keyCount])'
    BY <1>0, <1>2 DEF Good, FileOK, UniqueNames
  <2>2. ASSUME NEW c \in Backend
        PROVE  /\ pc'[c] # "request"
               /\ Entering(c)' => call'[c] = "store" /\ Hits(version[c])' = {}
    BY <1>0, <1>3, <1>8, <2>2 DEF Good, FileOK, OthersKeep
  <2> QED
    BY <1>0, <2>1, <2>2 DEF Good, FileOK, UniqueNames
<1>10. ForksOK' /\ (vault[0])' = 0
  BY <1>0, ForksOKSame DEF Good
<1>11. CallOK(b)' /\ PointersOK(b)'
  BY <1>0, <1>1, <1>4 DEF CallOK, PointersOK
<1>12. ActiveOK(b)'
  <2>1. keyCount \in Slot
    BY <1>0, <1>1 DEF Slot
  <2>2. /\ keys'[keyCount].name = version[b]
        /\ pc'[b] \in {"load", "inc"} => keys'[keyCount].data = kd[b]
    <3>0. /\ keys \in [Slot -> keyInfo]
          /\ pc \in [Backend -> {"idle", "get", "request", "name", "data", "load", "inc",
                                  "ptr", "store", "dump", "encrypt", "decrypt"}]
      BY DEF TypeInv, TypeOK
    <3>1. CASE StoreName(b)
      BY <2>1, <3>0, <3>1 DEF StoreName
    <3>2. CASE StoreData(b)
      <4>1. keys[keyCount].name = version[b]
        BY <1>1, <3>2 DEF ActiveOK, StoreData
      <4> QED
        BY <2>1, <3>0, <3>2, <4>1 DEF StoreData
    <3>3. CASE LoadCount(b)
      BY <1>1, <3>3 DEF ActiveOK, LoadCount
    <3> QED
      BY <3>1, <3>2, <3>3
  <2>3. pc'[b] = "inc" => count'[b] = keyCount
    BY <1>0 DEF StoreName, StoreData, LoadCount, TypeInv, TypeOK
  <2>4. call[b] # "store" => kd[b] = Stored(version[b])'
    BY <1>0, <1>1, <1>6 DEF ActiveOK
  <2> QED
    BY <1>0, <1>1, <2>2, <2>3, <2>4 DEF ActiveOK
<1> QED
  BY <1>0, <1>1, <1>5, <1>7, <1>9, <1>10, <1>11, <1>12, AloneStep

\* The entered key becomes the last slot in use: stored, or still to be stored.
LEMMA IncCountGood ==
  ASSUME TypeInv, Good, NEW b \in Backend, IncCount(b)
  PROVE  Good'
<1> USE DEF Goto, Set, providerVars, doors
<1>0. /\ OthersKeep(b) /\ Active(b) /\ Entering(b) /\ Active(b)' /\ ~Unsaved(b) /\ ~Entering(b)'
      /\ pc[b] = "inc" /\ pc'[b] = "ptr" /\ keys' = keys /\ keyCount' = count[b] + 1
      /\ call' = call /\ version' = version /\ ptr' = ptr
      /\ prev' = prev /\ kd' = kd /\ forks' = forks /\ reading' = reading
      /\ orphans' = orphans /\ UNCHANGED <<keyringProvider, vault, file>>
  BY Others DEF Step, IncCount, Active, Filling, Entering, Unsaved, TypeInv, TypeOK
<1>1. /\ \A c \in Backend \ {b} : ~Active(c) /\ ~Unsaved(c) /\ ~Entering(c)
      /\ CallOK(b) /\ PointersOK(b) /\ ActiveOK(b) /\ keyCount \in 0..Cap /\ Cap \in Nat
  BY <1>0, AloneInCache
<1>2. /\ keyCount < Cap /\ keyCount' = keyCount + 1 /\ keyCount \in Slot
      /\ keys[keyCount].name = version[b] /\ keys[keyCount].data = kd[b]
      /\ version[b] # 0 /\ kd[b] # 0
  BY <1>0, <1>1 DEF ActiveOK, Slot
<1>3. \A c \in Backend : ~Unsaved(c) /\ ~Entering(c)'
  BY <1>0, <1>1 DEF Entering, OthersKeep
<1>4. \A s : Settled(s) => Settled(s)'
  BY <1>1, <1>2 DEF Settled, Slot
<1>5. SettledKept
  BY <1>0, <1>4 DEF SettledKept
<1>6. \A v : Stored(v)' = Stored(v)
  BY <1>0, StoredSame
<1>7. CacheOK'
  <2>1. ASSUME NEW s \in Slot, s < keyCount'
        PROVE  /\ keys[s].name # 0 /\ keys[s].data # 0
               /\ \/ keys[s].data = Stored(keys[s].name)
                  \/ keys[s] \in orphans
                  \/ s = keyCount' - 1 /\ \E c \in Backend : Unsaved(c)'
    <3>1. CASE s < keyCount
      BY <1>3, <3>1 DEF Good, CacheOK
    <3>2. CASE s = keyCount /\ call[b] = "store"
      <4>1. Unsaved(b)'
        BY <1>0, <3>2 DEF Unsaved
      <4> QED
        BY <1>1, <1>2, <3>2, <4>1
    <3>3. CASE s = keyCount /\ call[b] # "store"
      BY <1>1, <1>2, <3>3 DEF ActiveOK
    <3> QED
      BY <1>1, <1>2, <2>1, <3>1, <3>2, <3>3 DEF Slot
  <2> QED
    BY <1>0, <1>1, <1>2, <1>6, <2>1 DEF CacheOK
<1>8. FileOK'
  <2> SUFFICES ASSUME keyringProvider # "vault" PROVE FileOK'
    BY <1>0 DEF FileOK
  <2>1. Hits(version[b]) = {}
    BY <1>0 DEF Good, FileOK
  <2>2. \A s, t \in Slot : s < keyCount /\ t < keyCount /\ keys[s].name = keys[t].name => s = t
    BY DEF Good, FileOK, UniqueNames
  <2>3. \A s \in Slot : s < keyCount => keys[s].name # version[b]
    BY <2>1 DEF Hits
  <2>4. \A s \in Slot : s < keyCount + 1 => s < keyCount \/ s = keyCount
    BY <1>1 DEF Slot
  <2>5. \A s, t \in Slot :
          s < keyCount + 1 /\ t < keyCount + 1 /\ keys[s].name = keys[t].name => s = t
    BY <1>2, <2>2, <2>3, <2>4
  <2>6. UniqueNames([keys |-> keys, keyCount |-> keyCount])'
    BY <1>0, <1>2, <2>5 DEF UniqueNames
  <2>7. \A c \in Backend : pc'[c] # "request"
    BY <1>0 DEF Good, FileOK, OthersKeep
  <2> QED
    BY <1>0, <1>3, <2>6, <2>7 DEF Good, FileOK, UniqueNames
<1>9. ForksOK' /\ (vault[0])' = 0
  BY <1>0, ForksOKSame DEF Good
<1>10. CallOK(b)'
  BY <1>0, <1>1 DEF CallOK
<1>11. PointersOK(b)'
  BY <1>0, <1>1, <1>4 DEF PointersOK
<1>12. ActiveOK(b)'
  <2>1. keys[keyCount] = [name |-> version[b], data |-> kd[b]]
    BY <1>2 DEF TypeInv, TypeOK, keyInfo
  <2>2. call[b] # "store" => kd[b] = Stored(version[b])'
    BY <1>0, <1>1, <1>6 DEF ActiveOK
  <2>3. keyCount' >= 1 /\ keys'[keyCount' - 1] = [name |-> version[b], data |-> kd[b]]
    BY <1>0, <1>1, <1>2, <2>1
  <2> QED
    BY <1>0, <1>1, <1>2, <2>2, <2>3 DEF ActiveOK
<1> QED
  BY <1>0, <1>1, <1>5, <1>7, <1>8, <1>9, <1>10, <1>11, <1>12, AloneStep

LEMMA TakePointerGood ==
  ASSUME TypeInv, Good, NEW b \in Backend, TakePointer(b)
  PROVE  Good'
<1> USE DEF Goto, Set, providerVars, cacheVars, doors
<1>0. /\ OthersKeep(b) /\ Active(b) /\ pc[b] = "ptr" /\ ~Entering(b) /\ ~Entering(b)'
      /\ keys' = keys /\ keyCount' = keyCount /\ kd' = kd /\ forks' = forks
      /\ reading' = reading /\ orphans' = orphans
      /\ UNCHANGED <<keyringProvider, vault, file>> /\ pc'[b] # "request"
  BY Others DEF Step, TakePointer, ReturnFound, Active, Filling, Entering, TypeInv, TypeOK
<1>1. /\ \A c \in Backend \ {b} : ~Active(c) /\ ~Unsaved(c) /\ ~Entering(c)
      /\ CallOK(b) /\ PointersOK(b) /\ ActiveOK(b) /\ keyCount \in 0..Cap /\ Cap \in Nat
  BY <1>0, AloneInCache
<1>2. /\ keyCount >= 1 /\ keys[keyCount - 1] = [name |-> version[b], data |-> kd[b]]
      /\ keyCount - 1 \in Slot
  BY <1>0, <1>1 DEF ActiveOK, Slot
<1>3. \A c \in Backend : Unsaved(c)' = Unsaved(c)
  <2>1. Unsaved(b)' = Unsaved(b)
    BY <1>0 DEF TakePointer, ReturnFound, Unsaved, TypeInv, TypeOK
  <2> QED
    BY <1>0, <2>1 DEF Unsaved, OthersKeep
<1>4. \A s : Settled(s)' = Settled(s)
  BY <1>0, <1>3 DEF Settled
<1>5. SettledKept
  BY <1>0, <1>4 DEF SettledKept
<1>6. \A v : Stored(v)' = Stored(v) /\ Hits(v)' = Hits(v)
  BY <1>0, StoredSame, HitsSame
<1>7. CacheOK'
  BY <1>0, <1>3, <1>6 DEF Good, CacheOK
<1>8. FileOK'
  <2> SUFFICES ASSUME keyringProvider # "vault" PROVE FileOK'
    BY <1>0 DEF FileOK
  <2>1. \A c \in Backend : pc'[c] # "request" /\ ~Entering(c)'
    BY <1>0, <1>1 DEF Good, FileOK, OthersKeep, Entering
  <2> QED
    BY <1>0, <2>1 DEF Good, FileOK, UniqueNames
<1>9. ForksOK' /\ (vault[0])' = 0
  BY <1>0, ForksOKSame DEF Good
<1>10. CASE call[b] = "store"
  <2>1. /\ pc'[b] = "store" /\ ptr'[b] = keyCount - 1
        /\ UNCHANGED <<call, version, prev>>
    BY <1>10 DEF TakePointer, TypeInv, TypeOK
  <2>2. CallOK(b)' /\ PointersOK(b)'
    BY <1>0, <1>1, <1>4, <1>10, <2>1 DEF CallOK, PointersOK
  <2>3. ActiveOK(b)'
    BY <1>0, <1>1, <1>2, <1>10, <2>1 DEF ActiveOK
  <2> QED
    BY <1>0, <1>1, <1>5, <1>7, <1>8, <1>9, <2>2, <2>3, AloneStep
<1>11. CASE call[b] # "store"
  <2>1. ReturnFound(b, keyCount - 1)
    BY <1>11 DEF TakePointer
  <2>2. Settled(keyCount - 1) /\ keys[keyCount - 1].name = version[b]
    BY <1>1, <1>2, <1>11 DEF Settled, Unsaved
  <2>3. CallOK(b)' /\ PointersOK(b)'
    BY <1>0, <1>4, <1>11, <2>1, <2>2, ReturnFoundGood
  <2>4. ~Active(b)'
    BY <1>11, <2>1 DEF ReturnFound, Active, Filling, Storing, TypeInv, TypeOK
  <2> QED
    BY <1>0, <1>1, <1>5, <1>7, <1>8, <1>9, <2>3, <2>4, AloneStep
<1> QED
  BY <1>10, <1>11

\* A store that was refused: the key is taken out of the cache again, and with
\* it the only slot that was not settled.
LEMMA StoreFailedGood ==
  ASSUME TypeInv, Good, NEW b \in Backend, pc[b] = "store", StoreFailed(b),
         UNCHANGED <<providerVars, orphans>>, OthersKeep(b)
  PROVE  Good'
<1> USE DEF Goto, Set, providerVars
<1>0. /\ Active(b) /\ Unsaved(b) /\ keys' = keys /\ forks' = forks
      /\ UNCHANGED <<keyringProvider, vault, file>>
      /\ pc'[b] = "idle" /\ ~Active(b)' /\ prev'[b] = NoSlot /\ call'[b] = "read"
  BY DEF StoreFailed, Leave, Active, Filling, Storing, Unsaved, TypeInv, TypeOK, Good, CallOK
<1>1. /\ \A c \in Backend \ {b} : ~Active(c) /\ ~Unsaved(c) /\ ~Entering(c)
      /\ ActiveOK(b) /\ keyCount \in 0..Cap /\ Cap \in Nat
  BY <1>0, AloneInCache
<1>2. keyCount >= 1 /\ keyCount' = keyCount - 1
  BY <1>1 DEF ActiveOK, StoreFailed
<1>3. \A c \in Backend : ~Unsaved(c)' /\ ~Entering(c)'
  BY <1>0, <1>1 DEF Unsaved, Entering, OthersKeep
<1>4. \A s : Settled(s) => Settled(s)' /\ s # keyCount - 1
  BY <1>0, <1>1, <1>2, <1>3 DEF Settled, Slot
<1>5. SettledKept
  BY <1>0, <1>4 DEF SettledKept
<1>6. \A v : Stored(v)' = Stored(v)
  BY <1>0, StoredSame
<1>7. \A s \in Slot : s < keyCount' => s < keyCount /\ s # keyCount - 1
  BY <1>1, <1>2 DEF Slot
<1>8. CacheOK'
  BY <1>0, <1>1, <1>2, <1>6, <1>7 DEF Good, CacheOK
<1>9. FileOK'
  <2> SUFFICES ASSUME keyringProvider # "vault" PROVE FileOK'
    BY <1>0 DEF FileOK
  <2>1. \A c \in Backend : pc'[c] # "request"
    BY <1>0 DEF Good, FileOK, OthersKeep
  <2>2. UniqueNames([keys |-> keys, keyCount |-> keyCount])'
    BY <1>0, <1>7 DEF Good, FileOK, UniqueNames
  <2> QED
    BY <1>0, <1>3, <2>1, <2>2 DEF Good, FileOK, UniqueNames
<1>10. ForksOK' /\ (vault[0])' = 0
  BY <1>0, ForksOKSame DEF Good
<1>11. CallOK(b)' /\ PointersOK(b)'
  BY <1>0 DEF CallOK, PointersOK
<1> QED
  BY <1>0, <1>1, <1>5, <1>8, <1>9, <1>10, <1>11, AloneStep

\* A key that is in the store, or is an orphan.
Safe(k) == k \in orphans \/ Stored(k.name) = k.data

\* A step of keyringStoreKey that leaves the key in the cache.
LEMMA StoreStepGood ==
  ASSUME TypeInv, Good, NEW b \in Backend, pc[b] \in {"store", "dump"}, OthersKeep(b),
         UNCHANGED <<keys, keyCount, forks, keyringProvider>>,
         pc'[b] \in {"dump", "encrypt", "idle"},
         \A k \in keyInfo : k = keys[ptr[b]] => pc'[b] = "dump" \/ Safe(k)',
         Unsaved(b)' <=> pc'[b] = "dump",
         \A k \in keyInfo : k.data # 0 /\ Safe(k) => Safe(k)', (vault[0])' = 0,
         keyringProvider # "vault" =>
           /\ UniqueNames(file') /\ file'.keyCount \in 0..Cap
           /\ \A s \in Slot :
                s < file'.keyCount => file'.keys[s].name # 0 /\ file'.keys[s].data # 0,
         CallOK(b)', prev'[b] \in {prev[b], NoSlot}, pc'[b] = "encrypt" => ptr'[b] = ptr[b],
         Active(b)' => ActiveOK(b)'
  PROVE  Good'
<1>0. Active(b) /\ Unsaved(b) /\ call[b] = "store"
  BY DEF Active, Storing, Unsaved, Good, CallOK
<1>1. /\ \A c \in Backend \ {b} : ~Active(c) /\ ~Unsaved(c) /\ ~Entering(c)
      /\ PointersOK(b) /\ ActiveOK(b) /\ keyCount \in 0..Cap /\ Cap \in Nat
  BY <1>0, AloneInCache
<1>2. keyCount >= 1 /\ keyCount - 1 \in Slot /\ ptr[b] = keyCount - 1
  BY <1>1 DEF ActiveOK, Slot
<1>3. \A c \in Backend : ~Entering(c)' /\ (Unsaved(c)' => c = b /\ pc'[b] = "dump")
  BY <1>1 DEF Unsaved, Entering, OthersKeep
<1>4. \A s : Settled(s) => Settled(s)'
  BY <1>0 DEF Settled
<1>5. SettledKept
  BY <1>4 DEF SettledKept
<1>6. CacheOK'
  <2>1. ASSUME NEW s \in Slot, s < keyCount
        PROVE  /\ keys[s].name # 0 /\ keys[s].data # 0
               /\ Safe(keys[s])' \/ (s = keyCount - 1 /\ \E c \in Backend : Unsaved(c)')
    <3>0. keys[s] \in keyInfo /\ keys[s].name # 0 /\ keys[s].data # 0
      BY <2>1 DEF TypeInv, TypeOK, Good, CacheOK
    <3>1. CASE s = keyCount - 1
      <4>1. PICK k \in keyInfo : k = keys[s]
        BY <3>0
      <4>2. Unsaved(b)' \/ Safe(k)'
        BY <1>2, <3>1, <4>1
      <4>3. s' = s /\ keys'[s] = k
        BY <4>1
      <4> QED
        BY <3>0, <3>1, <4>2, <4>3 DEF Safe
    <3>2. CASE s # keyCount - 1
      <4>1. PICK k \in keyInfo : k = keys[s]
        BY <3>0
      <4>2. k.data # 0 /\ Safe(k)
        BY <2>1, <3>0, <3>2, <4>1 DEF Safe, Good, CacheOK
      <4>3. Safe(k)'
        BY <4>2
      <4>4. keys'[s] = k
        BY <4>1
      <4> QED
        BY <3>0, <4>3, <4>4 DEF Safe
    <3> QED
      BY <3>1, <3>2
  <2> QED
    BY <1>1, <2>1 DEF CacheOK, Safe
<1>7. FileOK'
  BY <1>3 DEF Good, FileOK, UniqueNames, OthersKeep
<1>8. ForksOK'
  <2> SUFFICES ASSUME NEW f \in forks
               PROVE  f.name # 0 /\ f.data # 0 /\ (f \in orphans' \/ Stored(f.name)' = f.data)
    BY DEF ForksOK
  <2>1. f \in keyInfo /\ Safe(f) /\ f.name # 0 /\ f.data # 0
    BY DEF TypeInv, TypeOK, Good, ForksOK, Safe
  <2> QED
    BY <2>1 DEF Safe
<1>9. PointersOK(b)'
  <2>1. pc'[b] = "encrypt" => Settled(ptr[b])'
    BY <1>1, <1>2, <1>3 DEF Settled
  <2> QED
    BY <1>1, <1>4, <2>1 DEF PointersOK
<1> QED
  BY <1>1, <1>5, <1>6, <1>7, <1>8, <1>9, AloneStep

LEMMA VaultStoreGood ==
  ASSUME TypeInv, Good, NEW b \in Backend, keyringVaultStoreKey(b) \/ StoreUnknown(b)
  PROVE  Good'
<1> USE DEF Goto, Set, providerVars, cacheVars, doors
<1>0. /\ OthersKeep(b) /\ Active(b) /\ pc[b] = "store" /\ call[b] = "store"
      /\ keys \in [Slot -> keyInfo] /\ vault \in [Version -> Data] /\ vault[0] = 0
  BY Others DEF Step, keyringVaultStoreKey, StoreUnknown, Active, Storing, Good, CallOK,
     TypeInv, TypeOK
<1>1. CASE StoreUnknown(b)
  BY <1>0, <1>1, StoreFailedGood DEF StoreUnknown
<1>2. CASE keyringVaultStoreKey(b)
  <2>0. /\ keyringProvider = "vault" /\ UNCHANGED <<requestMayFail, keyringProvider, file>>
    BY <1>2 DEF keyringVaultStoreKey
  <2>1. ActiveOK(b) /\ CallOK(b)
    BY <1>0, AloneInCache
  <2>2. PICK key \in keyInfo : key = [name |-> version[b], data |-> kd[b]]
    BY DEF TypeInv, TypeOK, keyInfo
  <2>3. /\ keys[ptr[b]] = key /\ key.name # 0 /\ key.data # 0 /\ vault[key.name] = 0
        /\ key.name \in Version
    BY <1>0, <2>0, <2>1, <2>2 DEF ActiveOK, keyInfo
  <2> DEFINE posted == [vault EXCEPT ![key.name] = key.data]
  <2>4. ASSUME vault' = posted
        PROVE  /\ (vault[0])' = 0
               /\ \A k \in keyInfo : k.data # 0 /\ Safe(k) /\ orphans \subseteq orphans' => Safe(k)'
               /\ \A k \in keyInfo : k = keys[ptr[b]] => Safe(k)'
    <3>1. (vault[0])' = 0
      BY <1>0, <2>3, <2>4, Numbers
    <3>2. ASSUME NEW k \in keyInfo, k.data # 0, Safe(k), orphans \subseteq orphans' PROVE Safe(k)'
      BY <1>0, <2>0, <2>3, <2>4, <3>2 DEF Safe, Stored, keyInfo
    <3>3. ASSUME NEW k \in keyInfo, k = keys[ptr[b]] PROVE Safe(k)'
      BY <1>0, <2>0, <2>3, <2>4, <3>3 DEF Safe, Stored
    <3> QED
      BY <3>1, <3>2, <3>3
  <2>5. CASE /\ vault' = posted /\ pc' = [pc EXCEPT ![b] = "encrypt"]
             /\ UNCHANGED <<cacheVars, call, version, ptr, prev, kd, count, reading,
                            forks, lastData, orphans>>
    <3>1. pc'[b] = "encrypt" /\ ~Active(b)' /\ ~Unsaved(b)' /\ CallOK(b)'
      BY <1>0, <2>1, <2>5 DEF Active, Filling, Storing, Unsaved, CallOK, TypeInv, TypeOK
    <3>2. /\ UNCHANGED <<keys, keyCount, forks, keyringProvider>>
          /\ prev'[b] = prev[b] /\ ptr'[b] = ptr[b] /\ orphans' = orphans
      BY <2>0, <2>5
    <3>3. \A k \in keyInfo : k = keys[ptr[b]] => Safe(k)'
      BY <2>4, <2>5
    <3>4. (vault[0])' = 0 /\ \A k \in keyInfo : k.data # 0 /\ Safe(k) => Safe(k)'
      BY <2>4, <2>5
    <3> QED
      BY <1>0, <2>0, <3>1, <3>2, <3>3, <3>4, StoreStepGood
  <2>6. CASE StoreFailed(b) /\ UNCHANGED <<vault, orphans>>
    BY <1>0, <2>0, <2>6, StoreFailedGood
  <2>7. CASE /\ requestMayFail /\ Leave(b)
             /\ \/ vault' = posted /\ UNCHANGED orphans
                \/ UNCHANGED vault /\ orphans' = orphans \cup {keys[ptr[b]]}
             /\ UNCHANGED <<cacheVars, forks, lastData>>
    <3>1. /\ pc'[b] = "idle" /\ ~Active(b)' /\ ~Unsaved(b)' /\ CallOK(b)'
          /\ prev'[b] = NoSlot
      BY <2>7 DEF Leave, Active, Filling, Storing, Unsaved, CallOK, TypeInv, TypeOK
    <3>2. UNCHANGED <<keys, keyCount, forks, keyringProvider>>
      BY <2>0, <2>7
    <3>3. CASE vault' = posted /\ UNCHANGED orphans
      <4>1. /\ (vault[0])' = 0
            /\ \A k \in keyInfo : k = keys[ptr[b]] => Safe(k)'
            /\ \A k \in keyInfo : k.data # 0 /\ Safe(k) => Safe(k)'
        BY <2>4, <3>3
      <4> QED
        BY <1>0, <2>0, <3>1, <3>2, <4>1, StoreStepGood
    <3>4. CASE UNCHANGED vault /\ orphans' = orphans \cup {keys[ptr[b]]}
      <4>1. \A k \in keyInfo : k = keys[ptr[b]] => Safe(k)'
        BY <3>4 DEF Safe
      <4>2. \A k \in keyInfo : k.data # 0 /\ Safe(k) => Safe(k)'
        BY <2>0, <3>4 DEF Safe, Stored
      <4> QED
        BY <1>0, <2>0, <3>1, <3>2, <3>4, <4>1, <4>2, StoreStepGood
    <3> QED
      BY <2>7, <3>3, <3>4
  <2> QED
    BY <1>2, <2>3, <2>5, <2>6, <2>7 DEF keyringVaultStoreKey
<1> QED
  BY <1>1, <1>2

\* fopen leaves nothing of the file, fwrite all of the cache.
LEMMA FileStoreGood ==
  ASSUME TypeInv, Good, NEW b \in Backend, keyringFileOpen(b) \/ keyringFileDump(b)
  PROVE  Good'
<1> USE DEF Goto, Set, providerVars, cacheVars, doors
<1>0. /\ OthersKeep(b) /\ Active(b) /\ pc[b] \in {"store", "dump"} /\ call[b] = "store"
      /\ keys \in [Slot -> keyInfo] /\ vault[0] = 0 /\ file.keys \in [Slot -> keyInfo]
      /\ UNCHANGED <<keys, keyCount, forks, keyringProvider, vault>>
      /\ keyCount \in 0..Cap /\ Cap \in Nat
  BY Others, Numbers DEF Step, keyringFileOpen, keyringFileDump, Active, Storing, Good, CallOK,
     TypeInv, TypeOK, CacheOK
<1>1. ActiveOK(b) /\ CallOK(b)
  BY <1>0, AloneInCache
<1>2. keyringProvider = "file"
  BY <1>1 DEF keyringFileOpen, keyringFileDump, ActiveOK
<1>3. CASE /\ keyringFileOpen(b) /\ pc[b] = "store"
           /\ file' = EmptyFile /\ orphans' = orphans \cup InUse(file)
           /\ pc' = [pc EXCEPT ![b] = "dump"]
           /\ UNCHANGED <<call, version, ptr, prev, kd, count, reading>>
  <2>1. pc'[b] = "dump" /\ Unsaved(b)' /\ prev'[b] = prev[b]
    BY <1>0, <1>3 DEF Unsaved, TypeInv, TypeOK
  <2>2. CallOK(b)' /\ ActiveOK(b)'
    BY <1>0, <1>1, <1>2, <1>3, <2>1 DEF CallOK, ActiveOK
  <2>3. ASSUME NEW k \in keyInfo, k.data # 0, Safe(k) PROVE Safe(k)'
    <3>1. CASE k \in orphans
      BY <1>3, <3>1 DEF Safe
    <3>2. CASE FoundIn(file, k.name) = k.data
      <4>1. UniqueNames(file)
        BY <1>2 DEF Good, FileOK
      <4>2. PICK s \in Slot : /\ s < file.keyCount /\ file.keys[s].name = k.name
                              /\ file.keys[s].data = k.data
        BY <2>3, <3>2, <4>1, FoundUsed
      <4>3. file.keys[s] = k
        BY <1>0, <4>2 DEF keyInfo
      <4> QED
        BY <1>3, <4>2, <4>3 DEF InUse, Safe
    <3> QED
      BY <1>2, <2>3, <3>1, <3>2 DEF Safe, Stored
  <2>4. /\ UniqueNames(EmptyFile) /\ EmptyFile.keyCount \in 0..Cap
        /\ \A s \in Slot : ~(s < EmptyFile.keyCount)
    BY <1>0 DEF UniqueNames, EmptyFile, Slot
  <2>5. /\ UniqueNames(file') /\ file'.keyCount \in 0..Cap
        /\ \A s \in Slot :
             s < file'.keyCount => file'.keys[s].name # 0 /\ file'.keys[s].data # 0
    BY <1>3, <2>4
  <2> QED
    BY <1>0, <2>1, <2>2, <2>3, <2>5, StoreStepGood
<1>4. CASE /\ pc[b] = "store" /\ Leave(b) /\ UNCHANGED file
           /\ orphans' = orphans \cup {keys[ptr[b]]}
  <2>1. /\ pc'[b] = "idle" /\ ~Active(b)' /\ ~Unsaved(b)' /\ CallOK(b)' /\ prev'[b] = NoSlot
    BY <1>4 DEF Leave, Active, Filling, Storing, Unsaved, CallOK, TypeInv, TypeOK
  <2>2. \A k \in keyInfo : k = keys[ptr[b]] => Safe(k)'
    BY <1>4 DEF Safe
  <2>3. \A k \in keyInfo : k.data # 0 /\ Safe(k) => Safe(k)'
    BY <1>0, <1>4 DEF Safe, Stored
  <2>4. /\ UniqueNames(file') /\ file'.keyCount \in 0..Cap
        /\ \A s \in Slot :
             s < file'.keyCount => file'.keys[s].name # 0 /\ file'.keys[s].data # 0
    BY <1>2, <1>4 DEF Good, FileOK
  <2> QED
    BY <1>0, <2>1, <2>2, <2>3, <2>4, StoreStepGood
<1>5. CASE keyringFileDump(b)
  <2>0. /\ pc[b] = "dump" /\ file' = [keys |-> keys, keyCount |-> keyCount]
        /\ orphans' = orphans \ InUse(file')
    BY <1>5 DEF keyringFileDump
  <2>1. /\ pc'[b] = "encrypt" /\ ~Active(b)' /\ ~Unsaved(b)' /\ CallOK(b)'
        /\ prev'[b] = prev[b] /\ ptr'[b] = ptr[b]
    BY <1>0, <1>1, <1>5 DEF keyringFileDump, Active, Filling, Storing, Unsaved, CallOK,
       TypeInv, TypeOK
  <2>2. UniqueNames(file')
    BY <1>2, <2>0 DEF Good, FileOK
  <2>3. /\ file'.keyCount = keyCount /\ file'.keys = keys
    BY <2>0
  <2>4. \A s \in Slot : s < keyCount => keys[s].name # 0 /\ keys[s].data # 0
    BY DEF Good, CacheOK
  <2>5. ASSUME NEW k \in keyInfo, k \in InUse(file') PROVE Safe(k)'
    <3>1. PICK s \in Slot : s < file'.keyCount /\ file'.keys[s] = k
      BY <2>5 DEF InUse
    <3>2. FoundIn(file', k.name) = k.data
      BY <2>2, <3>1, FoundUnique
    <3> QED
      BY <1>0, <1>2, <3>2 DEF Safe, Stored
  <2>6. ASSUME NEW k \in keyInfo, k.data # 0, Safe(k) PROVE Safe(k)'
    <3>1. file = EmptyFile
      BY <1>1, <2>0 DEF ActiveOK
    <3>2. k \in orphans
      BY <1>2, <2>6, <3>1, FoundNothing DEF Safe, Stored
    <3>3. CASE k \in InUse(file')
      BY <2>5, <3>3
    <3>4. CASE k \notin InUse(file')
      BY <2>0, <3>2, <3>4 DEF Safe
    <3> QED
      BY <3>3, <3>4
  <2>7. ASSUME NEW k \in keyInfo, k = keys[ptr[b]] PROVE Safe(k)'
    <3>1. ptr[b] \in Slot /\ ptr[b] < keyCount
      BY <1>0, <1>1, <2>0 DEF ActiveOK, Slot
    <3>2. k \in InUse(file')
      BY <2>3, <2>7, <3>1 DEF InUse
    <3> QED
      BY <2>5, <3>2
  <2> QED
    BY <1>0, <2>1, <2>2, <2>3, <2>4, <2>6, <2>7, StoreStepGood
<1> QED
  BY <1>3, <1>4, <1>5 DEF keyringFileOpen

-----------------------------------------------------------------------------
(* Starts, and all steps.                                                    *)

\* A started server has what the file holds, or nothing.
LEMMA CacheAtStartOK ==
  ASSUME TypeInv, FileOK, keyringProvider # "file" => CacheAtStart = EmptyFile
  PROVE  /\ CacheAtStart.keyCount \in 0..Cap /\ UniqueNames(CacheAtStart)
         /\ \A s \in Slot : s < CacheAtStart.keyCount =>
              /\ CacheAtStart.keys[s].name # 0 /\ CacheAtStart.keys[s].data # 0
              /\ CacheAtStart.keys[s].data = Stored(CacheAtStart.keys[s].name)
<1>1. CASE keyringProvider = "file"
  <2>1. CacheAtStart = file /\ UniqueNames(file)
    BY <1>1 DEF CacheAtStart, FileOK
  <2>2. ASSUME NEW s \in Slot, s < file.keyCount
        PROVE  file.keys[s].data = Stored(file.keys[s].name)
    BY <1>1, <2>1, <2>2, FoundUnique DEF Stored
  <2> QED
    BY <1>1, <2>1, <2>2 DEF FileOK
<1>2. CASE keyringProvider # "file"
  <2>1. /\ UniqueNames(EmptyFile) /\ EmptyFile.keyCount \in 0..Cap
        /\ \A s \in Slot : ~(s < EmptyFile.keyCount)
    BY Numbers DEF UniqueNames, EmptyFile, Slot
  <2> QED
    BY <1>2, <2>1
<1> QED
  BY <1>1, <1>2

LEMMA RestartGood == TypeInv /\ Good /\ Restart => Good'
<1> SUFFICES ASSUME TypeInv, Good, Restart PROVE Good'
  OBVIOUS
<1> USE DEF Restart, providerVars, doors
<1>0. FileOK
  BY DEF Good
<1>1. /\ keys' = CacheAtStart.keys /\ keyCount' = CacheAtStart.keyCount
      /\ CacheAtStart.keyCount \in 0..Cap /\ UniqueNames(CacheAtStart)
      /\ \A s \in Slot : s < CacheAtStart.keyCount =>
           /\ CacheAtStart.keys[s].name # 0 /\ CacheAtStart.keys[s].data # 0
           /\ CacheAtStart.keys[s].data = Stored(CacheAtStart.keys[s].name)
  BY <1>0, CacheAtStartOK DEF CacheAtStart
<1>2. \A v : Stored(v)' = Stored(v)
  BY StoredSame
<1>3. \A b \in Backend : ~Active(b)' /\ ~Entering(b)' /\ CallOK(b)' /\ PointersOK(b)'
  BY DEF Active, Filling, Storing, Entering, CallOK, PointersOK
<1>4. CacheOK'
  BY <1>1, <1>2 DEF CacheOK
<1>5. FileOK'
  BY <1>1, <1>3 DEF Good, FileOK, UniqueNames
<1>6. ForksOK'
  BY ForksOKSame DEF Good
<1> QED
  BY <1>3, <1>4, <1>5, <1>6 DEF Good, OneActive

LEMMA InitGood == Init => Good
<1> SUFFICES ASSUME Init PROVE Good
  OBVIOUS
<1> USE Numbers DEF Init
<1>1. \A b \in Backend : ~Active(b) /\ ~Entering(b) /\ CallOK(b) /\ PointersOK(b)
  BY DEF Active, Filling, Storing, Entering, CallOK, PointersOK
<1>2. CacheOK /\ ForksOK
  BY DEF CacheOK, ForksOK, Slot
<1>3. FileOK
  BY <1>1 DEF FileOK, UniqueNames, EmptyFile, Slot
<1>4. vault[0] = 0
  BY DEF Version
<1> QED
  BY <1>1, <1>2, <1>3, <1>4 DEF Good, OneActive

LEMMA StepGood ==
  ASSUME TypeInv, Good, [Next]_vars, ~raced'
  PROVE  Good'
<1>1. CASE Restart
  BY <1>1, RestartGood
<1>2. ASSUME NEW b \in Backend, WriteKeyFork(b) \/ \E f \in forks : ReadKeyFork(b, f)
      PROVE  Good'
  BY <1>2, StartGood
<1>3. ASSUME NEW b \in Backend, Step(b) PROVE Good'
  <2>1. CASE GetKeyNotFound(b)
    <3>1. OthersKeep(b)
      BY <1>3, Others
    <3> QED
      BY <2>1, <3>1, ReturnNotFoundGood DEF GetKeyNotFound
  <2> QED
    BY <1>3, <2>1, GetKeyCachedGood, StartGood, VaultGetGood, FillGood, IncCountGood,
       TakePointerGood, VaultStoreGood, FileStoreGood, UseGood DEF Step
<1>4. CASE UNCHANGED vars
  <2>1. \A v : Stored(v)' = Stored(v) /\ Hits(v)' = Hits(v)
    BY <1>4, StoredSame, HitsSame DEF vars, cacheVars, providerVars
  <2>2. \A s : Settled(s)' = Settled(s)
    BY <1>4 DEF vars, cacheVars, callVars, Settled, Unsaved
  <2> USE <1>4 DEF vars, cacheVars, providerVars, callVars, doors
  <2>3. OneActive' /\ CacheOK' /\ ForksOK' /\ (vault[0])' = 0
    BY <2>1 DEF Good, OneActive, CacheOK, ForksOK, Active, Filling, Storing, Unsaved
  <2>4. FileOK'
    BY <2>1 DEF Good, FileOK, UniqueNames, Entering
  <2>5. ASSUME NEW b \in Backend
        PROVE  CallOK(b)' /\ PointersOK(b)' /\ (Active(b)' => ActiveOK(b)')
    BY <2>1, <2>2 DEF Good, CallOK, PointersOK, Active, Filling, Storing, ActiveOK
  <2> QED
    BY <2>3, <2>4, <2>5 DEF Good
<1> QED
  BY <1>1, <1>2, <1>3, <1>4 DEF Next

\* A door that was opened is never shut.
LEMMA RacedStays == raced /\ [Next]_vars => raced'
<1> SUFFICES ASSUME raced, [Next]_vars PROVE raced'
  OBVIOUS
<1> USE DEF doors
<1>1. CASE Restart
  BY <1>1 DEF Restart
<1>2. ASSUME NEW b \in Backend, WriteKeyFork(b) \/ \E f \in forks : ReadKeyFork(b, f)
      PROVE  raced'
  BY <1>2 DEF WriteKeyFork, ReadKeyFork
<1>3. ASSUME NEW b \in Backend, Step(b) PROVE raced'
  <2>1. ASSUME ReturnNotFound(b) PROVE raced'
    BY <2>1 DEF ReturnNotFound, ReaderFails, LatestFound, StartGenerate, Generate
  <2>2. CASE GetKeyCached(b) \/ GetKeyNotFound(b) \/ RequestKey(b) \/ keyringVaultGetKey(b)
    BY <2>1, <2>2 DEF GetKeyCached, GetKeyNotFound, RequestKey, keyringVaultGetKey
  <2>3. CASE StoreName(b) \/ StoreData(b) \/ LoadCount(b) \/ IncCount(b) \/ TakePointer(b)
    BY <2>3 DEF StoreName, StoreData, LoadCount, IncCount, TakePointer
  <2>4. CASE \/ StoreUnknown(b) \/ keyringVaultStoreKey(b) \/ keyringFileOpen(b)
             \/ keyringFileDump(b) \/ EncryptFork(b) \/ DecryptFork(b)
    BY <2>4 DEF StoreUnknown, keyringVaultStoreKey, keyringFileOpen, keyringFileDump,
       EncryptFork, DecryptFork
  <2> QED
    BY <1>3, <2>2, <2>3, <2>4 DEF Step
<1>4. CASE UNCHANGED vars
  BY <1>4 DEF vars
<1> QED
  BY <1>1, <1>2, <1>3, <1>4 DEF Next

LEMMA Invariance == Spec => []IInv
<1>1. Init => IInv
  BY InitTyped, InitGood DEF IInv
<1>2. IInv /\ [Next]_vars => IInv'
  <2> SUFFICES ASSUME IInv, [Next]_vars PROVE IInv'
    OBVIOUS
  <2>1. TypeInv'
    BY NextTyped DEF IInv
  <2>2. CASE raced
    BY <2>1, <2>2, RacedStays DEF IInv
  <2>3. CASE ~raced
    BY <2>1, <2>3, StepGood DEF IInv
  <2> QED
    BY <2>2, <2>3
<1> QED
  BY <1>1, <1>2, PTL DEF Spec

-----------------------------------------------------------------------------
(* The properties.                                                           *)

\* keyringGenerateKey stores a key before pg_tde_write_key_fork uses it: with
\* any number of backends, refused and dying requests, and restarts between any
\* two steps, the key of every fork is in the key store under the name in the
\* fork; but for forks of orphaned keys, and until two backends race.
THEOREM ForksKept == Spec => []ForksRecoverable
<1>1. IInv => ForksRecoverable
  BY DEF IInv, Good, ForksOK, ForksRecoverable
<1> QED
  BY <1>1, Invariance, PTL

\* keyringGetKey returns a pointer into the shared cache, which the caller reads
\* when other backends have entered keys and taken theirs back: until two
\* backends race, the key it reads is the one its fork was encrypted with, but
\* where a key whose store died is one of the two.
THEOREM OwnKeyReturned == Spec => []DecryptsWithForksKey
<1>1. IInv => DecryptsWithForksKey
  <2> SUFFICES ASSUME TypeInv, Good, NEW b \in Backend, pc[b] = "decrypt",
                      reading[b] \notin orphans, keys[ptr[b]] \notin orphans
               PROVE  keys[ptr[b]] = reading[b]
    BY DEF IInv, DecryptsWithForksKey
  <2>1. Settled(ptr[b]) /\ keys[ptr[b]].name = reading[b].name
    BY DEF Good, PointersOK
  <2>2. ptr[b] \in Slot /\ keys[ptr[b]] \in keyInfo /\ reading[b] \in keyInfo
    BY <2>1 DEF Settled, TypeInv, TypeOK
  <2>3. keys[ptr[b]].data = Stored(keys[ptr[b]].name)
    BY <2>1, <2>2 DEF Good, CacheOK, Settled
  <2>4. reading[b].data = Stored(reading[b].name)
    <3>1. reading[b] \in forks
      BY DEF Good, CallOK
    <3> QED
      BY <3>1 DEF Good, ForksOK
  <2> QED
    BY <2>1, <2>2, <2>3, <2>4 DEF keyInfo
<1> QED
  BY <1>1, Invariance, PTL

\* keyringStoreKey enters a key in the cache before the store has it, and
\* removes it when the store refuses: until two backends race, whatever another
\* backend can find in the cache is in the store, or on its way there, or an
\* orphan of a request that died.
THEOREM CacheAgrees == Spec => []CacheMatchesStore
<1>1. IInv => CacheMatchesStore
  <2> SUFFICES ASSUME TypeInv, Good, NEW s \in Slot, s < keyCount, keys[s] \notin orphans
               PROVE  \/ keys[s].data # 0 /\ keys[s].data = Stored(keys[s].name)
                      \/ \E b \in Backend : Storing(b) /\ kd[b] = keys[s].data
    BY DEF IInv, CacheMatchesStore
  <2>1. CASE \E b \in Backend : s = keyCount - 1 /\ Unsaved(b)
    <3>1. PICK b \in Backend : s = keyCount - 1 /\ Unsaved(b)
      BY <2>1
    <3>2. Storing(b) /\ ActiveOK(b)
      BY <3>1 DEF Unsaved, Storing, Active, Good
    <3>3. keys[s].data = kd[b]
      BY <3>1, <3>2 DEF ActiveOK, Unsaved
    <3> QED
      BY <3>2, <3>3
  <2>2. CASE ~\E b \in Backend : s = keyCount - 1 /\ Unsaved(b)
    BY <2>2 DEF Good, CacheOK
  <2> QED
    BY <2>1, <2>2
<1> QED
  BY <1>1, Invariance, PTL

=============================================================================
