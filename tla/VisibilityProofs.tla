--------------------------- MODULE VisibilityProofs ---------------------------
(***************************************************************************)
(* Proofs about Visibility, for any number of backends, transactions,       *)
(* commands, log records and crashes, and any workload: one deleter, locks  *)
(* that exclude deletions, hint bits that stay true, and answers of the      *)
(* visibility checks that are what they promise.                            *)
(*                                                                          *)
(* The argument: what a hint bit or an answer rests on is settled.  A        *)
(* transaction that is neither running nor committed stays so, one that      *)
(* committed stays committed (Ages), and the header does not change while    *)
(* somebody looks at it (Rely).  A crash is the exception; what survives it  *)
(* is read from the log, which therefore is part of the invariant.          *)
(***************************************************************************)
EXTENDS Visibility, FiniteSetTheorems, WellFoundedInduction, TLAPS

-----------------------------------------------------------------------------
(* The inductive invariant.                                                  *)
DidCommit(x) == clog[x] = "committed"
Issued == 1..(nextXid - 1)

CallFields == {"fn", "op", "at", "verdict", "oldestXmin", "reports", "saved", "tuplock"}
CallShape == DOMAIN call = Backend /\ \A b \in Backend : DOMAIN call[b] = CallFields

Snapshot == [xmax : 0..(MaxXid + 1), xip : SUBSET Xid, curcid : Cid, seen : SUBSET Xid]

(* Transactions. *)
XactInv ==
  /\ clog \in [Xid -> {"in progress", "committed", "aborted"}]
  /\ nextXid \in 1..(MaxXid + 1) /\ running \subseteq Issued
  /\ mine \in [Backend -> SUBSET Xid] /\ ended \in [Backend -> SUBSET Xid]
  /\ cid \in [Backend -> Cid] /\ snap \in [Backend -> Snapshot]
  /\ load \in Workloads /\ crashes \in 0..load.crashes
  /\ \A x \in Xid : x >= nextXid => clog[x] = "in progress"
  /\ \A b \in Backend :
       /\ mine[b] \subseteq running /\ ended[b] \subseteq running
       /\ mine[b] = {} \/ ended[b] = {}
       /\ \A x \in mine[b] : clog[x] = "in progress"
  /\ \A b, c \in Backend : b # c => (mine[b] \cup ended[b]) \cap (mine[c] \cup ended[c]) = {}

Settled(b, x) == x < snap[b].xmax /\ x \notin snap[b].xip

SnapInv(b) ==
  /\ snap[b].xmax <= nextXid
  /\ \A x \in Xid : /\ x \in snap[b].seen <=> DidCommit(x) /\ Settled(b, x)
                    /\ Settled(b, x) => x \notin running
  /\ snap[b] # NoSnap => snap[b].xmax >= 1 /\ snap[b].curcid = cid[b]

(* Headers. *)
Commits(i, x) == i \in 1..Len(wal) /\ wal[i].type = "commit" /\ x \in wal[i].xids
IsChange(i) == i \in 1..Len(wal) /\ wal[i].type # "commit"

Known(t) == t.updater # None => \E d \in deletes : d.xid = t.updater /\ d.cid = t.cmax
WellFormed(t) ==
  /\ t \in Tuple
  /\ t.xmin \in Issued /\ t.xmax \subseteq Issued
  /\ t.updater \in {None} \cup t.xmax /\ t.multi = (Cardinality(t.xmax) > 1)
  /\ Known(t)
HintsTrue(t) ==
  /\ t.xminHint = "committed" => DidCommit(t.xmin)
  /\ t.xminHint = "invalid" => ~Live(t.xmin)
  /\ t.xmaxCommitted => t.updater # None /\ DidCommit(t.updater)
  /\ t.xmaxInvalid => t.xmax \cap running = {} /\ (t.updater # None => ~Live(t.updater))
\* A commit that a hint tells of is in the log where the page cannot overtake it.
Backed(t, n) ==
  /\ t.xminHint = "committed" => \E i \in 1..Len(wal) : Commits(i, t.xmin) /\ (i <= flushed \/ i <= n)
  /\ t.xmaxCommitted => \E i \in 1..Len(wal) : Commits(i, t.updater) /\ (i <= flushed \/ i <= n)
SameHeader(t, u) ==
  /\ t.xmin = u.xmin /\ t.cmin = u.cmin /\ t.xmax = u.xmax /\ t.multi = u.multi
  /\ t.updater = u.updater /\ t.cmax = u.cmax

TupleInv ==
  /\ pageLSN \in 0..Len(wal) /\ (pageLSN = 0 <=> tuple = NoTuple)
  /\ tuple # NoTuple => /\ WellFormed(tuple) /\ HintsTrue(tuple) /\ Backed(tuple, pageLSN)
                        /\ IsChange(pageLSN) /\ SameHeader(wal[pageLSN].new, tuple)

DiskInv ==
  /\ disk \in [tuple : Tuple \cup {NoTuple}, lsn : 0..flushed]
  /\ disk.lsn = 0 <=> disk.tuple = NoTuple
  /\ disk.tuple # NoTuple => /\ WellFormed(disk.tuple) /\ HintsTrue(disk.tuple) /\ Backed(disk.tuple, 0)
                             /\ IsChange(disk.lsn) /\ SameHeader(wal[disk.lsn].new, disk.tuple)

(* A record of a change: what redo may rely on. *)
ChangeInv(i) ==
  LET t == wal[i].new IN
  /\ WellFormed(t) /\ i <= pageLSN
  /\ t.xmin = tuple.xmin
  /\ ~t.xmaxCommitted /\ (t.xmaxInvalid => t.xmax = {} /\ t.updater = None)
  /\ wal[i].type = "insert" => t.xminHint = "none"
  /\ \E k \in 1..i : wal[k].type = "insert"

LogRecord == [type : {"commit"}, xids : SUBSET Xid] \cup [type : {"insert", "xmax"}, new : Tuple]

LogInv ==
  /\ wal \in Seq(LogRecord)
  /\ flushed \in 0..Len(wal)
  /\ \A x \in Xid : DidCommit(x) <=> \E i \in 1..Len(wal) : Commits(i, x)
  /\ \A i \in 1..Len(wal) : IsChange(i) => ChangeInv(i)

(* Every change logged from before a deleter's commit on names the deleter.  *)
DeletesLogged ==
  \A d \in deletes, i \in 1..Len(wal) : Commits(i, d.xid) =>
    \E j \in 1..i : IsChange(j) /\ \A k \in j..Len(wal) : IsChange(k) => wal[k].new.updater = d.xid

DeleteInv ==
  /\ \A d \in deletes : /\ d \in [xid : Xid, cid : Cid] /\ d.xid \in Issued
                        /\ Live(d.xid) => tuple # NoTuple /\ tuple.updater = d.xid
  /\ OneDeleter

GrantInv ==
  /\ locks \subseteq Issued
  /\ \A x \in locks \cap running : tuple # NoTuple /\ x \in tuple.xmax
  /\ LocksExclude

(* Nobody else has touched a tuple whose inserter is running. *)
OwnInv ==
  \A b \in Backend : tuple # NoTuple /\ tuple.xmin \in mine[b] =>
    \A x \in tuple.xmax : x \in mine[b] \/ ~Live(x)

BufferInv == \A b, c \in Backend : b # c /\ Exclusive(b) => ~Locked(c)

(* Calls. *)
CallType(b) ==
  /\ call[b].fn \in Fn \cup {"none"} /\ call[b].op \in {"none", "delete", "lock"}
  /\ call[b].at \in {"idle", "xmin", "xminclog", "xmax", "xmaxclog", "done",
                     "copied", "tuplock", "sleep"}
  /\ call[b].verdict \in {"none", "visible", "invisible"} \cup TM \cup HTSV
  /\ call[b].oldestXmin \in Nat
  /\ call[b].fn = "none" <=> call[b].at = "idle"
  /\ call[b].fn = "update" <=> call[b].op # "none"
  /\ Asleep(b) => call[b].fn = "update"
  /\ call[b].at = "copied" => call[b].op = "lock"
  /\ call[b].fn # "update" =>
       call[b].verdict # "TM_Invisible" /\ (call[b].at # "done" => call[b].verdict = "none")
  /\ call[b].fn # "none" => tuple # NoTuple /\ ended[b] = {}

\* An update is of a tuple the backend's snapshot saw.
UpdateInv(b) ==
  call[b].fn = "update" =>
    /\ mine[b] # {} /\ snap[b] # NoSnap
    /\ tuple.xmin \in snap[b].seen \/ (tuple.xmin \in mine[b] /\ tuple.cmin < cid[b])
    /\ \A d \in deletes : d.xid \in mine[b] => d.cid >= cid[b]
    /\ call[b].verdict # "TM_Invisible"

CourseInv(b) ==
  /\ call[b].at = "xminclog" =>
       /\ tuple.xmin \notin running
       /\ call[b].fn = "mvcc" => Settled(b, tuple.xmin)
  /\ call[b].at \in {"xmax", "xmaxclog"} =>
       /\ call[b].fn = "dirty" => DidCommit(tuple.xmin)
       /\ call[b].fn = "mvcc" => tuple.xmin \in snap[b].seen
  /\ call[b].at = "xmaxclog" =>
       /\ tuple.updater # None /\ tuple.updater \notin running
       /\ call[b].fn = "mvcc" => Settled(b, tuple.updater)

NotDeleted == tuple.updater # None => ~Live(tuple.updater)
Lasting(b, x) == DidCommit(x) \/ x \in mine[b]

VerdictInv(b) ==
  call[b].at = "done" =>
    /\ call[b].fn = "update" /\ call[b].verdict = "TM_Ok" =>
         NotDeleted /\ (call[b].op = "delete" => tuple.xmax \cap running \subseteq mine[b])
    /\ call[b].fn = "dirty" /\ call[b].reports = {} =>
         IF call[b].verdict = "visible" THEN Lasting(b, tuple.xmin) /\ NotDeleted
         ELSE ~Live(tuple.xmin) \/ (tuple.updater # None /\ Lasting(b, tuple.updater))
    /\ call[b].fn = "mvcc" => ((call[b].verdict = "visible") <=> Sees(b))
    /\ call[b].fn = "vacuum" /\ call[b].verdict = "DEAD" =>
         \/ ~Live(tuple.xmin)
         \/ /\ tuple.updater # None /\ DidCommit(tuple.updater)
            /\ tuple.updater < call[b].oldestXmin

HorizonInv(b) ==
  call[b].fn = "vacuum" =>
    /\ call[b].oldestXmin <= nextXid
    /\ \A x \in running : call[b].oldestXmin <= x
    /\ \A c \in Backend : snap[c] # NoSnap =>
         /\ call[b].oldestXmin <= snap[c].xmax
         /\ \A x \in snap[c].xip : call[b].oldestXmin <= x

\* Those a sleeper waits for are none of its own.
SleepInv(b) ==
  call[b].at \in {"tuplock", "sleep"} =>
    /\ ~call[b].saved.multi => call[b].saved.xmax \cap mine[b] = {}
    /\ call[b].op = "lock" => call[b].saved.updater # None /\ call[b].saved.xmax \cap mine[b] = {}

CallInv(b) ==
  CallType(b) /\ UpdateInv(b) /\ CourseInv(b) /\ VerdictInv(b) /\ HorizonInv(b) /\ SleepInv(b)

IInv ==
  /\ XactInv /\ \A b \in Backend : SnapInv(b)
  /\ TupleInv /\ DiskInv /\ LogInv /\ DeletesLogged
  /\ DeleteInv /\ GrantInv /\ OwnInv
  /\ CallShape /\ BufferInv /\ \A b \in Backend : CallInv(b)

-----------------------------------------------------------------------------
(* Numbers and small sets.                                                   *)

LEMMA LeastNatural ==
  ASSUME NEW T, T \subseteq Nat, T # {}
  PROVE  \E x \in T : \A y \in T : x <= y
<1> DEFINE R == OpToRel(<, Nat)
<1>1. IsWellFoundedOn(R, Nat)
  BY NatLessThanWellFounded
<1>2. \A x, y \in Nat : y < x => <<y, x>> \in R
  BY DEF OpToRel
<1> HIDE DEF R
<1>3. PICK x \in T : \A y \in T : ~ (<<y, x>> \in R)
  BY <1>1, WFMin, Zenon
<1>4. \A y \in T : ~(y < x)
  BY <1>2, <1>3, Zenon
<1> QED
  BY <1>4

LEMMA GreatestUpTo ==
  ASSUME NEW S, NEW m \in Nat, S \subseteq 0..m, S # {}
  PROVE  \E x \in S : \A y \in S : y <= x
<1> DEFINE T == {k \in 0..m : m - k \in S}
<1>1. \A x \in S : x \in 0..m /\ m - x \in 0..m /\ m - (m - x) = x
  OBVIOUS
<1>2. \A x \in S : m - x \in T
  BY <1>1
<1>3. T \subseteq Nat /\ \A k \in T : k \in 0..m /\ m - k \in S
  OBVIOUS
<1> HIDE DEF T
<1>4. T # {}
  BY <1>2
<1>5. PICK k \in T : \A j \in T : k <= j
  BY <1>3, <1>4, LeastNatural, Zenon
<1>6. ASSUME NEW y \in S
      PROVE  y <= m - k
  <2>1. k <= m - y
    BY <1>2, <1>5
  <2> QED
    BY <1>1, <1>3, <1>5, <2>1
<1> QED
  BY <1>3, <1>5, <1>6

LEMMA XidsFinite ==
  ASSUME NEW S, S \subseteq Xid
  PROVE  IsFiniteSet(S) /\ Cardinality(S) \in Nat
<1>1. IsFiniteSet(Xid)
  BY VisibilityAssumption, FS_Interval DEF Xid
<1> QED
  BY <1>1, FS_Subset, FS_CardinalityType

(* An xmax that is not a multixact is one transaction at most. *)
LEMMA OneMember ==
  ASSUME NEW S, S \subseteq Xid, ~(Cardinality(S) > 1), NEW x \in S, NEW y \in S
  PROVE  x = y
<1> SUFFICES ASSUME x # y PROVE FALSE
  OBVIOUS
<1>1. IsFiniteSet({x}) /\ Cardinality({x}) = 1
  BY FS_Singleton, Zenon
<1>2. Cardinality({x} \cup {y}) = Cardinality({x}) + 1
  <2>1. y \notin {x}
    OBVIOUS
  <2> QED
    BY <1>1, <2>1, FS_AddElement, Zenon
<1>3. Cardinality({x} \cup {y}) <= Cardinality(S)
  <2>1. {x} \cup {y} \subseteq S
    OBVIOUS
  <2> QED
    BY <2>1, XidsFinite, FS_Subset, Zenon
<1> QED
  BY <1>1, <1>2, <1>3, XidsFinite

LEMMA Constants ==
  /\ MaxXid \in Nat /\ MaxCid \in Nat
  /\ \A x \in Xid : x \in Nat /\ x >= 1 /\ x # None
  /\ None \notin Xid
  BY VisibilityAssumption DEF Xid, None

LEMMA IssuedXids ==
  ASSUME nextXid \in 1..(MaxXid + 1)
  PROVE  Issued \subseteq Xid /\ \A x \in Issued : x \in Nat /\ x < nextXid
  BY VisibilityAssumption DEF Xid, Issued

\* The range of xids, without the rest of the invariant.
LEMMA XactFacts ==
  XactInv => /\ nextXid \in 1..(MaxXid + 1) /\ nextXid \in Nat
             /\ running \subseteq Issued /\ Issued \subseteq Xid
             /\ \A x \in Issued : x \in Nat /\ x >= 1 /\ x < nextXid
             /\ \A x \in Xid : x < nextXid => x \in Issued
<1> SUFFICES ASSUME XactInv
             PROVE  /\ nextXid \in 1..(MaxXid + 1) /\ nextXid \in Nat
                    /\ running \subseteq Issued /\ Issued \subseteq Xid
                    /\ \A x \in Issued : x \in Nat /\ x >= 1 /\ x < nextXid
                    /\ \A x \in Xid : x < nextXid => x \in Issued
  OBVIOUS
<1>1. nextXid \in 1..(MaxXid + 1) /\ running \subseteq Issued
  BY DEF XactInv
<1> QED
  BY <1>1, VisibilityAssumption DEF Issued, Xid

LEMMA CurrentXidMine ==
  ASSUME XactInv, NEW b \in Backend, mine[b] # {}
  PROVE  CurrentXid(b) \in mine[b] /\ CurrentXid(b) \in Issued /\ CurrentXid(b) \in running
<1>1. mine[b] \subseteq running /\ running \subseteq Issued /\ Issued \subseteq Xid
  <2>1. mine[b] \subseteq running
    BY DEF XactInv
  <2> QED
    BY <2>1, XactFacts
<1>2. mine[b] \subseteq 0..MaxXid
  <2>1. Xid \subseteq 0..MaxXid
    BY Constants DEF Xid
  <2> QED
    BY <1>1, <2>1, Zenon
<1>3. \E x \in mine[b] : \A y \in mine[b] : y <= x
  <2>1. MaxXid \in Nat
    BY Constants
  <2> QED
    BY <1>2, <2>1, GreatestUpTo, Zenon
<1>4. CurrentXid(b) \in mine[b]
  BY <1>3, Zenon DEF CurrentXid
<1> QED
  BY <1>1, <1>4, XactFacts

-----------------------------------------------------------------------------
(* Time: what ended stays ended, but for a crash.                            *)

Ages ==
  /\ nextXid' \in 1..(MaxXid + 1) /\ nextXid <= nextXid'
  /\ \A x \in Issued : /\ x \in running' => x \in running
                       /\ Live(x)' => Live(x)
                       /\ DidCommit(x) => DidCommit(x)'

\* The log only grows.
Extends ==
  /\ Len(wal') \in Nat /\ Len(wal) \in Nat /\ Len(wal) <= Len(wal')
  /\ \A i \in 1..Len(wal) : wal'[i] = wal[i]
  /\ flushed \in Nat /\ flushed' \in 0..Len(wal') /\ flushed <= flushed'

LEMMA IssuedKept ==
  ASSUME XactInv, Ages
  PROVE  Issued \subseteq Issued' /\ nextXid \in Nat /\ nextXid' \in Nat /\ nextXid <= nextXid'
<1>1. nextXid' \in 1..(MaxXid + 1) /\ nextXid <= nextXid'
  BY DEF Ages
<1>2. nextXid \in Nat
  BY XactFacts
<1>3. nextXid' \in Nat
  BY <1>1, Constants
<1>4. nextXid <= nextXid'
  BY <1>1
<1>5. Issued \subseteq Issued'
  <2>1. PICK m : m = nextXid'
    OBVIOUS
  <2>2. m \in Nat /\ nextXid <= m
    BY <1>3, <1>4, <2>1, Zenon
  <2>3. 1..(nextXid - 1) \subseteq 1..(m - 1)
    BY <1>2, <2>2
  <2> QED
    BY <2>1, <2>3, Zenon DEF Issued
<1> QED
  BY <1>2, <1>3, <1>4, <1>5

LEMMA CommitsKept ==
  ASSUME Extends, NEW i \in 1..Len(wal), NEW x
  PROVE  /\ i \in 1..Len(wal')
         /\ Commits(i, x) <=> Commits(i, x)'
         /\ IsChange(i) <=> IsChange(i)'
  BY DEF Extends, Commits, IsChange

LEMMA WellFormedKept ==
  ASSUME XactInv, Ages, deletes \subseteq deletes', NEW t, WellFormed(t)
  PROVE  WellFormed(t)'
<1>1. \A x \in Issued : x \in Issued'
  BY IssuedKept
<1>2. Known(t)'
  BY DEF WellFormed, Known
<1> QED
  BY <1>1, <1>2 DEF WellFormed

LEMMA HintsKept ==
  ASSUME XactInv, Ages, NEW t, WellFormed(t), HintsTrue(t)
  PROVE  HintsTrue(t)'
<1>1. t.xmin \in Issued /\ t.xmax \subseteq Issued
      /\ (t.updater # None => t.updater \in Issued)
  BY DEF WellFormed
<1> QED
  BY <1>1 DEF HintsTrue, Ages

LEMMA BackedKept ==
  ASSUME Extends, NEW t, NEW n \in Nat, NEW m \in Nat, n <= m, Backed(t, n)
  PROVE  Backed(t, m)'
<1>1. ASSUME NEW x, NEW i \in 1..Len(wal), Commits(i, x), i <= flushed \/ i <= n
      PROVE  i \in 1..Len(wal') /\ Commits(i, x)' /\ (i <= flushed' \/ i <= m)
  <2>1. i \in Nat
    OBVIOUS
  <2> QED
    BY <1>1, <2>1, CommitsKept DEF Extends
<1> QED
  BY <1>1 DEF Backed

LEMMA SameHeaderFacts ==
  ASSUME NEW t, NEW u, SameHeader(t, u), t \in Tuple, u \in Tuple
  PROVE  WellFormed(t) => WellFormed(u)
  BY DEF SameHeader, WellFormed, Known

-----------------------------------------------------------------------------
(* The parts of the invariant that a step keeps.                             *)

\* Transactions of one backend end together, and nobody else gets their xids.
Belongs ==
  /\ \A c \in Backend, x \in Issued : x \in mine'[c] => x \in mine[c]
  /\ \A c \in Backend : \A x \in mine[c] : x \in mine'[c] \/ mine'[c] = {} \/ ~Live(x)'
  /\ \A c \in Backend :
       \/ \A x \in mine[c] \cup ended[c] : x \notin running'
       \/ \A x \in mine[c] \cup ended[c] : x \in mine'[c] \cup ended'[c] \/ ~Live(x)'

\* The header but for its hint bits.
HeaderKept == tuple # NoTuple => tuple' # NoTuple /\ SameHeader(tuple, tuple')

LEMMA HistoryKept ==
  ASSUME IInv, Ages, Belongs, HeaderKept,
         tuple = NoTuple => tuple' = NoTuple \/ tuple'.xmax = {},
         UNCHANGED <<deletes, locks>>
  PROVE  DeleteInv' /\ GrantInv' /\ OwnInv'
<1>0. XactInv /\ DeleteInv /\ GrantInv /\ OwnInv /\ TupleInv
  BY DEF IInv
<1>1. \A x \in Issued : x \in Issued'
  BY <1>0, IssuedKept
<1>2. DeleteInv'
  <2>1. ASSUME NEW d \in deletes'
        PROVE  /\ d \in [xid : Xid, cid : Cid] /\ d.xid \in Issued'
               /\ Live(d.xid)' => tuple' # NoTuple /\ tuple'.updater = d.xid
    BY <1>0, <1>1 DEF DeleteInv, Ages, HeaderKept, SameHeader
  <2>2. OneDeleter'
    BY <1>0 DEF DeleteInv, OneDeleter, Ages
  <2> QED
    BY <2>1, <2>2 DEF DeleteInv
<1>3. GrantInv'
  <2>1. locks' \subseteq Issued'
    BY <1>0, <1>1 DEF GrantInv
  <2>2. ASSUME NEW x \in locks' \cap running'
        PROVE  x \in locks \cap running /\ tuple' # NoTuple /\ x \in tuple'.xmax
    <3>1. x \in locks \cap running
      BY <1>0 DEF GrantInv, Ages
    <3>2. tuple # NoTuple /\ x \in tuple.xmax
      BY <1>0, <3>1 DEF GrantInv
    <3> QED
      BY <3>1, <3>2 DEF HeaderKept, SameHeader
  <2>3. ASSUME NEW x \in locks' \cap running', NEW d \in deletes', Live(d.xid)'
        PROVE  \E c \in Backend : {x, d.xid} \subseteq mine'[c] \cup ended'[c]
    <3>1. Live(d.xid)
      BY <1>0, <2>3 DEF DeleteInv, Ages
    <3>2. PICK c \in Backend : {x, d.xid} \subseteq mine[c] \cup ended[c]
      BY <1>0, <2>2, <3>1 DEF GrantInv, LocksExclude
    <3>3. x \in running' /\ Live(x)'
      BY <2>3 DEF Live
    <3>4. {x, d.xid} \subseteq mine'[c] \cup ended'[c]
      BY <2>3, <3>2, <3>3 DEF Belongs
    <3> QED
      BY <3>4
  <2> QED
    BY <2>1, <2>2, <2>3 DEF GrantInv, LocksExclude
<1>4. OwnInv'
  <2> SUFFICES ASSUME NEW b \in Backend, tuple' # NoTuple, tuple'.xmin \in mine'[b],
                      NEW x \in tuple'.xmax
               PROVE  x \in mine'[b] \/ ~Live(x)'
    BY DEF OwnInv
  <2>1. tuple # NoTuple /\ tuple.xmin = tuple'.xmin /\ x \in tuple.xmax
    BY DEF HeaderKept, SameHeader
  <2>2. tuple.xmin \in Issued /\ x \in Issued
    BY <1>0, <2>1 DEF TupleInv, WellFormed
  <2>3. x \in mine[b] \/ ~Live(x)
    BY <1>0, <2>1, <2>2 DEF OwnInv, Belongs
  <2> QED
    BY <2>1, <2>2, <2>3 DEF Belongs, Ages
<1> QED
  BY <1>2, <1>3, <1>4

LEMMA HeaderFacts ==
  ASSUME IInv, tuple # NoTuple
  PROVE  /\ tuple \in Tuple /\ WellFormed(tuple) /\ HintsTrue(tuple) /\ Known(tuple)
         /\ tuple.xmin \in Issued /\ tuple.xmax \subseteq Issued
         /\ tuple.updater # None => tuple.updater \in tuple.xmax /\ tuple.updater \in Issued
         /\ Issued \subseteq Xid
         /\ ~tuple.multi => \A x, y \in tuple.xmax : x = y
<1>1. WellFormed(tuple) /\ HintsTrue(tuple) /\ Issued \subseteq Xid
  BY IssuedXids DEF IInv, TupleInv, XactInv
<1>2. ~tuple.multi => \A x, y \in tuple.xmax : x = y
  <2>1. tuple.xmax \subseteq Xid /\ (~tuple.multi => ~(Cardinality(tuple.xmax) > 1))
    BY <1>1 DEF WellFormed
  <2> QED
    BY <2>1, OneMember
<1> QED
  BY <1>1, <1>2 DEF WellFormed

\* What a call of c may rely on in a step of somebody else.
Horizons ==
  \A c \in Backend : snap'[c] # NoSnap =>
    \/ snap[c] # NoSnap /\ snap'[c].xmax = snap[c].xmax /\ snap'[c].xip = snap[c].xip
    \/ snap'[c].xmax = nextXid /\ snap'[c].xip = running

Rely(c) ==
  /\ call'[c] = call[c]
  /\ call[c].fn # "none" =>
       /\ tuple' # NoTuple /\ tuple'.xmin = tuple.xmin /\ tuple'.cmin = tuple.cmin
       /\ mine'[c] = mine[c] /\ ended'[c] = {} /\ snap'[c] = snap[c] /\ cid'[c] = cid[c]
       /\ \A d \in deletes' : d.xid \in mine[c] => d \in deletes
       /\ Locked(c) => SameHeader(tuple, tuple') /\ deletes' = deletes

LEMMA CallKept ==
  ASSUME IInv, Ages, XactInv', Horizons, NEW c \in Backend, Rely(c)
  PROVE  CallInv(c)'
<1>0. CallInv(c) /\ XactInv /\ SnapInv(c) /\ call'[c] = call[c]
  BY DEF IInv, Rely
<1>1. CallType(c)'
  <2>1. Asleep(c)' <=> Asleep(c)
    BY <1>0 DEF Asleep
  <2> QED
    BY <1>0, <2>1 DEF CallInv, CallType, Rely
<1>2. CASE call[c].fn = "none"
  <2>1. call'[c].fn = "none" /\ call'[c].at = "idle"
    BY <1>0, <1>2 DEF CallInv, CallType
  <2> QED
    BY <1>1, <2>1 DEF CallInv, UpdateInv, CourseInv, VerdictInv, HorizonInv, SleepInv
<1>3. CASE call[c].fn # "none"
  <2>1. /\ tuple' # NoTuple /\ tuple'.xmin = tuple.xmin /\ tuple'.cmin = tuple.cmin
        /\ mine'[c] = mine[c] /\ snap'[c] = snap[c] /\ cid'[c] = cid[c]
        /\ \A d \in deletes' : d.xid \in mine[c] => d \in deletes
        /\ Locked(c) => SameHeader(tuple, tuple') /\ deletes' = deletes
    BY <1>3 DEF Rely
  <2>2. tuple # NoTuple
    BY <1>0, <1>3 DEF CallInv, CallType
  <2>3. /\ tuple.xmin \in Issued /\ tuple.xmax \subseteq Issued
        /\ tuple.updater # None => tuple.updater \in tuple.xmax /\ tuple.updater \in Issued
    BY <2>2, HeaderFacts
  <2>4. call[c].at \in {"xminclog", "xmax", "xmaxclog", "done"} => Locked(c)
    BY <1>3 DEF Locked, Asleep
  <2>5. UpdateInv(c)'
    BY <1>0, <2>1 DEF CallInv, UpdateInv
  <2>6. CourseInv(c)'
    BY <1>0, <2>1, <2>3, <2>4 DEF CallInv, CourseInv, Settled, SameHeader, Ages
  <2>7. VerdictInv(c)'
    <3> SUFFICES ASSUME call[c].at = "done" PROVE VerdictInv(c)'
      BY <1>0 DEF VerdictInv
    <3>1. /\ SameHeader(tuple, tuple') /\ deletes' = deletes
      BY <2>1, <2>4
    <3>2. NotDeleted => NotDeleted'
      BY <2>3, <3>1 DEF NotDeleted, SameHeader, Ages
    <3>3. /\ Lasting(c, tuple.xmin) => Lasting(c, tuple.xmin)'
          /\ tuple.updater # None /\ Lasting(c, tuple.updater) => Lasting(c, tuple.updater)'
          /\ ~Live(tuple.xmin) => ~Live(tuple.xmin)'
          /\ tuple.updater # None /\ DidCommit(tuple.updater) => DidCommit(tuple.updater)'
      BY <2>1, <2>3, <3>1 DEF Lasting, Ages, SameHeader
    <3>4. tuple.xmax \cap running \subseteq mine[c] => tuple'.xmax \cap running' \subseteq mine'[c]
      BY <2>1, <2>3, <3>1 DEF Ages, SameHeader
    <3>5. Sees(c)' <=> Sees(c)
      BY <2>1, <3>1 DEF Sees
    <3> QED
      BY <1>0, <3>1, <3>2, <3>3, <3>4, <3>5 DEF CallInv, VerdictInv, SameHeader
  <2>8. HorizonInv(c)'
    <3> SUFFICES ASSUME call[c].fn = "vacuum" PROVE HorizonInv(c)'
      BY <1>0 DEF HorizonInv
    <3> DEFINE o == call[c].oldestXmin
    <3>1. /\ o \in Nat /\ o <= nextXid /\ \A x \in running : o <= x
          /\ \A d \in Backend : snap[d] # NoSnap =>
               o <= snap[d].xmax /\ \A x \in snap[d].xip : o <= x
      BY <1>0 DEF CallInv, HorizonInv, CallType
    <3>2. nextXid \in Nat /\ nextXid' \in Nat /\ nextXid <= nextXid'
      BY <1>0, IssuedKept
    <3>3. ASSUME NEW x \in running' PROVE o <= x
      <4>0. x \in Issued'
        BY DEF XactInv
      <4>1. x \in Nat /\ (x < nextXid => x \in Issued)
        BY <3>2, <4>0 DEF Issued
      <4>2. x < nextXid => x \in running
        BY <4>1 DEF Ages
      <4> QED
        BY <3>1, <3>2, <4>1, <4>2
    <3>4. \A d \in Backend : snap'[d] # NoSnap =>
            o <= snap'[d].xmax /\ \A x \in snap'[d].xip : o <= x
      BY <3>1 DEF Horizons
    <3>5. o <= nextXid'
      BY <3>1, <3>2
    <3> QED
      BY <1>0, <3>3, <3>4, <3>5 DEF HorizonInv
  <2>9. SleepInv(c)'
    BY <1>0, <2>1 DEF CallInv, SleepInv
  <2> QED
    BY <1>1, <2>5, <2>6, <2>7, <2>8, <2>9 DEF CallInv
<1> QED
  BY <1>2, <1>3

LEMMA IdleCall ==
  ASSUME NEW c \in Backend, call'[c] = NoCall
  PROVE  CallInv(c)' /\ ~Locked(c)' /\ ~Exclusive(c)'
<1>1. /\ call'[c].fn = "none" /\ call'[c].at = "idle" /\ call'[c].op = "none"
      /\ call'[c].verdict = "none" /\ call'[c].oldestXmin = 0
  BY DEF NoCall
<1> QED
  BY <1>1 DEF CallInv, CallType, UpdateInv, CourseInv, VerdictInv, HorizonInv, SleepInv, Locked,
              Exclusive, Asleep

-----------------------------------------------------------------------------
(* The log and the disk.                                                     *)

LEMMA DiskKept ==
  ASSUME IInv, Ages, Extends, deletes \subseteq deletes', disk' = disk
  PROVE  DiskInv'
<1>1. /\ disk \in [tuple : Tuple \cup {NoTuple}, lsn : 0..flushed]
      /\ disk.lsn = 0 <=> disk.tuple = NoTuple
  BY DEF IInv, DiskInv
<1>2. disk \in [tuple : Tuple \cup {NoTuple}, lsn : 0..flushed']
  BY <1>1 DEF Extends
<1>3. CASE disk.tuple = NoTuple
  BY <1>1, <1>2, <1>3 DEF DiskInv
<1>4. CASE disk.tuple # NoTuple
  <2>1. PICK t : t = disk.tuple
    OBVIOUS
  <2>2. /\ WellFormed(t) /\ HintsTrue(t) /\ Backed(t, 0)
        /\ IsChange(disk.lsn) /\ SameHeader(wal[disk.lsn].new, t)
    BY <1>4, <2>1 DEF IInv, DiskInv
  <2>3. WellFormed(t)' /\ HintsTrue(t)' /\ Backed(t, 0)'
    BY <2>2, WellFormedKept, HintsKept, BackedKept DEF IInv
  <2>4. IsChange(disk.lsn)' /\ SameHeader(wal[disk.lsn].new, t)'
    BY <2>2, CommitsKept DEF IsChange, Extends, SameHeader
  <2> QED
    BY <1>1, <1>2, <2>1, <2>3, <2>4 DEF DiskInv, WellFormed, HintsTrue, Backed, Known, SameHeader
<1> QED
  BY <1>3, <1>4

LEMMA TupleKept ==
  ASSUME IInv, Ages, Extends, deletes \subseteq deletes', UNCHANGED <<tuple, pageLSN>>
  PROVE  TupleInv'
<1>1. pageLSN \in 0..Len(wal) /\ (pageLSN = 0 <=> tuple = NoTuple)
  BY DEF IInv, TupleInv
<1>2. pageLSN \in 0..Len(wal')
  BY <1>1 DEF Extends
<1>3. CASE tuple = NoTuple
  BY <1>1, <1>2, <1>3 DEF TupleInv
<1>4. CASE tuple # NoTuple
  <2>1. PICK t : t = tuple
    OBVIOUS
  <2>2. /\ WellFormed(t) /\ HintsTrue(t) /\ Backed(t, pageLSN)
        /\ IsChange(pageLSN) /\ SameHeader(wal[pageLSN].new, t)
    BY <1>4, <2>1 DEF IInv, TupleInv
  <2>3. PICK n \in Nat : n = pageLSN
    BY <1>1
  <2>4. WellFormed(t)' /\ HintsTrue(t)' /\ Backed(t, n)'
    BY <2>2, <2>3, WellFormedKept, HintsKept, BackedKept DEF IInv
  <2>5. IsChange(n)' /\ SameHeader(wal[n].new, t)'
    BY <2>2, <2>3, CommitsKept DEF IsChange, Extends, SameHeader
  <2> QED
    BY <1>1, <1>2, <2>1, <2>3, <2>4, <2>5
       DEF TupleInv, WellFormed, HintsTrue, Backed, Known, SameHeader, IsChange
<1> QED
  BY <1>3, <1>4

\* The records that were there before.
LEMMA ChangesKept ==
  ASSUME IInv, Ages, Extends, deletes \subseteq deletes', pageLSN' \in Nat, pageLSN <= pageLSN',
         tuple # NoTuple => tuple'.xmin = tuple.xmin,
         NEW i \in 1..Len(wal), IsChange(i)
  PROVE  ChangeInv(i)'
<1>1. PICK t : t = wal[i].new
  OBVIOUS
<1>2. ChangeInv(i) /\ WellFormed(t) /\ i <= pageLSN
  BY <1>1 DEF IInv, LogInv, ChangeInv
<1>3. pageLSN \in Nat /\ tuple # NoTuple /\ i \in Nat /\ Len(wal) \in Nat
  BY <1>2 DEF IInv, TupleInv, Extends
<1>4. wal'[i] = wal[i] /\ \A k \in 1..i : wal'[k] = wal[k]
  BY <1>3 DEF Extends
<1>5. WellFormed(t)'
  BY <1>2, WellFormedKept DEF IInv
<1>6. i <= pageLSN'
  BY <1>2, <1>3
<1>7. WellFormed(wal[i].new)'
  BY <1>1, <1>4, <1>5 DEF WellFormed, Known
<1> QED
  BY <1>2, <1>3, <1>4, <1>6, <1>7 DEF ChangeInv

-----------------------------------------------------------------------------
(* The log when a step writes nothing, a commit, or a change.                *)

LEMMA AppendFacts ==
  ASSUME NEW S, NEW s \in Seq(S), NEW e \in S, NEW t, t = Append(s, e)
  PROVE  /\ t \in Seq(S) /\ Len(s) \in Nat /\ Len(t) = Len(s) + 1
         /\ \A i \in 1..Len(s) : t[i] = s[i]
         /\ t[Len(s) + 1] = e
         /\ \A i \in 1..Len(t) : i \in 1..Len(s) \/ i = Len(s) + 1
         /\ Len(s) + 1 \in 1..Len(t) /\ Len(s) <= Len(t)
         /\ \A i \in 1..Len(s) : i \in 1..Len(t)
  OBVIOUS

LEMMA ExtendsSame ==
  ASSUME IInv, wal' = wal, flushed' \in 0..Len(wal), flushed <= flushed'
  PROVE  Extends
<1>1. wal \in Seq(LogRecord) /\ flushed \in 0..Len(wal)
  BY DEF IInv, LogInv
<1>2. Len(wal) \in Nat
  BY <1>1
<1> QED
  BY <1>1, <1>2 DEF Extends

LEMMA LogSame ==
  ASSUME IInv, Ages, wal' = wal, flushed' \in 0..Len(wal), flushed <= flushed',
         \A x \in Xid : DidCommit(x)' <=> DidCommit(x),
         deletes' = deletes, pageLSN' = pageLSN,
         tuple # NoTuple => tuple'.xmin = tuple.xmin
  PROVE  LogInv' /\ DeletesLogged'
<1>1. /\ wal \in Seq(LogRecord) /\ flushed \in 0..Len(wal)
      /\ \A x \in Xid : DidCommit(x) <=> \E i \in 1..Len(wal) : Commits(i, x)
  BY DEF IInv, LogInv
<1>2. Extends /\ pageLSN \in Nat
  BY ExtendsSame DEF IInv, TupleInv
<1>3. \A i \in 1..Len(wal), x \in Xid : Commits(i, x)' <=> Commits(i, x)
  BY DEF Commits
<1>4. \A x \in Xid : DidCommit(x)' <=> \E i \in 1..Len(wal) : Commits(i, x)'
  BY <1>1, <1>3
<1>5. \A i \in 1..Len(wal) : IsChange(i)' => ChangeInv(i)'
  <2> SUFFICES ASSUME NEW i \in 1..Len(wal), IsChange(i)' PROVE ChangeInv(i)'
    OBVIOUS
  <2>1. IsChange(i)
    BY DEF IsChange
  <2>2. pageLSN' \in Nat /\ pageLSN <= pageLSN' /\ deletes \subseteq deletes'
    BY <1>2
  <2> QED
    BY <1>2, <2>1, <2>2, ChangesKept
<1>6. LogInv'
  <2>1. wal' \in Seq(LogRecord) /\ flushed' \in 0..Len(wal')
    BY <1>1
  <2>2. \A x \in Xid : DidCommit(x)' <=> \E i \in 1..Len(wal') : Commits(i, x)'
    BY <1>4
  <2>3. \A i \in 1..Len(wal') : IsChange(i)' => ChangeInv(i)'
    BY <1>5
  <2>4. (wal \in Seq(LogRecord))'
    BY <2>1 DEF LogRecord, Tuple
  <2> QED
    BY ONLY <2>1, <2>2, <2>3, <2>4 DEF LogInv
<1>7. DeletesLogged'
  BY DEF IInv, DeletesLogged, Commits, IsChange
<1> QED
  BY <1>6, <1>7

(* A record appended to a log of n records. *)
LEMMA Appended ==
  ASSUME IInv, NEW rec \in LogRecord, wal' = Append(wal, rec), NEW n, n = Len(wal)
  PROVE  /\ n \in Nat /\ Len(wal') = n + 1 /\ n + 1 \in Nat
         /\ wal' \in Seq(LogRecord) /\ wal'[n + 1] = rec
         /\ \A i \in 1..n : /\ i \in 1..(n + 1) /\ wal'[i] = wal[i]
                            /\ IsChange(i)' <=> IsChange(i)
                            /\ \A x : Commits(i, x)' <=> Commits(i, x)
         /\ \A i \in 1..(n + 1) : i \in 1..n \/ i = n + 1
         /\ IsChange(n + 1)' <=> rec.type # "commit"
         /\ \A x : Commits(n + 1, x)' <=> rec.type = "commit" /\ x \in rec.xids
         /\ flushed' = flushed \/ flushed' = n + 1 => Extends
<1>1. wal \in Seq(LogRecord) /\ flushed \in 0..Len(wal)
  BY DEF IInv, LogInv
<1>2. PICK w : w = wal'
  OBVIOUS
<1>3. /\ w \in Seq(LogRecord) /\ n \in Nat /\ Len(w) = n + 1
      /\ \A i \in 1..n : w[i] = wal[i] /\ i \in 1..Len(w)
      /\ w[n + 1] = rec
      /\ \A i \in 1..Len(w) : i \in 1..n \/ i = n + 1
      /\ n + 1 \in 1..Len(w) /\ n <= Len(w)
  <2>1. w = Append(wal, rec)
    BY <1>2
  <2> HIDE DEF LogRecord
  <2> QED
    BY <1>1, <2>1, AppendFacts
<1>4. \A i \in 1..n : /\ IsChange(i)' <=> IsChange(i)
                      /\ \A x : Commits(i, x)' <=> Commits(i, x)
  <2>1. \A i \in 1..n : i \in 1..Len(wal') /\ wal'[i] = wal[i] /\ i \in 1..Len(wal)
    BY <1>2, <1>3
  <2> QED
    BY <2>1, Zenon DEF Commits, IsChange
<1>5. /\ IsChange(n + 1)' <=> rec.type # "commit"
      /\ \A x : Commits(n + 1, x)' <=> rec.type = "commit" /\ x \in rec.xids
  <2>1. n + 1 \in 1..Len(wal') /\ wal'[n + 1] = rec
    BY <1>2, <1>3
  <2> QED
    BY <2>1 DEF Commits, IsChange
<1>6. ASSUME flushed' = flushed \/ flushed' = n + 1 PROVE Extends
  <2>1. PICK f : f = flushed'
    OBVIOUS
  <2>2. f \in 0..Len(w) /\ flushed <= f /\ flushed \in Nat /\ Len(w) \in Nat
    BY <1>1, <1>3, <1>6, <2>1
  <2> QED
    BY <1>2, <1>3, <2>1, <2>2 DEF Extends
<1> QED
  BY <1>2, <1>3, <1>4, <1>5, <1>6

LEMMA LogCommit ==
  ASSUME IInv, Ages, NEW b \in Backend,
         wal' = Append(wal, [type |-> "commit", xids |-> mine[b]]),
         flushed' = flushed \/ flushed' = Len(wal'),
         \A x \in Xid : DidCommit(x)' <=> DidCommit(x) \/ x \in mine[b],
         deletes' = deletes, pageLSN' = pageLSN, tuple' = tuple
  PROVE  Extends /\ LogInv' /\ DeletesLogged'
<1>0. PICK n : n = Len(wal)
  OBVIOUS
<1>1. \A x \in Xid : DidCommit(x) <=> \E i \in 1..n : Commits(i, x)
  BY <1>0 DEF IInv, LogInv
<1>2. mine[b] \subseteq running /\ mine[b] \subseteq Xid
  BY DEF IInv, XactInv
<1>3. PICK rec \in LogRecord : rec = [type |-> "commit", xids |-> mine[b]]
  BY <1>2 DEF LogRecord
<1>4. rec.type = "commit" /\ rec.xids = mine[b]
  BY <1>3
<1>5. wal' = Append(wal, rec)
  BY <1>3
<1>6. /\ n \in Nat /\ Len(wal') = n + 1 /\ n + 1 \in Nat
      /\ wal' \in Seq(LogRecord)
      /\ \A i \in 1..n : /\ i \in 1..(n + 1) /\ wal'[i] = wal[i]
                         /\ IsChange(i)' <=> IsChange(i)
                         /\ \A x : Commits(i, x)' <=> Commits(i, x)
      /\ \A i \in 1..(n + 1) : i \in 1..n \/ i = n + 1
      /\ ~IsChange(n + 1)'
      /\ \A x : Commits(n + 1, x)' <=> x \in mine[b]
      /\ flushed' = flushed \/ flushed' = n + 1 => Extends
  BY <1>0, <1>4, <1>5, Appended
<1>7. Extends
  BY <1>6
<1>10. LogInv'
  <2>1. wal' \in Seq(LogRecord) /\ flushed' \in 0..Len(wal')
    BY <1>6, <1>7 DEF Extends
  <2>2. \A x \in Xid : DidCommit(x)' <=> \E i \in 1..(n + 1) : Commits(i, x)'
    <3> SUFFICES ASSUME NEW x \in Xid
                 PROVE DidCommit(x)' <=> \E i \in 1..(n + 1) : Commits(i, x)'
      OBVIOUS
    <3>1. DidCommit(x)' => \E i \in 1..(n + 1) : Commits(i, x)'
      <4>1. CASE DidCommit(x)
        BY <1>1, <1>6, <4>1
      <4>2. CASE x \in mine[b]
        <5>1. n + 1 \in 1..(n + 1)
          BY <1>6
        <5> QED
          BY <1>6, <4>2, <5>1
      <4> QED
        BY <4>1, <4>2
    <3>2. ASSUME NEW i \in 1..(n + 1), Commits(i, x)' PROVE DidCommit(x)'
      <4>1. CASE i \in 1..n
        BY <1>1, <1>6, <3>2, <4>1
      <4>2. CASE i = n + 1
        BY <1>6, <3>2, <4>2
      <4> QED
        BY <1>6, <4>1, <4>2
    <3> QED
      BY <3>1, <3>2
  <2>3. \A i \in 1..(n + 1) : IsChange(i)' => ChangeInv(i)'
    <3> SUFFICES ASSUME NEW i \in 1..(n + 1), IsChange(i)' PROVE ChangeInv(i)'
      OBVIOUS
    <3>1. i \in 1..n
      BY <1>6
    <3>2. IsChange(i)
      BY <1>6, <3>1
    <3>3. pageLSN' \in Nat /\ pageLSN <= pageLSN'
      BY DEF IInv, TupleInv
    <3> QED
      BY <1>0, <1>7, <3>1, <3>2, <3>3, ChangesKept
  <2>4. (wal \in Seq(LogRecord))'
    BY <2>1 DEF LogRecord, Tuple
  <2>5. Len(wal') = n + 1
    BY <1>6
  <2> QED
    BY ONLY <2>1, <2>2, <2>3, <2>4, <2>5 DEF LogInv
<1>11. DeletesLogged'
  <2>a. Len(wal') = n + 1 /\ deletes' = deletes
    BY <1>6
  <2> SUFFICES ASSUME NEW d \in deletes, NEW i \in 1..(n + 1), Commits(i, d.xid)'
               PROVE  \E j \in 1..i : IsChange(j)' /\
                        \A k \in j..(n + 1) : IsChange(k)' => wal'[k].new.updater = d.xid
    BY <2>a DEF DeletesLogged
  <2>0. d.xid \in Xid
    BY DEF IInv, DeleteInv
  <2>1. CASE i \in 1..n
    <3>0. Commits(i, d.xid)
      BY <1>6, <2>1
    <3>1. PICK j \in 1..i : IsChange(j) /\ \A k \in j..n : IsChange(k) => wal[k].new.updater = d.xid
      BY <1>0, <2>1, <3>0 DEF IInv, DeletesLogged
    <3>2. j \in 1..n /\ IsChange(j)'
      BY <1>6, <2>1, <3>1
    <3>3. ASSUME NEW k \in j..(n + 1), IsChange(k)' PROVE wal'[k].new.updater = d.xid
      <4>1. k \in 1..(n + 1)
        BY <1>6, <3>2
      <4>2. k \in 1..n
        BY <1>6, <3>3, <4>1
      <4>3. k \in j..n /\ IsChange(k) /\ wal'[k] = wal[k]
        BY <1>6, <3>2, <3>3, <4>2
      <4> QED
        BY <3>1, <4>3
    <3> QED
      BY <3>1, <3>2, <3>3
  <2>2. CASE i = n + 1
    <3>1. d.xid \in mine[b]
      BY <1>6, <2>2
    <3>2. Live(d.xid)
      BY <1>2, <3>1 DEF Live
    <3>3. tuple # NoTuple /\ tuple.updater = d.xid
      BY <3>2 DEF IInv, DeleteInv
    <3>4. PICK p : p = pageLSN
      OBVIOUS
    <3>5. IsChange(p) /\ wal[p].new.updater = d.xid
      BY <3>3, <3>4 DEF IInv, TupleInv, SameHeader
    <3>6. p \in 1..n
      BY <1>0, <3>5 DEF IsChange
    <3>7. ASSUME NEW k \in p..(n + 1), IsChange(k)' PROVE wal'[k].new.updater = d.xid
      <4>1. k \in 1..(n + 1)
        BY <1>6, <3>6
      <4>2. k \in 1..n
        BY <1>6, <3>7, <4>1
      <4>3. IsChange(k) /\ wal'[k] = wal[k]
        BY <1>6, <3>7, <4>2
      <4>4. k <= p
        BY <1>0, <3>4, <4>2, <4>3 DEF IInv, LogInv, ChangeInv
      <4>5. k = p
        BY <3>6, <4>2, <4>4
      <4> QED
        BY <3>5, <4>3, <4>5
    <3>8. p \in 1..i /\ IsChange(p)'
      BY <1>6, <2>2, <3>5, <3>6
    <3> QED
      BY <3>7, <3>8
  <2> QED
    BY <1>6, <2>1, <2>2
<1> QED
  BY <1>7, <1>10, <1>11

LEMMA LogChange ==
  ASSUME IInv, Ages, NEW ty \in {"insert", "xmax"}, NEW t, t = tuple',
         wal' = Append(wal, [type |-> ty, new |-> t]), pageLSN' = Len(wal'), flushed' = flushed,
         \A x \in Xid : DidCommit(x)' <=> DidCommit(x),
         deletes \subseteq deletes', \A d \in deletes' : ~DidCommit(d.xid) /\ d.xid \in Xid,
         WellFormed(t)', ~t.xmaxCommitted, t.xmaxInvalid => t.xmax = {} /\ t.updater = None,
         ty = "insert" => t.xminHint = "none",
         IF tuple = NoTuple THEN ty = "insert" ELSE t.xmin = tuple.xmin
  PROVE  /\ Extends /\ LogInv' /\ DeletesLogged' /\ pageLSN' >= 1 /\ pageLSN' \in Nat
         /\ IsChange(pageLSN)' /\ wal'[pageLSN'].new = t
<1>0. PICK n : n = Len(wal)
  OBVIOUS
<1>1. \A x \in Xid : DidCommit(x) <=> \E i \in 1..n : Commits(i, x)
  BY <1>0 DEF IInv, LogInv
<1>3. PICK rec \in LogRecord : rec = [type |-> ty, new |-> t]
  <2>1. t \in Tuple
    BY DEF WellFormed, Tuple
  <2> QED
    BY <2>1 DEF LogRecord
<1>4. rec.type = ty /\ rec.new = t /\ rec.type # "commit"
  BY <1>3
<1>5. wal' = Append(wal, rec)
  BY <1>3
<1>6. /\ n \in Nat /\ Len(wal') = n + 1 /\ n + 1 \in Nat
      /\ wal' \in Seq(LogRecord) /\ wal'[n + 1] = rec
      /\ \A i \in 1..n : /\ i \in 1..(n + 1) /\ wal'[i] = wal[i]
                         /\ IsChange(i)' <=> IsChange(i)
                         /\ \A x : Commits(i, x)' <=> Commits(i, x)
      /\ \A i \in 1..(n + 1) : i \in 1..n \/ i = n + 1
      /\ IsChange(n + 1)'
      /\ \A x : ~Commits(n + 1, x)'
      /\ Extends
  BY <1>0, <1>4, <1>5, Appended
<1>7. pageLSN \in 0..n /\ pageLSN' = n + 1 /\ pageLSN <= pageLSN'
  BY <1>0, <1>6 DEF IInv, TupleInv
<1>8. \A x \in Xid : DidCommit(x)' <=> \E i \in 1..(n + 1) : Commits(i, x)'
  BY <1>1, <1>6
<1>9. \A i \in 1..(n + 1) : IsChange(i)' => ChangeInv(i)'
  <2> SUFFICES ASSUME NEW i \in 1..(n + 1), IsChange(i)' PROVE ChangeInv(i)'
    OBVIOUS
  <2>1. CASE i \in 1..n
    <3>1. IsChange(i)
      BY <1>6, <2>1
    <3>2. tuple # NoTuple => tuple'.xmin = tuple.xmin
      OBVIOUS
    <3> QED
      BY <1>0, <1>6, <1>7, <2>1, <3>1, <3>2, ChangesKept
  <2>2. CASE i = n + 1
    <3>1. wal'[i].new = t /\ wal'[i].type = ty
      BY <1>4, <1>6, <2>2
    <3>2. \E k \in 1..i : wal'[k].type = "insert"
      <4>1. CASE ty = "insert"
        <5>1. i \in 1..i
          BY <1>6, <2>2
        <5> QED
          BY <3>1, <4>1, <5>1
      <4>2. CASE tuple # NoTuple
        <5>1. PICK p : p = pageLSN
          OBVIOUS
        <5>2. p \in 1..n /\ IsChange(p)
          BY <1>0, <4>2, <5>1 DEF IInv, TupleInv, IsChange
        <5>3. ChangeInv(p)
          BY <1>0, <5>2 DEF IInv, LogInv
        <5>4. PICK k \in 1..p : wal[k].type = "insert"
          BY <5>3 DEF ChangeInv
        <5>5. k \in 1..n /\ k \in 1..i
          BY <1>6, <2>2, <5>2, <5>4
        <5> QED
          BY <1>6, <5>4, <5>5
      <4> QED
        BY <4>1, <4>2
    <3>3. i <= pageLSN'
      BY <1>6, <1>7, <2>2
    <3>4. WellFormed(wal[i].new)'
      BY <3>1 DEF WellFormed, Known
    <3>5. wal'[i].new.xmin = tuple'.xmin
      BY <3>1
    <3> QED
      BY <3>1, <3>2, <3>3, <3>4, <3>5 DEF ChangeInv
  <2> QED
    BY <1>6, <2>1, <2>2
<1>10. LogInv'
  <2>1. flushed' \in 0..Len(wal')
    BY <1>6 DEF Extends
  <2>2. (wal \in Seq(LogRecord))'
    BY <1>6 DEF LogRecord, Tuple
  <2>3. Len(wal') = n + 1
    BY <1>6
  <2> QED
    BY ONLY <1>8, <1>9, <2>1, <2>2, <2>3 DEF LogInv
<1>11. DeletesLogged'
  <2>1. Len(wal') = n + 1
    BY <1>6
  <2> SUFFICES ASSUME NEW d \in deletes', NEW i \in 1..(n + 1), Commits(i, d.xid)' PROVE FALSE
    BY <2>1, Zenon DEF DeletesLogged
  <2> QED
    BY <1>8
<1> QED
  BY <1>4, <1>6, <1>7, <1>10, <1>11

-----------------------------------------------------------------------------
(* Transactions begin and end.                                               *)

\* What the invariant says of the header, the log and the calls holds after a
\* step that changes transactions only.
LEMMA XactStep ==
  ASSUME IInv, Ages, Belongs, Horizons, Extends, XactInv', \A c \in Backend : SnapInv(c)',
         LogInv', DeletesLogged', CallShape',
         UNCHANGED <<tuple, pageLSN, disk, deletes, locks>>,
         \A c \in Backend :
           \/ call'[c] = NoCall
           \/ /\ call'[c] = call[c]
              /\ call[c].fn # "none" => /\ mine'[c] = mine[c] /\ ended'[c] = {}
                                        /\ snap'[c] = snap[c] /\ cid'[c] = cid[c]
  PROVE  IInv'
<1>1. TupleInv' /\ DiskInv'
  BY TupleKept, DiskKept
<1>2. DeleteInv' /\ GrantInv' /\ OwnInv'
  <2>1. HeaderKept
    BY DEF HeaderKept, SameHeader
  <2> QED
    BY <2>1, HistoryKept
<1>3. \A c \in Backend : CallInv(c)'
  <2> SUFFICES ASSUME NEW c \in Backend PROVE CallInv(c)'
    OBVIOUS
  <2>1. CASE call'[c] = NoCall
    BY <2>1, IdleCall
  <2>2. CASE call'[c] = call[c] /\ (call[c].fn # "none" =>
               /\ mine'[c] = mine[c] /\ ended'[c] = {}
               /\ snap'[c] = snap[c] /\ cid'[c] = cid[c])
    <3>1. call[c].fn # "none" => tuple # NoTuple
      BY DEF IInv, CallInv, CallType
    <3>2. Rely(c)
      BY <2>2, <3>1 DEF Rely, SameHeader
    <3> QED
      BY <3>2, CallKept
  <2> QED
    BY <2>1, <2>2
<1>4. BufferInv'
  <2> SUFFICES ASSUME NEW b \in Backend, NEW c \in Backend, b # c, Exclusive(b)' PROVE ~Locked(c)'
    BY DEF BufferInv
  <2>1. call'[b] = call[b]
    BY IdleCall
  <2>2. Exclusive(b) /\ ~Locked(c)
    BY <2>1 DEF Exclusive, Asleep, IInv, BufferInv
  <2>3. call'[c] = NoCall \/ call'[c] = call[c]
    OBVIOUS
  <2> QED
    BY <2>2, <2>3, IdleCall DEF Locked, Asleep
<1> QED
  BY <1>1, <1>2, <1>3, <1>4 DEF IInv

LEMMA WorkloadBounds ==
  XactInv => load.xids \in 0..MaxXid /\ load.cids \in 0..MaxCid /\ load.wal \in 0..MaxWal
             /\ load.crashes \in 0..MaxCrashes
<1>1. \A w \in Workload : w.xids \in 0..MaxXid /\ w.cids \in 0..MaxCid /\ w.wal \in 0..MaxWal
                          /\ w.crashes \in 0..MaxCrashes
  BY DEF Workload
<1> QED
  BY <1>1, VisibilityAssumption DEF XactInv

LEMMA NoSnapFacts ==
  NoSnap.xmax = 0 /\ NoSnap.xip = {} /\ NoSnap.curcid = 0 /\ NoSnap.seen = {} /\ NoSnap \in Snapshot
  BY Constants DEF NoSnap, Snapshot, Cid

\* The xids an active backend holds are running, in progress and nobody else's.
LEMMA MineFacts ==
  ASSUME XactInv, NEW b \in Backend
  PROVE  /\ mine[b] \subseteq running /\ ended[b] \subseteq running
         /\ mine[b] \subseteq Issued /\ ended[b] \subseteq Issued
         /\ mine[b] = {} \/ ended[b] = {}
         /\ \A x \in mine[b] : clog[x] = "in progress" /\ x \in Xid /\ x < nextXid
         /\ \A c \in Backend \ {b}, x \in mine[b] \cup ended[b] : x \notin mine[c] \cup ended[c]
<1>1. /\ mine[b] \subseteq running /\ ended[b] \subseteq running
      /\ mine[b] = {} \/ ended[b] = {}
      /\ \A x \in mine[b] : clog[x] = "in progress"
  BY DEF XactInv
<1>2. \A c \in Backend \ {b}, x \in mine[b] \cup ended[b] : x \notin mine[c] \cup ended[c]
  BY DEF XactInv
<1> QED
  BY <1>1, <1>2, XactFacts

\* Snapshots, when transactions begin or end.
LEMMA SnapKept ==
  ASSUME XactInv, XactInv', NEW c \in Backend, SnapInv(c), snap'[c] = snap[c], cid'[c] = cid[c],
         nextXid <= nextXid',
         \A x \in Issued : x \in running' => x \in running,
         \A x \in Xid : x \notin running => (DidCommit(x)' <=> DidCommit(x))
  PROVE  SnapInv(c)'
<1>1. nextXid \in Nat /\ nextXid' \in Nat /\ snap[c].xmax \in Nat
  <2>1. snap[c] \in Snapshot /\ nextXid' \in 1..(MaxXid + 1)
    BY DEF XactInv
  <2> QED
    BY <2>1, XactFacts, Constants DEF Snapshot
<1>2. snap[c].xmax <= nextXid
  BY DEF SnapInv
<1>3. ASSUME NEW x \in Xid
      PROVE  /\ x \in snap[c].seen <=> DidCommit(x)' /\ Settled(c, x)
             /\ Settled(c, x) => x \notin running'
  <2>1. Settled(c, x) => x \notin running
    BY DEF SnapInv
  <2>2. Settled(c, x) => x \in Issued
    <3>1. Settled(c, x) => x < nextXid
      BY <1>1, <1>2, Constants DEF Settled
    <3> QED
      BY <3>1, XactFacts
  <2>3. x \in snap[c].seen <=> DidCommit(x) /\ Settled(c, x)
    BY DEF SnapInv
  <2> QED
    BY <2>1, <2>2, <2>3
<1>4. snap[c].xmax <= nextXid'
  BY <1>1, <1>2
<1>5. snap[c] # NoSnap => snap[c].xmax >= 1 /\ snap[c].curcid = cid[c]
  BY DEF SnapInv
<1> QED
  BY <1>3, <1>4, <1>5 DEF SnapInv, Settled

LEMMA AssignXidStep ==
  ASSUME IInv, NEW b \in Backend, AssignXid(b)
  PROVE  IInv'
<1>0. /\ XactInv /\ CallShape /\ \A c \in Backend : SnapInv(c)
      /\ Idle(b) /\ nextXid <= load.xids
      /\ mine' = [mine EXCEPT ![b] = @ \cup {nextXid}]
      /\ running' = running \cup {nextXid} /\ nextXid' = nextXid + 1
      /\ UNCHANGED <<tuple, pageLSN, disk, wal, flushed, clog, ended, cid, snap, call, deletes, locks,
                     crashes, load>>
  BY DEF IInv, AssignXid, pageVars, walVars, hist
<1>1. /\ nextXid \in Nat /\ nextXid \in Xid /\ nextXid \notin Issued /\ nextXid \notin running
      /\ Issued \subseteq Xid /\ running \subseteq Issued
      /\ nextXid + 1 \in 1..(MaxXid + 1) /\ nextXid <= nextXid + 1
      /\ Issued \subseteq 1..nextXid /\ nextXid \in 1..nextXid /\ nextXid + 1 - 1 = nextXid
      /\ \A x \in Xid : x >= nextXid + 1 => x >= nextXid
  BY <1>0, XactFacts, WorkloadBounds, Constants DEF Issued, Xid
<1>2. \A c \in Backend : /\ mine'[c] = IF c = b THEN mine[c] \cup {nextXid} ELSE mine[c]
                         /\ ended'[c] = ended[c]
  BY <1>0 DEF XactInv
<1>3. \A c \in Backend : nextXid \notin mine[c] \cup ended[c]
  BY <1>0, <1>1, MineFacts
<1>4. XactInv'
  <2>1. running' \subseteq Issued'
    <3>1. PICK m : m = nextXid'
      OBVIOUS
    <3>2. 1..(m - 1) = 1..nextXid
      BY <1>0, <1>1, <3>1
    <3>3. Issued' = 1..nextXid
      BY <3>1, <3>2, Zenon DEF Issued
    <3> QED
      BY <1>0, <1>1, <3>3
  <2>2. mine' \in [Backend -> SUBSET Xid] /\ ended' \in [Backend -> SUBSET Xid]
    BY <1>0, <1>1 DEF XactInv
  <2>3. ASSUME NEW c \in Backend
        PROVE  /\ mine'[c] \subseteq running' /\ ended'[c] \subseteq running'
               /\ mine'[c] = {} \/ ended'[c] = {}
               /\ \A x \in mine'[c] : clog'[x] = "in progress"
    <3>1. ended[b] = {}
      BY <1>0 DEF Idle
    <3>2. clog[nextXid] = "in progress"
      <4>1. \A x \in Xid : x >= nextXid => clog[x] = "in progress"
        BY <1>0 DEF XactInv
      <4>2. nextXid >= nextXid
        BY <1>1
      <4> QED
        BY <1>1, <4>1, <4>2, Zenon
    <3>3. /\ mine[c] \subseteq running /\ ended[c] \subseteq running
          /\ mine[c] = {} \/ ended[c] = {}
          /\ \A x \in mine[c] : clog[x] = "in progress"
      BY <1>0, MineFacts
    <3>4. CASE c = b
      <4>1. mine'[c] = mine[c] \cup {nextXid} /\ ended'[c] = {}
        BY <1>2, <3>1, <3>4
      <4> QED
        BY <1>0, <3>2, <3>3, <4>1
    <3>5. CASE c # b
      BY <1>0, <1>2, <3>3, <3>5
    <3> QED
      BY <3>4, <3>5
  <2>4. ASSUME NEW c \in Backend, NEW d \in Backend, c # d
        PROVE  (mine'[c] \cup ended'[c]) \cap (mine'[d] \cup ended'[d]) = {}
    <3>1. (mine[c] \cup ended[c]) \cap (mine[d] \cup ended[d]) = {}
      BY <1>0, <2>4 DEF XactInv
    <3>2. CASE c # b /\ d # b
      BY <1>2, <3>1, <3>2
    <3>3. CASE c = b
      <4>1. mine'[c] = mine[c] \cup {nextXid} /\ mine'[d] = mine[d]
        BY <1>2, <2>4, <3>3
      <4> QED
        BY <1>2, <1>3, <3>1, <4>1
    <3>4. CASE d = b
      <4>1. mine'[d] = mine[d] \cup {nextXid} /\ mine'[c] = mine[c]
        BY <1>2, <2>4, <3>4
      <4> QED
        BY <1>2, <1>3, <3>1, <4>1
    <3> QED
      BY <3>2, <3>3, <3>4
  <2>5. /\ clog' \in [Xid -> {"in progress", "committed", "aborted"}]
        /\ nextXid' \in 1..(MaxXid + 1)
        /\ cid' \in [Backend -> Cid] /\ snap' \in [Backend -> Snapshot]
        /\ load' \in Workloads /\ crashes' \in 0..load'.crashes
        /\ \A x \in Xid : x >= nextXid' => clog'[x] = "in progress"
    BY <1>0, <1>1 DEF XactInv
  <2> QED
    BY <2>1, <2>2, <2>3, <2>4, <2>5 DEF XactInv, Snapshot, Cid, Xid
<1>5. \A x \in Xid : DidCommit(x)' <=> DidCommit(x)
  BY <1>0 DEF DidCommit
<1>6. Ages /\ Horizons
  <2>1. \A x \in Issued : x \in running' => x \in running
    BY <1>0, <1>1
  <2>2. \A x \in Issued : Live(x)' => Live(x)
    BY <1>0, <2>1 DEF Live
  <2>3. nextXid' \in 1..(MaxXid + 1) /\ nextXid <= nextXid'
    BY <1>0, <1>1
  <2> QED
    BY <1>0, <1>1, <1>5, <2>1, <2>2, <2>3 DEF Ages, Horizons
<1>7. Belongs
  <2>1. \A c \in Backend, x \in Issued : x \in mine'[c] => x \in mine[c]
    BY <1>1, <1>2
  <2> QED
    BY <1>2, <2>1 DEF Belongs
<1>8. \A c \in Backend : SnapInv(c)'
  BY <1>0, <1>1, <1>4, <1>5, <1>6, SnapKept DEF Ages
<1>9. Extends /\ LogInv' /\ DeletesLogged'
  <2>1. flushed' \in 0..Len(wal) /\ flushed <= flushed'
    BY <1>0 DEF IInv, LogInv
  <2> QED
    BY <1>0, <1>5, <1>6, <2>1, ExtendsSame, LogSame
<1>10. ASSUME NEW c \in Backend
       PROVE  call'[c] = NoCall \/ (call'[c] = call[c] /\ (call[c].fn # "none" =>
                 mine'[c] = mine[c] /\ ended'[c] = {} /\ snap'[c] = snap[c] /\ cid'[c] = cid[c]))
  <2>1. call[c].fn # "none" => ended[c] = {}
    BY DEF IInv, CallInv, CallType
  <2>2. call[b] = NoCall
    BY <1>0 DEF Idle
  <2> QED
    BY <1>0, <1>2, <2>1, <2>2
<1>11. CallShape'
  BY <1>0 DEF CallShape, CallFields
<1> QED
  BY <1>0, <1>4, <1>6, <1>7, <1>8, <1>9, <1>10, <1>11, XactStep

LEMMA SnapshotStep ==
  ASSUME IInv, NEW b \in Backend, Idle(b),
         UNCHANGED <<tuple, pageLSN, disk, wal, flushed, clog, running, nextXid, mine, ended, call,
                     deletes, locks, crashes, load>>,
         cid' \in [Backend -> Cid], snap' \in [Backend -> Snapshot], SnapInv(b)',
         \A c \in Backend \ {b} : cid'[c] = cid[c] /\ snap'[c] = snap[c],
         \/ /\ snap'[b].xmax = snap[b].xmax /\ snap'[b].xip = snap[b].xip
            /\ snap[b] = NoSnap => snap'[b] = NoSnap
         \/ snap'[b].xmax = nextXid /\ snap'[b].xip = running
  PROVE  IInv'
<1>0. /\ XactInv /\ CallShape /\ \A c \in Backend : SnapInv(c)
  BY DEF IInv
<1>1. XactInv'
  BY <1>0 DEF XactInv, Snapshot, Cid, Xid, Issued
<1>2. \A x \in Xid : DidCommit(x)' <=> DidCommit(x)
  BY DEF DidCommit
<1>3. Ages /\ Belongs
  BY <1>0, XactFacts DEF Ages, Belongs, Live, DidCommit
<1>4. Horizons
  BY DEF Horizons
<1>5. ASSUME NEW c \in Backend PROVE SnapInv(c)'
  <2>1. CASE c = b
    BY <2>1
  <2>2. CASE c # b
    <3>1. nextXid <= nextXid'
      BY <1>3 DEF Ages
    <3>2. \A x \in Issued : x \in running' => x \in running
      OBVIOUS
    <3>3. snap'[c] = snap[c] /\ cid'[c] = cid[c]
      BY <2>2
    <3> QED
      BY <1>0, <1>1, <1>2, <3>1, <3>2, <3>3, SnapKept
  <2> QED
    BY <2>1, <2>2
<1>6. Extends /\ LogInv' /\ DeletesLogged'
  <2>1. flushed' \in 0..Len(wal) /\ flushed <= flushed'
    BY DEF IInv, LogInv
  <2> QED
    BY <1>2, <1>3, <2>1, ExtendsSame, LogSame
<1>7. ASSUME NEW c \in Backend
       PROVE  call'[c] = NoCall \/ (call'[c] = call[c] /\ (call[c].fn # "none" =>
                 mine'[c] = mine[c] /\ ended'[c] = {} /\ snap'[c] = snap[c] /\ cid'[c] = cid[c]))
  <2>1. call[c].fn # "none" => ended[c] = {}
    BY DEF IInv, CallInv, CallType
  <2>2. call[b] = NoCall
    BY DEF Idle
  <2> QED
    BY <2>1, <2>2
<1>8. CallShape'
  BY <1>0 DEF CallShape, CallFields
<1> QED
  BY <1>1, <1>3, <1>4, <1>5, <1>6, <1>7, <1>8, XactStep

LEMMA NextCommandStep ==
  ASSUME IInv, NEW b \in Backend, NextCommand(b)
  PROVE  IInv'
<1>1. /\ XactInv /\ SnapInv(b) /\ Idle(b) /\ cid[b] < load.cids
      /\ cid' = [cid EXCEPT ![b] = @ + 1]
      /\ UNCHANGED <<tuple, pageLSN, disk, wal, flushed, clog, running, nextXid, mine, ended, call,
                     deletes, locks, crashes, load>>
  BY DEF IInv, NextCommand, pageVars, walVars, hist
<1>2. DOMAIN snap = Backend /\ snap[b] \in Snapshot /\ cid[b] \in Cid
  BY <1>1 DEF XactInv
<1>3. /\ DOMAIN snap' = Backend /\ \A c \in Backend \ {b} : snap'[c] = snap[c]
      /\ snap[b] = NoSnap => snap'[b] = NoSnap
      /\ snap[b] # NoSnap => snap'[b] = [snap[b] EXCEPT !["curcid"] = cid[b] + 1]
  BY <1>2, Zenon DEF NextCommand
<1>4. cid[b] + 1 \in Cid
  BY <1>1, <1>2, WorkloadBounds, Constants DEF Cid
<1>5. cid' \in [Backend -> Cid] /\ cid'[b] = cid[b] + 1 /\ \A c \in Backend \ {b} : cid'[c] = cid[c]
  BY <1>1, <1>4 DEF XactInv
<1>6. /\ snap'[b] \in Snapshot /\ snap'[b].xmax = snap[b].xmax /\ snap'[b].xip = snap[b].xip
      /\ snap'[b].seen = snap[b].seen
      /\ snap'[b] # NoSnap => snap[b] # NoSnap /\ snap'[b].curcid = cid[b] + 1
  BY <1>2, <1>3, <1>4 DEF Snapshot
<1>7. snap' \in [Backend -> Snapshot]
  <2>1. \A c \in Backend : snap'[c] \in Snapshot
    BY <1>1, <1>3, <1>6 DEF XactInv
  <2>2. snap' = [c \in Backend |-> snap'[c]]
    <3>1. \E f : snap' = [c \in Backend |-> f[c]]
      <4>1. snap = [c \in Backend |-> snap[c]]
        BY <1>1 DEF XactInv
      <4> DEFINE v == IF snap[b] = NoSnap THEN snap[b] ELSE [snap[b] EXCEPT !.curcid = cid[b] + 1]
      <4>2. snap' = [snap EXCEPT ![b] = v]
        BY Zenon DEF NextCommand
      <4> HIDE DEF v
      <4>3. snap' = [c \in Backend |-> IF c = b THEN v ELSE snap[c]]
        BY <4>1, <4>2
      <4>4. [c \in Backend |-> IF c = b THEN v ELSE snap[c]]
              = [c \in Backend |-> [d \in Backend |-> IF d = b THEN v ELSE snap[d]][c]]
        OBVIOUS
      <4> QED
        BY <4>3, <4>4
    <3> QED
      BY <3>1
  <2> QED
    BY <2>1, <2>2
<1>8. SnapInv(b)'
  BY <1>1, <1>5, <1>6 DEF SnapInv, Settled, DidCommit
<1> QED
  BY <1>1, <1>3, <1>5, <1>6, <1>7, <1>8, SnapshotStep

LEMMA TakeSnapshotStep ==
  ASSUME IInv, NEW b \in Backend, TakeSnapshot(b)
  PROVE  IInv'
<1> DEFINE s == [xmax |-> nextXid, xip |-> running, curcid |-> cid[b],
                 seen |-> {x \in Xid : clog[x] = "committed" /\ x \notin running}]
<1>1. /\ XactInv /\ Idle(b) /\ snap' = [snap EXCEPT ![b] = s]
      /\ UNCHANGED <<tuple, pageLSN, disk, wal, flushed, clog, running, nextXid, mine, ended, call,
                     deletes, locks, crashes, load, cid>>
  BY DEF IInv, TakeSnapshot, pageVars, walVars, hist
<1>2. s \in Snapshot /\ s.xmax = nextXid /\ s.xip = running /\ s.curcid = cid[b]
      /\ s.seen = {x \in Xid : clog[x] = "committed" /\ x \notin running}
  <2>1. nextXid \in 0..(MaxXid + 1) /\ running \subseteq Xid
    BY <1>1, XactFacts, Constants
  <2>2. cid[b] \in Cid
    BY <1>1 DEF XactInv
  <2> QED
    BY <2>1, <2>2 DEF Snapshot
<1> HIDE DEF s
<1>3. snap' \in [Backend -> Snapshot] /\ snap'[b] = s /\ \A c \in Backend \ {b} : snap'[c] = snap[c]
  BY <1>1, <1>2 DEF XactInv
<1>4. cid' \in [Backend -> Cid]
  BY <1>1 DEF XactInv
<1>5. SnapInv(b)'
  <2>1. nextXid \in Nat /\ nextXid >= 1 /\ snap'[b].xmax = nextXid /\ snap'[b].xip = running
        /\ snap'[b].curcid = cid[b]
    BY <1>1, <1>2, <1>3, XactFacts
  <2>2. \A x \in Xid : x >= nextXid => clog[x] = "in progress"
    BY <1>1 DEF XactInv
  <2>3. ASSUME NEW x \in Xid
        PROVE  x \in snap'[b].seen <=> clog[x] = "committed" /\ x < nextXid /\ x \notin running
    <3>1. x \in Nat
      BY Constants
    <3>2. ~(x < nextXid) => clog[x] = "in progress"
      <4>1. ~(x < nextXid) => x >= nextXid
        BY <2>1, <3>1
      <4> QED
        BY <2>2, <4>1, Zenon
    <3>3. x \in snap'[b].seen <=> clog[x] = "committed" /\ x \notin running
      BY <1>2, <1>3
    <3> QED
      BY <3>2, <3>3
  <2> QED
    BY <1>1, <2>1, <2>3 DEF SnapInv, Settled, DidCommit
<1> QED
  BY <1>1, <1>2, <1>3, <1>4, <1>5, SnapshotStep

\* The facts XactStep asks for, of a step that ends xids of b.
EndsXids(b) ==
  /\ Ages /\ Belongs /\ Horizons /\ Extends /\ XactInv' /\ (\A c \in Backend : SnapInv(c)')
  /\ LogInv' /\ DeletesLogged'
  /\ \A c \in Backend \ {b} : mine'[c] = mine[c] /\ ended'[c] = ended[c]
                              /\ snap'[c] = snap[c] /\ cid'[c] = cid[c]

LEMMA EndStep ==
  ASSUME IInv, NEW b \in Backend, EndsXids(b), CallShape',
         UNCHANGED <<tuple, pageLSN, disk, deletes, locks>>,
         call'[b] = NoCall, \A c \in Backend \ {b} : call'[c] = call[c]
  PROVE  IInv'
<1>1. ASSUME NEW c \in Backend
      PROVE  call'[c] = NoCall \/ (call'[c] = call[c] /\ (call[c].fn # "none" =>
               mine'[c] = mine[c] /\ ended'[c] = {} /\ snap'[c] = snap[c] /\ cid'[c] = cid[c]))
  <2>1. call[c].fn # "none" => ended[c] = {}
    BY DEF IInv, CallInv, CallType
  <2> QED
    BY <2>1 DEF EndsXids
<1> QED
  BY <1>1, XactStep DEF EndsXids

LEMMA AbortSubXactEnds ==
  ASSUME IInv, NEW b \in Backend, AbortSubXact(b), mine[b] # {}, ended[b] = {},
         UNCHANGED <<tuple, pageLSN, disk, deletes, locks, crashes, load>>
  PROVE  EndsXids(b)
<1>0. XactInv /\ \A c \in Backend : SnapInv(c)
  BY DEF IInv
<1>1. PICK x : x = CurrentXid(b)
  OBVIOUS
<1>2. /\ clog' = [clog EXCEPT ![x] = "aborted"]
      /\ mine' = [mine EXCEPT ![b] = @ \ {x}]
      /\ running' = running \ {x}
      /\ UNCHANGED <<wal, flushed, nextXid, ended, cid, snap>>
  BY <1>1 DEF AbortSubXact, walVars
<1>3. x \in mine[b] /\ x \in Issued /\ x \in running /\ x \in Xid /\ Issued \subseteq Xid
      /\ x < nextXid /\ nextXid \in 1..(MaxXid + 1) /\ nextXid \in Nat
  BY <1>0, <1>1, CurrentXidMine, XactFacts
<1>4. \A c \in Backend : /\ mine'[c] = IF c = b THEN mine[c] \ {x} ELSE mine[c]
                         /\ ended'[c] = ended[c]
  BY <1>2 DEF IInv, XactInv
<1>5. \A y \in Xid : clog'[y] = IF y = x THEN "aborted" ELSE clog[y]
  BY <1>2, <1>3 DEF IInv, XactInv
<1>6. clog[x] = "in progress"
  BY <1>0, <1>3, MineFacts
<1>7. \A y \in Xid : DidCommit(y)' <=> DidCommit(y)
  BY <1>5, <1>6 DEF DidCommit
<1>8. XactInv'
  <2>1. running' \subseteq Issued'
    <3>1. Issued' = Issued
      BY <1>2 DEF Issued
    <3> QED
      BY <1>0, <1>2, <3>1, XactFacts
  <2>2. mine' \in [Backend -> SUBSET Xid] /\ ended' \in [Backend -> SUBSET Xid]
    BY <1>0, <1>2 DEF XactInv
  <2>3. ASSUME NEW c \in Backend
        PROVE  /\ mine'[c] \subseteq running' /\ ended'[c] \subseteq running'
               /\ mine'[c] = {} \/ ended'[c] = {}
               /\ \A y \in mine'[c] : clog'[y] = "in progress"
    <3>1. /\ mine[c] \subseteq running /\ ended[c] \subseteq running
          /\ mine[c] = {} \/ ended[c] = {}
          /\ \A y \in mine[c] : clog[y] = "in progress" /\ y \in Xid
      BY <1>0, MineFacts
    <3>2. CASE c = b
      <4>1. mine'[c] = mine[c] \ {x} /\ ended'[c] = {}
        BY <1>4, <3>2
      <4> QED
        BY <1>2, <1>5, <3>1, <4>1
    <3>3. CASE c # b
      <4>1. x \notin mine[c] \cup ended[c]
        BY <1>0, <1>3, <3>3, MineFacts
      <4>2. mine'[c] = mine[c] /\ ended'[c] = ended[c]
        BY <1>4, <3>3
      <4> QED
        BY <1>2, <1>5, <3>1, <4>1, <4>2
    <3> QED
      BY <3>2, <3>3
  <2>4. ASSUME NEW c \in Backend, NEW d \in Backend, c # d
        PROVE  (mine'[c] \cup ended'[c]) \cap (mine'[d] \cup ended'[d]) = {}
    <3>1. (mine[c] \cup ended[c]) \cap (mine[d] \cup ended[d]) = {}
      BY <1>0, <2>4 DEF XactInv
    <3>2. mine'[c] \subseteq mine[c] /\ mine'[d] \subseteq mine[d]
          /\ ended'[c] = ended[c] /\ ended'[d] = ended[d]
      BY <1>4
    <3> QED
      BY <3>1, <3>2
  <2>5. /\ clog' \in [Xid -> {"in progress", "committed", "aborted"}]
        /\ nextXid' \in 1..(MaxXid + 1)
        /\ cid' \in [Backend -> Cid] /\ snap' \in [Backend -> Snapshot]
        /\ load' \in Workloads /\ crashes' \in 0..load'.crashes
    BY <1>0, <1>2, <1>3 DEF XactInv
  <2>6. \A y \in Xid : y >= nextXid' => clog'[y] = "in progress"
    <3> SUFFICES ASSUME NEW y \in Xid, y >= nextXid PROVE clog'[y] = "in progress"
      BY <1>2
    <3>1. y # x
      BY <1>3, Constants
    <3>2. clog[y] = "in progress"
      BY <1>0 DEF XactInv
    <3> QED
      BY <1>5, <3>1, <3>2
  <2> QED
    BY <2>1, <2>2, <2>3, <2>4, <2>5, <2>6 DEF XactInv, Snapshot, Cid, Xid
<1>9. Ages /\ Horizons
  <2>1. \A y \in Issued : y \in running' => y \in running
    BY <1>2
  <2>2. \A y \in Issued : Live(y)' => Live(y)
    BY <1>2, <1>3, <1>5, <2>1 DEF Live
  <2> QED
    BY <1>2, <1>3, <1>7, <2>1, <2>2 DEF Ages, Horizons
<1>10. Belongs
  <2>1. ~Live(x)'
    BY <1>2, <1>3, <1>5 DEF Live
  <2>2. \A c \in Backend : \A y \in mine[c] : y \in mine'[c] \/ y = x
    BY <1>4
  <2> QED
    BY <1>4, <2>1, <2>2 DEF Belongs
<1>11. ASSUME NEW c \in Backend PROVE SnapInv(c)'
  <2>1. nextXid <= nextXid' /\ \A y \in Issued : y \in running' => y \in running
    BY <1>9 DEF Ages
  <2> QED
    BY <1>0, <1>2, <1>7, <1>8, <2>1, SnapKept
<1>12. Extends /\ LogInv' /\ DeletesLogged'
  <2>1. flushed' \in 0..Len(wal) /\ flushed <= flushed'
    BY <1>2 DEF IInv, LogInv
  <2> QED
    BY <1>2, <1>7, <1>9, <2>1, ExtendsSame, LogSame
<1> QED
  BY <1>2, <1>4, <1>8, <1>9, <1>10, <1>11, <1>12 DEF EndsXids

LEMMA EndXactEnds ==
  ASSUME IInv, NEW b \in Backend, NEW isCommit \in BOOLEAN, EndXact(b, isCommit), ended[b] = {},
         UNCHANGED <<tuple, pageLSN, disk, deletes, locks, crashes, load>>
  PROVE  EndsXids(b)
<1>0. XactInv /\ \A c \in Backend : SnapInv(c)
  BY DEF IInv
<1>1. /\ clog' = [x \in Xid |-> IF x \in mine[b]
                    THEN IF isCommit THEN "committed" ELSE "aborted" ELSE clog[x]]
      /\ ended' = [ended EXCEPT ![b] = mine[b]]
      /\ mine' = [mine EXCEPT ![b] = {}]
      /\ UNCHANGED <<running, nextXid, cid, snap>>
  BY DEF EndXact
<1>2. \A c \in Backend : /\ mine'[c] = IF c = b THEN {} ELSE mine[c]
                         /\ ended'[c] = IF c = b THEN mine[b] ELSE ended[c]
  BY <1>0, <1>1 DEF XactInv
<1>3. mine[b] \subseteq running /\ mine[b] \subseteq Issued /\ mine[b] \subseteq Xid
      /\ \A x \in mine[b] : clog[x] = "in progress" /\ x < nextXid
  BY <1>0, MineFacts
<1>4. \A x \in Xid : clog'[x] = IF x \in mine[b] THEN IF isCommit THEN "committed" ELSE "aborted"
                                ELSE clog[x]
  BY <1>1
<1>5. /\ \A x \in Xid : DidCommit(x) => DidCommit(x)'
      /\ \A x \in Xid : DidCommit(x)' => DidCommit(x) \/ x \in mine[b]
      /\ isCommit => \A x \in mine[b] : DidCommit(x)'
      /\ ~isCommit => \A x \in Xid : DidCommit(x)' => DidCommit(x)
  BY <1>3, <1>4 DEF DidCommit
<1>6. XactInv'
  <2>1. running' \subseteq Issued'
    <3>1. Issued' = Issued
      BY <1>1 DEF Issued
    <3> QED
      BY <1>0, <1>1, <3>1, XactFacts
  <2>2. mine' \in [Backend -> SUBSET Xid] /\ ended' \in [Backend -> SUBSET Xid]
    BY <1>0, <1>1 DEF XactInv
  <2>3. ASSUME NEW c \in Backend
        PROVE  /\ mine'[c] \subseteq running' /\ ended'[c] \subseteq running'
               /\ mine'[c] = {} \/ ended'[c] = {}
               /\ \A y \in mine'[c] : clog'[y] = "in progress"
    <3>1. /\ mine[c] \subseteq running /\ ended[c] \subseteq running
          /\ mine[c] = {} \/ ended[c] = {}
          /\ \A y \in mine[c] : clog[y] = "in progress" /\ y \in Xid
      BY <1>0, MineFacts
    <3>2. CASE c = b
      <4>1. mine'[c] = {} /\ ended'[c] = mine[b]
        BY <1>2, <3>2
      <4> QED
        BY <1>1, <1>3, <4>1
    <3>3. CASE c # b
      <4>1. \A y \in mine[c] : y \notin mine[b]
        BY <1>0, <3>3, MineFacts
      <4>2. mine'[c] = mine[c] /\ ended'[c] = ended[c]
        BY <1>2, <3>3
      <4> QED
        BY <1>1, <1>4, <3>1, <4>1, <4>2
    <3> QED
      BY <3>2, <3>3
  <2>4. ASSUME NEW c \in Backend, NEW d \in Backend, c # d
        PROVE  (mine'[c] \cup ended'[c]) \cap (mine'[d] \cup ended'[d]) = {}
    <3>1. (mine[c] \cup ended[c]) \cap (mine[d] \cup ended[d]) = {}
      BY <1>0, <2>4 DEF XactInv
    <3>2. mine'[c] \cup ended'[c] \subseteq mine[c] \cup ended[c]
      BY <1>2
    <3>3. mine'[d] \cup ended'[d] \subseteq mine[d] \cup ended[d]
      BY <1>2
    <3> QED
      BY <3>1, <3>2, <3>3
  <2>5. /\ clog' \in [Xid -> {"in progress", "committed", "aborted"}]
        /\ nextXid' \in 1..(MaxXid + 1)
        /\ cid' \in [Backend -> Cid] /\ snap' \in [Backend -> Snapshot]
        /\ load' \in Workloads /\ crashes' \in 0..load'.crashes
    BY <1>0, <1>1 DEF XactInv
  <2>6. \A y \in Xid : y >= nextXid' => clog'[y] = "in progress"
    <3> SUFFICES ASSUME NEW y \in Xid, y >= nextXid PROVE clog'[y] = "in progress"
      BY <1>1
    <3>1. y \notin mine[b]
      <4>1. y \in Nat /\ nextXid \in Nat
        BY <1>0, XactFacts, Constants
      <4>2. ~(y < nextXid)
        BY <4>1
      <4> QED
        BY <1>3, <4>2, Zenon
    <3>2. clog[y] = "in progress"
      BY <1>0 DEF XactInv
    <3> QED
      BY <1>4, <3>1, <3>2
  <2> QED
    BY <2>1, <2>2, <2>3, <2>4, <2>5, <2>6 DEF XactInv, Snapshot, Cid, Xid
<1>7. Ages /\ Horizons
  <2>1. \A y \in Issued : y \in running' => y \in running
    BY <1>1
  <2>2. Issued \subseteq Xid /\ nextXid \in 1..(MaxXid + 1) /\ nextXid \in Nat
    BY <1>0, XactFacts
  <2>3. \A y \in Issued : Live(y)' => Live(y)
    BY <1>1, <1>3, <1>5, <2>1, <2>2 DEF Live, DidCommit
  <2> QED
    BY <1>1, <1>5, <2>1, <2>2, <2>3 DEF Ages, Horizons
<1>8. Belongs
  <2>1. \A c \in Backend : mine[c] \cup ended[c] = mine'[c] \cup ended'[c]
    BY <1>2
  <2>2. \A c \in Backend : mine'[c] = mine[c] \/ mine'[c] = {}
    BY <1>2
  <2> QED
    BY <2>1, <2>2 DEF Belongs
<1>9. ASSUME NEW c \in Backend PROVE SnapInv(c)'
  <2>1. nextXid <= nextXid' /\ \A y \in Issued : y \in running' => y \in running
    BY <1>7 DEF Ages
  <2>2. \A x \in Xid : x \notin running => (DidCommit(x)' <=> DidCommit(x))
    BY <1>3, <1>5
  <2> QED
    BY <1>0, <1>1, <1>6, <2>1, <2>2, SnapKept
<1>10. Extends /\ LogInv' /\ DeletesLogged'
  <2>1. CASE isCommit
    <3>1. wal' = Append(wal, [type |-> "commit", xids |-> mine[b]])
          /\ (flushed' = flushed \/ flushed' = Len(wal'))
      BY <2>1 DEF EndXact
    <3>2. \A x \in Xid : DidCommit(x)' <=> DidCommit(x) \/ x \in mine[b]
      BY <1>5, <2>1
    <3> QED
      BY <1>7, <3>1, <3>2, LogCommit
  <2>2. CASE ~isCommit
    <3>1. wal' = wal /\ flushed' = flushed
      BY <2>2 DEF EndXact, walVars
    <3>2. flushed' \in 0..Len(wal) /\ flushed <= flushed'
      BY <3>1 DEF IInv, LogInv
    <3> QED
      BY <1>5, <1>7, <2>2, <3>1, <3>2, ExtendsSame, LogSame
  <2> QED
    BY <2>1, <2>2
<1> QED
  BY <1>1, <1>2, <1>6, <1>7, <1>8, <1>9, <1>10 DEF EndsXids

LEMMA AbortSubStep ==
  ASSUME IInv, NEW b \in Backend, AbortSub(b)
  PROVE  IInv'
<1>1. /\ Idle(b) /\ Cardinality(mine[b]) > 1 /\ AbortSubXact(b)
      /\ UNCHANGED <<tuple, pageLSN, disk, call, deletes, locks, crashes, load>>
  BY DEF AbortSub, pageVars, hist
<1>2. mine[b] # {}
  BY <1>1, FS_EmptySet
<1>3. call[b] = NoCall /\ ended[b] = {}
  BY <1>1 DEF Idle
<1>4. EndsXids(b)
  BY <1>1, <1>2, <1>3, AbortSubXactEnds
<1>5. CallShape'
  BY <1>1 DEF IInv, CallShape, CallFields
<1> QED
  BY <1>1, <1>3, <1>4, <1>5, EndStep

LEMMA EndInClogStep ==
  ASSUME IInv, NEW b \in Backend, NEW isCommit \in BOOLEAN, EndInClog(b, isCommit)
  PROVE  IInv'
<1>1. /\ Idle(b) /\ EndXact(b, isCommit)
      /\ UNCHANGED <<tuple, pageLSN, disk, call, deletes, locks, crashes, load>>
  BY DEF EndInClog, pageVars, hist
<1>2. call[b] = NoCall /\ ended[b] = {}
  BY <1>1 DEF Idle
<1>3. EndsXids(b)
  BY <1>1, <1>2, EndXactEnds
<1>4. CallShape'
  BY <1>1 DEF IInv, CallShape, CallFields
<1> QED
  BY <1>1, <1>2, <1>3, <1>4, EndStep

LEMMA CancelStep ==
  ASSUME IInv, NEW b \in Backend, Cancel(b)
  PROVE  IInv'
<1>1. /\ Asleep(b)
      /\ call' = [call EXCEPT ![b] = NoCall]
      /\ IF Cardinality(mine[b]) > 1 THEN AbortSubXact(b) ELSE EndXact(b, FALSE)
      /\ UNCHANGED <<tuple, pageLSN, disk, deletes, locks, crashes, load>>
  BY DEF Cancel, pageVars, hist
<1>2. call[b].fn # "none" /\ ended[b] = {}
  BY <1>1 DEF IInv, CallInv, CallType
<1>3. EndsXids(b)
  <2>1. CASE Cardinality(mine[b]) > 1
    <3>1. mine[b] # {}
      BY <2>1, FS_EmptySet
    <3> QED
      BY <1>1, <1>2, <2>1, <3>1, AbortSubXactEnds
  <2>2. CASE ~(Cardinality(mine[b]) > 1)
    BY <1>1, <1>2, <2>2, EndXactEnds
  <2> QED
    BY <2>1, <2>2
<1>4. CallShape /\ DOMAIN call = Backend
  BY DEF IInv, CallShape
<1>5. DOMAIN call' = Backend /\ call'[b] = NoCall /\ \A c \in Backend \ {b} : call'[c] = call[c]
  BY <1>1, <1>4
<1>6. DOMAIN NoCall = CallFields
  BY DEF NoCall, CallFields
<1>7. CallShape'
  BY <1>4, <1>5, <1>6 DEF CallShape, CallFields
<1> QED
  BY <1>1, <1>3, <1>5, <1>7, EndStep

LEMMA EndInProcArrayStep ==
  ASSUME IInv, NEW b \in Backend, EndInProcArray(b)
  PROVE  IInv'
<1>0. XactInv /\ \A c \in Backend : SnapInv(c)
  BY DEF IInv
<1>1. /\ ended[b] # {} /\ running' = running \ ended[b]
      /\ ended' = [ended EXCEPT ![b] = {}] /\ cid' = [cid EXCEPT ![b] = 0]
      /\ snap' = [snap EXCEPT ![b] = NoSnap]
      /\ UNCHANGED <<tuple, pageLSN, disk, wal, flushed, clog, nextXid, mine, call, deletes, locks,
                     crashes, load>>
  BY DEF EndInProcArray, pageVars, walVars, hist
<1>2. mine[b] = {} /\ ended[b] \subseteq running
  BY <1>0, <1>1, MineFacts
<1>3. \A c \in Backend : /\ mine'[c] = mine[c] /\ ended'[c] = IF c = b THEN {} ELSE ended[c]
                         /\ cid'[c] = IF c = b THEN 0 ELSE cid[c]
                         /\ snap'[c] = IF c = b THEN NoSnap ELSE snap[c]
  BY <1>0, <1>1 DEF XactInv
<1>4. \A c \in Backend \ {b} : \A x \in mine[c] \cup ended[c] : x \notin ended[b]
  BY <1>0, MineFacts
<1>5. \A x \in Xid : DidCommit(x)' <=> DidCommit(x)
  BY <1>1 DEF DidCommit
<1>6. XactInv'
  <2>1. running' \subseteq Issued'
    <3>1. Issued' = Issued
      BY <1>1 DEF Issued
    <3> QED
      BY <1>0, <1>1, <3>1, XactFacts
  <2>2. mine' \in [Backend -> SUBSET Xid] /\ ended' \in [Backend -> SUBSET Xid]
    BY <1>0, <1>1 DEF XactInv
  <2>3. ASSUME NEW c \in Backend
        PROVE  /\ mine'[c] \subseteq running' /\ ended'[c] \subseteq running'
               /\ mine'[c] = {} \/ ended'[c] = {}
               /\ \A y \in mine'[c] : clog'[y] = "in progress"
    <3>1. /\ mine[c] \subseteq running /\ ended[c] \subseteq running
          /\ mine[c] = {} \/ ended[c] = {}
          /\ \A y \in mine[c] : clog[y] = "in progress"
      BY <1>0, MineFacts
    <3>2. CASE c = b
      BY <1>2, <1>3, <3>2
    <3>3. CASE c # b
      <4>1. mine'[c] = mine[c] /\ ended'[c] = ended[c]
        BY <1>3, <3>3
      <4> QED
        BY <1>1, <1>4, <3>1, <3>3, <4>1
    <3> QED
      BY <3>2, <3>3
  <2>4. ASSUME NEW c \in Backend, NEW d \in Backend, c # d
        PROVE  (mine'[c] \cup ended'[c]) \cap (mine'[d] \cup ended'[d]) = {}
    <3>1. (mine[c] \cup ended[c]) \cap (mine[d] \cup ended[d]) = {}
      BY <1>0, <2>4 DEF XactInv
    <3>2. mine'[c] \cup ended'[c] \subseteq mine[c] \cup ended[c]
      BY <1>3
    <3>3. mine'[d] \cup ended'[d] \subseteq mine[d] \cup ended[d]
      BY <1>3
    <3> QED
      BY <3>1, <3>2, <3>3
  <2>5. cid' \in [Backend -> Cid] /\ snap' \in [Backend -> Snapshot]
    <3>1. 0 \in Cid /\ NoSnap \in Snapshot
      BY NoSnapFacts, Constants DEF Cid
    <3>2. cid \in [Backend -> Cid] /\ snap \in [Backend -> Snapshot]
      BY <1>0 DEF XactInv
    <3> QED
      BY <1>1, <3>1, <3>2
  <2>6. /\ clog' \in [Xid -> {"in progress", "committed", "aborted"}]
        /\ nextXid' \in 1..(MaxXid + 1)
        /\ load' \in Workloads /\ crashes' \in 0..load'.crashes
        /\ \A y \in Xid : y >= nextXid' => clog'[y] = "in progress"
    BY <1>0, <1>1 DEF XactInv
  <2> QED
    BY <2>1, <2>2, <2>3, <2>4, <2>5, <2>6 DEF XactInv, Snapshot, Cid, Xid
<1>7. Ages
  <2>1. \A y \in Issued : y \in running' => y \in running
    BY <1>1
  <2>2. Issued \subseteq Xid /\ nextXid \in 1..(MaxXid + 1) /\ nextXid \in Nat
    BY <1>0, XactFacts
  <2>3. \A y \in Issued : Live(y)' => Live(y)
    BY <1>1, <2>1 DEF Live
  <2> QED
    BY <1>1, <1>5, <2>1, <2>2, <2>3 DEF Ages
<1>8. Horizons
  BY <1>3 DEF Horizons
<1>9. Belongs
  <2>1. \A c \in Backend : mine'[c] = mine[c]
    BY <1>3
  <2>2. \A c \in Backend \ {b} : ended'[c] = ended[c]
    BY <1>3
  <2>3. \A x \in mine[b] \cup ended[b] : x \notin running'
    BY <1>1, <1>2
  <2> QED
    BY <2>1, <2>2, <2>3 DEF Belongs
<1>10. ASSUME NEW c \in Backend PROVE SnapInv(c)'
  <2>1. nextXid <= nextXid' /\ \A y \in Issued : y \in running' => y \in running
    BY <1>7 DEF Ages
  <2>2. CASE c = b
    <3>1. snap'[c] = NoSnap
      BY <1>3, <2>2
    <3>2. nextXid' \in Nat
      BY <1>0, <1>1, XactFacts
    <3>3. \A x \in Xid : ~(x < 0)
      BY Constants
    <3> QED
      BY <3>1, <3>2, <3>3, NoSnapFacts DEF SnapInv, Settled
  <2>3. CASE c # b
    <3>1. snap'[c] = snap[c] /\ cid'[c] = cid[c]
      BY <1>3, <2>3
    <3> QED
      BY <1>0, <1>5, <1>6, <2>1, <3>1, SnapKept
  <2> QED
    BY <2>2, <2>3
<1>11. Extends /\ LogInv' /\ DeletesLogged'
  <2>1. flushed' \in 0..Len(wal) /\ flushed <= flushed'
    BY <1>1 DEF IInv, LogInv
  <2> QED
    BY <1>1, <1>5, <1>7, <2>1, ExtendsSame, LogSame
<1>12. ASSUME NEW c \in Backend
       PROVE  call'[c] = NoCall \/ (call'[c] = call[c] /\ (call[c].fn # "none" =>
                 mine'[c] = mine[c] /\ ended'[c] = {} /\ snap'[c] = snap[c] /\ cid'[c] = cid[c]))
  <2>1. call[c].fn # "none" => ended[c] = {}
    BY DEF IInv, CallInv, CallType
  <2>2. call[c].fn # "none" => c # b
    BY <1>1, <2>1
  <2> QED
    BY <1>1, <1>3, <2>1, <2>2
<1>13. CallShape'
  BY <1>1 DEF IInv, CallShape, CallFields
<1> QED
  BY <1>1, <1>6, <1>7, <1>8, <1>9, <1>10, <1>11, <1>12, <1>13, XactStep

-----------------------------------------------------------------------------
(* A step of a visibility check.                                             *)

CallMoves(b) ==
  /\ DOMAIN call' = Backend /\ DOMAIN call'[b] = CallFields
  /\ \A c \in Backend \ {b} : call'[c] = call[c]

\* All but the call and hint bits of the tuple stay.
Stays == UNCHANGED <<pageLSN, disk, wal, flushed, clog, running, nextXid, mine, ended, cid, snap,
                     deletes, locks, crashes, load>>

\* What a hint bit changes, if anything.
Hinted(t) ==
  \/ t = tuple
  \/ tuple # NoTuple /\ t \in Tuple /\ SameHeader(tuple, t) /\ HintsTrue(t) /\ Backed(t, pageLSN)

LEMMA NoTupleFacts ==
  NoTuple \notin Tuple /\ NoTuple.xmin = None
<1>1. DOMAIN NoTuple = {"xmin"} /\ NoTuple.xmin = None
  BY DEF NoTuple
<1>2. \A t \in Tuple : "xmax" \in DOMAIN t
  BY DEF Tuple
<1> QED
  BY <1>1, <1>2

LEMMA SameHeaderKeeps ==
  ASSUME NEW t, NEW u, SameHeader(t, u), WellFormed(t), u \in Tuple
  PROVE  WellFormed(u)
  BY DEF SameHeader, WellFormed, Known

\* Whoever gets the buffer lock gets it in a mode nobody conflicts with.
Enters(b) ==
  Locked(b)' =>
    \/ Locked(b) /\ call'[b].fn = call[b].fn
    \/ LockFree(b)
    \/ call'[b].fn # "update" /\ \A c \in Backend : ~Exclusive(c)

LEMMA CallStep ==
  ASSUME IInv, NEW b \in Backend, Stays, CallMoves(b), Hinted(tuple'), Enters(b), CallInv(b)'
  PROVE  IInv'
<1>0. /\ XactInv /\ CallShape /\ BufferInv /\ (\A c \in Backend : SnapInv(c))
      /\ TupleInv /\ LogInv /\ DeletesLogged
  BY DEF IInv
<1>1. PICK t : t = tuple'
  OBVIOUS
<1>2. /\ UNCHANGED <<pageLSN, disk, wal, flushed, clog, running, nextXid, mine, ended, cid, snap,
                     deletes, locks, crashes, load>>
      /\ Hinted(t)
  BY <1>1 DEF Stays, Hinted, SameHeader, HintsTrue, Backed
<1>3. XactInv' /\ \A c \in Backend : SnapInv(c)'
  <2>1. XactInv'
    BY <1>0, <1>2 DEF XactInv, Snapshot, Cid, Xid, Issued
  <2>2. \A c \in Backend : SnapInv(c)'
    BY <1>0, <1>2 DEF SnapInv, Settled, DidCommit, Xid
  <2> QED
    BY ONLY <2>1, <2>2
<1>4. Ages /\ Belongs /\ Horizons
  <2>1. nextXid \in 1..(MaxXid + 1) /\ nextXid \in Nat
    BY <1>0, XactFacts
  <2>2. Ages
    BY <1>2, <2>1 DEF Ages, Live, DidCommit
  <2>3. Belongs /\ Horizons
    BY <1>2 DEF Belongs, Horizons
  <2> QED
    BY <2>2, <2>3
<1>5. (tuple # NoTuple => t # NoTuple /\ SameHeader(tuple, t)) /\ (tuple = NoTuple => t = NoTuple)
  BY <1>2, NoTupleFacts DEF Hinted, SameHeader
<1>6. Extends /\ LogInv' /\ DeletesLogged'
  <2>1. flushed' \in 0..Len(wal) /\ flushed <= flushed'
    BY <1>0, <1>2 DEF LogInv
  <2>2. \A x \in Xid : DidCommit(x)' <=> DidCommit(x)
    BY <1>2 DEF DidCommit
  <2>3. tuple # NoTuple => tuple'.xmin = tuple.xmin
    BY <1>1, <1>5 DEF SameHeader
  <2> QED
    BY <1>2, <1>4, <2>1, <2>2, <2>3, ExtendsSame, LogSame
<1>7. DiskInv'
  BY <1>2, <1>4, <1>6, DiskKept
<1>8. HeaderKept
  BY <1>1, <1>5 DEF HeaderKept, SameHeader
<1>9. DeleteInv' /\ GrantInv' /\ OwnInv'
  <2>1. tuple = NoTuple => tuple' = NoTuple
    BY <1>1, <1>5
  <2>2. UNCHANGED <<deletes, locks>>
    BY <1>2
  <2> QED
    BY <1>4, <1>8, <2>1, <2>2, HistoryKept
<1>10. TupleInv'
  <2>1. CASE t = tuple
    BY <1>1, <1>2, <1>4, <1>6, <2>1, TupleKept
  <2>2. CASE t # tuple
    <3>1. tuple # NoTuple /\ t \in Tuple /\ SameHeader(tuple, t) /\ HintsTrue(t) /\ Backed(t, pageLSN)
      BY <1>2, <2>2 DEF Hinted
    <3>2. /\ WellFormed(tuple) /\ IsChange(pageLSN) /\ SameHeader(wal[pageLSN].new, tuple)
          /\ pageLSN \in 0..Len(wal) /\ pageLSN # 0
      BY <1>0, <3>1 DEF TupleInv
    <3>3. WellFormed(t)
      BY <3>1, <3>2, SameHeaderKeeps
    <3>4. SameHeader(wal[pageLSN].new, t)
      BY <3>1, <3>2 DEF SameHeader
    <3>5. PICK n \in Nat : n = pageLSN
      BY <3>2
    <3>6. WellFormed(t)' /\ HintsTrue(t)' /\ Backed(t, n)'
      BY <1>0, <1>2, <1>4, <1>6, <3>1, <3>3, <3>5, WellFormedKept, HintsKept, BackedKept
    <3>7. IsChange(n)' /\ SameHeader(wal[n].new, t)'
      BY <1>2, <3>2, <3>4, <3>5 DEF IsChange, SameHeader
    <3>8. pageLSN' \in 0..Len(wal') /\ (pageLSN' = 0 <=> tuple' = NoTuple) /\ n = pageLSN'
      BY <1>1, <1>2, <1>5, <3>1, <3>2, <3>5
    <3> QED
      BY <1>1, <3>6, <3>7, <3>8
         DEF TupleInv, WellFormed, HintsTrue, Backed, Known, SameHeader, IsChange
  <2> QED
    BY <2>1, <2>2
<1>11. \A c \in Backend : CallInv(c)'
  <2> SUFFICES ASSUME NEW c \in Backend, c # b PROVE CallInv(c)'
    OBVIOUS
  <2>1. call'[c] = call[c]
    BY DEF CallMoves
  <2>2. call[c].fn # "none" => tuple # NoTuple /\ ended[c] = {}
    BY DEF IInv, CallInv, CallType
  <2>3. Rely(c)
    BY <1>2, <1>8, <2>1, <2>2 DEF Rely, HeaderKept, SameHeader
  <2> QED
    BY <1>3, <1>4, <2>3, CallKept
<1>12. CallShape'
  BY <1>0 DEF CallShape, CallMoves
<1>13. BufferInv'
  <2>1. \A c \in Backend \ {b} : /\ Locked(c)' <=> Locked(c)
                                 /\ Exclusive(c)' <=> Exclusive(c)
    BY DEF CallMoves, Locked, Exclusive, Asleep
  <2>2. Exclusive(b)' => Locked(b)' /\ call'[b].fn = "update"
    BY DEF Exclusive, Locked
  <2>3. Locked(b) /\ call[b].fn = "update" => Exclusive(b)
    BY DEF Exclusive, Locked
  <2>4. \A c \in Backend : Exclusive(c) => Locked(c)
    BY DEF Exclusive, Locked
  <2> SUFFICES ASSUME NEW c \in Backend, NEW d \in Backend, c # d, Exclusive(c)', Locked(d)' PROVE FALSE
    BY DEF BufferInv
  <2>5. CASE c = b
    <3>1. Locked(d) /\ d # b
      BY <2>1, <2>5
    <3>2. Locked(b) /\ call'[b].fn = call[b].fn => Exclusive(b)
      BY <2>2, <2>3, <2>5
    <3> QED
      BY <1>0, <2>2, <2>5, <3>1, <3>2 DEF Enters, LockFree, BufferInv
  <2>6. CASE c # b
    <3>1. Exclusive(c) /\ Locked(c)
      BY <2>1, <2>4, <2>6
    <3>2. CASE d = b
      <4>1. ~Locked(b)
        BY <1>0, <2>6, <3>1 DEF BufferInv
      <4> QED
        BY <2>6, <3>1, <3>2, <4>1 DEF Enters, LockFree
    <3>3. CASE d # b
      BY <1>0, <2>1, <3>1, <3>3 DEF BufferInv
    <3> QED
      BY <3>2, <3>3
  <2> QED
    BY <2>5, <2>6
<1> QED
  BY <1>3, <1>6, <1>7, <1>9, <1>10, <1>11, <1>12, <1>13 DEF IInv

-----------------------------------------------------------------------------
(* What a snapshot sees, from the header; what a conclusion claims.          *)

Happened(b, x, c) == x \in snap[b].seen \/ (x \in mine[b] /\ c < snap[b].curcid)

LEMMA SeesHeader ==
  ASSUME IInv, tuple # NoTuple, NEW b \in Backend
  PROVE  Sees(b) <=> /\ Happened(b, tuple.xmin, tuple.cmin)
                     /\ tuple.updater # None => ~Happened(b, tuple.updater, tuple.cmax)
<1>0. /\ XactInv /\ SnapInv(b) /\ DeleteInv /\ Known(tuple)
      /\ tuple.updater # None => tuple.updater \in Xid
  <2>1. /\ Known(tuple) /\ Issued \subseteq Xid
        /\ tuple.updater # None => tuple.updater \in Issued
    BY HeaderFacts
  <2> QED
    BY <2>1 DEF IInv
<1>1. Sees(b) <=> /\ Happened(b, tuple.xmin, tuple.cmin)
                  /\ ~\E d \in deletes : Happened(b, d.xid, d.cid)
  BY DEF Sees, Happened
<1>2. \A x \in Xid : \A c : Happened(b, x, c) => Live(x)
  <2>1. \A x \in Xid : x \in snap[b].seen => DidCommit(x)
    BY <1>0 DEF SnapInv
  <2>2. mine[b] \subseteq running
    BY <1>0, MineFacts
  <2> QED
    BY <2>1, <2>2 DEF Happened, Live, DidCommit
<1>3. ASSUME NEW d \in deletes, Happened(b, d.xid, d.cid)
      PROVE  tuple.updater # None /\ Happened(b, tuple.updater, tuple.cmax)
  <2>1. d.xid \in Xid
    BY <1>0 DEF DeleteInv
  <2>2. Live(d.xid)
    BY <1>2, <1>3, <2>1
  <2>3. tuple.updater = d.xid /\ tuple.updater # None
    BY <1>0, <2>1, <2>2, Constants DEF DeleteInv
  <2>4. PICK e \in deletes : e.xid = tuple.updater /\ e.cid = tuple.cmax
    BY <1>0, <2>3 DEF Known
  <2>5. d = e
    BY <1>0, <2>2, <2>3, <2>4 DEF DeleteInv, OneDeleter
  <2> QED
    BY <1>3, <2>3, <2>4, <2>5
<1>4. ASSUME tuple.updater # None, Happened(b, tuple.updater, tuple.cmax)
      PROVE  \E d \in deletes : Happened(b, d.xid, d.cid)
  <2>1. PICK e \in deletes : e.xid = tuple.updater /\ e.cid = tuple.cmax
    BY <1>0, <1>4 DEF Known
  <2> QED
    BY <1>4, <2>1
<1> QED
  BY <1>1, <1>3, <1>4

\* What the inserter and the deleter of a tuple are to a backend.
LEMMA HappenedFacts ==
  ASSUME IInv, NEW b \in Backend, NEW x \in Xid, NEW c
  PROVE  /\ Happened(b, x, c) => Live(x)
         /\ x \in snap[b].seen <=> DidCommit(x) /\ Settled(b, x)
         /\ Settled(b, x) => x \notin running
         /\ x \in mine[b] => ~DidCommit(x) /\ x \in running /\ x \notin snap[b].seen
         /\ ~Live(x) => ~Happened(b, x, c)
         /\ DidCommit(x) => x \notin mine[b]
<1>0. XactInv /\ SnapInv(b)
  BY DEF IInv
<1>1. /\ x \in snap[b].seen <=> DidCommit(x) /\ Settled(b, x)
      /\ Settled(b, x) => x \notin running
  BY <1>0 DEF SnapInv
<1>2. x \in mine[b] => clog[x] = "in progress" /\ x \in running
  BY <1>0, MineFacts
<1> QED
  BY <1>1, <1>2 DEF Happened, Live, DidCommit

\* What has to be true for a function to conclude as it does.
Claim(b, outcome) ==
  /\ outcome \in {"aborted", "inserting", "live", "deleting", "deleted"}
  /\ call[b].fn = "update" =>
       /\ outcome \notin {"aborted", "inserting"}
       /\ outcome = "live" =>
            NotDeleted /\ (call[b].op = "delete" => tuple.xmax \cap running \subseteq mine[b])
  /\ call[b].fn = "dirty" =>
       /\ outcome = "aborted" => ~Live(tuple.xmin)
       /\ outcome = "live" => Lasting(b, tuple.xmin) /\ NotDeleted
       /\ outcome = "deleted" => tuple.updater # None /\ Lasting(b, tuple.updater)
  /\ call[b].fn = "mvcc" => (outcome \in {"live", "deleting"} <=> Sees(b))
  /\ call[b].fn = "vacuum" =>
       /\ outcome = "aborted" => ~Live(tuple.xmin)
       /\ outcome = "deleted" => tuple.updater # None /\ DidCommit(tuple.updater)

\* The fields of the call of b after it came to a result, or went on.
SameCall(b) ==
  /\ call'[b].fn = call[b].fn /\ call'[b].op = call[b].op
  /\ call'[b].oldestXmin = call[b].oldestXmin
Comes(b, verdict, reports) ==
  /\ CallMoves(b) /\ SameCall(b) /\ call'[b].at = "done"
  /\ call'[b].verdict = verdict /\ call'[b].reports = reports
GoesTo(b, step) ==
  /\ CallMoves(b) /\ SameCall(b) /\ call'[b].at = step
  /\ call'[b].verdict = call[b].verdict /\ call'[b].saved = call[b].saved

LEMMA ConcludeComes ==
  ASSUME CallShape, NEW b \in Backend, NEW outcome, Conclude(b, outcome)
  PROVE  Comes(b, Horizon(b, Conclusions(call[b].fn)[outcome]), Reports(b, outcome))
<1> DEFINE v == Horizon(b, Conclusions(call[b].fn)[outcome])
           r == Reports(b, outcome)
<1>1. call' = [call EXCEPT ![b].at = "done", ![b].reports = r, ![b].verdict = v]
  BY Zenon DEF Conclude
<1> HIDE DEF v, r
<1>2. DOMAIN call = Backend /\ DOMAIN call[b] = CallFields
  BY DEF CallShape
<1>3. DOMAIN call' = Backend /\ \A c \in Backend \ {b} : call'[c] = call[c]
  BY <1>1, <1>2, Zenon
<1>4. call'[b] = [[[call[b] EXCEPT !["at"] = "done"] EXCEPT !["reports"] = r] EXCEPT !["verdict"] = v]
  BY <1>1, <1>2, Zenon
<1> QED
  BY ONLY <1>2, <1>3, <1>4 DEF Comes, CallMoves, SameCall, v, r, CallFields

LEMMA FinishComes ==
  ASSUME CallShape, NEW b \in Backend, NEW v, Finish(b, v)
  PROVE  Comes(b, v, call[b].reports)
<1>1. call' = [call EXCEPT ![b].at = "done", ![b].verdict = v]
  BY Zenon DEF Finish
<1>2. DOMAIN call = Backend /\ DOMAIN call[b] = CallFields
  BY DEF CallShape
<1>3. DOMAIN call' = Backend /\ \A c \in Backend \ {b} : call'[c] = call[c]
  BY <1>1, <1>2, Zenon
<1>4. call'[b] = [[call[b] EXCEPT !["at"] = "done"] EXCEPT !["verdict"] = v]
  BY <1>1, <1>2, Zenon
<1> QED
  BY ONLY <1>2, <1>3, <1>4 DEF Comes, CallMoves, SameCall, CallFields

LEMMA GotoGoes ==
  ASSUME CallShape, NEW b \in Backend, NEW step, Goto(b, step)
  PROVE  GoesTo(b, step)
<1>1. call' = [call EXCEPT ![b].at = step]
  BY Zenon DEF Goto
<1>2. DOMAIN call = Backend /\ DOMAIN call[b] = CallFields
  BY DEF CallShape
<1>3. DOMAIN call' = Backend /\ \A c \in Backend \ {b} : call'[c] = call[c]
  BY <1>1, <1>2, Zenon
<1>4. call'[b] = [call[b] EXCEPT !["at"] = step]
  BY <1>1, <1>2, Zenon
<1> QED
  BY ONLY <1>2, <1>3, <1>4 DEF GoesTo, CallMoves, SameCall, CallFields

Outcome == {"aborted", "inserting", "live", "deleting", "deleted"}

LEMMA ConclusionFacts ==
  ASSUME NEW fn \in Fn, NEW o \in Outcome, NEW w, w = Conclusions(fn)[o]
  PROVE  /\ w \in {"visible", "invisible"} \cup TM \cup HTSV
         /\ fn = "update" => /\ w = "TM_Ok" <=> o = "live"
                             /\ w = "TM_Invisible" <=> o \in {"aborted", "inserting"}
         /\ fn = "dirty" => (w = "visible" <=> o \in {"inserting", "live", "deleting"})
         /\ fn = "mvcc" => (w = "visible" <=> o \in {"live", "deleting"})
         /\ fn # "update" => w # "TM_Invisible"
         /\ w = "DEAD" => fn = "vacuum" /\ o = "aborted"
         /\ w = "RECENTLY_DEAD" => fn = "vacuum" /\ o = "deleted"
<1> USE DEF Outcome, TM, HTSV
<1>1. CASE fn = "self"
  <2>1. w = HeapTupleSatisfiesSelf[o]
    BY <1>1 DEF Conclusions
  <2> QED
    BY <1>1, <2>1 DEF HeapTupleSatisfiesSelf
<1>2. CASE fn = "dirty"
  <2>1. w = HeapTupleSatisfiesDirty[o]
    BY <1>2 DEF Conclusions
  <2> QED
    BY <1>2, <2>1 DEF HeapTupleSatisfiesDirty
<1>3. CASE fn = "mvcc"
  <2>1. w = HeapTupleSatisfiesMVCC[o]
    BY <1>3 DEF Conclusions
  <2> QED
    BY <1>3, <2>1 DEF HeapTupleSatisfiesMVCC
<1>4. CASE fn = "update"
  <2>1. w = HeapTupleSatisfiesUpdate[o]
    BY <1>4 DEF Conclusions
  <2> QED
    BY <1>4, <2>1 DEF HeapTupleSatisfiesUpdate
<1>5. CASE fn = "vacuum"
  <2>1. w = HeapTupleSatisfiesVacuumHorizon[o]
    BY <1>5 DEF Conclusions
  <2> QED
    BY <1>5, <2>1 DEF HeapTupleSatisfiesVacuumHorizon
<1> QED
  BY <1>1, <1>2, <1>3, <1>4, <1>5 DEF Fn

\* What stays true of the header, transactions and history.
LEMMA StaysFacts ==
  ASSUME IInv, NEW b \in Backend, Stays, Hinted(tuple'), tuple # NoTuple
  PROVE  /\ tuple' # NoTuple /\ SameHeader(tuple, tuple')
         /\ NotDeleted' <=> NotDeleted
         /\ Sees(b)' <=> Sees(b)
<1>1. tuple' # NoTuple /\ SameHeader(tuple, tuple')
  BY NoTupleFacts DEF Hinted, SameHeader
<1>2. UNCHANGED <<clog, running, mine, snap, deletes>>
  BY DEF Stays
<1>3. NotDeleted' <=> NotDeleted
  BY <1>1, <1>2 DEF SameHeader, NotDeleted, Live
<1>4. tuple'.xmin = tuple.xmin /\ tuple'.cmin = tuple.cmin
  BY <1>1 DEF SameHeader
<1>5. Sees(b)' <=> Sees(b)
  BY <1>2, <1>4 DEF Sees
<1> QED
  BY <1>1, <1>3, <1>5

LEMMA Locking ==
  ASSUME IInv, NEW b \in Backend, Locked(b)
  PROVE  /\ call[b].fn \in Fn /\ tuple # NoTuple /\ ended[b] = {}
         /\ CallInv(b) /\ call[b].fn # "none"
<1>1. CallInv(b) /\ call[b].fn # "none"
  BY DEF IInv, Locked
<1> QED
  BY <1>1 DEF CallInv, CallType

\* The parts of CallInv that do not depend on where a call is.
LEMMA CallGoesOn ==
  ASSUME IInv, NEW b \in Backend, Stays, Hinted(tuple'), call[b].fn # "none", SameCall(b),
         call'[b].verdict # "TM_Invisible" \/ call[b].fn # "update"
  PROVE  UpdateInv(b)' /\ HorizonInv(b)'
<1>1. CallInv(b) /\ tuple # NoTuple
  BY DEF IInv, CallInv, CallType
<1>2. SameHeader(tuple, tuple')
  BY <1>1, StaysFacts
<1>3. UNCHANGED <<mine, snap, cid, deletes, running, nextXid>>
  BY DEF Stays
<1>4. UpdateInv(b)'
  BY <1>1, <1>2, <1>3 DEF CallInv, UpdateInv, SameCall, SameHeader
<1>5. HorizonInv(b)'
  BY <1>1, <1>3 DEF CallInv, HorizonInv, SameCall
<1> QED
  BY <1>4, <1>5

LEMMA ConcludeStep ==
  ASSUME IInv, NEW b \in Backend, Stays, Hinted(tuple'), Locked(b),
         NEW outcome, Conclude(b, outcome), Claim(b, outcome)
  PROVE  IInv'
<1> DEFINE fn == call[b].fn
<1>1. fn \in Fn /\ tuple # NoTuple /\ ended[b] = {} /\ CallInv(b) /\ fn # "none" /\ CallShape
  BY Locking DEF IInv
<1>2. outcome \in Outcome
  BY DEF Claim, Outcome
<1>3. PICK w : w = Conclusions(fn)[outcome]
  OBVIOUS
<1>4. PICK v : v = Horizon(b, w)
  OBVIOUS
<1>5. PICK r : r = Reports(b, outcome)
  OBVIOUS
<1>6. Comes(b, v, r)
  BY <1>1, <1>3, <1>4, <1>5, ConcludeComes
<1>7. /\ w \in {"visible", "invisible"} \cup TM \cup HTSV
      /\ fn = "update" => /\ w = "TM_Ok" <=> outcome = "live"
                          /\ w = "TM_Invisible" <=> outcome \in {"aborted", "inserting"}
      /\ fn = "dirty" => (w = "visible" <=> outcome \in {"inserting", "live", "deleting"})
      /\ fn = "mvcc" => (w = "visible" <=> outcome \in {"live", "deleting"})
      /\ fn # "update" => w # "TM_Invisible"
      /\ w = "DEAD" => fn = "vacuum" /\ outcome = "aborted"
      /\ w = "RECENTLY_DEAD" => fn = "vacuum" /\ outcome = "deleted"
  BY <1>1, <1>2, <1>3, ConclusionFacts
<1>8. \/ v = w
      \/ v = "DEAD" /\ w = "RECENTLY_DEAD" /\ tuple.updater < call[b].oldestXmin
  BY <1>4 DEF Horizon
<1>9. fn = "dirty" /\ r = {} => outcome \in {"aborted", "live", "deleted"}
  BY <1>2, <1>5 DEF Reports, Outcome
<1>10. /\ call'[b].fn = fn /\ call'[b].op = call[b].op /\ call'[b].oldestXmin = call[b].oldestXmin
       /\ call'[b].at = "done" /\ call'[b].verdict = v /\ call'[b].reports = r
  BY <1>6 DEF Comes, SameCall
<1>11. /\ tuple' # NoTuple /\ SameHeader(tuple, tuple')
       /\ NotDeleted' <=> NotDeleted
       /\ Sees(b)' <=> Sees(b)
  BY <1>1, StaysFacts
<1>12. tuple.xmin \in Xid /\ (tuple.updater # None => tuple.updater \in Xid)
  BY <1>1, HeaderFacts
<1>13. ended' = ended /\ running' = running /\ mine' = mine /\ clog' = clog
  BY DEF Stays
<1>14. CallType(b)'
  <2>1. /\ v \in {"visible", "invisible"} \cup TM \cup HTSV
        /\ fn # "update" => v # "TM_Invisible"
    BY <1>7, <1>8 DEF HTSV
  <2>2. ~Asleep(b)'
    BY <1>10 DEF Asleep
  <2> QED
    BY <1>1, <1>10, <1>11, <1>13, <2>1, <2>2 DEF CallInv, CallType
<1>15. UpdateInv(b)' /\ HorizonInv(b)'
  <2>1. fn = "update" => v # "TM_Invisible"
    BY <1>7, <1>8 DEF Claim
  <2> QED
    BY <1>1, <1>6, <1>10, <2>1, CallGoesOn DEF Comes
<1>16. CourseInv(b)' /\ SleepInv(b)'
  BY <1>10 DEF CourseInv, SleepInv
<1>17. VerdictInv(b)'
  <2>1. /\ tuple'.xmin = tuple.xmin /\ tuple'.updater = tuple.updater /\ tuple'.xmax = tuple.xmax
    BY <1>11 DEF SameHeader
  <2>2. fn = "update" /\ v = "TM_Ok" =>
          NotDeleted' /\ (call[b].op = "delete" => tuple'.xmax \cap running' \subseteq mine'[b])
    BY <1>7, <1>8, <1>11, <1>13, <2>1 DEF Claim
  <2>3. fn = "dirty" /\ r = {} =>
          IF v = "visible" THEN Lasting(b, tuple.xmin)' /\ NotDeleted'
          ELSE ~Live(tuple.xmin)' \/ (tuple'.updater # None /\ Lasting(b, tuple.updater)')
    <3> SUFFICES ASSUME fn = "dirty", r = {}
                 PROVE  IF v = "visible" THEN Lasting(b, tuple.xmin)' /\ NotDeleted'
                        ELSE ~Live(tuple.xmin)' \/ (tuple'.updater # None /\ Lasting(b, tuple.updater)')
      OBVIOUS
    <3>1. outcome \in {"aborted", "live", "deleted"} /\ v = w
      BY <1>7, <1>8, <1>9
    <3>2. PICK x : x = tuple.xmin
      OBVIOUS
    <3>3. PICK u : u = tuple.updater
      OBVIOUS
    <3>4. /\ outcome = "aborted" => ~Live(x)
          /\ outcome = "live" => Lasting(b, x) /\ NotDeleted
          /\ outcome = "deleted" => u # None /\ Lasting(b, u)
      BY <3>2, <3>3 DEF Claim
    <3>5. /\ outcome = "aborted" => ~Live(x)'
          /\ outcome = "live" => Lasting(b, x)' /\ NotDeleted'
          /\ outcome = "deleted" => u # None /\ Lasting(b, u)'
      BY <1>11, <1>13, <3>4 DEF Live, Lasting, DidCommit
    <3>6. (Live(x)' <=> Live(tuple.xmin)') /\ (Lasting(b, x)' <=> Lasting(b, tuple.xmin)')
          /\ (Lasting(b, u)' <=> Lasting(b, tuple.updater)') /\ tuple'.updater = u
      BY <2>1, <3>2, <3>3 DEF Live, Lasting, DidCommit
    <3> QED
      BY <1>7, <3>1, <3>5, <3>6
  <2>4. fn = "mvcc" => ((v = "visible") <=> Sees(b)')
    BY <1>7, <1>8, <1>11 DEF Claim
  <2>5. fn = "vacuum" /\ v = "DEAD" =>
          \/ ~Live(tuple.xmin)'
          \/ /\ tuple'.updater # None /\ DidCommit(tuple.updater)'
             /\ tuple'.updater < call[b].oldestXmin
    <3> SUFFICES ASSUME fn = "vacuum", v = "DEAD"
                 PROVE  \/ ~Live(tuple.xmin)'
                        \/ /\ tuple'.updater # None /\ DidCommit(tuple.updater)'
                           /\ tuple'.updater < call[b].oldestXmin
      OBVIOUS
    <3>2. PICK x : x = tuple.xmin
      OBVIOUS
    <3>3. PICK u : u = tuple.updater
      OBVIOUS
    <3>4. /\ outcome = "aborted" => ~Live(x)
          /\ outcome = "deleted" => u # None /\ DidCommit(u)
      BY <3>2, <3>3 DEF Claim
    <3>5. \/ ~Live(x)
          \/ u # None /\ DidCommit(u) /\ u < call[b].oldestXmin
      BY <1>7, <1>8, <3>3, <3>4
    <3>6. \/ ~Live(x)'
          \/ u # None /\ DidCommit(u)' /\ u < call[b].oldestXmin
      BY <1>13, <3>5 DEF Live, DidCommit
    <3>7. (Live(x)' <=> Live(tuple.xmin)')
          /\ (DidCommit(u)' <=> DidCommit(tuple.updater)') /\ tuple'.updater = u
      BY <2>1, <3>2, <3>3 DEF Live, DidCommit
    <3> QED
      BY <3>6, <3>7
  <2> HIDE DEF fn
  <2> QED
    BY <1>10, <2>2, <2>3, <2>4, <2>5 DEF VerdictInv
<1>18. CallInv(b)'
  BY <1>14, <1>15, <1>16, <1>17 DEF CallInv
<1>19. CallMoves(b)
  BY <1>6 DEF Comes
<1>20. Enters(b)
  BY <1>10 DEF Enters
<1> QED
  BY <1>18, <1>19, <1>20, CallStep

LEMMA FinishStep ==
  ASSUME IInv, NEW b \in Backend, Stays, Hinted(tuple'), Locked(b), ComparesCids(b),
         NEW v \in {"visible", "invisible", "TM_SelfModified"}, Finish(b, v),
         call[b].fn = "mvcc" => (v = "visible" <=> Sees(b))
  PROVE  IInv'
<1>1. call[b].fn \in {"mvcc", "update"} /\ tuple # NoTuple /\ ended[b] = {} /\ CallInv(b) /\ CallShape
  BY Locking DEF IInv, ComparesCids
<1>2. Comes(b, v, call[b].reports)
  BY <1>1, FinishComes
<1>3. /\ call'[b].fn = call[b].fn /\ call'[b].op = call[b].op
      /\ call'[b].oldestXmin = call[b].oldestXmin
      /\ call'[b].at = "done" /\ call'[b].verdict = v
  BY <1>2 DEF Comes, SameCall
<1>4. tuple' # NoTuple /\ (Sees(b)' <=> Sees(b))
  BY <1>1, StaysFacts
<1>5. CallType(b)'
  <2>1. ~Asleep(b)'
    BY <1>3 DEF Asleep
  <2>2. ended' = ended
    BY DEF Stays
  <2> QED
    BY <1>1, <1>3, <1>4, <2>1, <2>2 DEF CallInv, CallType, TM
<1>6. UpdateInv(b)' /\ HorizonInv(b)'
  BY <1>1, <1>2, <1>3, CallGoesOn DEF Comes
<1>7. CourseInv(b)' /\ SleepInv(b)'
  BY <1>3 DEF CourseInv, SleepInv
<1>8. VerdictInv(b)'
  BY <1>1, <1>3, <1>4 DEF VerdictInv
<1>9. CallInv(b)' /\ CallMoves(b) /\ Enters(b)
  BY <1>2, <1>3, <1>5, <1>6, <1>7, <1>8 DEF CallInv, Comes, Enters
<1> QED
  BY <1>9, CallStep

\* What a function knows when it goes on to a step.
Course(b, step) ==
  /\ step = "xminclog" =>
       /\ tuple.xmin \notin running
       /\ call[b].fn = "mvcc" => Settled(b, tuple.xmin)
  /\ step \in {"xmax", "xmaxclog"} =>
       /\ call[b].fn = "dirty" => DidCommit(tuple.xmin)
       /\ call[b].fn = "mvcc" => tuple.xmin \in snap[b].seen
  /\ step = "xmaxclog" =>
       /\ tuple.updater # None /\ tuple.updater \notin running
       /\ call[b].fn = "mvcc" => Settled(b, tuple.updater)

LEMMA GotoStep ==
  ASSUME IInv, NEW b \in Backend, Stays, Hinted(tuple'), Locked(b), ~At(b, "done"),
         NEW step \in {"xminclog", "xmax", "xmaxclog"}, Goto(b, step), Course(b, step)
  PROVE  IInv'
<1>1. call[b].fn \in Fn /\ tuple # NoTuple /\ ended[b] = {} /\ CallInv(b) /\ CallShape
      /\ call[b].fn # "none" /\ call[b].at # "done"
  BY Locking DEF IInv, At
<1>2. GoesTo(b, step)
  BY <1>1, GotoGoes
<1>3. /\ call'[b].fn = call[b].fn /\ call'[b].op = call[b].op
      /\ call'[b].oldestXmin = call[b].oldestXmin
      /\ call'[b].at = step /\ call'[b].verdict = call[b].verdict
  BY <1>2 DEF GoesTo, SameCall
<1>4. tuple' # NoTuple /\ SameHeader(tuple, tuple')
  BY <1>1, StaysFacts
<1>5. CallType(b)'
  <2>1. ~Asleep(b)'
    BY <1>3 DEF Asleep
  <2>2. ended' = ended
    BY DEF Stays
  <2> QED
    BY <1>1, <1>3, <1>4, <2>1, <2>2 DEF CallInv, CallType
<1>6. UpdateInv(b)' /\ HorizonInv(b)'
  <2>1. call'[b].verdict # "TM_Invisible" \/ call[b].fn # "update"
    BY <1>1, <1>3 DEF CallInv, UpdateInv
  <2> QED
    BY <1>1, <1>2, <2>1, CallGoesOn DEF GoesTo
<1>7. SleepInv(b)' /\ VerdictInv(b)'
  BY <1>3 DEF SleepInv, VerdictInv
<1>8. CourseInv(b)'
  <2>1. UNCHANGED <<clog, running, snap>>
    BY DEF Stays
  <2>2. tuple'.xmin = tuple.xmin /\ tuple'.updater = tuple.updater
    BY <1>4 DEF SameHeader
  <2> QED
    BY <1>3, <2>1, <2>2 DEF Course, CourseInv, DidCommit, Settled
<1>9. CallInv(b)' /\ CallMoves(b) /\ Enters(b)
  BY <1>2, <1>3, <1>5, <1>6, <1>7, <1>8 DEF CallInv, GoesTo, Enters
<1> QED
  BY <1>9, CallStep

-----------------------------------------------------------------------------
(* The hint bits a step leaves.                                              *)

LEMMA MayHintBacked ==
  ASSUME IInv, NEW x \in Xid, DidCommit(x), MayHintCommitted(x)
  PROVE  \E i \in 1..Len(wal) : Commits(i, x) /\ (i <= flushed \/ i <= pageLSN)
<1>1. \E i \in 1..Len(wal) : Commits(i, x)
  BY DEF IInv, LogInv
<1>2. CommitLSN(x) \in 1..Len(wal) /\ Commits(CommitLSN(x), x)
  <2> DEFINE at == {i \in DOMAIN wal : wal[i].type = "commit" /\ x \in wal[i].xids}
  <2>1. DOMAIN wal = 1..Len(wal)
    BY DEF IInv, LogInv
  <2>2. at = {i \in 1..Len(wal) : Commits(i, x)}
    BY <2>1 DEF Commits
  <2>3. CommitLSN(x) = IF at = {} THEN 0 ELSE CHOOSE i \in at : TRUE
    BY Zenon DEF CommitLSN
  <2>4. at # {}
    BY <1>1, <2>2
  <2> HIDE DEF at
  <2>5. CommitLSN(x) \in at
    BY <2>3, <2>4, Zenon
  <2> QED
    BY <2>2, <2>5
<1>3. CommitLSN(x) <= flushed \/ pageLSN >= CommitLSN(x)
  BY DEF MayHintCommitted
<1>4. PICK i : i = CommitLSN(x)
  OBVIOUS
<1>5. pageLSN \in Nat /\ i \in 1..Len(wal) /\ Commits(i, x) /\ (i <= flushed \/ pageLSN >= i)
  BY <1>2, <1>3, <1>4 DEF IInv, TupleInv
<1>6. i <= flushed \/ i <= pageLSN
  BY <1>5
<1> QED
  BY <1>5, <1>6

LEMMA HintXminTrue ==
  ASSUME IInv, tuple # NoTuple, DidCommit(tuple.xmin), HintXmin(tuple.xmin)
  PROVE  Hinted(tuple')
<1>1. WellFormed(tuple) /\ HintsTrue(tuple) /\ Backed(tuple, pageLSN) /\ tuple.xmin \in Xid
      /\ tuple \in Tuple
  BY HeaderFacts DEF IInv, TupleInv
<1>2. CASE ~MayHintCommitted(tuple.xmin)
  BY <1>2, Zenon DEF HintXmin, Hinted
<1>3. CASE MayHintCommitted(tuple.xmin)
  <2>1. PICK t : t = tuple'
    OBVIOUS
  <2>2. t = [tuple EXCEPT !["xminHint"] = "committed"]
    BY <1>3, <2>1, Zenon DEF HintXmin
  <2>3. /\ t \in Tuple /\ SameHeader(tuple, t) /\ t.xmaxCommitted = tuple.xmaxCommitted
        /\ t.xmaxInvalid = tuple.xmaxInvalid
    BY ONLY <1>1, <2>2 DEF Tuple, SameHeader
  <2>4. t.xminHint = "committed"
    BY ONLY <1>1, <2>2 DEF Tuple
  <2>5. HintsTrue(t)
    BY <1>1, <2>3, <2>4 DEF HintsTrue, SameHeader
  <2>6. Backed(t, pageLSN)
    BY <1>1, <1>3, <2>3, MayHintBacked DEF Backed, SameHeader
  <2> QED
    BY <2>1, <2>3, <2>5, <2>6 DEF Hinted
<1> QED
  BY <1>2, <1>3

LEMMA HintXmaxCommittedTrue ==
  ASSUME IInv, tuple # NoTuple, tuple.updater # None, DidCommit(tuple.updater),
         HintXmaxCommitted(tuple.updater)
  PROVE  Hinted(tuple')
<1>1. WellFormed(tuple) /\ HintsTrue(tuple) /\ Backed(tuple, pageLSN) /\ tuple.updater \in Xid
      /\ tuple \in Tuple
  BY HeaderFacts DEF IInv, TupleInv
<1>2. CASE ~MayHintCommitted(tuple.updater)
  BY <1>2, Zenon DEF HintXmaxCommitted, Hinted
<1>3. CASE MayHintCommitted(tuple.updater)
  <2>1. PICK t : t = tuple'
    OBVIOUS
  <2>2. t = [tuple EXCEPT !["xmaxCommitted"] = TRUE]
    BY <1>3, <2>1, Zenon DEF HintXmaxCommitted
  <2>3. /\ t \in Tuple /\ SameHeader(tuple, t) /\ t.xminHint = tuple.xminHint
        /\ t.xmaxInvalid = tuple.xmaxInvalid
    BY ONLY <1>1, <2>2 DEF Tuple, SameHeader
  <2>5. HintsTrue(t)
    BY <1>1, <2>3 DEF HintsTrue, SameHeader
  <2>6. Backed(t, pageLSN)
    BY <1>1, <1>3, <2>3, MayHintBacked DEF Backed, SameHeader
  <2> QED
    BY <2>1, <2>3, <2>5, <2>6 DEF Hinted
<1> QED
  BY <1>2, <1>3

LEMMA HintXmaxInvalidTrue ==
  ASSUME IInv, tuple # NoTuple, tuple.xmax \cap running = {}, NotDeleted, HintXmaxInvalid
  PROVE  Hinted(tuple')
<1>1. WellFormed(tuple) /\ HintsTrue(tuple) /\ Backed(tuple, pageLSN) /\ tuple \in Tuple
  BY HeaderFacts DEF IInv, TupleInv
<1>2. PICK t : t = tuple'
  OBVIOUS
<1>3. t = [tuple EXCEPT !["xmaxInvalid"] = TRUE]
  BY <1>2, Zenon DEF HintXmaxInvalid
<1>4. /\ t \in Tuple /\ SameHeader(tuple, t) /\ t.xminHint = tuple.xminHint
      /\ t.xmaxCommitted = tuple.xmaxCommitted
  BY ONLY <1>1, <1>3 DEF Tuple, SameHeader
<1>5. HintsTrue(t)
  BY <1>1, <1>4 DEF HintsTrue, SameHeader, NotDeleted
<1>6. Backed(t, pageLSN)
  BY <1>1, <1>4 DEF Backed, SameHeader
<1> QED
  BY <1>2, <1>4, <1>5, <1>6 DEF Hinted

LEMMA HintXminInvalidTrue ==
  ASSUME IInv, tuple # NoTuple, ~Live(tuple.xmin), tuple' = [tuple EXCEPT !.xminHint = "invalid"]
  PROVE  Hinted(tuple')
<1>1. WellFormed(tuple) /\ HintsTrue(tuple) /\ Backed(tuple, pageLSN) /\ tuple \in Tuple
      /\ ~Live(tuple.xmin)
  BY HeaderFacts DEF IInv, TupleInv
<1>2. PICK t : t = tuple'
  BY Zenon
<1>3. t = [tuple EXCEPT !["xminHint"] = "invalid"]
  BY <1>2, Zenon
<1>4. /\ t \in Tuple /\ SameHeader(tuple, t) /\ t.xmaxCommitted = tuple.xmaxCommitted
      /\ t.xmaxInvalid = tuple.xmaxInvalid
  BY ONLY <1>1, <1>3 DEF Tuple, SameHeader
<1>5. t.xminHint = "invalid"
  BY ONLY <1>1, <1>3 DEF Tuple
<1>6. HintsTrue(t) /\ Backed(t, pageLSN)
  BY ONLY <1>1, <1>4, <1>5 DEF HintsTrue, Backed, SameHeader
<1> QED
  BY ONLY <1>1, <1>2, <1>4, <1>6, tuple # NoTuple DEF Hinted

-----------------------------------------------------------------------------
(* The conclusions of the functions are true.                                *)

LEMMA Looking ==
  ASSUME IInv, NEW b \in Backend, Locked(b)
  PROVE  /\ call[b].fn \in Fn /\ tuple # NoTuple /\ CallInv(b)
         /\ tuple.xmin \in Xid /\ tuple.xmax \subseteq Xid /\ WellFormed(tuple) /\ HintsTrue(tuple)
         /\ tuple.updater # None => tuple.updater \in Xid /\ tuple.updater \in tuple.xmax
         /\ ~tuple.multi => \A x, y \in tuple.xmax : x = y
         /\ tuple.cmin \in Nat /\ tuple.cmax \in Nat /\ cid[b] \in Nat /\ snap[b].curcid \in Nat
         /\ Sees(b) <=> /\ Happened(b, tuple.xmin, tuple.cmin)
                        /\ tuple.updater # None => ~Happened(b, tuple.updater, tuple.cmax)
<1>1. call[b].fn \in Fn /\ tuple # NoTuple /\ CallInv(b)
  BY Locking
<1>2. /\ tuple \in Tuple /\ WellFormed(tuple) /\ HintsTrue(tuple)
      /\ tuple.xmin \in Issued /\ tuple.xmax \subseteq Issued
      /\ tuple.updater # None => tuple.updater \in tuple.xmax /\ tuple.updater \in Issued
      /\ Issued \subseteq Xid
      /\ ~tuple.multi => \A x, y \in tuple.xmax : x = y
  BY <1>1, HeaderFacts
<1>3. Sees(b) <=> /\ Happened(b, tuple.xmin, tuple.cmin)
                  /\ tuple.updater # None => ~Happened(b, tuple.updater, tuple.cmax)
  BY <1>1, SeesHeader
<1>4. Cid \subseteq Nat
  BY Constants DEF Cid
<1>5. tuple.cmin \in Nat /\ tuple.cmax \in Nat
  BY <1>2, <1>4 DEF Tuple
<1>6. cid[b] \in Nat /\ snap[b].curcid \in Nat
  <2>1. cid[b] \in Cid /\ snap[b] \in Snapshot
    BY DEF IInv, XactInv
  <2> QED
    BY <1>4, <2>1 DEF Snapshot
<1> QED
  BY <1>1, <1>2, <1>3, <1>5, <1>6

LEMMA ClaimAborted ==
  ASSUME IInv, NEW b \in Backend, Locked(b), ~Live(tuple.xmin)
  PROVE  Claim(b, "aborted")
<1>1. tuple.xmin \in Xid /\ CallInv(b)
      /\ (Sees(b) => Happened(b, tuple.xmin, tuple.cmin))
  BY Looking
<1>2. ~Happened(b, tuple.xmin, tuple.cmin) /\ tuple.xmin \notin snap[b].seen /\ tuple.xmin \notin mine[b]
  BY <1>1, HappenedFacts DEF Live, DidCommit
<1>3. call[b].fn # "update"
  BY <1>1, <1>2 DEF CallInv, UpdateInv
<1> QED
  BY <1>1, <1>2, <1>3 DEF Claim

LEMMA ClaimInserting ==
  ASSUME NEW b \in Backend, call[b].fn # "update", call[b].fn = "mvcc" => ~Sees(b)
  PROVE  Claim(b, "inserting")
  BY DEF Claim

LEMMA ClaimLive ==
  ASSUME IInv, NEW b \in Backend, Locked(b), NotDeleted,
         call[b].fn = "update" /\ call[b].op = "delete" => tuple.xmax \cap running \subseteq mine[b],
         call[b].fn = "dirty" => Lasting(b, tuple.xmin),
         call[b].fn = "mvcc" => Happened(b, tuple.xmin, tuple.cmin)
  PROVE  Claim(b, "live")
<1>1. /\ tuple.updater # None => tuple.updater \in Xid
      /\ Sees(b) <=> /\ Happened(b, tuple.xmin, tuple.cmin)
                     /\ tuple.updater # None => ~Happened(b, tuple.updater, tuple.cmax)
  BY Looking
<1>2. tuple.updater # None => ~Happened(b, tuple.updater, tuple.cmax)
  BY <1>1, HappenedFacts DEF NotDeleted
<1>3. call[b].fn = "mvcc" => Sees(b)
  BY <1>1, <1>2
<1> QED
  BY <1>3 DEF Claim

LEMMA ClaimDeleting ==
  ASSUME NEW b \in Backend, call[b].fn = "mvcc" => Sees(b)
  PROVE  Claim(b, "deleting")
  BY DEF Claim

LEMMA ClaimDeleted ==
  ASSUME NEW b \in Backend, tuple.updater # None,
         call[b].fn = "dirty" => Lasting(b, tuple.updater),
         call[b].fn = "mvcc" => ~Sees(b),
         call[b].fn = "vacuum" => DidCommit(tuple.updater)
  PROVE  Claim(b, "deleted")
  BY DEF Claim

LEMMA DeletedByMeStep ==
  ASSUME IInv, NEW b \in Backend, Stays, tuple' = tuple, Locked(b),
         tuple.updater # None, tuple.updater \in mine[b], DeletedByMe(b),
         call[b].fn = "mvcc" => Happened(b, tuple.xmin, tuple.cmin)
  PROVE  IInv'
<1>0. Hinted(tuple')
  BY DEF Hinted
<1>1. /\ call[b].fn \in Fn /\ CallInv(b) /\ tuple.updater \in Xid /\ Known(tuple)
      /\ tuple.cmax \in Nat /\ cid[b] \in Nat /\ snap[b].curcid \in Nat
      /\ Sees(b) <=> /\ Happened(b, tuple.xmin, tuple.cmin)
                     /\ tuple.updater # None => ~Happened(b, tuple.updater, tuple.cmax)
  BY Looking DEF WellFormed
<1>2. CASE ~ComparesCids(b)
  <2>1. PICK o : o = IF call[b].fn = "vacuum" THEN "deleting" ELSE "deleted"
    OBVIOUS
  <2>2. Conclude(b, o)
    BY <1>2, <2>1, Zenon DEF DeletedByMe
  <2>3. call[b].fn \notin {"mvcc", "update"}
    BY <1>2 DEF ComparesCids
  <2>4. Claim(b, o)
    <3>1. Claim(b, "deleting")
      BY <2>3, ClaimDeleting
    <3>2. call[b].fn # "vacuum" => Claim(b, "deleted")
      BY <2>3, ClaimDeleted DEF Lasting
    <3> QED
      BY <2>1, <3>1, <3>2
  <2> QED
    BY <1>0, <2>2, <2>4, ConcludeStep
<1>3. CASE ComparesCids(b) /\ tuple.cmax >= curcid(b)
  <2>1. PICK v : v = IF call[b].fn = "update" THEN "TM_SelfModified" ELSE "visible"
    OBVIOUS
  <2>2. Finish(b, v)
    BY <1>3, <2>1, Zenon DEF DeletedByMe
  <2>3. call[b].fn = "mvcc" => Sees(b)
    <3> SUFFICES ASSUME call[b].fn = "mvcc" PROVE Sees(b)
      OBVIOUS
    <3>1. ~(tuple.cmax < snap[b].curcid)
      BY <1>1, <1>3 DEF curcid
    <3>2. tuple.updater \notin snap[b].seen
      BY <1>1, HappenedFacts
    <3> QED
      BY <1>1, <3>1, <3>2 DEF Happened
  <2>4. v \in {"visible", "invisible", "TM_SelfModified"}
        /\ (call[b].fn = "mvcc" => (v = "visible" <=> Sees(b)))
    BY <2>1, <2>3
  <2> QED
    BY <1>0, <1>3, <2>2, <2>4, FinishStep
<1>4. CASE ComparesCids(b) /\ ~(tuple.cmax >= curcid(b))
  <2>1. call[b].fn = "mvcc"
    <3> SUFFICES ASSUME call[b].fn = "update" PROVE FALSE
      BY <1>4 DEF ComparesCids
    <3>1. ~(tuple.cmax >= cid[b])
      BY <1>4 DEF curcid
    <3>2. PICK d \in deletes : d.xid = tuple.updater /\ d.cid = tuple.cmax
      BY <1>1 DEF Known
    <3>3. d.cid >= cid[b]
      BY <1>1, <3>2 DEF CallInv, UpdateInv
    <3> QED
      BY <3>1, <3>2, <3>3
  <2>2. Finish(b, "invisible")
    <3>1. call[b].fn # "update"
      BY <2>1
    <3> QED
      BY <1>4, <3>1, Zenon DEF DeletedByMe
  <2>3. tuple.cmax < snap[b].curcid
    BY <1>1, <1>4, <2>1 DEF curcid
  <2>4. ~Sees(b)
    BY <1>1, <2>3 DEF Happened
  <2> QED
    BY <1>0, <1>4, <2>1, <2>2, <2>4, FinishStep
<1> QED
  BY <1>2, <1>3, <1>4

-----------------------------------------------------------------------------
(* The steps of the visibility checks.                                       *)

LEMMA AtLocked ==
  ASSUME IInv, NEW b \in Backend, NEW step \in {"xmin", "xminclog", "xmax", "xmaxclog"}, At(b, step)
  PROVE  Locked(b) /\ ~At(b, "done")
<1>1. call[b].fn # "none"
  BY DEF IInv, CallInv, CallType, At
<1> QED
  BY <1>1 DEF Locked, Asleep, At

\* The inserter of a tuple somebody updates is live.
LEMMA UpdateLive ==
  ASSUME IInv, NEW b \in Backend, Locked(b), call[b].fn = "update"
  PROVE  /\ Live(tuple.xmin)
         /\ tuple.xmin \notin mine[b] => tuple.xmin \notin running /\ DidCommit(tuple.xmin)
         /\ tuple.xmin \in mine[b] => tuple.cmin < cid[b]
<1>1. tuple.xmin \in Xid /\ (tuple.xmin \in snap[b].seen \/ (tuple.xmin \in mine[b] /\ tuple.cmin < cid[b]))
  BY Looking DEF CallInv, UpdateInv
<1>2. /\ tuple.xmin \in snap[b].seen <=> DidCommit(tuple.xmin) /\ Settled(b, tuple.xmin)
      /\ Settled(b, tuple.xmin) => tuple.xmin \notin running
      /\ tuple.xmin \in mine[b] => /\ ~DidCommit(tuple.xmin) /\ tuple.xmin \in running
                                   /\ tuple.xmin \notin snap[b].seen
  BY <1>1, HappenedFacts
<1> QED
  BY <1>1, <1>2 DEF Live, DidCommit

LEMMA SnapshotSettled ==
  ASSUME IInv, NEW b \in Backend, NEW x \in Xid
  PROVE  XidInMVCCSnapshot(x, snap[b]) <=> ~Settled(b, x)
<1>1. snap[b] \in Snapshot
  BY DEF IInv, XactInv
<1>2. snap[b].xmax \in Nat /\ x \in Nat
  BY <1>1, Constants DEF Snapshot
<1> QED
  BY <1>2 DEF XidInMVCCSnapshot, Settled

LEMMA CheckXminHintStep ==
  ASSUME IInv, NEW b \in Backend, Stays, CheckXminHint(b)
  PROVE  IInv'
<1>1. /\ At(b, "xmin") /\ tuple.xminHint # "none" /\ tuple' = tuple
      /\ IF tuple.xminHint = "invalid" THEN Conclude(b, "aborted")
         ELSE IF call[b].fn = "mvcc" /\ XidInMVCCSnapshot(tuple.xmin, snap[b])
           THEN Conclude(b, "inserting")
         ELSE Goto(b, "xmax")
  BY DEF CheckXminHint
<1>2. Locked(b) /\ ~At(b, "done") /\ Hinted(tuple')
  BY <1>1, AtLocked DEF Hinted
<1>3. /\ tuple.xmin \in Xid /\ HintsTrue(tuple) /\ tuple \in Tuple
      /\ (Sees(b) => Happened(b, tuple.xmin, tuple.cmin))
  BY <1>2, Looking DEF WellFormed
<1>4. CASE tuple.xminHint = "invalid"
  <2>1. ~Live(tuple.xmin)
    BY <1>3, <1>4 DEF HintsTrue
  <2> QED
    BY <1>1, <1>2, <1>4, <2>1, ClaimAborted, ConcludeStep
<1>5. CASE tuple.xminHint # "invalid"
  <2>1. DidCommit(tuple.xmin)
    <3>1. tuple.xminHint = "committed"
      BY <1>1, <1>3, <1>5 DEF Tuple
    <3> QED
      BY <1>3, <3>1 DEF HintsTrue
  <2>2. tuple.xmin \notin mine[b] /\ (tuple.xmin \in snap[b].seen <=> Settled(b, tuple.xmin))
    BY <1>3, <2>1, HappenedFacts
  <2>3. CASE call[b].fn = "mvcc" /\ XidInMVCCSnapshot(tuple.xmin, snap[b])
    <3>1. ~Settled(b, tuple.xmin)
      BY <1>3, <2>3, SnapshotSettled
    <3>2. ~Sees(b)
      BY <1>3, <2>2, <3>1 DEF Happened
    <3>3. Claim(b, "inserting")
      BY <2>3, <3>2, ClaimInserting
    <3> QED
      BY <1>1, <1>2, <1>5, <2>3, <3>3, ConcludeStep
  <2>4. CASE ~(call[b].fn = "mvcc" /\ XidInMVCCSnapshot(tuple.xmin, snap[b]))
    <3>1. Goto(b, "xmax")
      BY <1>1, <1>5, <2>4
    <3>2. call[b].fn = "mvcc" => Settled(b, tuple.xmin)
      BY <1>3, <2>4, SnapshotSettled
    <3>3. Course(b, "xmax")
      BY <2>1, <2>2, <3>2 DEF Course
    <3> QED
      BY <1>2, <3>1, <3>3, GotoStep
  <2> QED
    BY <2>3, <2>4
<1> QED
  BY <1>4, <1>5

LEMMA CheckXminMineStep ==
  ASSUME IInv, NEW b \in Backend, Stays, CheckXminMine(b)
  PROVE  IInv'
<1> DEFINE live == IF call[b].fn = "vacuum" THEN "inserting" ELSE "live"
           locked == call[b].fn = "update" /\ MultiXactIdIsRunning
<1>1. /\ At(b, "xmin") /\ tuple.xminHint = "none" /\ tuple.xmin \in mine[b]
      /\ IF ComparesCids(b) /\ tuple.cmin >= curcid(b)
           THEN Conclude(b, "aborted") /\ tuple' = tuple
         ELSE IF tuple.xmaxInvalid THEN Conclude(b, live) /\ tuple' = tuple
         ELSE IF LockOnly
           THEN Conclude(b, IF locked THEN "deleting" ELSE live) /\ tuple' = tuple
         ELSE IF tuple.updater \in mine[b] THEN DeletedByMe(b) /\ tuple' = tuple
         ELSE /\ Conclude(b, IF tuple.multi /\ locked THEN "deleting" ELSE live)
              /\ IF tuple.multi \/ call[b].fn = "vacuum" THEN tuple' = tuple ELSE HintXmaxInvalid
  BY DEF CheckXminMine, Current
<1>2. Locked(b)
  BY <1>1, AtLocked
<1>3. /\ call[b].fn \in Fn /\ tuple # NoTuple /\ tuple.xmin \in Xid /\ tuple.xmax \subseteq Xid
      /\ HintsTrue(tuple)
      /\ tuple.updater # None => tuple.updater \in Xid /\ tuple.updater \in tuple.xmax
      /\ ~tuple.multi => \A x, y \in tuple.xmax : x = y
      /\ tuple.cmin \in Nat /\ cid[b] \in Nat /\ snap[b].curcid \in Nat
      /\ Sees(b) => Happened(b, tuple.xmin, tuple.cmin)
  BY <1>2, Looking
<1>4. tuple.xmin \notin snap[b].seen
  BY <1>1, <1>3, HappenedFacts
<1>5. call[b].fn = "update" => tuple.cmin < cid[b]
  BY <1>1, <1>2, UpdateLive
<1>6. tuple' = tuple => Hinted(tuple')
  BY DEF Hinted
<1>7. CASE ComparesCids(b) /\ tuple.cmin >= curcid(b)
  <2>1. call[b].fn = "mvcc" /\ ~(tuple.cmin < snap[b].curcid)
    BY <1>3, <1>5, <1>7 DEF ComparesCids, curcid
  <2>2. ~Sees(b)
    BY <1>3, <1>4, <2>1 DEF Happened
  <2>3. Claim(b, "aborted")
    BY <2>1, <2>2 DEF Claim
  <2> QED
    BY <1>1, <1>2, <1>6, <1>7, <2>3, ConcludeStep
<1>8. CASE ~(ComparesCids(b) /\ tuple.cmin >= curcid(b))
  <2>1. call[b].fn = "mvcc" => Happened(b, tuple.xmin, tuple.cmin)
    BY <1>1, <1>3, <1>8 DEF ComparesCids, curcid, Happened
  <2>2. Lasting(b, tuple.xmin)
    BY <1>1 DEF Lasting
  <2>3. ASSUME NotDeleted,
               call[b].fn = "update" /\ call[b].op = "delete" => tuple.xmax \cap running \subseteq mine[b]
        PROVE  Claim(b, live)
    <3>1. CASE call[b].fn = "vacuum"
      <4>1. Claim(b, "inserting")
        BY <3>1, ClaimInserting
      <4> QED
        BY <3>1, <4>1
    <3>2. CASE call[b].fn # "vacuum"
      <4>1. Claim(b, "live")
        BY <1>2, <2>1, <2>2, <2>3, ClaimLive
      <4> QED
        BY <3>2, <4>1
    <3> QED
      BY <3>1, <3>2
  <2>4. locked => Claim(b, "deleting")
    BY ClaimDeleting
  <2> HIDE DEF live, locked
  <2>5. CASE tuple.xmaxInvalid
    <3>1. NotDeleted /\ tuple.xmax \cap running = {}
      BY <1>3, <2>5 DEF HintsTrue, NotDeleted
    <3>2. Claim(b, live)
      BY <2>3, <3>1
    <3> QED
      BY <1>1, <1>2, <1>6, <1>8, <2>5, <3>2, ConcludeStep
  <2>6. CASE ~tuple.xmaxInvalid /\ LockOnly
    <3>1. NotDeleted
      BY <2>6 DEF NotDeleted, LockOnly
    <3>2. ~locked /\ call[b].fn = "update" => tuple.xmax \cap running = {}
      BY DEF locked, MultiXactIdIsRunning, TransactionIdIsInProgress
    <3>3. PICK o : o = IF locked THEN "deleting" ELSE live
      OBVIOUS
    <3>4. Claim(b, o)
      BY <2>3, <2>4, <3>1, <3>2, <3>3
    <3>5. Conclude(b, o) /\ tuple' = tuple
      BY <1>1, <1>8, <2>6, <3>3
    <3> QED
      BY <1>2, <1>6, <3>4, <3>5, ConcludeStep
  <2>7. CASE ~tuple.xmaxInvalid /\ ~LockOnly /\ tuple.updater \in mine[b]
    <3>1. DeletedByMe(b) /\ tuple' = tuple
      BY <1>1, <1>8, <2>7
    <3> QED
      BY <1>2, <2>1, <2>7, <3>1, DeletedByMeStep DEF LockOnly
  <2>8. CASE ~tuple.xmaxInvalid /\ ~LockOnly /\ tuple.updater \notin mine[b]
    <3>1. tuple.updater # None /\ tuple.updater \in tuple.xmax
      BY <1>3, <2>8 DEF LockOnly
    <3>2. \A x \in tuple.xmax : x \in mine[b] \/ ~Live(x)
      BY <1>1, <1>3 DEF IInv, OwnInv
    <3>3. NotDeleted
      BY <2>8, <3>1, <3>2 DEF NotDeleted
    <3>4. tuple.xmax \cap running \subseteq mine[b]
      BY <3>2 DEF Live
    <3>5. PICK o : o = IF tuple.multi /\ locked THEN "deleting" ELSE live
      OBVIOUS
    <3>6. Claim(b, o)
      BY <2>3, <2>4, <3>3, <3>4, <3>5
    <3>7. /\ Conclude(b, o)
          /\ IF tuple.multi \/ call[b].fn = "vacuum" THEN tuple' = tuple ELSE HintXmaxInvalid
      BY <1>1, <1>8, <2>8, <3>5
    <3>8. Hinted(tuple')
      <4>1. CASE tuple.multi \/ call[b].fn = "vacuum"
        BY <1>6, <3>7, <4>1
      <4>2. CASE ~(tuple.multi \/ call[b].fn = "vacuum")
        <5>1. HintXmaxInvalid /\ ~tuple.multi
          BY <3>7, <4>2
        <5>2. \A x \in tuple.xmax : x = tuple.updater
          BY <1>3, <3>1, <5>1
        <5>3. ~Live(tuple.updater)
          BY <3>1, <3>3 DEF NotDeleted
        <5>4. tuple.xmax \cap running = {}
          BY <5>2, <5>3 DEF Live
        <5> QED
          BY <1>3, <3>3, <5>1, <5>4, HintXmaxInvalidTrue
      <4> QED
        BY <4>1, <4>2
    <3> QED
      BY <1>2, <3>6, <3>7, <3>8, ConcludeStep
  <2> QED
    BY <2>5, <2>6, <2>7, <2>8
<1> QED
  BY <1>7, <1>8

LEMMA CheckXminRunningStep ==
  ASSUME IInv, NEW b \in Backend, Stays, CheckXminRunning(b)
  PROVE  IInv'
<1>1. /\ At(b, "xmin") /\ tuple.xmin \notin mine[b] /\ tuple' = tuple
      /\ IF InProgressFor(b, tuple.xmin) THEN Conclude(b, "inserting") ELSE Goto(b, "xminclog")
  BY DEF CheckXminRunning, Current
<1>2. Locked(b) /\ ~At(b, "done") /\ Hinted(tuple')
  BY <1>1, AtLocked DEF Hinted
<1>3. /\ tuple.xmin \in Xid /\ (Sees(b) => Happened(b, tuple.xmin, tuple.cmin))
  BY <1>2, Looking
<1>4. /\ tuple.xmin \in snap[b].seen => Settled(b, tuple.xmin)
      /\ Settled(b, tuple.xmin) => tuple.xmin \notin running
  BY <1>3, HappenedFacts
<1>5. InProgressFor(b, tuple.xmin) <=>
        IF call[b].fn = "mvcc" THEN ~Settled(b, tuple.xmin) ELSE tuple.xmin \in running
  BY <1>3, SnapshotSettled DEF InProgressFor, TransactionIdIsInProgress
<1>6. CASE InProgressFor(b, tuple.xmin)
  <2>1. call[b].fn # "update"
    BY <1>1, <1>2, <1>5, <1>6, UpdateLive
  <2>2. call[b].fn = "mvcc" => ~Sees(b)
    BY <1>1, <1>3, <1>4, <1>5, <1>6 DEF Happened
  <2> QED
    BY <1>1, <1>2, <1>6, <2>1, <2>2, ClaimInserting, ConcludeStep
<1>7. CASE ~InProgressFor(b, tuple.xmin)
  <2>1. Course(b, "xminclog")
    BY <1>4, <1>5, <1>7 DEF Course
  <2> QED
    BY <1>1, <1>2, <1>7, <2>1, GotoStep
<1> QED
  BY <1>6, <1>7

LEMMA CheckXminClogStep ==
  ASSUME IInv, NEW b \in Backend, Stays, CheckXminClog(b)
  PROVE  IInv'
<1>1. /\ At(b, "xminclog")
      /\ DidCommit(tuple.xmin) => Goto(b, "xmax") /\ HintXmin(tuple.xmin)
      /\ ~DidCommit(tuple.xmin) => Conclude(b, "aborted")
  BY Zenon DEF CheckXminClog, TransactionIdDidCommit, DidCommit
<1>2. ~DidCommit(tuple.xmin) => tuple' = [tuple EXCEPT !.xminHint = "invalid"]
  BY Zenon DEF CheckXminClog, TransactionIdDidCommit, DidCommit
<1>3. Locked(b) /\ ~At(b, "done")
  BY ONLY <1>1, IInv, b \in Backend, AtLocked
<1>4. /\ tuple.xmin \in Xid /\ CallInv(b) /\ tuple # NoTuple
  BY ONLY <1>3, IInv, b \in Backend, Looking
<1>5. tuple.xmin \notin running /\ (call[b].fn = "mvcc" => Settled(b, tuple.xmin))
  BY ONLY <1>1, <1>4 DEF CallInv, CourseInv, At
<1>6. CASE DidCommit(tuple.xmin)
  <2>1. Hinted(tuple')
    BY ONLY <1>1, <1>4, <1>6, IInv, HintXminTrue
  <2>2. tuple.xmin \in snap[b].seen <=> Settled(b, tuple.xmin)
    BY ONLY <1>4, <1>6, IInv, b \in Backend, HappenedFacts
  <2>3. Course(b, "xmax")
    BY ONLY <1>5, <1>6, <2>2 DEF Course
  <2> QED
    BY ONLY <1>1, <1>3, <1>6, <2>1, <2>3, IInv, b \in Backend, Stays, GotoStep
<1>7. CASE ~DidCommit(tuple.xmin)
  <2>1. ~Live(tuple.xmin)
    BY ONLY <1>5, <1>7 DEF Live, DidCommit
  <2>2. Hinted(tuple')
    BY <1>2, <1>4, <1>7, <2>1, HintXminInvalidTrue, Zenon
  <2>3. Claim(b, "aborted")
    BY ONLY <1>3, <2>1, IInv, b \in Backend, ClaimAborted
  <2> QED
    BY ONLY <1>1, <1>3, <1>7, <2>2, <2>3, IInv, b \in Backend, Stays, ConcludeStep
<1> QED
  BY ONLY <1>6, <1>7

\* What every function knows of the inserter once it looks at xmax.
LEMMA AtXmax ==
  ASSUME IInv, NEW b \in Backend, NEW step \in {"xmax", "xmaxclog"}, At(b, step)
  PROVE  /\ Locked(b) /\ ~At(b, "done") /\ tuple # NoTuple
         /\ call[b].fn = "dirty" => DidCommit(tuple.xmin)
         /\ call[b].fn = "dirty" => Lasting(b, tuple.xmin)
         /\ call[b].fn = "mvcc" => tuple.xmin \in snap[b].seen
         /\ call[b].fn = "mvcc" => Happened(b, tuple.xmin, tuple.cmin)
         /\ step = "xmaxclog" => /\ tuple.updater # None /\ tuple.updater \notin running
                                 /\ call[b].fn = "mvcc" => Settled(b, tuple.updater)
<1>1. Locked(b) /\ ~At(b, "done")
  BY AtLocked
<1>2. CallInv(b) /\ tuple # NoTuple
  BY <1>1, Looking
<1> QED
  BY <1>1, <1>2 DEF CallInv, CourseInv, At, Lasting, Happened

LEMMA CheckXmaxInvalidStep ==
  ASSUME IInv, NEW b \in Backend, Stays, CheckXmaxInvalid(b)
  PROVE  IInv'
<1>1. At(b, "xmax") /\ tuple.xmaxInvalid /\ Conclude(b, "live") /\ tuple' = tuple
  BY DEF CheckXmaxInvalid
<1>2. /\ Locked(b) /\ Hinted(tuple')
      /\ call[b].fn = "dirty" => Lasting(b, tuple.xmin)
      /\ call[b].fn = "mvcc" => Happened(b, tuple.xmin, tuple.cmin)
  BY <1>1, AtXmax DEF Hinted
<1>3. NotDeleted /\ tuple.xmax \cap running = {}
  BY <1>1, <1>2, Looking DEF HintsTrue, NotDeleted
<1>4. Claim(b, "live")
  BY <1>2, <1>3, ClaimLive
<1> QED
  BY <1>1, <1>2, <1>4, ConcludeStep

LEMMA CheckXmaxLockStep ==
  ASSUME IInv, NEW b \in Backend, Stays, CheckXmaxLock(b)
  PROVE  IInv'
<1>1. /\ At(b, "xmax") /\ LockOnly
      /\ Conclude(b, IF call[b].fn = "update" /\ MultiXactIdIsRunning THEN "deleting" ELSE "live")
      /\ tuple' = tuple \/ (HintXmaxInvalid /\ ~MultiXactIdIsRunning)
  BY DEF CheckXmaxLock
<1>2. /\ Locked(b) /\ tuple # NoTuple
      /\ call[b].fn = "dirty" => Lasting(b, tuple.xmin)
      /\ call[b].fn = "mvcc" => Happened(b, tuple.xmin, tuple.cmin)
  BY <1>1, AtXmax
<1>3. NotDeleted
  BY <1>1 DEF NotDeleted, LockOnly
<1>4. ~MultiXactIdIsRunning => tuple.xmax \cap running = {}
  BY DEF MultiXactIdIsRunning, TransactionIdIsInProgress
<1>5. Hinted(tuple')
  BY <1>1, <1>2, <1>3, <1>4, HintXmaxInvalidTrue DEF Hinted
<1>6. CASE call[b].fn = "update" /\ MultiXactIdIsRunning
  <2>1. Claim(b, "deleting") /\ Conclude(b, "deleting")
    BY <1>1, <1>6, ClaimDeleting
  <2> QED
    BY <1>2, <1>5, <2>1, ConcludeStep
<1>7. CASE ~(call[b].fn = "update" /\ MultiXactIdIsRunning)
  <2>1. call[b].fn = "update" => tuple.xmax \cap running = {}
    BY <1>4, <1>7
  <2>2. Claim(b, "live") /\ Conclude(b, "live")
    BY <1>1, <1>2, <1>3, <1>7, <2>1, ClaimLive
  <2> QED
    BY <1>2, <1>5, <2>2, ConcludeStep
<1> QED
  BY <1>6, <1>7

\* A committed deleter that a snapshot does not see, or sees.
LEMMA CommittedUpdater ==
  ASSUME IInv, NEW b \in Backend, Locked(b), tuple.updater # None, DidCommit(tuple.updater)
  PROVE  /\ Settled(b, tuple.updater) => ~Sees(b)
         /\ ~Settled(b, tuple.updater) /\ Happened(b, tuple.xmin, tuple.cmin) => Sees(b)
<1>1. /\ tuple.updater \in Xid
      /\ Sees(b) <=> /\ Happened(b, tuple.xmin, tuple.cmin)
                     /\ tuple.updater # None => ~Happened(b, tuple.updater, tuple.cmax)
  BY Looking
<1>2. /\ tuple.updater \in snap[b].seen <=> DidCommit(tuple.updater) /\ Settled(b, tuple.updater)
      /\ tuple.updater \notin mine[b]
  BY <1>1, HappenedFacts
<1> QED
  BY <1>1, <1>2 DEF Happened

LEMMA CheckXmaxHintStep ==
  ASSUME IInv, NEW b \in Backend, Stays, CheckXmaxHint(b)
  PROVE  IInv'
<1> DEFINE hidden == call[b].fn = "mvcc" /\ XidInMVCCSnapshot(tuple.updater, snap[b])
<1>1. /\ At(b, "xmax") /\ tuple.updater # None /\ tuple.xmaxCommitted /\ tuple' = tuple
      /\ Conclude(b, IF hidden THEN "deleting" ELSE "deleted")
  BY DEF CheckXmaxHint, LockOnly
<1>2. /\ Locked(b) /\ Hinted(tuple')
      /\ call[b].fn = "mvcc" => Happened(b, tuple.xmin, tuple.cmin)
  BY <1>1, AtXmax DEF Hinted
<1>3. DidCommit(tuple.updater) /\ tuple.updater \in Xid
  BY <1>1, <1>2, Looking DEF HintsTrue
<1>4. XidInMVCCSnapshot(tuple.updater, snap[b]) <=> ~Settled(b, tuple.updater)
  BY <1>3, SnapshotSettled
<1>5. /\ Settled(b, tuple.updater) => ~Sees(b)
      /\ ~Settled(b, tuple.updater) /\ Happened(b, tuple.xmin, tuple.cmin) => Sees(b)
  BY <1>1, <1>2, <1>3, CommittedUpdater
<1>6. CASE hidden
  <2>1. Claim(b, "deleting")
    BY <1>2, <1>4, <1>5, <1>6, ClaimDeleting
  <2> QED
    BY <1>1, <1>2, <1>6, <2>1, ConcludeStep
<1>7. CASE ~hidden
  <2>1. Claim(b, "deleted")
    BY <1>1, <1>3, <1>4, <1>5, <1>7, ClaimDeleted DEF Lasting
  <2> QED
    BY <1>1, <1>2, <1>7, <2>1, ConcludeStep
<1> QED
  BY <1>6, <1>7

LEMMA CheckXmaxRunningStep ==
  ASSUME IInv, NEW b \in Backend, Stays, CheckXmaxRunning(b)
  PROVE  IInv'
<1> DEFINE busy == \/ InProgressFor(b, tuple.updater)
                   \/ call[b].fn = "update" /\ tuple.multi /\ MultiXactIdIsRunning
<1>1. /\ At(b, "xmax") /\ tuple.updater # None /\ tuple' = tuple
      /\ IF tuple.updater \in mine[b] THEN DeletedByMe(b)
         ELSE IF busy THEN Conclude(b, "deleting") ELSE Goto(b, "xmaxclog")
  BY DEF CheckXmaxRunning, LockOnly, Current
<1>2. /\ Locked(b) /\ ~At(b, "done") /\ Hinted(tuple')
      /\ call[b].fn = "dirty" => DidCommit(tuple.xmin)
      /\ call[b].fn = "mvcc" => tuple.xmin \in snap[b].seen
      /\ call[b].fn = "mvcc" => Happened(b, tuple.xmin, tuple.cmin)
  BY <1>1, AtXmax DEF Hinted
<1>3. /\ tuple.updater \in Xid
      /\ Sees(b) <=> /\ Happened(b, tuple.xmin, tuple.cmin)
                     /\ tuple.updater # None => ~Happened(b, tuple.updater, tuple.cmax)
  BY <1>1, <1>2, Looking
<1>4. /\ tuple.updater \in snap[b].seen => Settled(b, tuple.updater)
      /\ Settled(b, tuple.updater) => tuple.updater \notin running
  BY <1>3, HappenedFacts
<1>5. InProgressFor(b, tuple.updater) <=>
        IF call[b].fn = "mvcc" THEN ~Settled(b, tuple.updater) ELSE tuple.updater \in running
  BY <1>3, SnapshotSettled DEF InProgressFor, TransactionIdIsInProgress
<1>6. CASE tuple.updater \in mine[b]
  BY <1>1, <1>2, <1>6, DeletedByMeStep
<1>7. CASE tuple.updater \notin mine[b] /\ busy
  <2>1. call[b].fn = "mvcc" => Sees(b)
    BY <1>2, <1>3, <1>4, <1>5, <1>7 DEF Happened
  <2> QED
    BY <1>1, <1>2, <1>7, <2>1, ClaimDeleting, ConcludeStep
<1>8. CASE tuple.updater \notin mine[b] /\ ~busy
  <2>1. Course(b, "xmaxclog")
    BY <1>1, <1>2, <1>4, <1>5, <1>8 DEF Course
  <2> QED
    BY <1>1, <1>2, <1>8, <2>1, GotoStep
<1> QED
  BY <1>6, <1>7, <1>8

LEMMA CheckXmaxClogStep ==
  ASSUME IInv, NEW b \in Backend, Stays, CheckXmaxClog(b)
  PROVE  IInv'
<1>1. /\ At(b, "xmaxclog")
      /\ IF DidCommit(tuple.updater)
           THEN /\ Conclude(b, "deleted")
                /\ IF tuple.multi THEN tuple' = tuple ELSE HintXmaxCommitted(tuple.updater)
         ELSE IF tuple.multi /\ call[b].fn = "update" /\ MultiXactIdIsRunning
           THEN Conclude(b, "deleting") /\ tuple' = tuple
         ELSE /\ Conclude(b, "live")
              /\ tuple' = tuple \/ (HintXmaxInvalid /\ (tuple.multi => ~MultiXactIdIsRunning))
  BY DEF CheckXmaxClog, TransactionIdDidCommit, DidCommit
<1>2. /\ Locked(b) /\ tuple # NoTuple
      /\ call[b].fn = "dirty" => Lasting(b, tuple.xmin)
      /\ call[b].fn = "mvcc" => Happened(b, tuple.xmin, tuple.cmin)
      /\ tuple.updater # None /\ tuple.updater \notin running
      /\ call[b].fn = "mvcc" => Settled(b, tuple.updater)
  BY <1>1, AtXmax
<1>3. /\ tuple.updater \in Xid /\ tuple.updater \in tuple.xmax
      /\ ~tuple.multi => \A x, y \in tuple.xmax : x = y
  BY <1>2, Looking
<1>4. ~MultiXactIdIsRunning => tuple.xmax \cap running = {}
  BY DEF MultiXactIdIsRunning, TransactionIdIsInProgress
<1>5. ~tuple.multi => tuple.xmax \cap running = {}
  <2> SUFFICES ASSUME ~tuple.multi, NEW x \in tuple.xmax PROVE x \notin running
    OBVIOUS
  <2>1. x = tuple.updater
    BY <1>3
  <2> QED
    BY <1>2, <2>1
<1>6. CASE DidCommit(tuple.updater)
  <2>1. Conclude(b, "deleted") /\ (tuple' = tuple \/ HintXmaxCommitted(tuple.updater))
    BY <1>1, <1>6
  <2>2. Hinted(tuple')
    BY <1>2, <1>6, <2>1, HintXmaxCommittedTrue DEF Hinted
  <2>3. call[b].fn = "mvcc" => ~Sees(b)
    BY <1>2, <1>6, CommittedUpdater
  <2>4. Claim(b, "deleted")
    BY <1>2, <1>6, <2>3, ClaimDeleted DEF Lasting
  <2> QED
    BY <1>2, <2>1, <2>2, <2>4, ConcludeStep
<1>7. CASE ~DidCommit(tuple.updater) /\ tuple.multi /\ call[b].fn = "update" /\ MultiXactIdIsRunning
  <2>1. Conclude(b, "deleting") /\ tuple' = tuple
    BY <1>1, <1>7
  <2>2. Claim(b, "deleting")
    BY <1>7, ClaimDeleting
  <2>3. Hinted(tuple')
    BY <2>1 DEF Hinted
  <2> QED
    BY <1>2, <2>1, <2>2, <2>3, ConcludeStep
<1>8. CASE ~DidCommit(tuple.updater) /\ ~(tuple.multi /\ call[b].fn = "update" /\ MultiXactIdIsRunning)
  <2>1. /\ Conclude(b, "live")
        /\ tuple' = tuple \/ (HintXmaxInvalid /\ (tuple.multi => ~MultiXactIdIsRunning))
    BY <1>1, <1>8
  <2>2. NotDeleted
    BY <1>2, <1>8 DEF NotDeleted, Live, DidCommit
  <2>3. Hinted(tuple')
    BY <1>2, <1>4, <1>5, <2>1, <2>2, HintXmaxInvalidTrue DEF Hinted
  <2>4. call[b].fn = "update" => tuple.xmax \cap running = {}
    BY <1>4, <1>5, <1>8
  <2>5. Claim(b, "live")
    BY <1>2, <2>2, <2>4, ClaimLive
  <2> QED
    BY <1>2, <2>1, <2>3, <2>5, ConcludeStep
<1> QED
  BY <1>6, <1>7, <1>8

LEMMA CheckStep ==
  ASSUME IInv, NEW b \in Backend, Check(b)
  PROVE  IInv'
<1>1. Stays
  BY DEF Check, Stays, walVars, xactVars, hist
<1>2. \/ CheckXminHint(b) \/ CheckXminMine(b) \/ CheckXminRunning(b) \/ CheckXminClog(b)
      \/ CheckXmaxInvalid(b) \/ CheckXmaxLock(b) \/ CheckXmaxHint(b)
      \/ CheckXmaxRunning(b) \/ CheckXmaxClog(b)
  BY DEF Check
<1> QED
  BY <1>1, <1>2, CheckXminHintStep, CheckXminMineStep, CheckXminRunningStep, CheckXminClogStep,
     CheckXmaxInvalidStep, CheckXmaxLockStep, CheckXmaxHintStep, CheckXmaxRunningStep,
     CheckXmaxClogStep

-----------------------------------------------------------------------------
(* Calls begin and return.                                                   *)

LEMMA OldestXminFacts ==
  ASSUME IInv
  PROVE  /\ OldestXmin \in Nat /\ OldestXmin <= nextXid
         /\ \A x \in running : OldestXmin <= x
         /\ \A c \in Backend : snap[c] # NoSnap =>
              /\ OldestXmin <= snap[c].xmax
              /\ \A x \in snap[c].xip : OldestXmin <= x
<1> DEFINE xs == running \cup {nextXid}
                 \cup {s.xmax : s \in {snap[c] : c \in Backend} \ {NoSnap}}
                 \cup UNION {snap[c].xip : c \in Backend}
<1>1. XactInv /\ nextXid \in Nat /\ running \subseteq Nat
  <2>1. XactInv
    BY DEF IInv
  <2> QED
    BY <2>1, XactFacts
<1>2. \A c \in Backend : snap[c].xmax \in Nat /\ snap[c].xip \subseteq Nat
  <2>1. \A c \in Backend : snap[c] \in Snapshot
    BY <1>1 DEF XactInv
  <2> QED
    BY <2>1, Constants DEF Snapshot
<1>3. xs \subseteq Nat
  BY <1>1, <1>2
<1>4. /\ nextXid \in xs /\ running \subseteq xs
      /\ \A c \in Backend : snap[c] # NoSnap => snap[c].xmax \in xs /\ \A x \in snap[c].xip : x \in xs
  OBVIOUS
<1>5. OldestXmin = CHOOSE x \in xs : \A y \in xs : x <= y
  BY Zenon DEF OldestXmin
<1> HIDE DEF xs
<1>6. \E x \in xs : \A y \in xs : x <= y
  BY <1>3, <1>4, LeastNatural
<1>7. OldestXmin \in xs /\ \A y \in xs : OldestXmin <= y
  BY <1>5, <1>6, Zenon
<1> QED
  BY <1>3, <1>4, <1>7

LEMMA StartStep ==
  ASSUME IInv, NEW b \in Backend, NEW fn \in Fn, NEW op \in {"none", "delete", "lock"}, Start(b, fn, op),
         fn = "update" <=> op # "none",
         fn = "update" => InTransaction(b) /\ snap[b] # NoSnap /\ Sees(b)
  PROVE  IInv'
<1> DEFINE o == IF fn = "vacuum" THEN OldestXmin ELSE 0
<1>1. /\ Idle(b) /\ tuple # NoTuple
      /\ IF fn = "update" THEN LockFree(b) ELSE \A c \in Backend : ~Exclusive(c)
  BY Zenon DEF Start
<1>2. Stays /\ tuple' = tuple
  BY Zenon DEF Start, Stays, pageVars, walVars, xactVars, hist
<1>3. CallShape /\ DOMAIN call = Backend /\ XactInv /\ SnapInv(b)
  BY ONLY IInv, b \in Backend DEF IInv, CallShape
<1>4. \E v : /\ call' = [call EXCEPT ![b] = v]
             /\ v = [[[[NoCall EXCEPT !["fn"] = fn] EXCEPT !["op"] = op] EXCEPT !["at"] = "xmin"]
                       EXCEPT !["oldestXmin"] = o]
  BY Zenon DEF Start
<1>5. o \in Nat /\ (fn = "vacuum" => o = OldestXmin)
  BY ONLY IInv, OldestXminFacts
<1> HIDE DEF o
<1>6. PICK v : /\ call' = [call EXCEPT ![b] = v]
               /\ v = [[[[NoCall EXCEPT !["fn"] = fn] EXCEPT !["op"] = op] EXCEPT !["at"] = "xmin"]
                         EXCEPT !["oldestXmin"] = o]
  BY ONLY <1>4
<1>7. DOMAIN call' = Backend /\ call'[b] = v /\ \A c \in Backend \ {b} : call'[c] = call[c]
  BY ONLY <1>3, <1>6, b \in Backend
<1>8. /\ DOMAIN v = CallFields /\ v.fn = fn /\ v.op = op /\ v.at = "xmin" /\ v.verdict = "none"
      /\ v.oldestXmin = o
  BY ONLY <1>6 DEF NoCall, CallFields
<1>9. /\ call'[b].fn = fn /\ call'[b].op = op /\ call'[b].at = "xmin" /\ call'[b].verdict = "none"
      /\ call'[b].oldestXmin = o
  BY ONLY <1>7, <1>8
<1>10. CallMoves(b)
  BY ONLY <1>7, <1>8 DEF CallMoves
<1>11. /\ ended[b] = {} /\ (fn = "update" => mine[b] # {} /\ snap[b] # NoSnap /\ Sees(b))
       /\ fn \in Fn /\ op \in {"none", "delete", "lock"} /\ (fn = "update" <=> op # "none")
  BY ONLY <1>1, fn \in Fn, op \in {"none", "delete", "lock"}, (fn = "update" <=> op # "none"),
     fn = "update" => InTransaction(b) /\ snap[b] # NoSnap /\ Sees(b) DEF Idle, InTransaction
<1>12. UNCHANGED <<clog, running, nextXid, mine, ended, cid, snap, deletes>>
  BY ONLY <1>2 DEF Stays
<1>13. CallType(b)'
  <2>1. ~Asleep(b)'
    BY ONLY <1>9 DEF Asleep
  <2> QED
    BY ONLY <1>1, <1>2, <1>5, <1>9, <1>11, <1>12, <2>1 DEF CallType, Fn
<1>14. UpdateInv(b)'
  <2> SUFFICES ASSUME fn = "update" PROVE UpdateInv(b)'
    BY <1>9 DEF UpdateInv
  <2>1. /\ mine[b] # {} /\ snap[b] # NoSnap /\ Sees(b) /\ snap[b].curcid = cid[b]
    BY ONLY <1>3, <1>11, fn = "update" DEF SnapInv
  <2>2. cid[b] \in Nat
    <3>1. cid[b] \in Cid
      BY <1>3 DEF XactInv
    <3>2. Cid \subseteq Nat
      BY Constants DEF Cid
    <3> QED
      BY <3>1, <3>2
  <2>3. tuple.xmin \in snap[b].seen \/ (tuple.xmin \in mine[b] /\ tuple.cmin < cid[b])
    BY ONLY <2>1 DEF Sees
  <2>4. \A d \in deletes : d.xid \in mine[b] => d.cid >= cid[b]
    <3> SUFFICES ASSUME NEW d \in deletes, d.xid \in mine[b] PROVE d.cid >= cid[b]
      OBVIOUS
    <3>1. ~(d.cid < cid[b])
      BY ONLY <2>1, d \in deletes, d.xid \in mine[b] DEF Sees
    <3>2. d.cid \in Nat
      <4>1. d.cid \in Cid /\ Cid \subseteq Nat
        BY ONLY IInv, d \in deletes, Constants DEF IInv, DeleteInv, Cid
      <4> QED
        BY ONLY <4>1
    <3> QED
      BY ONLY <2>2, <3>1, <3>2
  <2> QED
    BY ONLY <1>2, <1>9, <1>12, <2>1, <2>3, <2>4 DEF UpdateInv
<1>15. CourseInv(b)' /\ VerdictInv(b)' /\ SleepInv(b)'
  BY ONLY <1>9 DEF CourseInv, VerdictInv, SleepInv
<1>16. HorizonInv(b)'
  <2>1. /\ OldestXmin <= nextXid
        /\ \A x \in running : OldestXmin <= x
        /\ \A c \in Backend : snap[c] # NoSnap =>
             /\ OldestXmin <= snap[c].xmax
             /\ \A x \in snap[c].xip : OldestXmin <= x
    BY ONLY IInv, OldestXminFacts
  <2> QED
    BY ONLY <1>5, <1>9, <1>12, <2>1 DEF HorizonInv
<1>17. CallInv(b)'
  BY ONLY <1>13, <1>14, <1>15, <1>16 DEF CallInv
<1>18. Enters(b)
  BY ONLY <1>1, <1>9 DEF Enters
<1>19. Hinted(tuple')
  BY ONLY <1>2 DEF Hinted
<1> QED
  BY ONLY IInv, b \in Backend, <1>2, <1>10, <1>17, <1>18, <1>19, CallStep

LEMMA ResetStep ==
  ASSUME IInv, NEW b \in Backend, Stays, tuple' = tuple, call' = [call EXCEPT ![b] = NoCall]
  PROVE  IInv'
<1>1. DOMAIN call = Backend
  BY DEF IInv, CallShape
<1>2. DOMAIN call' = Backend /\ call'[b] = NoCall /\ \A c \in Backend \ {b} : call'[c] = call[c]
  BY <1>1
<1>3. DOMAIN NoCall = CallFields
  BY DEF NoCall, CallFields
<1>4. CallMoves(b) /\ Hinted(tuple')
  BY <1>2, <1>3 DEF CallMoves, Hinted
<1>5. CallInv(b)' /\ ~Locked(b)'
  BY <1>2, IdleCall
<1> QED
  BY <1>4, <1>5, CallStep DEF Enters

LEMMA ReturnStep ==
  ASSUME IInv, NEW b \in Backend, Return(b)
  PROVE  IInv'
<1>1. Stays /\ tuple' = tuple /\ call' = [call EXCEPT ![b] = NoCall]
  BY DEF Return, Stays, pageVars, walVars, xactVars, hist
<1> QED
  BY <1>1, ResetStep

-----------------------------------------------------------------------------
(* Deletions and row locks that wait.                                        *)

\* What an update may know when it is told that the tuple is its to change.
Free(b) == NotDeleted /\ (call[b].op = "delete" => tuple.xmax \cap running \subseteq mine[b])

LEMMA UpdateStep ==
  ASSUME IInv, NEW b \in Backend, Stays, Hinted(tuple'), call[b].fn = "update",
         CallMoves(b), SameCall(b), Enters(b), SleepInv(b)',
         call'[b].at \in {"xmin", "done", "copied", "tuplock", "sleep"},
         call'[b].at = "copied" => call[b].op = "lock",
         call'[b].verdict \in {"none", "visible", "invisible"} \cup TM \cup HTSV,
         call'[b].verdict # "TM_Invisible",
         call'[b].at = "done" /\ call'[b].verdict = "TM_Ok" => Free(b)
  PROVE  IInv'
<1>1. CallInv(b) /\ tuple # NoTuple /\ ended[b] = {}
  BY DEF IInv, CallInv, CallType
<1>2. /\ tuple' # NoTuple /\ SameHeader(tuple, tuple')
      /\ NotDeleted' <=> NotDeleted
  BY <1>1, StaysFacts
<1>3. call'[b].fn = "update" /\ call'[b].op = call[b].op /\ call'[b].oldestXmin = call[b].oldestXmin
  BY DEF SameCall
<1>4. UNCHANGED <<running, mine, ended>>
  BY DEF Stays
<1>5. CallType(b)'
  BY <1>1, <1>2, <1>3, <1>4 DEF CallInv, CallType, Fn
<1>6. UpdateInv(b)' /\ HorizonInv(b)'
  BY CallGoesOn
<1>7. CourseInv(b)'
  BY DEF CourseInv
<1>8. VerdictInv(b)'
  <2>1. tuple'.xmax = tuple.xmax
    BY <1>2 DEF SameHeader
  <2> QED
    BY <1>2, <1>3, <1>4, <2>1 DEF VerdictInv, Free
<1>9. CallInv(b)'
  BY <1>5, <1>6, <1>7, <1>8 DEF CallInv
<1> QED
  BY <1>9, CallStep

LEMMA LooksAgain ==
  ASSUME CallShape, NEW b \in Backend, NEW step, NEW s,
         call' = [call EXCEPT ![b].at = step, ![b].saved = s]
  PROVE  CallMoves(b) /\ SameCall(b) /\ call'[b].at = step /\ call'[b].saved = s
         /\ call'[b].verdict = call[b].verdict
<1>1. DOMAIN call = Backend /\ DOMAIN call[b] = CallFields
  BY Zenon DEF CallShape
<1>2. DOMAIN call' = Backend /\ \A c \in Backend \ {b} : call'[c] = call[c]
  BY <1>1, Zenon
<1>3. call'[b] = [[call[b] EXCEPT !["at"] = step] EXCEPT !["saved"] = s]
  BY <1>1, Zenon
<1> QED
  BY ONLY <1>1, <1>2, <1>3 DEF CallMoves, SameCall, CallFields

LEMMA Decides ==
  ASSUME CallShape, NEW b \in Backend, NEW v, call' = [call EXCEPT ![b].verdict = v]
  PROVE  CallMoves(b) /\ SameCall(b) /\ call'[b].at = call[b].at /\ call'[b].saved = call[b].saved
         /\ call'[b].verdict = v
<1>1. DOMAIN call = Backend /\ DOMAIN call[b] = CallFields
  BY Zenon DEF CallShape
<1>2. DOMAIN call' = Backend /\ \A c \in Backend \ {b} : call'[c] = call[c]
  BY <1>1, Zenon
<1>3. call'[b] = [call[b] EXCEPT !["verdict"] = v]
  BY <1>1, Zenon
<1> QED
  BY ONLY <1>1, <1>2, <1>3 DEF CallMoves, SameCall, CallFields

LEMMA DeleteMustWaitStep ==
  ASSUME IInv, NEW b \in Backend, DeleteMustWait(b)
  PROVE  IInv'
<1>1. At(b, "done") /\ call[b].op = "delete" /\ call[b].verdict = "TM_BeingModified"
  BY Zenon DEF DeleteMustWait
<1>2. Stays /\ tuple' = tuple
  BY Zenon DEF DeleteMustWait, Stays, pageVars, walVars, xactVars, hist
<1>3. /\ CallShape /\ call[b].fn = "update" /\ tuple # NoTuple
      /\ Hinted(tuple')
  BY ONLY IInv, b \in Backend, <1>1, <1>2 DEF IInv, CallInv, CallType, Hinted
<1>4. Locked(b)
  BY ONLY <1>1, <1>3 DEF Locked, Asleep, At
<1>5. /\ HintsTrue(tuple) /\ tuple.xmax \subseteq Xid
      /\ tuple.updater # None => tuple.updater \in Xid /\ tuple.updater \in tuple.xmax
      /\ ~tuple.multi => \A x, y \in tuple.xmax : x = y
  BY ONLY IInv, b \in Backend, <1>4, Looking
<1>6. CASE Conflicts(b)
  <2> DEFINE step == IF tuple.xmax \cap mine[b] # {} THEN "sleep" ELSE "tuplock"
  <2>1. call' = [call EXCEPT ![b].at = step, ![b].saved = tuple]
    BY <1>6, Zenon DEF DeleteMustWait
  <2>2. step \in {"sleep", "tuplock"}
    OBVIOUS
  <2> HIDE DEF step
  <2>3. CallMoves(b) /\ SameCall(b) /\ call'[b].at = step /\ call'[b].saved = tuple
        /\ call'[b].verdict = call[b].verdict
    BY <1>3, <2>1, LooksAgain, Zenon
  <2>4. ~tuple.multi => tuple.xmax \cap mine[b] = {}
    <3>1. PICK x \in tuple.xmax \ mine[b] : TRUE
      BY ONLY <1>6 DEF Conflicts
    <3>2. ~tuple.multi => \A y \in tuple.xmax : y = x
      BY ONLY <1>5, <3>1
    <3> QED
      BY ONLY <3>1, <3>2
  <2>5. SleepInv(b)'
    <3>1. mine' = mine /\ call'[b].op = "delete"
      BY ONLY <1>1, <1>2, <2>3 DEF Stays, SameCall
    <3> QED
      BY ONLY <2>3, <2>4, <3>1 DEF SleepInv
  <2>6. Enters(b)
    BY ONLY <2>2, <2>3 DEF Enters, Locked, Asleep
  <2> QED
    BY ONLY IInv, b \in Backend, <1>1, <1>2, <1>3, <2>2, <2>3, <2>5, <2>6, UpdateStep DEF TM
<1>7. CASE ~Conflicts(b)
  <2> DEFINE v == IF HeapTupleHeaderIsOnlyLocked(b) THEN "TM_Ok" ELSE "TM_Deleted"
  <2>1. call' = [call EXCEPT ![b].verdict = v]
    BY <1>7, Zenon DEF DeleteMustWait
  <2>2. v \in {"TM_Ok", "TM_Deleted"} /\ (v = "TM_Ok" => HeapTupleHeaderIsOnlyLocked(b))
    OBVIOUS
  <2> HIDE DEF v
  <2>3. CallMoves(b) /\ SameCall(b) /\ call'[b].at = call[b].at /\ call'[b].verdict = v
    BY <1>3, <2>1, Decides, Zenon
  <2>4. ASSUME HeapTupleHeaderIsOnlyLocked(b) PROVE Free(b)
    <3>1. CASE tuple.xmaxInvalid
      BY ONLY <1>5, <3>1 DEF HintsTrue, Free, NotDeleted
    <3>2. CASE ~tuple.xmaxInvalid
      <4>1. tuple.updater = None \/ (tuple.updater \notin running /\ ~DidCommit(tuple.updater))
        BY ONLY <2>4, <3>2 DEF HeapTupleHeaderIsOnlyLocked, LockOnly, TransactionIdIsInProgress,
           TransactionIdDidCommit, DidCommit
      <4>2. NotDeleted
        BY ONLY <4>1 DEF NotDeleted, Live, DidCommit
      <4>3. ASSUME NEW x \in tuple.xmax, x \in running PROVE x \in mine[b]
        <5>1. x # tuple.updater
          BY ONLY <1>5, <4>1, <4>3, Constants
        <5> QED
          BY ONLY <1>7, <4>3, <5>1 DEF Conflicts, TransactionIdIsInProgress
      <4> QED
        BY ONLY <4>2, <4>3 DEF Free
    <3> QED
      BY ONLY <3>1, <3>2
  <2>5. SleepInv(b)' /\ Enters(b)
    BY ONLY <1>1, <1>4, <2>3 DEF SleepInv, Enters, At, SameCall
  <2> QED
    BY ONLY IInv, b \in Backend, <1>1, <1>2, <1>3, <2>2, <2>3, <2>4, <2>5, UpdateStep DEF TM, At
<1> QED
  BY ONLY <1>6, <1>7

LEMMA LockLooksAgainStep ==
  ASSUME IInv, NEW b \in Backend, LockLooksAgain(b)
  PROVE  IInv'
<1>1. /\ At(b, "done") /\ call[b].op = "lock" /\ call[b].verdict \in {"TM_BeingModified", "TM_Deleted"}
  BY Zenon DEF LockLooksAgain
<1>2. Stays /\ tuple' = tuple
  BY Zenon DEF LockLooksAgain, Stays, pageVars, walVars, xactVars, hist
<1>3. CallShape /\ call[b].fn = "update" /\ Hinted(tuple')
  BY ONLY IInv, b \in Backend, <1>1, <1>2 DEF IInv, CallInv, CallType, Hinted
<1>4. call' = [call EXCEPT ![b].at = "copied", ![b].saved = tuple]
  BY Zenon DEF LockLooksAgain
<1>5. CallMoves(b) /\ SameCall(b) /\ call'[b].at = "copied" /\ call'[b].verdict = call[b].verdict
  BY <1>3, <1>4, LooksAgain, Zenon
<1>6. SleepInv(b)' /\ Enters(b)
  BY ONLY <1>5 DEF SleepInv, Enters, Locked, Asleep
<1> QED
  BY ONLY IInv, b \in Backend, <1>1, <1>2, <1>3, <1>5, <1>6, UpdateStep DEF TM

\* A call that sleeps is an update, and has not been told that the tuple is invisible.
LEMMA Sleeping ==
  ASSUME IInv, NEW b \in Backend, Asleep(b)
  PROVE  /\ CallShape /\ call[b].fn = "update" /\ tuple # NoTuple /\ call[b].verdict # "TM_Invisible"
         /\ call[b].verdict \in {"none", "visible", "invisible"} \cup TM \cup HTSV
         /\ call[b].at = "copied" => call[b].op = "lock"
         /\ call[b].op \in {"delete", "lock"}
         /\ SleepInv(b)
<1>1. CallShape /\ CallInv(b)
  BY DEF IInv
<1> QED
  BY <1>1 DEF CallInv, CallType, UpdateInv

LEMMA LockWithoutSleepStep ==
  ASSUME IInv, NEW b \in Backend, LockWithoutSleep(b)
  PROVE  IInv'
<1> DEFINE s == call[b].saved
<1>1. At(b, "copied")
  BY Zenon DEF LockWithoutSleep
<1>2. Stays /\ tuple' = tuple
  BY Zenon DEF LockWithoutSleep, Stays, pageVars, walVars, xactVars, hist
<1>3. Asleep(b) /\ Hinted(tuple')
  BY ONLY <1>1, <1>2 DEF Asleep, At, Hinted
<1>4. /\ CallShape /\ call[b].fn = "update" /\ tuple # NoTuple /\ call[b].verdict # "TM_Invisible"
      /\ call[b].verdict \in {"none", "visible", "invisible"} \cup TM \cup HTSV
      /\ call[b].op = "lock"
  BY ONLY IInv, b \in Backend, <1>1, <1>3, Sleeping DEF At
<1>5. CASE s.xmax \cap mine[b] # {}
  <2>1. call' = [call EXCEPT ![b] = NoCall]
    BY <1>5, Zenon DEF LockWithoutSleep
  <2> QED
    BY ONLY IInv, b \in Backend, <1>2, <2>1, ResetStep
<1>6. CASE s.xmax \cap mine[b] = {} /\ HeapTupleHeaderIsOnlyLocked(b)
  <2>1. LockFree(b) /\ Finish(b, "TM_Ok")
    BY <1>6, Zenon DEF LockWithoutSleep, Finish
  <2>2. CallMoves(b) /\ SameCall(b) /\ call'[b].at = "done" /\ call'[b].verdict = "TM_Ok"
    BY ONLY b \in Backend, <1>4, <2>1, FinishComes DEF Comes
  <2>3. SleepInv(b)' /\ Enters(b)
    BY ONLY <2>1, <2>2 DEF SleepInv, Enters
  <2>4. NotDeleted
    <3>1. HintsTrue(tuple)
      BY ONLY IInv, <1>4, HeaderFacts
    <3> QED
      BY ONLY <1>6, <3>1 DEF HintsTrue, NotDeleted, HeapTupleHeaderIsOnlyLocked, LockOnly, Live,
         TransactionIdIsInProgress, TransactionIdDidCommit, DidCommit
  <2>5. Free(b)
    BY ONLY <1>4, <2>4 DEF Free
  <2> QED
    BY ONLY IInv, b \in Backend, <1>2, <1>3, <1>4, <2>2, <2>3, <2>5, UpdateStep DEF TM
<1>7. CASE s.xmax \cap mine[b] = {} /\ ~HeapTupleHeaderIsOnlyLocked(b)
  <2>1. LockFree(b) /\ call' = [call EXCEPT ![b].at = "xmin", ![b].saved = NoTuple]
    BY <1>7, Zenon DEF LockWithoutSleep
  <2>2. CallMoves(b) /\ SameCall(b) /\ call'[b].at = "xmin" /\ call'[b].verdict = call[b].verdict
    BY <1>4, <2>1, LooksAgain, Zenon
  <2>3. LockFree(b)
    BY <2>1, Zenon
  <2>4. SleepInv(b)' /\ Enters(b)
    BY ONLY <2>2, <2>3 DEF SleepInv, Enters
  <2> QED
    BY ONLY IInv, b \in Backend, <1>2, <1>3, <1>4, <2>2, <2>4, UpdateStep
<1> QED
  BY ONLY <1>5, <1>6, <1>7

LEMMA LockMustWaitStep ==
  ASSUME IInv, NEW b \in Backend, LockMustWait(b)
  PROVE  IInv'
<1>1. At(b, "copied") /\ call[b].saved.xmax \cap mine[b] = {} /\ call[b].saved.updater # None
  BY Zenon DEF LockMustWait
<1>2. Stays /\ tuple' = tuple
  BY Zenon DEF LockMustWait, Stays, pageVars, walVars, xactVars, hist
<1>3. Asleep(b) /\ Hinted(tuple')
  BY ONLY <1>1, <1>2 DEF Asleep, At, Hinted
<1>4. /\ CallShape /\ call[b].fn = "update" /\ tuple # NoTuple /\ call[b].verdict # "TM_Invisible"
      /\ call[b].verdict \in {"none", "visible", "invisible"} \cup TM \cup HTSV
      /\ call[b].op = "lock"
  BY ONLY IInv, b \in Backend, <1>1, <1>3, Sleeping DEF At
<1>5. CASE call[b].verdict = "TM_Deleted"
  <2>1. LockFree(b) /\ Goto(b, "done")
    BY <1>5, Zenon DEF LockMustWait, Goto
  <2>2. CallMoves(b) /\ SameCall(b) /\ call'[b].at = "done" /\ call'[b].verdict = call[b].verdict
    BY ONLY b \in Backend, <1>4, <2>1, GotoGoes DEF GoesTo
  <2>3. SleepInv(b)' /\ Enters(b)
    BY ONLY <2>1, <2>2 DEF SleepInv, Enters
  <2> QED
    BY ONLY IInv, b \in Backend, <1>2, <1>3, <1>4, <1>5, <2>2, <2>3, UpdateStep
<1>6. CASE call[b].verdict # "TM_Deleted"
  <2>1. Goto(b, "tuplock")
    BY <1>6, Zenon DEF LockMustWait, Goto
  <2>2. CallMoves(b) /\ SameCall(b) /\ call'[b].at = "tuplock" /\ call'[b].verdict = call[b].verdict
        /\ call'[b].saved = call[b].saved
    BY ONLY b \in Backend, <1>4, <2>1, GotoGoes DEF GoesTo
  <2>3. SleepInv(b)' /\ Enters(b)
    <3>1. mine' = mine
      BY ONLY <1>2 DEF Stays
    <3> QED
      BY ONLY <1>1, <2>2, <3>1 DEF SleepInv, Enters, Locked, Asleep
  <2> QED
    BY ONLY IInv, b \in Backend, <1>2, <1>3, <1>4, <2>2, <2>3, UpdateStep
<1> QED
  BY ONLY <1>5, <1>6

LEMMA AcquireTuplockStep ==
  ASSUME IInv, NEW b \in Backend, AcquireTuplock(b)
  PROVE  IInv'
<1>1. At(b, "tuplock")
  BY Zenon DEF AcquireTuplock
<1>2. Stays /\ tuple' = tuple
  BY Zenon DEF AcquireTuplock, Stays, pageVars, walVars, xactVars, hist
<1>3. Asleep(b) /\ Hinted(tuple')
  BY ONLY <1>1, <1>2 DEF Asleep, At, Hinted
<1>4. /\ CallShape /\ call[b].fn = "update" /\ tuple # NoTuple /\ call[b].verdict # "TM_Invisible"
      /\ call[b].verdict \in {"none", "visible", "invisible"} \cup TM \cup HTSV
      /\ SleepInv(b)
  BY ONLY IInv, b \in Backend, <1>1, <1>3, Sleeping DEF At
<1>5. DOMAIN call = Backend /\ DOMAIN call[b] = CallFields
  BY ONLY b \in Backend, <1>4 DEF CallShape
<1>6. DOMAIN call' = Backend /\ \A c \in Backend \ {b} : call'[c] = call[c]
  BY <1>5, Zenon DEF AcquireTuplock
<1>7. call'[b] = [[call[b] EXCEPT !["at"] = "sleep"] EXCEPT !["tuplock"] = call[b].op]
  BY <1>5, Zenon DEF AcquireTuplock
<1>8. /\ CallMoves(b) /\ SameCall(b) /\ call'[b].at = "sleep" /\ call'[b].verdict = call[b].verdict
      /\ call'[b].saved = call[b].saved
  BY ONLY <1>5, <1>6, <1>7 DEF CallMoves, SameCall, CallFields
<1>9. SleepInv(b)' /\ Enters(b)
  <2>1. mine' = mine
    BY ONLY <1>2 DEF Stays
  <2> QED
    BY ONLY <1>1, <1>4, <1>8, <2>1 DEF SleepInv, Enters, Locked, Asleep, At, SameCall
<1> QED
  BY ONLY IInv, b \in Backend, <1>2, <1>3, <1>4, <1>8, <1>9, UpdateStep

LEMMA WakeStep ==
  ASSUME IInv, NEW b \in Backend, Wake(b)
  PROVE  IInv'
<1> DEFINE s == call[b].saved
<1>1. At(b, "sleep") /\ Awaited(b) \cap running = {} /\ LockFree(b)
  BY Zenon DEF Wake
<1>2. Stays
  BY Zenon DEF Wake, Stays, walVars, xactVars, hist
<1>3. Asleep(b)
  BY ONLY <1>1 DEF Asleep, At
<1>4. /\ CallShape /\ call[b].fn = "update" /\ tuple # NoTuple /\ call[b].verdict # "TM_Invisible"
      /\ call[b].verdict \in {"none", "visible", "invisible"} \cup TM \cup HTSV
      /\ call[b].op \in {"delete", "lock"} /\ SleepInv(b)
  BY ONLY IInv, b \in Backend, <1>3, Sleeping
<1>5. CASE xmax_changed(s)
  <2>1. call' = [call EXCEPT ![b].at = "xmin", ![b].saved = NoTuple]
    BY <1>5, Zenon DEF Wake
  <2>2. tuple' = tuple
    BY <1>5, Zenon DEF Wake
  <2>3. CallMoves(b) /\ SameCall(b) /\ call'[b].at = "xmin" /\ call'[b].verdict = call[b].verdict
    BY <1>4, <2>1, LooksAgain, Zenon
  <2>4. SleepInv(b)' /\ Enters(b) /\ Hinted(tuple')
    BY ONLY <1>1, <2>2, <2>3 DEF SleepInv, Enters, Hinted
  <2> QED
    BY ONLY IInv, b \in Backend, <1>2, <1>4, <2>3, <2>4, UpdateStep
<1>6. CASE ~xmax_changed(s)
  <2> DEFINE v == IF HeapTupleHeaderIsOnlyLocked(b) THEN "TM_Ok" ELSE "TM_Deleted"
  <2>1. Finish(b, v) /\ UpdateXmaxHintBits
    BY <1>6, Zenon DEF Wake, Finish
  <2>2. v \in {"TM_Ok", "TM_Deleted"} /\ (v = "TM_Ok" => HeapTupleHeaderIsOnlyLocked(b))
    OBVIOUS
  <2> HIDE DEF v
  <2>3. CallMoves(b) /\ SameCall(b) /\ call'[b].at = "done" /\ call'[b].verdict = v
    BY ONLY b \in Backend, <1>4, <2>1, FinishComes DEF Comes
  <2>4. SleepInv(b)' /\ Enters(b)
    BY ONLY <1>1, <2>3 DEF SleepInv, Enters
  <2>5. s.xmax = tuple.xmax /\ s.multi = tuple.multi /\ s.updater = tuple.updater
    BY ONLY <1>6 DEF xmax_changed
  <2>6. /\ HintsTrue(tuple) /\ tuple.xmax \subseteq Xid
        /\ tuple.updater # None => tuple.updater \in Xid /\ tuple.updater \in tuple.xmax
        /\ ~tuple.multi => \A x, y \in tuple.xmax : x = y
    BY ONLY IInv, <1>4, HeaderFacts
  <2>7. tuple.xmax \cap running \subseteq mine[b] \/ call[b].op = "lock"
    BY ONLY <1>1, <1>4, <2>5 DEF Awaited
  <2>8. ~tuple.multi => tuple.xmax \cap running = {}
    <3> SUFFICES ASSUME ~tuple.multi, NEW x \in tuple.xmax, x \in running PROVE FALSE
      OBVIOUS
    <3>0. x \in tuple.xmax /\ x \in running /\ ~tuple.multi
      OBVIOUS
    <3>1. x \notin mine[b]
      BY ONLY <1>1, <1>4, <2>5, <3>0 DEF SleepInv, At
    <3>2. call[b].op = "lock" => tuple.updater # None
      BY ONLY <1>1, <1>4, <2>5 DEF SleepInv, At
    <3>3. call[b].op = "lock" => x = tuple.updater
      BY ONLY <2>6, <3>0, <3>2
    <3>4. x \in Awaited(b)
      BY ONLY <1>4, <2>5, <3>0, <3>1, <3>3 DEF Awaited
    <3> QED
      BY ONLY <1>1, <3>0, <3>4
  <2>9. Hinted(tuple')
    <3>1. \/ tuple' = tuple
          \/ tuple.updater # None /\ DidCommit(tuple.updater) /\ HintXmaxCommitted(tuple.updater)
          \/ /\ ~tuple.multi /\ HintXmaxInvalid
             /\ tuple.updater # None => ~DidCommit(tuple.updater)
      BY ONLY <2>1 DEF UpdateXmaxHintBits, LockOnly, TransactionIdDidCommit, DidCommit
    <3>2. ~tuple.multi /\ (tuple.updater # None => ~DidCommit(tuple.updater)) => NotDeleted
      BY ONLY <2>6, <2>8 DEF NotDeleted, Live, DidCommit
    <3> QED
      BY ONLY IInv, <1>4, <2>8, <3>1, <3>2, HintXmaxCommittedTrue, HintXmaxInvalidTrue DEF Hinted
  <2>10. HeapTupleHeaderIsOnlyLocked(b) => NotDeleted
    BY ONLY <2>6 DEF HintsTrue, NotDeleted, HeapTupleHeaderIsOnlyLocked, LockOnly, Live,
       TransactionIdIsInProgress, TransactionIdDidCommit, DidCommit
  <2>11. HeapTupleHeaderIsOnlyLocked(b) => Free(b)
    BY ONLY <2>7, <2>10 DEF Free
  <2> QED
    BY ONLY IInv, b \in Backend, <1>2, <1>4, <2>2, <2>3, <2>4, <2>9, <2>11, UpdateStep DEF TM
<1> QED
  BY ONLY <1>5, <1>6

-----------------------------------------------------------------------------
(* A change of the tuple and its record.                                     *)

LEMMA ChangeStep ==
  ASSUME IInv, NEW b \in Backend,
         UNCHANGED <<disk, flushed, clog, running, nextXid, mine, ended, cid, snap, crashes, load>>,
         NEW ty \in {"insert", "xmax"}, NEW t, t = tuple',
         wal' = Append(wal, [type |-> ty, new |-> t]), pageLSN' = Len(wal'),
         deletes \subseteq deletes',
         \A d \in deletes' : /\ d.xid \in Xid /\ ~DidCommit(d.xid)
                             /\ d \in deletes \/ d.xid \in mine[b],
         WellFormed(t)', HintsTrue(t),
         ~t.xmaxCommitted, t.xmaxInvalid => t.xmax = {} /\ t.updater = None,
         ty = "insert" => t.xminHint = "none",
         IF tuple = NoTuple THEN ty = "insert"
         ELSE t.xmin = tuple.xmin /\ t.cmin = tuple.cmin /\ t.xminHint = tuple.xminHint,
         CallMoves(b), call'[b] = NoCall, \A c \in Backend \ {b} : ~Locked(c),
         DeleteInv', GrantInv', OwnInv'
  PROVE  IInv'
<1>0. /\ XactInv /\ CallShape /\ BufferInv /\ (\A c \in Backend : SnapInv(c))
      /\ TupleInv
  BY DEF IInv
<1>1. XactInv' /\ \A c \in Backend : SnapInv(c)'
  <2>1. XactInv'
    BY <1>0 DEF XactInv, Snapshot, Cid, Xid, Issued
  <2>2. \A c \in Backend : SnapInv(c)'
    BY <1>0 DEF SnapInv, Settled, DidCommit, Xid
  <2> QED
    BY ONLY <2>1, <2>2
<1>2. Ages /\ Horizons
  <2>1. nextXid \in 1..(MaxXid + 1) /\ nextXid \in Nat
    BY <1>0, XactFacts
  <2> QED
    BY <2>1 DEF Ages, Live, DidCommit, Horizons
<1>3. /\ Extends /\ LogInv' /\ DeletesLogged' /\ pageLSN' >= 1 /\ pageLSN' \in Nat
      /\ IsChange(pageLSN)' /\ wal'[pageLSN'].new = t
  <2>1. \A x \in Xid : DidCommit(x)' <=> DidCommit(x)
    BY DEF DidCommit
  <2>2. flushed' = flushed
    OBVIOUS
  <2>3. IF tuple = NoTuple THEN ty = "insert" ELSE t.xmin = tuple.xmin
    OBVIOUS
  <2>4. \A d \in deletes' : ~DidCommit(d.xid) /\ d.xid \in Xid
    OBVIOUS
  <2> QED
    BY <1>2, <2>1, <2>2, <2>3, <2>4, LogChange
<1>4. DiskInv'
  BY <1>2, <1>3, DiskKept
<1>5. t \in Tuple /\ t # NoTuple
  <2>1. t \in Tuple
    BY DEF WellFormed, Tuple
  <2> QED
    BY <2>1, NoTupleFacts
<1>6. TupleInv'
  <2>1. HintsTrue(t)'
    BY DEF HintsTrue, Live, DidCommit
  <2>2. PICK m \in Nat : m = pageLSN'
    BY <1>3
  <2>3. Backed(t, m)'
    <3>1. CASE tuple # NoTuple
      <4>1. PICK n \in Nat : n = pageLSN
        BY <1>0 DEF TupleInv
      <4>2. PICK u : u = tuple
        OBVIOUS
      <4>3. Backed(u, n)
        BY <1>0, <3>1, <4>1, <4>2 DEF TupleInv
      <4>4. n <= m
        <5>1. n \in 0..Len(wal)
          BY <1>0, <4>1 DEF TupleInv
        <5>2. PICK k : k = Len(wal')
          OBVIOUS
        <5>3. Len(wal) \in Nat /\ Len(wal) <= k /\ k \in Nat
          BY <1>3, <5>2 DEF Extends
        <5>4. k = m
          BY <2>2, <5>2
        <5> QED
          BY <5>1, <5>3, <5>4
      <4>5. Backed(u, m)'
        BY <1>3, <4>3, <4>4, BackedKept
      <4> QED
        BY <3>1, <4>2, <4>5 DEF Backed
    <3>2. CASE tuple = NoTuple
      BY <3>2 DEF Backed
    <3> QED
      BY <3>1, <3>2
  <2>4. SameHeader(wal[pageLSN].new, tuple)'
    BY <1>3 DEF SameHeader
  <2>5. pageLSN' \in 0..Len(wal')
    BY <1>3
  <2>6. WellFormed(tuple)' /\ HintsTrue(tuple)' /\ Backed(tuple, pageLSN)'
    BY <2>1, <2>2, <2>3 DEF WellFormed, HintsTrue, Backed, Known, Live, DidCommit
  <2> QED
    BY <1>3, <1>5, <2>4, <2>5, <2>6 DEF TupleInv
<1>7. \A c \in Backend : CallInv(c)'
  <2> SUFFICES ASSUME NEW c \in Backend PROVE CallInv(c)'
    OBVIOUS
  <2>1. CASE c = b
    BY <2>1, IdleCall
  <2>2. CASE c # b
    <3>1. call'[c] = call[c] /\ ~Locked(c)
      BY <2>2 DEF CallMoves
    <3>2. call[c].fn # "none" => tuple # NoTuple /\ ended[c] = {}
      BY DEF IInv, CallInv, CallType
    <3>3. \A x \in mine[b] : x \notin mine[c]
      BY <1>0, <2>2, MineFacts
    <3>4. \A d \in deletes' : d.xid \in mine[c] => d \in deletes
      BY <3>3
    <3>5. Rely(c)
      BY <1>5, <3>1, <3>2, <3>4 DEF Rely
    <3> QED
      BY <1>1, <1>2, <3>5, CallKept
  <2> QED
    BY <2>1, <2>2
<1>8. CallShape' /\ BufferInv'
  <2>1. CallShape'
    BY <1>0 DEF CallShape, CallMoves
  <2>2. ~Locked(b)' /\ ~Exclusive(b)'
    BY IdleCall
  <2>3. \A c \in Backend \ {b} : ~Locked(c)'
    BY DEF CallMoves, Locked, Asleep
  <2> QED
    BY <2>1, <2>2, <2>3 DEF BufferInv
<1> QED
  BY <1>1, <1>3, <1>4, <1>6, <1>7, <1>8 DEF IInv

\* No deletion of a tuple that is free, or not there, may yet become final.
LEMMA NobodyDeletes ==
  ASSUME IInv, tuple = NoTuple \/ NotDeleted, NEW d \in deletes
  PROVE  ~Live(d.xid) /\ ~DidCommit(d.xid) /\ d.xid \in Xid /\ d.xid \in Issued /\ d.cid \in Cid
<1>1. /\ d \in [xid : Xid, cid : Cid] /\ d.xid \in Issued
      /\ Live(d.xid) => tuple # NoTuple /\ tuple.updater = d.xid
  BY DEF IInv, DeleteInv
<1>2. d.xid # None
  BY <1>1, Constants
<1> QED
  BY <1>1, <1>2 DEF NotDeleted, Live, DidCommit

LEMMA InsertStep ==
  ASSUME IInv, NEW b \in Backend, pg_tde_insert(b)
  PROVE  IInv'
<1>1. /\ Idle(b) /\ mine[b] # {} /\ tuple = NoTuple
      /\ tuple' = [xmin |-> CurrentXid(b), cmin |-> cid[b], xminHint |-> "none",
                   xmax |-> {}, multi |-> FALSE, updater |-> None, cmax |-> 0,
                   xmaxInvalid |-> TRUE, xmaxCommitted |-> FALSE]
      /\ wal' = Append(wal, [type |-> "insert", new |-> tuple']) /\ pageLSN' = Len(wal')
      /\ UNCHANGED <<disk, flushed, clog, running, nextXid, mine, ended, cid, snap, crashes, load>>
      /\ UNCHANGED <<call, deletes, locks>>
  BY DEF pg_tde_insert, InTransaction, Log, xactVars, hist
<1>2. XactInv /\ CallShape /\ CurrentXid(b) \in mine[b] /\ CurrentXid(b) \in Issued
      /\ Issued \subseteq Xid /\ cid[b] \in Cid
  <2>1. XactInv /\ CallShape
    BY DEF IInv
  <2>2. cid[b] \in Cid
    BY <2>1 DEF XactInv
  <2> QED
    BY <1>1, <2>1, <2>2, CurrentXidMine, XactFacts
<1>3. PICK t : t = tuple'
  OBVIOUS
<1>4. /\ t.xmin = CurrentXid(b) /\ t.cmin = cid[b] /\ t.xminHint = "none" /\ t.xmax = {}
      /\ t.multi = FALSE /\ t.updater = None /\ t.cmax = 0 /\ t.xmaxInvalid = TRUE
      /\ t.xmaxCommitted = FALSE
  BY <1>1, <1>3
<1>5. t \in Tuple
  <2>1. 0 \in Cid
    BY Constants DEF Cid
  <2> QED
    BY <1>1, <1>2, <1>3, <2>1 DEF Tuple
<1>6. WellFormed(t)'
  <2>1. Cardinality({}) = 0
    BY FS_EmptySet
  <2>2. Issued' = Issued
    BY <1>1 DEF Issued
  <2>3. t.multi = (Cardinality(t.xmax) > 1)
    <3>1. Cardinality(t.xmax) = 0
      BY <1>4, <2>1
    <3>2. (Cardinality(t.xmax) > 1) = FALSE
      BY <3>1, SMT
    <3>3. t.multi = FALSE
      BY <1>4
    <3> QED
      BY ONLY <3>2, <3>3, Zenon
  <2> QED
    BY <1>2, <1>4, <1>5, <2>2, <2>3 DEF WellFormed, Known, Tuple
<1>7. HintsTrue(t)
  BY <1>4 DEF HintsTrue
<1>8. \A c \in Backend : call[c].fn = "none"
  BY <1>1 DEF IInv, CallInv, CallType
<1>9. \A d \in deletes : /\ ~Live(d.xid) /\ ~DidCommit(d.xid) /\ d.xid \in Xid
                         /\ d \in [xid : Xid, cid : Cid] /\ d.xid \in Issued
  BY <1>1, NobodyDeletes DEF IInv, DeleteInv
<1>10. DeleteInv'
  BY <1>1, <1>9 DEF DeleteInv, OneDeleter, Live, Issued, IInv
<1>11. GrantInv'
  BY <1>1 DEF IInv, GrantInv, LocksExclude, Issued, Live
<1>12. OwnInv'
  BY <1>3, <1>4 DEF OwnInv
<1>13. CallMoves(b) /\ call'[b] = NoCall /\ \A c \in Backend \ {b} : ~Locked(c)
  BY <1>1, <1>2, <1>8 DEF CallMoves, CallShape, Idle, Locked
<1>14. wal' = Append(wal, [type |-> "insert", new |-> t])
  BY <1>1, <1>3
<1>15. \A d \in deletes' : d.xid \in Xid /\ ~DidCommit(d.xid) /\ (d \in deletes \/ d.xid \in mine[b])
  BY <1>1, <1>9
<1>16. deletes \subseteq deletes' /\ "insert" \in {"insert", "xmax"}
  BY <1>1
<1>17. ~t.xmaxCommitted /\ (t.xmaxInvalid => t.xmax = {} /\ t.updater = None)
  BY <1>4
<1> QED
  BY <1>1, <1>3, <1>4, <1>6, <1>7, <1>10, <1>11, <1>12, <1>13, <1>14, <1>15, <1>16, <1>17, ChangeStep

\* The members of xmax that count while nobody deletes the tuple.
LEMMA NewXmax ==
  ASSUME IInv, tuple # NoTuple, NotDeleted, NEW b \in Backend, NEW x \in mine[b], NEW isUpdate \in BOOLEAN,
         NEW t, t = compute_new_xmax(x, isUpdate)
  PROVE  /\ t \in Tuple
         /\ t.xmin = tuple.xmin /\ t.cmin = tuple.cmin /\ t.xminHint = tuple.xminHint
         /\ t.xmax = {x} \cup (tuple.xmax \cap running) /\ t.multi = (Cardinality(t.xmax) > 1)
         /\ t.updater = (IF isUpdate THEN x ELSE None)
         /\ isUpdate => t.cmax = cid[b]
         /\ ~t.xmaxInvalid /\ ~t.xmaxCommitted
<1> DEFINE kept == IF tuple.xmaxInvalid THEN {}
                   ELSE {m \in tuple.xmax : \/ TransactionIdIsInProgress(m)
                                            \/ m = tuple.updater /\ TransactionIdDidCommit(m)}
           w == CHOOSE c \in Backend : x \in mine[c]
           u == IF isUpdate THEN x ELSE IF tuple.updater \in kept THEN tuple.updater ELSE None
           k == IF isUpdate THEN cid[w] ELSE tuple.cmax
<1>1. /\ tuple \in Tuple /\ HintsTrue(tuple) /\ tuple.xmax \subseteq Issued /\ Issued \subseteq Xid
      /\ tuple.updater # None => tuple.updater \in tuple.xmax
  BY HeaderFacts
<1>2. XactInv /\ x \in Issued
  <2>1. XactInv
    BY DEF IInv
  <2> QED
    BY <2>1, MineFacts
<1>3. kept = tuple.xmax \cap running
  <2>1. tuple.xmaxInvalid => tuple.xmax \cap running = {}
    BY <1>1 DEF HintsTrue
  <2>2. \A m \in tuple.xmax : m = tuple.updater /\ TransactionIdDidCommit(m) => FALSE
    BY <1>1, <1>2, Constants DEF NotDeleted, Live, TransactionIdDidCommit
  <2> QED
    BY <2>1, <2>2 DEF TransactionIdIsInProgress
<1>4. tuple.updater \notin kept
  BY <1>1, <1>2, <1>3, Constants DEF NotDeleted, Live
<1>5. w = b
  <2>1. \A c \in Backend : x \in mine[c] => c = b
    BY <1>2, MineFacts
  <2>2. w \in Backend /\ x \in mine[w]
    BY Zenon
  <2> QED
    BY ONLY <2>1, <2>2
<1>6. t = [[[[[[tuple EXCEPT !["xmax"] = {x} \cup kept]
                EXCEPT !["multi"] = Cardinality({x} \cup kept) > 1]
                EXCEPT !["updater"] = u]
                EXCEPT !["cmax"] = k]
                EXCEPT !["xmaxInvalid"] = FALSE]
                EXCEPT !["xmaxCommitted"] = FALSE]
  BY Zenon DEF compute_new_xmax
<1>7. k \in Cid /\ (isUpdate => k = cid[b])
  <2>1. cid[b] \in Cid
    BY <1>2 DEF XactInv
  <2>2. tuple.cmax \in Cid
    BY <1>1 DEF Tuple
  <2> QED
    BY <1>5, <2>1, <2>2
<1>8. u = IF isUpdate THEN x ELSE None
  BY <1>4
<1>9. kept \subseteq Xid /\ x \in Xid
  BY <1>1, <1>2, <1>3
<1> HIDE DEF kept, u, k, w
<1>10. \E m \in BOOLEAN : m = (Cardinality({x} \cup kept) > 1)
  <2>1. PICK n \in Nat : n = Cardinality({x} \cup kept)
    BY <1>9, XidsFinite
  <2>2. (n > 1) \in BOOLEAN
    BY <2>1, SMT
  <2> QED
    BY ONLY <2>1, <2>2, Zenon
<1>11. PICK m \in BOOLEAN : m = (Cardinality({x} \cup kept) > 1)
  BY <1>10
<1>12. t = [[[[[[tuple EXCEPT !["xmax"] = {x} \cup kept]
                EXCEPT !["multi"] = m]
                EXCEPT !["updater"] = u]
                EXCEPT !["cmax"] = k]
                EXCEPT !["xmaxInvalid"] = FALSE]
                EXCEPT !["xmaxCommitted"] = FALSE]
  BY ONLY <1>6, <1>11, Zenon
<1>13. /\ t \in Tuple
       /\ t.xmin = tuple.xmin /\ t.cmin = tuple.cmin /\ t.xminHint = tuple.xminHint
       /\ t.xmax = {x} \cup kept /\ t.multi = m /\ t.updater = u /\ t.cmax = k
       /\ ~t.xmaxInvalid /\ ~t.xmaxCommitted
  <2>1. u \in {None} \cup Xid
    BY ONLY <1>8, <1>9
  <2> QED
    BY ONLY <1>1, <1>7, <1>9, <1>12, <2>1, m \in BOOLEAN DEF Tuple
<1>14. t.multi = (Cardinality(t.xmax) > 1)
  BY ONLY <1>11, <1>13, Zenon
<1> QED
  BY ONLY <1>3, <1>7, <1>8, <1>13, <1>14

LEMMA SetXmaxStep ==
  ASSUME IInv, NEW b \in Backend, SetXmax(b)
  PROVE  IInv'
<1> DEFINE x == CurrentXid(b)
           isUpdate == call[b].op = "delete"
<1>1. /\ call[b].at = "done" /\ call[b].fn = "update" /\ call[b].verdict = "TM_Ok"
      /\ wal' = Append(wal, [type |-> "xmax", new |-> tuple']) /\ pageLSN' = Len(wal')
      /\ tuple' = compute_new_xmax(x, isUpdate)
      /\ UNCHANGED <<disk, flushed, clog, running, nextXid, mine, ended, cid, snap, crashes, load>>
  BY Zenon DEF SetXmax, At, Log, xactVars
<1>2. /\ deletes' = (IF isUpdate THEN deletes \cup {[xid |-> x, cid |-> cid[b]]} ELSE deletes)
      /\ locks' = (IF isUpdate THEN locks ELSE locks \cup {x})
  BY Zenon DEF SetXmax
<1>3. call' = [call EXCEPT ![b] = NoCall]
  BY Zenon DEF SetXmax
<1>4. /\ XactInv /\ CallShape /\ SnapInv(b) /\ CallInv(b) /\ OwnInv /\ GrantInv /\ DeleteInv
  BY ONLY IInv, b \in Backend DEF IInv
<1>5. /\ tuple # NoTuple /\ mine[b] # {} /\ NotDeleted
      /\ isUpdate => tuple.xmax \cap running \subseteq mine[b]
      /\ tuple.xmin \in snap[b].seen \/ tuple.xmin \in mine[b]
  BY ONLY <1>1, <1>4 DEF CallInv, CallType, UpdateInv, VerdictInv
<1>6. x \in mine[b] /\ x \in Issued /\ x \in running /\ Issued \subseteq Xid
  BY ONLY <1>4, <1>5, b \in Backend, CurrentXidMine, XactFacts
<1>7. PICK t : t = tuple'
  OBVIOUS
<1> HIDE DEF x
<1>8. isUpdate \in BOOLEAN
  BY Zenon
<1> HIDE DEF isUpdate
<1>9. /\ t \in Tuple
      /\ t.xmin = tuple.xmin /\ t.cmin = tuple.cmin /\ t.xminHint = tuple.xminHint
      /\ t.xmax = {x} \cup (tuple.xmax \cap running) /\ t.multi = (Cardinality(t.xmax) > 1)
      /\ t.updater = (IF isUpdate THEN x ELSE None)
      /\ isUpdate => t.cmax = cid[b]
      /\ ~t.xmaxInvalid /\ ~t.xmaxCommitted
  <2>1. t = compute_new_xmax(x, isUpdate)
    BY ONLY <1>1, <1>7
  <2> QED
    BY ONLY IInv, b \in Backend, <1>5, <1>6, <1>8, <2>1, NewXmax
<1>10. /\ WellFormed(tuple) /\ HintsTrue(tuple) /\ tuple.xmin \in Issued /\ tuple.xmax \subseteq Issued
  BY ONLY IInv, <1>5, HeaderFacts
<1>11. \A d \in deletes : /\ ~Live(d.xid) /\ ~DidCommit(d.xid) /\ d.xid \in Xid
                          /\ d.xid \in Issued /\ d.cid \in Cid /\ d \in [xid : Xid, cid : Cid]
  BY ONLY IInv, <1>4, <1>5, NobodyDeletes DEF DeleteInv
<1>12. cid[b] \in Cid /\ ~DidCommit(x) /\ Live(x)
  BY ONLY <1>4, <1>6, b \in Backend DEF XactInv, DidCommit, Live
<1>13. UNCHANGED <<clog, running, nextXid, mine, ended, cid>>
  BY ONLY <1>1
<1>14. \A d \in deletes' : d \in deletes \/ (isUpdate /\ d = [xid |-> x, cid |-> cid[b]])
  BY ONLY <1>2
<1>15. \A y : Live(y)' <=> Live(y)
  BY ONLY <1>13 DEF Live
<1>16. Issued' = Issued
  BY ONLY <1>13 DEF Issued
<1>17. WellFormed(t)'
  <2>1. t.updater # None => \E d \in deletes' : d.xid = t.updater /\ d.cid = t.cmax
    <3> SUFFICES ASSUME isUpdate PROVE \E d \in deletes' : d.xid = t.updater /\ d.cid = t.cmax
      BY <1>9
    <3>1. [xid |-> x, cid |-> cid[b]] \in deletes'
      BY ONLY <1>2, isUpdate
    <3>2. t.updater = x /\ t.cmax = cid[b]
      BY ONLY <1>9, isUpdate
    <3> QED
      BY ONLY <3>1, <3>2
  <2>2. t.xmin \in Issued /\ t.xmax \subseteq Issued /\ t.updater \in {None} \cup t.xmax
    BY ONLY <1>6, <1>9, <1>10
  <2> QED
    BY ONLY <1>9, <1>16, <2>1, <2>2 DEF WellFormed, Known, Tuple
<1>18. HintsTrue(t)
  BY ONLY <1>9, <1>10 DEF HintsTrue
<1>19. DeleteInv'
  <2>1. ASSUME NEW d \in deletes'
        PROVE  /\ d \in [xid : Xid, cid : Cid] /\ d.xid \in Issued
               /\ Live(d.xid) => t # NoTuple /\ t.updater = d.xid
               /\ Live(d.xid) => d = [xid |-> x, cid |-> cid[b]]
    <3>1. CASE d \in deletes
      BY ONLY <1>11, <3>1
    <3>2. CASE isUpdate /\ d = [xid |-> x, cid |-> cid[b]]
      BY ONLY <1>6, <1>9, <1>12, <3>2, NoTupleFacts
    <3> QED
      BY ONLY <1>14, <3>1, <3>2, d \in deletes'
  <2> QED
    BY ONLY <1>7, <1>15, <1>16, <2>1 DEF DeleteInv, OneDeleter
<1>20. GrantInv'
  <2>1. \A y \in locks' : y \in locks \/ (y = x /\ ~isUpdate)
    BY ONLY <1>2
  <2>2. /\ locks \subseteq Issued
        /\ \A y \in locks \cap running : y \in tuple.xmax
    BY ONLY <1>4 DEF GrantInv
  <2>3. \A y \in locks' \cap running : t # NoTuple /\ y \in t.xmax
    BY ONLY <1>9, <2>1, <2>2, NoTupleFacts
  <2>4. ASSUME NEW y \in locks' \cap running, NEW d \in deletes', Live(d.xid)
        PROVE  {y, d.xid} \subseteq mine[b] \cup ended[b]
    <3>1. isUpdate /\ d.xid = x
      BY ONLY <1>11, <1>14, d \in deletes', Live(d.xid)
    <3>2. y \in locks \cap running
      BY ONLY <2>1, <3>1, y \in locks' \cap running
    <3> QED
      BY ONLY <1>5, <1>6, <2>2, <3>1, <3>2
  <2>5. locks' \subseteq Issued
    BY ONLY <1>6, <2>1, <2>2
  <2>6. LocksExclude'
    BY ONLY <1>13, <1>15, <2>4, b \in Backend DEF LocksExclude
  <2> QED
    BY ONLY <1>7, <1>13, <1>16, <2>3, <2>5, <2>6 DEF GrantInv
<1>21. OwnInv'
  <2> SUFFICES ASSUME NEW c \in Backend, t.xmin \in mine[c], NEW y \in t.xmax
               PROVE  y \in mine[c] \/ ~Live(y)
    BY <1>7, <1>13, <1>15 DEF OwnInv
  <2>0. c \in Backend /\ t.xmin \in mine[c] /\ y \in t.xmax
    OBVIOUS
  <2>1. CASE y = x
    <3>1. tuple.xmin \notin snap[b].seen
      <4>1. ~DidCommit(tuple.xmin) /\ tuple.xmin \in Xid
        BY ONLY <1>4, <1>9, <2>0, MineFacts DEF DidCommit
      <4> QED
        BY ONLY <1>4, <4>1 DEF SnapInv
    <3>2. tuple.xmin \in mine[b] /\ tuple.xmin \in mine[c]
      BY ONLY <1>5, <1>9, <2>0, <3>1
    <3>3. c = b
      BY ONLY <1>4, <2>0, <3>2, b \in Backend, MineFacts
    <3> QED
      BY ONLY <1>6, <2>1, <3>3
  <2>2. CASE y \in tuple.xmax
    BY ONLY <1>4, <1>5, <1>9, <2>0, <2>2 DEF OwnInv
  <2> QED
    BY ONLY <1>9, <2>0, <2>1, <2>2
<1>22. DOMAIN call' = Backend /\ call'[b] = NoCall /\ \A c \in Backend \ {b} : call'[c] = call[c]
  BY ONLY <1>3, <1>4, b \in Backend DEF CallShape
<1>23. CallMoves(b) /\ call'[b] = NoCall
  <2>1. DOMAIN NoCall = CallFields
    BY DEF NoCall, CallFields
  <2> QED
    BY ONLY <1>22, <2>1 DEF CallMoves
<1>24. \A c \in Backend \ {b} : ~Locked(c)
  <2>1. Exclusive(b)
    BY ONLY <1>1 DEF Exclusive, Asleep
  <2> QED
    BY ONLY IInv, b \in Backend, <2>1 DEF IInv, BufferInv
<1>25. wal' = Append(wal, [type |-> "xmax", new |-> t])
  BY ONLY <1>1, <1>7
<1>26. \A d \in deletes' : /\ d.xid \in Xid /\ ~DidCommit(d.xid)
                           /\ d \in deletes \/ d.xid \in mine[b]
  BY ONLY <1>6, <1>11, <1>12, <1>14
<1>27. deletes \subseteq deletes' /\ "xmax" \in {"insert", "xmax"} /\ "xmax" # "insert"
  BY ONLY <1>2
<1>28. /\ pageLSN' = Len(wal')
       /\ UNCHANGED <<disk, flushed, clog, running, nextXid, mine, ended, cid, snap, crashes, load>>
  BY ONLY <1>1
<1> QED
  BY ONLY IInv, b \in Backend, <1>5, <1>7, <1>9, <1>17, <1>18, <1>19, <1>20, <1>21, <1>23, <1>24, <1>25,
     <1>26, <1>27, <1>28, ChangeStep

-----------------------------------------------------------------------------
(* The log and the page go to disk.                                          *)

LEMMA FlushStep ==
  ASSUME IInv, flushed' \in 0..Len(wal), flushed <= flushed', DiskInv',
         UNCHANGED <<tuple, pageLSN, wal, clog, running, nextXid, mine, ended, cid, snap, call,
                     deletes, locks, crashes, load>>
  PROVE  IInv'
<1>0. /\ XactInv /\ CallShape /\ BufferInv /\ \A c \in Backend : SnapInv(c)
  BY DEF IInv
<1>1. XactInv' /\ \A c \in Backend : SnapInv(c)'
  <2>1. XactInv'
    BY <1>0 DEF XactInv, Snapshot, Cid, Xid, Issued
  <2>2. \A c \in Backend : SnapInv(c)'
    BY <1>0 DEF SnapInv, Settled, DidCommit, Xid
  <2> QED
    BY ONLY <2>1, <2>2
<1>2. Ages /\ Belongs /\ Horizons
  <2>1. nextXid \in 1..(MaxXid + 1) /\ nextXid \in Nat
    BY <1>0, XactFacts
  <2> QED
    BY <2>1 DEF Ages, Live, DidCommit, Belongs, Horizons
<1>3. Extends /\ LogInv' /\ DeletesLogged'
  <2>1. \A x \in Xid : DidCommit(x)' <=> DidCommit(x)
    BY DEF DidCommit
  <2> QED
    BY <1>2, <2>1, ExtendsSame, LogSame
<1>4. TupleInv'
  BY <1>2, <1>3, TupleKept
<1>5. DeleteInv' /\ GrantInv' /\ OwnInv'
  <2>1. HeaderKept
    BY DEF HeaderKept, SameHeader
  <2> QED
    BY <1>2, <2>1, HistoryKept
<1>6. \A c \in Backend : CallInv(c)'
  <2> SUFFICES ASSUME NEW c \in Backend PROVE CallInv(c)'
    OBVIOUS
  <2>1. call[c].fn # "none" => tuple # NoTuple /\ ended[c] = {}
    BY DEF IInv, CallInv, CallType
  <2>2. Rely(c)
    BY <2>1 DEF Rely, SameHeader
  <2> QED
    BY <1>1, <1>2, <2>2, CallKept
<1>7. CallShape' /\ BufferInv'
  BY <1>0 DEF CallShape, BufferInv, Exclusive, Locked, Asleep
<1> QED
  BY <1>1, <1>3, <1>4, <1>5, <1>6, <1>7 DEF IInv

LEMMA FlushWalStep ==
  ASSUME IInv, FlushWal
  PROVE  IInv'
<1>1. /\ flushed' = Len(wal) /\ disk' = disk
      /\ UNCHANGED <<tuple, pageLSN, wal, clog, running, nextXid, mine, ended, cid, snap, call,
                     deletes, locks, crashes, load>>
  BY DEF FlushWal, pageVars, xactVars, hist
<1>2. flushed' \in 0..Len(wal) /\ flushed <= flushed'
  <2>1. PICK n : n = Len(wal)
    OBVIOUS
  <2>2. n \in Nat /\ flushed \in 0..n
    <3>1. wal \in Seq(LogRecord) /\ flushed \in 0..Len(wal)
      BY DEF IInv, LogInv
    <3> QED
      BY <2>1, <3>1
  <2>3. n \in 0..n /\ flushed <= n
    BY <2>2
  <2> QED
    BY <1>1, <2>1, <2>3
<1>3. Ages
  <2>1. nextXid \in 1..(MaxXid + 1) /\ nextXid \in Nat
    BY XactFacts DEF IInv
  <2> QED
    BY <1>1, <2>1 DEF Ages, Live, DidCommit
<1>4. DiskInv'
  BY <1>1, <1>2, <1>3, ExtendsSame, DiskKept
<1> QED
  BY <1>1, <1>2, <1>4, FlushStep

LEMMA FlushPageStep ==
  ASSUME IInv, FlushPage
  PROVE  IInv'
<1>1. /\ disk' = [tuple |-> tuple, lsn |-> pageLSN]
      /\ flushed' = IF pageLSN > flushed THEN pageLSN ELSE flushed
      /\ UNCHANGED <<tuple, pageLSN, wal, clog, running, nextXid, mine, ended, cid, snap, call,
                     deletes, locks, crashes, load>>
  BY DEF FlushPage, pageVars, xactVars, hist
<1>2. /\ TupleInv /\ wal \in Seq(LogRecord) /\ flushed \in 0..Len(wal) /\ pageLSN \in 0..Len(wal)
  BY DEF IInv, LogInv, TupleInv
<1>3. PICK f : f = flushed'
  OBVIOUS
<1>4. /\ f \in 0..Len(wal) /\ flushed <= f /\ pageLSN \in 0..f
  BY <1>1, <1>2, <1>3
<1>5. disk'.tuple = tuple /\ disk'.lsn = pageLSN
  BY <1>1
<1>6. disk' \in [tuple : Tuple \cup {NoTuple}, lsn : 0..f]
  <2>1. tuple \in Tuple \cup {NoTuple}
    BY <1>2 DEF TupleInv, WellFormed
  <2> QED
    BY <1>1, <1>4, <2>1
<1>7. CASE tuple = NoTuple
  <2>1. DiskInv'
    BY <1>2, <1>3, <1>5, <1>6, <1>7 DEF DiskInv, TupleInv
  <2> QED
    BY <1>1, <1>3, <1>4, <2>1, FlushStep
<1>8. CASE tuple # NoTuple
  <2>1. PICK t : t = tuple
    OBVIOUS
  <2>2. /\ WellFormed(t) /\ HintsTrue(t) /\ Backed(t, pageLSN)
        /\ IsChange(pageLSN) /\ SameHeader(wal[pageLSN].new, t) /\ pageLSN # 0
    BY <1>2, <1>8, <2>1 DEF TupleInv
  <2>3. WellFormed(t)' /\ HintsTrue(t)'
    BY <1>1, <2>2 DEF WellFormed, Known, HintsTrue, Live, DidCommit, Issued
  <2>4. Backed(t, 0)'
    <3>1. \A i \in 1..Len(wal) : \A y : Commits(i, y) => Commits(i, y)'
      BY <1>1 DEF Commits
    <3>2. \A i \in 1..Len(wal) : i <= flushed \/ i <= pageLSN => i <= f
      BY <1>2, <1>4
    <3> QED
      BY <1>1, <1>3, <2>2, <3>1, <3>2 DEF Backed
  <2>5. IsChange(pageLSN)' /\ SameHeader(wal[pageLSN].new, t)'
    BY <1>1, <2>2 DEF IsChange, SameHeader
  <2>6. DiskInv'
    BY <1>1, <1>3, <1>5, <1>6, <1>8, <2>1, <2>2, <2>3, <2>4, <2>5
       DEF DiskInv, WellFormed, HintsTrue, Backed, Known, SameHeader, IsChange
  <2> QED
    BY <1>1, <1>3, <1>4, <2>6, FlushStep
<1> QED
  BY <1>7, <1>8

-----------------------------------------------------------------------------
(* A crash: the log up to where it was flushed, and what redo makes of it.    *)

LEMMA LastChangeFacts ==
  ASSUME IInv
  PROVE  /\ LastChange(flushed) \in 0..flushed /\ flushed \in 0..Len(wal) /\ Len(wal) \in Nat
         /\ LastChange(flushed) # 0 => IsChange(LastChange(flushed))
         /\ \A i \in 1..flushed : IsChange(i) => i <= LastChange(flushed)
<1> DEFINE at == {i \in 1..flushed : wal[i].type # "commit"}
<1>1. flushed \in 0..Len(wal) /\ Len(wal) \in Nat
  <2>1. wal \in Seq(LogRecord) /\ flushed \in 0..Len(wal)
    BY DEF IInv, LogInv
  <2> QED
    BY <2>1
<1>2. LastChange(flushed) = IF at = {} THEN 0 ELSE CHOOSE i \in at : \A j \in at : j <= i
  BY Zenon DEF LastChange
<1>3. /\ \A i \in at : i \in 1..flushed /\ IsChange(i)
      /\ \A i \in 1..flushed : IsChange(i) => i \in at
  BY <1>1 DEF IsChange
<1>4. at \subseteq 0..flushed /\ flushed \in Nat
  BY <1>1
<1> HIDE DEF at
<1>5. CASE at = {}
  <2>1. LastChange(flushed) = 0
    BY <1>2, <1>5, Zenon
  <2> QED
    BY <1>1, <1>3, <1>4, <1>5, <2>1
<1>6. CASE at # {}
  <2>1. \E i \in at : \A j \in at : j <= i
    BY <1>4, <1>6, GreatestUpTo
  <2>2. LastChange(flushed) \in at /\ \A j \in at : j <= LastChange(flushed)
    BY <1>2, <1>6, <2>1, Zenon
  <2> QED
    BY <1>1, <1>3, <1>4, <2>2
<1> QED
  BY <1>5, <1>6

\* What redo restores: the header of the last change that was flushed, with
\* hint bits that the flushed log bears out.
LEMMA Redone ==
  ASSUME IInv, NEW t, t = Redo(flushed), NEW n, n = LastChange(flushed)
  PROVE  /\ n = 0 <=> t = NoTuple
         /\ t # NoTuple =>
              /\ t \in Tuple /\ IsChange(n) /\ SameHeader(wal[n].new, t) /\ t.xmin = tuple.xmin
              /\ t.xminHint = "committed" => \E i \in 1..flushed : Commits(i, t.xmin)
              /\ t.xminHint = "invalid" => ~Live(t.xmin)
              /\ t.xmaxCommitted => t.updater # None /\ \E i \in 1..flushed : Commits(i, t.updater)
              /\ t.xmaxInvalid => (t.updater # None => ~Live(t.updater))
<1> DEFINE u == disk.tuple
           hint == IF \E i \in (disk.lsn + 1)..flushed : wal[i].type = "insert" THEN "none"
                   ELSE u.xminHint
<1>1. /\ n \in 0..flushed /\ flushed \in 0..Len(wal) /\ Len(wal) \in Nat
      /\ n # 0 => IsChange(n)
      /\ \A i \in 1..flushed : IsChange(i) => i <= n
  BY LastChangeFacts
<1>2. /\ u \in Tuple \cup {NoTuple} /\ disk.lsn \in 0..flushed
      /\ disk.lsn = 0 <=> u = NoTuple
      /\ u # NoTuple => /\ WellFormed(u) /\ HintsTrue(u) /\ Backed(u, 0)
                        /\ IsChange(disk.lsn) /\ SameHeader(wal[disk.lsn].new, u)
  BY DEF IInv, DiskInv
<1>3. \A i \in 1..Len(wal) : IsChange(i) => ChangeInv(i)
  BY DEF IInv, LogInv
<1>4. /\ n <= disk.lsn => t = u
      /\ ~(n <= disk.lsn) => t = [wal[n].new EXCEPT !["xminHint"] = hint]
  BY Zenon DEF Redo
<1>5. u # NoTuple =>
        /\ u.xmin = tuple.xmin
        /\ u.xminHint = "committed" => \E i \in 1..flushed : Commits(i, u.xmin)
        /\ u.xmaxCommitted => u.updater # None /\ \E i \in 1..flushed : Commits(i, u.updater)
        /\ u.xminHint = "invalid" => ~Live(u.xmin)
        /\ u.xmaxInvalid => (u.updater # None => ~Live(u.updater))
  <2> SUFFICES ASSUME u # NoTuple
               PROVE  /\ u.xmin = tuple.xmin
                      /\ u.xminHint = "committed" => \E i \in 1..flushed : Commits(i, u.xmin)
                      /\ u.xmaxCommitted => u.updater # None /\ \E i \in 1..flushed : Commits(i, u.updater)
                      /\ u.xminHint = "invalid" => ~Live(u.xmin)
                      /\ u.xmaxInvalid => (u.updater # None => ~Live(u.updater))
    OBVIOUS
  <2>1. u.xmin = tuple.xmin
    <3>1. disk.lsn \in 1..Len(wal)
      BY <1>1, <1>2
    <3>2. ChangeInv(disk.lsn) /\ SameHeader(wal[disk.lsn].new, u)
      BY <1>2, <1>3, <3>1
    <3> QED
      BY <3>2 DEF ChangeInv, SameHeader
  <2>2. \A i \in 1..Len(wal) : i <= flushed \/ i <= 0 => i \in 1..flushed
    BY <1>1
  <2>3. /\ u.xminHint = "committed" => \E i \in 1..flushed : Commits(i, u.xmin)
        /\ u.xmaxCommitted => \E i \in 1..flushed : Commits(i, u.updater)
    BY <1>2, <2>2 DEF Backed
  <2> QED
    BY <1>2, <2>1, <2>3 DEF HintsTrue
<1>6. CASE n <= disk.lsn
  <2>1. n = disk.lsn
    <3>1. disk.lsn # 0 => disk.lsn \in 1..flushed /\ IsChange(disk.lsn)
      BY <1>1, <1>2
    <3> QED
      BY <1>1, <1>2, <1>6, <3>1
  <2>2. t = u
    BY <1>4, <1>6
  <2> QED
    BY <1>2, <1>5, <2>1, <2>2
<1>7. CASE ~(n <= disk.lsn)
  <2>1. n \in 1..Len(wal) /\ n # 0 /\ n \in 1..flushed
    BY <1>1, <1>2, <1>7
  <2>2. PICK v : v = wal[n].new
    OBVIOUS
  <2>3. /\ WellFormed(v) /\ v.xmin = tuple.xmin /\ ~v.xmaxCommitted
        /\ v.xmaxInvalid => v.xmax = {} /\ v.updater = None
        /\ \E k \in 1..n : wal[k].type = "insert"
        /\ IsChange(n)
    BY <1>1, <1>3, <2>1, <2>2 DEF ChangeInv
  <2>4. hint = "none" \/ (u # NoTuple /\ hint = u.xminHint)
    <3>1. ASSUME u = NoTuple PROVE hint = "none"
      <4>1. disk.lsn + 1 = 1
        BY <1>2, <3>1
      <4>2. \A k \in 1..n : k \in 1..flushed
        BY <1>1, <2>1
      <4>3. \E i \in (disk.lsn + 1)..flushed : wal[i].type = "insert"
        BY <2>3, <4>1, <4>2
      <4> QED
        BY <4>3
    <3>2. hint = "none" \/ hint = u.xminHint
      OBVIOUS
    <3> QED
      BY <3>1, <3>2
  <2>5. t = [v EXCEPT !["xminHint"] = hint]
    BY <1>4, <1>7, <2>2
  <2>6. hint \in {"none", "committed", "invalid"}
    BY <1>2, <2>4 DEF Tuple
  <2> HIDE DEF hint, u
  <2>7. v \in Tuple
    BY <2>3 DEF WellFormed
  <2>8. /\ t \in Tuple /\ SameHeader(v, t) /\ t.xminHint = hint
        /\ t.xmaxCommitted = v.xmaxCommitted /\ t.xmaxInvalid = v.xmaxInvalid
    BY ONLY <2>5, <2>6, <2>7 DEF Tuple, SameHeader
  <2>9. t # NoTuple
    BY <2>8, NoTupleFacts
  <2>10. t.xmin = tuple.xmin /\ t.updater = v.updater
    BY <2>3, <2>8 DEF SameHeader
  <2> QED
    BY <1>5, <2>1, <2>2, <2>3, <2>4, <2>8, <2>9, <2>10
<1> QED
  BY <1>6, <1>7

LEMMA Shortened ==
  ASSUME NEW S, NEW s \in Seq(S), NEW f \in 0..Len(s), NEW t, t = SubSeq(s, 1, f)
  PROVE  t \in Seq(S) /\ Len(t) = f /\ \A i \in 1..f : t[i] = s[i] /\ i \in 1..Len(s)
  OBVIOUS

LEMMA CrashStep ==
  ASSUME IInv, Crash
  PROVE  IInv'
<1>1. /\ crashes < load.crashes /\ crashes' = crashes + 1
      /\ wal' = SubSeq(wal, 1, flushed) /\ flushed' = flushed
      /\ tuple' = Redo(flushed) /\ pageLSN' = LastChange(flushed)
      /\ disk' = [tuple |-> tuple', lsn |-> pageLSN']
      /\ running' = {} /\ nextXid' = nextXid
      /\ mine' = [b \in Backend |-> {}] /\ ended' = [b \in Backend |-> {}]
      /\ cid' = [b \in Backend |-> 0] /\ snap' = [b \in Backend |-> NoSnap]
      /\ call' = [b \in Backend |-> NoCall]
      /\ UNCHANGED <<deletes, locks, load>>
  BY DEF Crash, hist
<1>2. clog' = [x \in Xid |->
         IF \E i \in 1..flushed : wal[i].type = "commit" /\ x \in wal[i].xids
           THEN "committed" ELSE "in progress"]
  BY DEF Crash
<1>3. XactInv /\ TupleInv /\ LogInv /\ DeletesLogged /\ DeleteInv /\ GrantInv
  BY DEF IInv
<1>4. wal \in Seq(LogRecord) /\ flushed \in 0..Len(wal)
  BY <1>3 DEF LogInv
<1>5. PICK f : f = flushed
  OBVIOUS
<1>6. f \in 0..Len(wal) /\ f \in Nat /\ Len(wal) \in Nat /\ \A i \in 1..f : i \in 1..Len(wal)
  BY <1>4, <1>5
<1>7. PICK w : w = wal'
  OBVIOUS
<1>8. w \in Seq(LogRecord) /\ Len(w) = f /\ \A i \in 1..f : w[i] = wal[i]
  <2>1. w = SubSeq(wal, 1, f)
    BY <1>1, <1>5, <1>7
  <2> HIDE DEF LogRecord
  <2> QED
    BY <1>4, <1>6, <2>1, Shortened
<1>9. \A i \in 1..f : /\ IsChange(i)' <=> IsChange(i)
                      /\ \A x : Commits(i, x)' <=> Commits(i, x)
  <2>1. \A i \in 1..f : i \in 1..Len(wal') /\ wal'[i] = wal[i] /\ i \in 1..Len(wal)
    BY <1>6, <1>7, <1>8
  <2> QED
    BY <2>1, Zenon DEF Commits, IsChange
<1>10. ASSUME NEW x \in Xid
       PROVE  /\ DidCommit(x)' <=> \E i \in 1..f : Commits(i, x)
              /\ DidCommit(x)' => DidCommit(x)
              /\ clog'[x] \in {"in progress", "committed"}
  <2>1. (\E i \in 1..f : Commits(i, x)) <=> \E i \in 1..f : wal[i].type = "commit" /\ x \in wal[i].xids
    BY <1>6 DEF Commits
  <2>2. clog'[x] = IF \E i \in 1..f : wal[i].type = "commit" /\ x \in wal[i].xids
                   THEN "committed" ELSE "in progress"
    BY <1>2, <1>5
  <2>3. (\E i \in 1..f : Commits(i, x)) => DidCommit(x)
    BY <1>3, <1>6 DEF LogInv
  <2> QED
    BY <2>1, <2>2, <2>3 DEF DidCommit
<1>11. \A x \in Xid : /\ Live(x)' <=> \E i \in 1..f : Commits(i, x)
                      /\ Live(x)' => Live(x)
  BY <1>1, <1>10 DEF Live, DidCommit
<1>12. Issued' = Issued /\ Issued \subseteq Xid
  BY <1>1, <1>3, XactFacts DEF Issued
<1>13. XactInv'
  <2>1. clog' \in [Xid -> {"in progress", "committed", "aborted"}]
    BY <1>2
  <2>2. \A x \in Xid : x >= nextXid => clog'[x] = "in progress"
    <3>1. \A x \in Xid : x >= nextXid => ~DidCommit(x)
      BY <1>3 DEF XactInv, DidCommit
    <3> QED
      BY <1>10, <3>1 DEF DidCommit
  <2>3. crashes' \in 0..load.crashes
    <3>1. load.crashes \in 0..MaxCrashes
      BY <1>3, WorkloadBounds
    <3>2. crashes \in 0..load.crashes
      BY <1>3 DEF XactInv
    <3>3. MaxCrashes \in Nat
      BY VisibilityAssumption
    <3> QED
      BY ONLY <1>1, <3>1, <3>2, <3>3
  <2>4. cid' \in [Backend -> Cid] /\ snap' \in [Backend -> Snapshot]
    <3>1. 0 \in Cid
      BY Constants DEF Cid
    <3> QED
      BY <1>1, <3>1, NoSnapFacts
  <2>5. nextXid' \in 1..(MaxXid + 1) /\ load' \in Workloads
    BY <1>1, <1>3 DEF XactInv
  <2>6. \A c \in Backend : mine'[c] = {} /\ ended'[c] = {}
    BY <1>1
  <2>7. mine' \in [Backend -> SUBSET Xid] /\ ended' \in [Backend -> SUBSET Xid]
    BY <1>1
  <2> QED
    BY <1>1, <2>1, <2>2, <2>3, <2>4, <2>5, <2>6, <2>7 DEF XactInv
<1>14. ASSUME NEW c \in Backend PROVE SnapInv(c)'
  <2>1. snap'[c] = NoSnap
    BY <1>1
  <2>2. \A x \in Xid : ~Settled(c, x)'
    BY <2>1, NoSnapFacts, Constants DEF Settled
  <2>3. snap'[c].xmax <= nextXid'
    BY <1>1, <1>3, <2>1, NoSnapFacts, XactFacts
  <2> QED
    BY <2>1, <2>2, <2>3, NoSnapFacts DEF SnapInv
<1>15. PICK t : t = tuple'
  OBVIOUS
<1>16. PICK n : n = pageLSN'
  OBVIOUS
<1>17. /\ n = 0 <=> t = NoTuple
       /\ t # NoTuple =>
            /\ t \in Tuple /\ IsChange(n) /\ SameHeader(wal[n].new, t) /\ t.xmin = tuple.xmin
            /\ t.xminHint = "committed" => \E i \in 1..f : Commits(i, t.xmin)
            /\ t.xminHint = "invalid" => ~Live(t.xmin)
            /\ t.xmaxCommitted => t.updater # None /\ \E i \in 1..f : Commits(i, t.updater)
            /\ t.xmaxInvalid => (t.updater # None => ~Live(t.updater))
  BY ONLY IInv, <1>1, <1>5, <1>15, <1>16, Redone
<1>18. n \in 0..f /\ \A i \in 1..f : IsChange(i) => i <= n
  BY ONLY IInv, <1>1, <1>5, <1>16, LastChangeFacts
<1>19. t # NoTuple => WellFormed(t) /\ n \in 1..f
  <2> SUFFICES ASSUME t # NoTuple PROVE WellFormed(t) /\ n \in 1..f
    OBVIOUS
  <2>1. n \in 1..f /\ n \in 1..Len(wal)
    BY <1>6, <1>17, <1>18
  <2>2. WellFormed(wal[n].new)
    BY <1>3, <1>17, <2>1 DEF LogInv, ChangeInv
  <2> QED
    BY <1>17, <2>1, <2>2, SameHeaderKeeps
<1>20. t # NoTuple =>
         /\ WellFormed(t)' /\ HintsTrue(t)' /\ Backed(t, 0)' /\ Backed(t, n)'
         /\ IsChange(n)' /\ SameHeader(wal[n].new, t)'
  <2> SUFFICES ASSUME t # NoTuple
               PROVE  /\ WellFormed(t)' /\ HintsTrue(t)' /\ Backed(t, 0)' /\ Backed(t, n)'
                      /\ IsChange(n)' /\ SameHeader(wal[n].new, t)'
    OBVIOUS
  <2>1. WellFormed(t)'
    BY <1>1, <1>12, <1>19 DEF WellFormed, Known
  <2>2. t.xmin \in Xid /\ (t.updater # None => t.updater \in Xid)
    BY <1>12, <1>19 DEF WellFormed
  <2>3. HintsTrue(t)'
    BY <1>1, <1>10, <1>11, <1>17, <2>2 DEF HintsTrue
  <2>4. Backed(t, 0)' /\ Backed(t, n)'
    <3>1. \A i \in 1..f : i \in 1..Len(wal') /\ i <= flushed'
      BY <1>1, <1>5, <1>6, <1>7, <1>8
    <3> QED
      BY <1>9, <1>17, <3>1 DEF Backed
  <2>5. IsChange(n)' /\ SameHeader(wal[n].new, t)'
    <3>1. wal'[n] = wal[n]
      BY <1>7, <1>8, <1>19
    <3> QED
      BY <1>9, <1>17, <1>19, <3>1 DEF SameHeader
  <2> QED
    BY <2>1, <2>3, <2>4, <2>5
<1>21. TupleInv'
  <2>1. pageLSN' \in 0..Len(wal')
    BY <1>7, <1>8, <1>16, <1>18
  <2>2. tuple' # NoTuple => /\ WellFormed(tuple)' /\ HintsTrue(tuple)' /\ Backed(tuple, pageLSN)'
                            /\ IsChange(pageLSN)' /\ SameHeader(wal[pageLSN].new, tuple)'
    BY <1>15, <1>16, <1>20
       DEF WellFormed, HintsTrue, Backed, Known, SameHeader, IsChange
  <2> QED
    BY <1>15, <1>16, <1>17, <2>1, <2>2 DEF TupleInv
<1>22. DiskInv'
  <2>1. disk' = [tuple |-> t, lsn |-> n] /\ flushed' = f
    BY <1>1, <1>5, <1>15, <1>16
  <2>2. disk' \in [tuple : Tuple \cup {NoTuple}, lsn : 0..flushed']
    BY <1>17, <1>18, <2>1
  <2>3. disk'.tuple = t /\ disk'.lsn = n
    BY <2>1
  <2>4. disk'.tuple # NoTuple =>
          /\ WellFormed(disk.tuple)' /\ HintsTrue(disk.tuple)' /\ Backed(disk.tuple, 0)'
          /\ IsChange(disk.lsn)' /\ SameHeader(wal[disk.lsn].new, disk.tuple)'
    BY <1>20, <2>3 DEF WellFormed, HintsTrue, Backed, Known, SameHeader, IsChange
  <2> QED
    BY <1>17, <2>2, <2>3, <2>4 DEF DiskInv
<1>23. LogInv'
  <2>1. wal' \in Seq(LogRecord) /\ flushed' \in 0..Len(wal') /\ Len(wal') = f
    BY <1>1, <1>5, <1>6, <1>7, <1>8
  <2>2. \A x \in Xid : DidCommit(x)' <=> \E i \in 1..f : Commits(i, x)'
    BY <1>9, <1>10
  <2>3. ASSUME NEW i \in 1..f, IsChange(i)' PROVE ChangeInv(i)'
    <3>1. IsChange(i) /\ i \in 1..Len(wal)
      BY <1>6, <1>9, <2>3
    <3>2. ChangeInv(i)
      BY <1>3, <3>1 DEF LogInv
    <3>3. wal'[i] = wal[i] /\ \A k \in 1..i : wal'[k] = wal[k]
      <4>1. i \in 1..f /\ \A k \in 1..i : k \in 1..f
        BY <1>6
      <4> QED
        BY <1>7, <1>8, <4>1
    <3>4. i <= pageLSN' /\ n # 0
      BY <1>16, <1>18, <3>1
    <3>5. t # NoTuple /\ t.xmin = tuple.xmin
      BY <1>17, <3>4
    <3>6. PICK v : v = wal[i].new
      OBVIOUS
    <3>7. WellFormed(v)'
      BY <1>1, <1>12, <3>2, <3>6 DEF ChangeInv, WellFormed, Known
    <3>8. WellFormed(wal[i].new)'
      BY <3>3, <3>6, <3>7 DEF WellFormed, Known
    <3>9. wal'[i].new.xmin = tuple'.xmin
      BY <1>15, <3>2, <3>3, <3>5 DEF ChangeInv
    <3> QED
      BY <3>2, <3>3, <3>4, <3>8, <3>9 DEF ChangeInv
  <2>4. (wal \in Seq(LogRecord))'
    BY <2>1 DEF LogRecord, Tuple
  <2> QED
    BY ONLY <2>1, <2>2, <2>3, <2>4 DEF LogInv
<1>24. DeletesLogged'
  <2> SUFFICES ASSUME NEW d \in deletes, NEW i \in 1..f, Commits(i, d.xid)'
               PROVE  \E j \in 1..i : IsChange(j)' /\
                        \A k \in j..f : IsChange(k)' => wal'[k].new.updater = d.xid
    BY <1>1, <1>7, <1>8 DEF DeletesLogged
  <2>1. Commits(i, d.xid) /\ i \in 1..Len(wal)
    BY <1>6, <1>9
  <2>2. PICK j \in 1..i : IsChange(j) /\ \A k \in j..Len(wal) : IsChange(k) => wal[k].new.updater = d.xid
    BY <1>3, <2>1 DEF DeletesLogged
  <2>3. j \in 1..f /\ \A k \in j..f : k \in 1..f /\ k \in j..Len(wal)
    BY <1>6
  <2> QED
    BY <1>7, <1>8, <1>9, <2>2, <2>3
<1>25. DeleteInv'
  <2>1. ASSUME NEW d \in deletes
        PROVE  /\ d \in [xid : Xid, cid : Cid] /\ d.xid \in Issued /\ d.xid \in Xid
               /\ Live(d.xid)' => t # NoTuple /\ t.updater = d.xid
    <3>1. d \in [xid : Xid, cid : Cid] /\ d.xid \in Issued /\ d.xid \in Xid
      BY <1>3, <1>12 DEF DeleteInv
    <3>2. ASSUME Live(d.xid)' PROVE t # NoTuple /\ t.updater = d.xid
      <4>1. PICK i \in 1..f : Commits(i, d.xid)
        BY <1>11, <3>1, <3>2
      <4>2. PICK j \in 1..i : IsChange(j) /\ \A k \in j..Len(wal) : IsChange(k) => wal[k].new.updater = d.xid
        BY <1>3, <1>6, <4>1 DEF DeletesLogged
      <4>3. j \in 1..f
        BY <1>6
      <4>4. n \in j..Len(wal) /\ n # 0
        BY <1>6, <1>18, <4>2, <4>3
      <4>5. t # NoTuple /\ IsChange(n) /\ SameHeader(wal[n].new, t)
        BY <1>17, <4>4
      <4> QED
        BY <4>2, <4>4, <4>5 DEF SameHeader
    <3> QED
      BY <3>1, <3>2
  <2>2. OneDeleter'
    BY <1>1, <1>3, <1>11, <2>1 DEF DeleteInv, OneDeleter
  <2> QED
    BY <1>1, <1>12, <1>15, <2>1, <2>2 DEF DeleteInv
<1>26. GrantInv'
  BY <1>1, <1>3, <1>12 DEF GrantInv, LocksExclude
<1>27. OwnInv'
  BY <1>1 DEF OwnInv
<1>28. \A c \in Backend : call'[c] = NoCall
  BY <1>1
<1>29. CallShape'
  <2>1. DOMAIN NoCall = CallFields
    BY DEF NoCall, CallFields
  <2> QED
    BY <1>1, <1>28, <2>1 DEF CallShape
<1>30. BufferInv' /\ \A c \in Backend : CallInv(c)'
  BY <1>28, IdleCall DEF BufferInv
<1> QED
  BY <1>13, <1>14, <1>21, <1>22, <1>23, <1>24, <1>25, <1>26, <1>27, <1>29, <1>30 DEF IInv

-----------------------------------------------------------------------------
(* The invariant, and what it says of the program.                           *)

LEMMA InitInv ==
  Init => IInv
<1> SUFFICES ASSUME Init PROVE IInv
  OBVIOUS
<1>1. /\ tuple = NoTuple /\ pageLSN = 0 /\ disk = [tuple |-> NoTuple, lsn |-> 0]
      /\ wal = <<>> /\ flushed = 0
      /\ clog = [x \in Xid |-> "in progress"] /\ running = {} /\ nextXid = 1
      /\ mine = [c \in Backend |-> {}] /\ ended = [c \in Backend |-> {}]
      /\ cid = [c \in Backend |-> 0] /\ snap = [c \in Backend |-> NoSnap]
      /\ call = [c \in Backend |-> NoCall]
      /\ deletes = {} /\ locks = {} /\ crashes = 0 /\ load \in Workloads
  BY DEF Init
<1>2. Len(wal) = 0 /\ wal \in Seq(LogRecord) /\ \A i : i \notin 1..Len(wal)
  <2>1. wal = <<>>
    BY <1>1
  <2>2. Len(wal) = 0
    BY ONLY <2>1
  <2>3. wal \in Seq(LogRecord)
    BY ONLY <2>1
  <2> QED
    BY ONLY <2>2, <2>3
<1>3. load.crashes \in Nat
  <2>1. \A l \in Workload : l.crashes \in 0..MaxCrashes
    BY DEF Workload
  <2>2. load \in Workload /\ MaxCrashes \in Nat
    BY <1>1, VisibilityAssumption
  <2> QED
    BY ONLY <2>1, <2>2
<1>4. XactInv
  <2>1. 0 \in Cid /\ 1 \in 1..(MaxXid + 1) /\ 0 \in 0..load.crashes
    BY <1>3, Constants DEF Cid
  <2>2. cid \in [Backend -> Cid] /\ snap \in [Backend -> Snapshot]
    BY <1>1, <2>1, NoSnapFacts
  <2>3. \A c \in Backend : mine[c] = {} /\ ended[c] = {}
    BY <1>1
  <2>4. clog \in [Xid -> {"in progress", "committed", "aborted"}]
        /\ \A x \in Xid : clog[x] = "in progress"
    BY <1>1
  <2> QED
    BY <1>1, <2>1, <2>2, <2>3, <2>4 DEF XactInv
<1>5. ASSUME NEW c \in Backend PROVE SnapInv(c)
  <2>1. snap[c] = NoSnap
    BY <1>1
  <2>2. \A x \in Xid : ~Settled(c, x)
    BY <2>1, NoSnapFacts, Constants DEF Settled
  <2>3. snap[c].xmax <= nextXid
    <3>1. snap[c].xmax = 0 /\ nextXid = 1
      BY <1>1, <2>1, NoSnapFacts, Zenon
    <3> QED
      BY ONLY <3>1
  <2> QED
    BY ONLY <2>1, <2>2, <2>3, NoSnapFacts DEF SnapInv
<1>6. TupleInv
  <2>1. tuple = NoTuple /\ pageLSN = 0
    BY <1>1
  <2> QED
    BY ONLY <1>2, <2>1 DEF TupleInv
<1>7. DiskInv
  <2>1. disk.tuple = NoTuple /\ disk.lsn = 0
    BY <1>1
  <2>2. disk \in [tuple : Tuple \cup {NoTuple}, lsn : 0..flushed]
    <3>1. disk = [tuple |-> NoTuple, lsn |-> 0] /\ flushed = 0
      BY <1>1
    <3> QED
      BY ONLY <3>1
  <2> QED
    BY <2>1, <2>2 DEF DiskInv
<1>8. LogInv /\ DeletesLogged
  <2>1. \A x \in Xid : ~DidCommit(x)
    BY <1>1 DEF DidCommit
  <2>2. flushed = 0
    BY <1>1
  <2>3. LogInv
    BY ONLY <1>2, <2>1, <2>2 DEF LogInv, Commits, IsChange
  <2> QED
    BY ONLY <1>2, <2>3 DEF DeletesLogged, Commits
<1>9. DeleteInv /\ GrantInv /\ OwnInv
  BY <1>1 DEF DeleteInv, OneDeleter, GrantInv, LocksExclude, OwnInv
<1>10. \A c \in Backend : call[c] = NoCall
  BY <1>1
<1>11. CallShape
  <2>1. DOMAIN NoCall = CallFields
    BY DEF NoCall, CallFields
  <2> QED
    BY <1>1, <1>10, <2>1 DEF CallShape
<1>12. ASSUME NEW c \in Backend PROVE CallInv(c) /\ ~Exclusive(c)
  <2>1. /\ call[c].fn = "none" /\ call[c].at = "idle" /\ call[c].op = "none"
        /\ call[c].verdict = "none" /\ call[c].oldestXmin = 0
    BY <1>10 DEF NoCall
  <2> QED
    BY <2>1 DEF CallInv, CallType, UpdateInv, CourseInv, VerdictInv, HorizonInv, SleepInv, Exclusive,
                Asleep
<1> QED
  BY <1>4, <1>5, <1>6, <1>7, <1>8, <1>9, <1>11, <1>12 DEF IInv, BufferInv

LEMMA WorkloadFns ==
  XactInv => load.observe \subseteq {"self", "dirty", "mvcc", "vacuum"}
             /\ load.modify \subseteq {"delete", "lock"}
<1>1. \A w \in Workload : /\ w.observe \subseteq {"self", "dirty", "mvcc", "vacuum"}
                          /\ w.modify \subseteq {"delete", "lock"}
  BY DEF Workload
<1> QED
  BY <1>1, VisibilityAssumption DEF XactInv

LEMMA BackendStep ==
  ASSUME IInv, NEW b \in Backend,
         \/ \E fn \in load.observe : Start(b, fn, "none")
         \/ \E op \in load.modify : StartUpdate(b, op)
  PROVE  IInv'
<1>1. XactInv
  BY DEF IInv
<1>2. CASE \E fn \in load.observe : Start(b, fn, "none")
  <2>1. PICK fn \in load.observe : Start(b, fn, "none")
    BY <1>2
  <2>2. fn \in Fn /\ fn # "update" /\ "none" \in {"none", "delete", "lock"}
    BY <1>1, WorkloadFns DEF Fn
  <2> QED
    BY <2>1, <2>2, StartStep
<1>3. CASE \E op \in load.modify : StartUpdate(b, op)
  <2>1. PICK op \in load.modify : StartUpdate(b, op)
    BY <1>3
  <2>2. op \in {"none", "delete", "lock"} /\ op # "none" /\ "update" \in Fn
    BY <1>1, WorkloadFns DEF Fn
  <2>3. InTransaction(b) /\ snap[b] # NoSnap /\ Sees(b) /\ Start(b, "update", op)
    BY <2>1 DEF StartUpdate
  <2> QED
    BY <2>2, <2>3, StartStep
<1> QED
  BY <1>2, <1>3

LEMMA StutterStep ==
  ASSUME IInv, UNCHANGED vars
  PROVE  IInv'
<1>1. UNCHANGED <<tuple, pageLSN, disk, wal, flushed, clog, running, nextXid, mine, ended, cid, snap, call,
                  deletes, locks, crashes, load>>
  BY DEF vars, pageVars, walVars, xactVars, hist
<1>2. Ages
  <2>1. nextXid \in 1..(MaxXid + 1) /\ nextXid \in Nat
    BY XactFacts DEF IInv
  <2> QED
    BY <1>1, <2>1 DEF Ages, Live, DidCommit
<1>3. flushed' \in 0..Len(wal) /\ flushed <= flushed'
  BY <1>1 DEF IInv, LogInv
<1>4. DiskInv'
  BY <1>1, <1>2, <1>3, ExtendsSame, DiskKept
<1> QED
  BY <1>1, <1>3, <1>4, FlushStep

LEMMA NextInv ==
  IInv /\ [Next]_vars => IInv'
<1> SUFFICES ASSUME IInv, [Next]_vars PROVE IInv'
  OBVIOUS
<1>1. CASE UNCHANGED vars
  BY <1>1, StutterStep
<1>2. CASE FlushWal \/ FlushPage \/ Crash
  BY <1>2, FlushWalStep, FlushPageStep, CrashStep
<1>3. ASSUME NEW b \in Backend,
             \/ AssignXid(b) \/ NextCommand(b) \/ TakeSnapshot(b)
             \/ AbortSub(b) \/ EndInClog(b, TRUE) \/ EndInClog(b, FALSE) \/ EndInProcArray(b)
             \/ Cancel(b)
      PROVE  IInv'
  <2>1. TRUE \in BOOLEAN /\ FALSE \in BOOLEAN
    OBVIOUS
  <2> QED
    BY <1>3, <2>1, AssignXidStep, NextCommandStep, TakeSnapshotStep, AbortSubStep, EndInClogStep,
       EndInProcArrayStep, CancelStep, Zenon
<1>4. ASSUME NEW b \in Backend,
             \/ \E fn \in load.observe : Start(b, fn, "none")
             \/ \E op \in load.modify : StartUpdate(b, op)
             \/ Check(b) \/ Return(b) \/ pg_tde_insert(b) \/ SetXmax(b)
      PROVE  IInv'
  BY <1>4, BackendStep, CheckStep, ReturnStep, InsertStep, SetXmaxStep, Zenon
<1>5. ASSUME NEW b \in Backend,
             \/ DeleteMustWait(b) \/ LockLooksAgain(b) \/ LockWithoutSleep(b) \/ LockMustWait(b)
             \/ AcquireTuplock(b) \/ Wake(b)
      PROVE  IInv'
  BY <1>5, DeleteMustWaitStep, LockLooksAgainStep, LockWithoutSleepStep, LockMustWaitStep,
     AcquireTuplockStep, WakeStep, Zenon
<1> QED
  BY <1>1, <1>2, <1>3, <1>4, <1>5, Zenon DEF Next

\* Headers, transactions, the log, snapshots and calls keep what TypeOK and the
\* properties below rest on, in every step of every backend and in crashes.
THEOREM Invariance == Spec => []IInv
<1>1. Init => IInv
  BY InitInv
<1>2. IInv /\ [Next]_vars => IInv'
  BY NextInv
<1> QED
  BY <1>1, <1>2, PTL DEF Spec

LEMMA TypeFromInv ==
  IInv => TypeOK
<1> SUFFICES ASSUME IInv PROVE TypeOK
  OBVIOUS
<1>1. XactInv /\ TupleInv /\ DiskInv /\ LogInv
  BY DEF IInv
<1>2. tuple # NoTuple => /\ tuple \in Tuple /\ tuple.multi = (Cardinality(tuple.xmax) > 1)
                         /\ tuple.updater \in {None} \cup tuple.xmax
  BY <1>1 DEF TupleInv, WellFormed
<1>3. disk.tuple \in Tuple \cup {NoTuple} /\ disk.lsn \in 0..flushed
  BY <1>1 DEF DiskInv
<1>4. pageLSN \in 0..Len(wal) /\ flushed \in 0..Len(wal)
  BY <1>1 DEF TupleInv, LogInv
<1>5. /\ clog \in [Xid -> {"in progress", "committed", "aborted"}]
      /\ running \subseteq Xid /\ nextXid \in 1..(MaxXid + 1)
      /\ mine \in [Backend -> SUBSET Xid] /\ ended \in [Backend -> SUBSET Xid]
      /\ \A b \in Backend : mine[b] \cup ended[b] \subseteq running
      /\ crashes \in 0..load.crashes /\ load \in Workloads
  BY <1>1, XactFacts DEF XactInv
<1>6. \A b \in Backend : call[b].fn \in Fn \cup {"none"}
        /\ call[b].verdict \in {"none", "visible", "invisible"} \cup TM \cup HTSV
  BY DEF IInv, CallInv, CallType
<1> QED
  BY <1>2, <1>3, <1>4, <1>5, <1>6 DEF TypeOK

\* The header, transactions, log and calls are what the program means them to be;
\* xmax is a multixact exactly when it has several members, one updater at most.
THEOREM TypeCorrect == Spec => []TypeOK
  BY Invariance, TypeFromInv, PTL

LEMMA HintsFromInv ==
  IInv => HintBitsTrue
BY DEF IInv, TupleInv, HintsTrue, HintBitsTrue, DidCommit

\* SetHintBits: no hint bit says what pg_xact will not, however checks interleave
\* with the end of transactions, asynchronous commits and crashes.
THEOREM HintBitsCorrect == Spec => []HintBitsTrue
  BY Invariance, HintsFromInv, PTL

LEMMA HistoryFromInv ==
  IInv => OneDeleter /\ LocksExclude
BY DEF IInv, DeleteInv, GrantInv

\* pg_tde_delete: of all deletions of the tuple, one at most has or may yet
\* become final.
THEOREM OneDeleterCorrect == Spec => []OneDeleter
  BY Invariance, HistoryFromInv, PTL

\* pg_tde_lock_tuple: a row lock keeps others from deleting the tuple until the
\* locker's transaction ends.
THEOREM LocksExcludeCorrect == Spec => []LocksExclude
  BY Invariance, HistoryFromInv, PTL

LEMMA VerdictsFromInv ==
  ASSUME IInv, NEW b \in Backend
  PROVE  /\ call[b].fn = "mvcc" /\ At(b, "done") => ((call[b].verdict = "visible") <=> Sees(b))
         /\ call[b].verdict # "TM_Invisible"
<1>1. CallInv(b)
  BY DEF IInv
<1>2. call[b].verdict # "TM_Invisible"
  BY <1>1 DEF CallInv, CallType, UpdateInv
<1> QED
  BY <1>1, <1>2 DEF CallInv, VerdictInv, At

LEMMA ExactFromInv ==
  IInv => MVCCExact
<1> SUFFICES ASSUME IInv, NEW b \in Backend, call[b].fn = "mvcc" /\ At(b, "done")
             PROVE  (call[b].verdict = "visible") = Sees(b)
  BY DEF MVCCExact
<1>1. (call[b].verdict = "visible") <=> Sees(b)
  BY VerdictsFromInv
<1>2. Sees(b) \in BOOLEAN
  BY Zenon DEF Sees
<1> QED
  BY <1>1, <1>2, Zenon

\* HeapTupleSatisfiesMVCC answers by what was committed at the snapshot.
THEOREM MVCCExactCorrect == Spec => []MVCCExact
  BY Invariance, ExactFromInv, PTL

LEMMA NeverInvisibleFromInv ==
  IInv => NeverInvisible
BY VerdictsFromInv DEF NeverInvisible

\* pg_tde_delete never finds invisible what its statement's snapshot sees.
THEOREM NeverInvisibleCorrect == Spec => []NeverInvisible
  BY Invariance, NeverInvisibleFromInv, PTL

LEMMA DirtyFromInv ==
  IInv => DirtyConclusive
<1> SUFFICES ASSUME IInv, NEW b \in Backend,
                    call[b].fn = "dirty" /\ At(b, "done") /\ call[b].reports = {}
             PROVE  (call[b].verdict = "visible") =
                      (Live(tuple.xmin) /\ ~\E d \in deletes : Live(d.xid))
  BY DEF DirtyConclusive
<1>1. CallInv(b) /\ DeleteInv /\ XactInv
  BY DEF IInv
<1>2. tuple # NoTuple
  BY <1>1 DEF CallInv, CallType
<1>3. IF call[b].verdict = "visible" THEN Lasting(b, tuple.xmin) /\ NotDeleted
      ELSE ~Live(tuple.xmin) \/ (tuple.updater # None /\ Lasting(b, tuple.updater))
  BY <1>1 DEF CallInv, VerdictInv, At
<1>4. \A x : Lasting(b, x) => Live(x)
  <2>1. mine[b] \subseteq running
    BY <1>1, MineFacts
  <2> QED
    BY <2>1 DEF Lasting, Live, DidCommit
<1>5. NotDeleted => \A d \in deletes : ~Live(d.xid)
  BY NobodyDeletes
<1>6. tuple.updater # None => \E d \in deletes : d.xid = tuple.updater
  BY <1>2, HeaderFacts DEF Known
<1>7. (call[b].verdict = "visible") <=> (Live(tuple.xmin) /\ ~\E d \in deletes : Live(d.xid))
  BY <1>3, <1>4, <1>5, <1>6
<1> QED
  BY <1>7, Zenon

\* HeapTupleSatisfiesDirty: an answer that names nobody to wait for is final.
THEOREM DirtyConclusiveCorrect == Spec => []DirtyConclusive
  BY Invariance, DirtyFromInv, PTL

LEMMA DeadFromInv ==
  IInv => DeadIsInvisible
<1> SUFFICES ASSUME IInv, NEW b \in Backend, call[b].fn = "vacuum" /\ call[b].verdict = "DEAD",
                    NEW c \in Backend, snap[c] # NoSnap
             PROVE  ~Sees(c)
  BY DEF DeadIsInvisible
<1>1. CallInv(b) /\ SnapInv(c) /\ XactInv
  BY DEF IInv
<1>2. tuple # NoTuple /\ call[b].at = "done" /\ call[b].oldestXmin \in Nat
  BY <1>1 DEF CallInv, CallType
<1>3. \/ ~Live(tuple.xmin)
      \/ /\ tuple.updater # None /\ DidCommit(tuple.updater)
         /\ tuple.updater < call[b].oldestXmin
  BY <1>1, <1>2 DEF CallInv, VerdictInv
<1>4. /\ tuple.xmin \in Xid
      /\ tuple.updater # None => tuple.updater \in Xid /\ \E d \in deletes : d.xid = tuple.updater
  BY <1>2, HeaderFacts DEF Known
<1>5. CASE ~Live(tuple.xmin)
  <2>1. tuple.xmin \notin snap[c].seen
    BY <1>1, <1>4, <1>5 DEF SnapInv, Live, DidCommit
  <2>2. tuple.xmin \notin mine[c]
    <3>1. mine[c] \subseteq running
      BY <1>1, MineFacts
    <3> QED
      BY <1>5, <3>1 DEF Live
  <2> QED
    BY <2>1, <2>2 DEF Sees
<1>6. CASE tuple.updater # None /\ DidCommit(tuple.updater) /\ tuple.updater < call[b].oldestXmin
  <2>1. PICK d \in deletes : d.xid = tuple.updater
    BY <1>4, <1>6
  <2>2. /\ call[b].oldestXmin <= snap[c].xmax
        /\ \A x \in snap[c].xip : call[b].oldestXmin <= x
    BY <1>1 DEF CallInv, HorizonInv
  <2>3. tuple.updater < snap[c].xmax /\ tuple.updater \in Xid
    <3>1. snap[c].xmax \in Nat /\ tuple.updater \in Nat
      <4>1. snap[c] \in Snapshot
        BY <1>1 DEF XactInv
      <4> QED
        BY <1>4, <1>6, <4>1, Constants DEF Snapshot
    <3> QED
      BY <1>2, <1>4, <1>6, <2>2, <3>1
  <2>4. tuple.updater \notin snap[c].xip
    <3> SUFFICES ASSUME tuple.updater \in snap[c].xip PROVE FALSE
      OBVIOUS
    <3>1. tuple.updater \in Nat /\ call[b].oldestXmin <= tuple.updater
      BY <2>2, <2>3, Constants
    <3> QED
      BY <1>2, <1>6, <3>1
  <2>5. tuple.updater \in snap[c].seen
    BY <1>1, <1>6, <2>3, <2>4 DEF SnapInv, Settled
  <2> QED
    BY <2>1, <2>5 DEF Sees
<1> QED
  BY <1>3, <1>5, <1>6

\* HeapTupleSatisfiesVacuum: what it calls dead no snapshot sees.
THEOREM DeadIsInvisibleCorrect == Spec => []DeadIsInvisible
  BY Invariance, DeadFromInv, PTL

=============================================================================
