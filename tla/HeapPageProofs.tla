---------------------------- MODULE HeapPageProofs ----------------------------
(***************************************************************************)
(* Proofs about HeapPage: type correctness and its five invariants, for any  *)
(* number of readers, keys, transactions, line pointers and tuples.          *)
(*                                                                          *)
(* A page is looked at as a graph: an edge leads from a redirected line       *)
(* pointer to its target, and from a HOT updated tuple to its next version.   *)
(* Edges meet nowhere and ids grow along them, so that each root has a chain  *)
(* and a chain is not longer than the page: this is why the loops of          *)
(* pg_tde_hot_search_buffer and heap_prune_chain end.  Pruning removes from   *)
(* a chain what is Gone, seen by no snapshot that is held or that will be     *)
(* taken (lemma PruneLeaves), and all that the rest of the invariant says is  *)
(* about versions that are not Gone (lemma LeftKeeps).  Writers make one      *)
(* change each, to the old tuple and for the new one (lemma WriteKeeps).      *)
(***************************************************************************)
EXTENDS HeapPage, FiniteSetTheorems, FunctionTheorems, WellFoundedInduction, TLAPS

-----------------------------------------------------------------------------
(* A page and the transactions' states, as parameters: the same for the      *)
(* state before and after a step.                                            *)

Removed(C, t) == t.xmax # None /\ ~t.lockOnly /\ C[t.xmax] # "aborted"
Hot(C, t) == t.hotUpdated /\ Removed(C, t) /\ C[t.xmin] # "aborted"

(* Where a chain goes on: from a redirected line pointer, or from a version   *)
(* that was HOT updated to the next one.                                      *)
Leads(P, C, a, b) ==
  \/ P[a].st = "redirect" /\ P[a].to = b
  \/ /\ Normal(P, a) /\ Normal(P, b) /\ Hot(C, P[a])
     /\ P[a].ctid = b /\ P[a].xmax = P[b].xmin
Edges(P, C) == {e \in Off \X Off : Leads(P, C, e[1], e[2])}

Closed(R, S) == \A e \in R : e[1] \in S => e[2] \in S
From(R, a) == {b \in Off : \A S \in SUBSET Off : a \in S /\ Closed(R, S) => b \in S}

Root(P, o) == o \in Off /\ (P[o].st = "redirect" \/ (P[o].st = "normal" /\ ~P[o].heapOnly))
Chain(P, C, o) == IF Root(P, o) THEN {m \in From(Edges(P, C), o) : Normal(P, m)} ELSE {}

Sees(s, x) == x < s.xmax /\ x \notin s.xip
Shows(C, t, s) ==
  /\ Sees(s, t.xmin) /\ C[t.xmin] = "committed"
  /\ ~(t.xmax # None /\ ~t.lockOnly /\ Sees(s, t.xmax) /\ C[t.xmax] = "committed")

(* No snapshot there is or will be shows the tuple, and nobody may modify it. *)
Gone(C, S, t) ==
  \/ C[t.xmin] = "aborted"
  \/ /\ t.xmax # None /\ ~t.lockOnly /\ C[t.xmax] = "committed"
     /\ \A r \in Reader : S[r] # NoSnap => Sees(S[r], t.xmax)

Version(P, o) == [id |-> P[o].id, key |-> P[o].key]
Current(P, C) == {o \in Off : /\ Normal(P, o) /\ C[P[o].xmin] = "committed"
                              /\ ~(/\ P[o].xmax # None /\ ~P[o].lockOnly
                                   /\ C[P[o].xmax] = "committed")}

-----------------------------------------------------------------------------
(* The inductive invariant.                                                  *)

Snapshot == [xmax : 1..(MaxXid + 1), xip : SUBSET Xid, seen : SUBSET RowVersion,
             leads : [Off -> Nat]]
Vacuum == [phase : {"idle", "skip", "scan", "index", "heap"}, oldest : -Lag..(MaxXid + 1), vm : BOOLEAN,
           dead : SUBSET Off]

Types ==
  /\ lp \in [Off -> Item] /\ pruneXid \in {None} \cup Xid
  /\ full \in BOOLEAN /\ allVisible \in BOOLEAN
  /\ index \subseteq Entry
  /\ clog \in [Xid -> {"none", "running", "committed", "aborted"}] /\ nextXid \in 2..(MaxXid + 1)
  /\ moving \in [Xid -> {None} \cup Off] /\ todo \in [Xid -> Entry \cup {NoTodo}]
  /\ snap \in [Reader -> Snapshot \cup {NoSnap}]
  /\ vac \in Vacuum
  /\ lastId \in MaxOff..(MaxOff + MaxTuples) /\ rows \subseteq RowVersion
  /\ made \in [Xid -> SUBSET RowVersion] /\ gone \in [Xid -> SUBSET RowVersion]

XactInv ==
  \A x \in Xid :
    /\ clog[x] = "none" <=> x >= nextXid
    /\ clog[x] # "running" => moving[x] = None /\ todo[x] = NoTodo /\ made[x] = {} /\ gone[x] = {}

SnapInv ==
  \A r \in Reader : snap[r] # NoSnap =>
    /\ snap[r].xmax <= nextXid
    /\ \A x \in Xid : Sees(snap[r], x) => clog[x] \in {"committed", "aborted"}

IsHorizon(h) ==
  /\ h <= nextXid /\ \A x \in Running : h <= x
  /\ \A r \in Reader : snap[r] # NoSnap => h <= snap[r].xmax /\ \A x \in snap[r].xip : h <= x

(* Headers: xids are of transactions that began, a tuple is removed by those  *)
(* who may see it, and who sees the removal sees the insertion.               *)
TupleInv ==
  \A o \in Off : Normal(lp, o) =>
    LET t == lp[o] IN
    /\ t.id <= lastId /\ clog[t.xmin] # "none"
    /\ t.xmax # None => /\ clog[t.xmax] # "none"
                        /\ t.xmax = t.xmin \/ clog[t.xmin] = "committed"
                        /\ \A r \in Reader : snap[r] # NoSnap /\ ~t.lockOnly /\ Sees(snap[r], t.xmax)
                             /\ clog[t.xmax] = "committed" => Sees(snap[r], t.xmin)
    /\ t.hotUpdated => t.xmax # None /\ ~t.lockOnly
    /\ t.hotUpdated /\ clog[t.xmax] = "running" => <<o, t.ctid>> \in Edges(lp, clog)

IdsUnique == \A o, p \in Off : Normal(lp, o) /\ Normal(lp, p) /\ lp[o].id = lp[p].id => o = p

\* Edges lead to heap-only tuples of the same key, stored later; no two meet.
EdgesFine(P, C) ==
  /\ \A a, b \in Off : <<a, b>> \in Edges(P, C) =>
       /\ Normal(P, b) /\ P[b].heapOnly
       /\ Normal(P, a) => P[a].key = P[b].key /\ P[a].id < P[b].id
  /\ \A a, b, c \in Off : <<a, c>> \in Edges(P, C) /\ <<b, c>> \in Edges(P, C) => a = b

EdgeInv == EdgesFine(lp, clog)

Anchored ==
  \A o \in Off : Normal(lp, o) /\ lp[o].heapOnly /\ clog[lp[o].xmin] # "aborted" =>
    \E a \in Off : <<a, o>> \in Edges(lp, clog)

(* The versions of the transactions that are committed are the rows, and       *)
(* those of running transactions what they have made and removed.             *)
RowsInv ==
  /\ rows = {Version(lp, o) : o \in Current(lp, clog)}
  /\ \A x \in Running :
       /\ made[x] = {Version(lp, o) : o \in {p \in Off : Normal(lp, p) /\ lp[p].xmin = x}}
       /\ gone[x] = {Version(lp, o) : o \in {p \in Off : Normal(lp, p) /\ lp[p].xmax = x
                                                         /\ ~lp[p].lockOnly}}

PendingInv ==
  \A x \in Xid :
    /\ moving[x] # None => todo[x] = NoTodo
    /\ moving[x] # None =>
         LET o == moving[x] IN
         /\ Normal(lp, o) /\ lp[o].xmax = x /\ lp[o].lockOnly
         /\ lp[o].xmin = x \/ clog[lp[o].xmin] = "committed"
    /\ todo[x] # NoTodo =>
         LET o == todo[x].off IN
         Normal(lp, o) /\ lp[o].xmin = x /\ ~lp[o].heapOnly /\ lp[o].key = todo[x].key

(* The index: every entry leads to a root, or to a dead one, of its key; every *)
(* chain that somebody may need has its entry.                                *)
IndexInv ==
  /\ \A e \in index : /\ Root(lp, e.off) \/ lp[e.off] = Dead
                      /\ \A m \in Chain(lp, clog, e.off) : lp[m].key = e.key
  /\ \A o, m \in Off : m \in Chain(lp, clog, o) /\ ~Gone(clog, snap, lp[m]) =>
       LET e == [key |-> lp[m].key, off |-> o] IN
       e \in index \/ (Normal(lp, o) /\ clog[lp[o].xmin] = "running" /\ todo[lp[o].xmin] = e)

(* What a snapshot has seen is what it is shown now.                          *)
SeenInv ==
  \A r \in Reader : snap[r] # NoSnap =>
    /\ snap[r].seen = {Version(lp, o) : o \in {p \in Off : Normal(lp, p) /\ Shows(clog, lp[p], snap[r])}}
    /\ \A o \in Off :
         LET hits == {m \in Chain(lp, clog, o) : Shows(clog, lp[m], snap[r])} IN
         /\ \A m \in hits : lp[m].id = snap[r].leads[o]
         /\ snap[r].leads[o] # None => hits # {}

VacInv ==
  /\ vac.phase # "idle" => IsHorizon(vac.oldest)
  /\ vac.phase \in {"index", "heap"} => vac.dead # {} /\ \A o \in vac.dead : lp[o] = Dead
  /\ vac.phase = "heap" => \A e \in index : e.off \notin vac.dead

AllVisibleInv ==
  allVisible =>
    /\ \A o \in Off : lp[o] # Dead
    /\ \A o \in Off : Normal(lp, o) =>
         /\ clog[lp[o].xmin] = "committed" /\ ~Removed(clog, lp[o])
         /\ \A r \in Reader : snap[r] # NoSnap => Sees(snap[r], lp[o].xmin)

IInv ==
  /\ Types /\ XactInv /\ SnapInv /\ TupleInv /\ IdsUnique /\ EdgeInv /\ Anchored
  /\ RowsInv /\ PendingInv /\ IndexInv /\ SeenInv /\ VacInv /\ AllVisibleInv

-----------------------------------------------------------------------------
(* Numbers.                                                                  *)

\* The constants are numbers.
LEMMA Constants ==
  /\ Lag \in Nat /\ MaxXid \in Nat /\ MaxXid >= 1 /\ MaxOff \in Nat /\ Space \in Nat
  /\ MinFree \in Nat /\ MaxTuples \in Nat /\ 0 \notin Key
  BY HeapPageAssumption

\* Line pointers are numbered from 1; 0 is none of them.
LEMMA OffNumbers ==
  /\ Off \subseteq Nat /\ None \notin Off /\ \A o \in Off : o >= 1 /\ o <= MaxOff
  BY Constants DEF Off, None

\* A set of natural numbers that is not empty has a least one.
LEMMA LeastNatural ==
  ASSUME NEW T, T \subseteq Nat, T # {}
  PROVE  \E x \in T : \A y \in T : x <= y
<1> DEFINE R == OpToRel(<, Nat)
<1>1. IsWellFoundedOn(R, Nat)
  BY NatLessThanWellFounded
<1>2. \A x, y \in Nat : y < x => <<y, x>> \in R
  BY DEF OpToRel
<1> HIDE DEF R
<1>3. PICK x \in T : \A y \in T : ~ (<<y, x>> \in R)
  BY <1>1, WFMin, Zenon
<1>4. \A y \in T : ~(y < x)
  BY <1>2, <1>3, Zenon
<1> QED
  BY <1>4

\* A set of numbers has a least one, and MinOf is it.
LEMMA MinIsLeast ==
  ASSUME NEW S, S \subseteq Nat, S # {}
  PROVE  MinOf(S) \in S /\ \A n \in S : MinOf(S) <= n
<1>1. \E m \in S : \A n \in S : m <= n
  BY LeastNatural
<1> QED
  BY <1>1, Zenon DEF MinOf

\* The page has MaxOff line pointers.
LEMMA OffFinite ==
  /\ IsFiniteSet(Off) /\ Cardinality(Off) = MaxOff
<1>1. 1 \in Int /\ MaxOff \in Int /\ (1 > MaxOff => MaxOff = 0) /\ MaxOff - 1 + 1 = MaxOff
  BY Constants
<1>2. IsFiniteSet(1..MaxOff) /\ Cardinality(1..MaxOff) = IF 1 > MaxOff THEN 0 ELSE MaxOff - 1 + 1
  BY <1>1, FS_Interval
<1> QED
  BY <1>1, <1>2 DEF Off

-----------------------------------------------------------------------------
(* What a set of edges leads to.                                             *)

\* A set that holds the start and what comes next to its members holds all that is
\* reached.
LEMMA FromInduct ==
  ASSUME NEW R, R \subseteq Off \X Off, NEW a \in Off, NEW S, a \in S,
         \A b, c \in Off : <<b, c>> \in R /\ b \in S => c \in S
  PROVE  From(R, a) \subseteq S
<1> DEFINE T == S \cap Off
<1>1. T \in SUBSET Off /\ a \in T
  OBVIOUS
<1>2. ASSUME NEW e \in R, e[1] \in T
      PROVE  e[2] \in T
  <2>1. e = <<e[1], e[2]>> /\ e[1] \in Off /\ e[2] \in Off
    OBVIOUS
  <2> QED
    BY <1>2, <2>1
<1>3. Closed(R, T)
  BY <1>2 DEF Closed
<1> HIDE DEF T
<1>4. From(R, a) \subseteq T
  BY <1>1, <1>3 DEF From
<1> QED
  BY <1>4 DEF T

\* Every place is reached from itself.
LEMMA FromStarts ==
  ASSUME NEW R, NEW a \in Off
  PROVE  a \in From(R, a) /\ From(R, a) \subseteq Off
BY DEF From

\* Who comes next to a place that is reached is reached.
LEMMA FromSteps ==
  ASSUME NEW R, NEW a, NEW b \in From(R, a), NEW c \in Off, <<b, c>> \in R
  PROVE  c \in From(R, a)
<1>1. ASSUME NEW S \in SUBSET Off, a \in S, Closed(R, S)
      PROVE  c \in S
  <2>1. b \in S
    BY <1>1 DEF From
  <2> QED
    BY <1>1, <2>1 DEF Closed
<1> QED
  BY <1>1 DEF From

\* What is reached from a place that is reached is reached.
LEMMA FromTrans ==
  ASSUME NEW R, R \subseteq Off \X Off, NEW a \in Off, NEW b \in From(R, a)
  PROVE  From(R, b) \subseteq From(R, a)
<1>1. b \in Off /\ b \in From(R, a)
  BY DEF From
<1>2. \A c, d \in Off : <<c, d>> \in R /\ c \in From(R, a) => d \in From(R, a)
  BY FromSteps
<1> HIDE DEF From
<1> QED
  BY <1>1, <1>2, FromInduct

\* Who is reached is the start or comes next to somebody who is reached.
LEMMA FromEnds ==
  ASSUME NEW R, R \subseteq Off \X Off, NEW a \in Off, NEW b \in From(R, a)
  PROVE  b = a \/ \E c \in From(R, a) : <<c, b>> \in R
<1> DEFINE S == {d \in From(R, a) : d = a \/ \E c \in From(R, a) : <<c, d>> \in R}
<1>1. a \in S
  BY FromStarts
<1>2. \A c, d \in Off : <<c, d>> \in R /\ c \in S => d \in S
  BY FromSteps
<1> HIDE DEF S
<1>3. From(R, a) \subseteq S
  BY <1>1, <1>2, FromInduct
<1> QED
  BY <1>3 DEF S

\* Of two that are reached, one is reached from the other, if no way forks.
LEMMA FromLine ==
  ASSUME NEW R, R \subseteq Off \X Off, NEW a \in Off,
         \A b, c, d \in Off : <<b, c>> \in R /\ <<b, d>> \in R => c = d,
         NEW m \in From(R, a), NEW n \in From(R, a)
  PROVE  m \in From(R, n) \/ n \in From(R, m)
<1> DEFINE S == {p \in Off : m \in From(R, p) \/ p \in From(R, m)}
<1>0. m \in Off /\ n \in Off
  BY FromStarts
<1>1. a \in S
  OBVIOUS
<1>2. ASSUME NEW c \in Off, NEW d \in Off, <<c, d>> \in R, c \in S
      PROVE  d \in S
  <2>1. CASE c \in From(R, m)
    BY <1>2, <2>1, FromSteps
  <2>2. CASE m \in From(R, c) /\ m # c
    <3> DEFINE T == {q \in Off : q = c \/ q \in From(R, d)}
    <3>1. c \in T
      OBVIOUS
    <3>2. \A b, e \in Off : <<b, e>> \in R /\ b \in T => e \in T
      <4>1. ASSUME NEW b \in Off, NEW e \in Off, <<b, e>> \in R, b \in T
            PROVE  e \in From(R, d)
        <5>1. CASE b = c
          <6>1. e = d
            BY <1>2, <4>1, <5>1
          <6> QED
            BY <6>1, FromStarts
        <5>2. CASE b \in From(R, d)
          BY <4>1, <5>2, FromSteps
        <5> QED
          BY <4>1, <5>1, <5>2
      <4> QED
        BY <4>1
    <3> HIDE DEF T
    <3>3. From(R, c) \subseteq T
      BY <3>1, <3>2, FromInduct
    <3>4. m \in From(R, d)
      BY <2>2, <3>3 DEF T
    <3> QED
      BY <3>4
  <2>3. CASE m = c
    <3>1. m \in From(R, m)
      BY <1>0, FromStarts
    <3>2. d \in From(R, m)
      BY <1>2, <2>3, <3>1, FromSteps
    <3> QED
      BY <3>2
  <2> QED
    BY <1>2, <2>1, <2>2, <2>3
<1> HIDE DEF S
<1>3. From(R, a) \subseteq S
  BY <1>1, <1>2, FromInduct
<1> QED
  BY <1>3 DEF S

\* If no two ways meet, somebody is reached from one place that nothing leads to.
LEMMA FromUnique ==
  ASSUME NEW R, R \subseteq Off \X Off, NEW a \in Off, NEW b \in Off,
         \A c, d, e \in Off : <<c, e>> \in R /\ <<d, e>> \in R => c = d,
         \A c \in Off : <<c, a>> \notin R /\ <<c, b>> \notin R,
         NEW m \in From(R, a), m \in From(R, b)
  PROVE  a = b
<1> DEFINE S == {p \in Off : p \in From(R, b) => a = b}
<1>1. a \in S
  <2>1. ASSUME a \in From(R, b)
        PROVE  a = b
    BY <2>1, FromEnds, FromStarts
  <2> QED
    BY <2>1
<1>2. ASSUME NEW c \in Off, NEW d \in Off, <<c, d>> \in R, c \in S
      PROVE  d \in S
  <2>1. ASSUME d \in From(R, b)
        PROVE  a = b
    <3>1. d # b
      BY <1>2
    <3>2. PICK e \in From(R, b) : <<e, d>> \in R
      BY <2>1, <3>1, FromEnds
    <3>3. e \in Off
      BY FromStarts
    <3>4. e = c
      BY <1>2, <3>2, <3>3
    <3> QED
      BY <1>2, <3>4
  <2> QED
    BY <2>1
<1> HIDE DEF S
<1>3. From(R, a) \subseteq S
  BY <1>1, <1>2, FromInduct
<1> QED
  BY <1>3 DEF S

-----------------------------------------------------------------------------
(* Recursive functions and paths.                                            *)

\* What a step from n - 1 to n says of a function, there is one that it holds of.
IsRecursive(g, V, A, G, b, k) ==
  g \in [b..k -> V] /\ g[b] = A /\ \A n \in (b + 1)..k : g[n] = G[n][g[n - 1]]

\* A function that is defined by its first value and each next one exists.
LEMMA RecursionWorks ==
  ASSUME NEW V, NEW A \in V, NEW G \in [Nat -> [V -> V]], NEW b \in Nat, NEW k \in Nat, b <= k
  PROVE  \E g : IsRecursive(g, V, A, G, b, k)
<1> DEFINE Has(m) == \E g \in [b..m -> V] :
                       g[b] = A /\ \A n \in (b + 1)..m : g[n] = G[n][g[n - 1]]
           T == {m \in Nat : b <= m /\ ~Has(m)}
<1> SUFFICES Has(k)
  BY DEF IsRecursive
<1> SUFFICES ASSUME T # {} PROVE FALSE
  OBVIOUS
<1>1. PICK m \in T : \A i \in T : m <= i
  <2> T \subseteq Nat
    OBVIOUS
  <2> HIDE DEF T
  <2> QED
    BY LeastNatural
<1>2. m \in Nat /\ b <= m /\ ~Has(m)
  OBVIOUS
<1>3. m # b
  <2> DEFINE g == [n \in b..b |-> A]
  <2>1. g \in [b..b -> V] /\ g[b] = A /\ \A n \in (b + 1)..b : FALSE
    OBVIOUS
  <2>2. Has(b)
    BY <2>1
  <2> QED
    BY <1>2, <2>2
<1>4. m - 1 \in Nat /\ b <= m - 1 /\ ~(m <= m - 1)
  BY <1>2, <1>3
<1>5. Has(m - 1)
  BY <1>1, <1>4
<1>6. PICK g \in [b..(m - 1) -> V] :
        g[b] = A /\ \A n \in (b + 1)..(m - 1) : g[n] = G[n][g[n - 1]]
  BY <1>5
<1> DEFINE v == G[m][g[m - 1]]
           h == [n \in b..m |-> IF n = m THEN v ELSE g[n]]
<1>7. v \in V
  BY <1>2, <1>4
<1>8. \A n \in b..m : n # m => n \in b..(m - 1)
  BY <1>2
<1>9. h \in [b..m -> V]
  BY <1>7, <1>8
<1>10. h[b] = A
  BY <1>2, <1>3, <1>6
<1>11. ASSUME NEW n \in (b + 1)..m
       PROVE  h[n] = G[n][h[n - 1]]
  <2>1. n - 1 \in b..m /\ n - 1 # m /\ n - 1 \in b..(m - 1) /\ n \in b..m
    BY <1>2
  <2>2. h[n - 1] = g[n - 1]
    BY <2>1
  <2>3. CASE n = m
    BY <2>1, <2>2, <2>3
  <2>4. CASE n # m
    <3>1. n \in (b + 1)..(m - 1)
      BY <1>2, <2>4
    <3>2. h[n] = g[n]
      BY <2>1, <2>4
    <3> QED
      BY <1>6, <2>2, <3>1, <3>2
  <2> QED
    BY <2>3, <2>4
<1> HIDE DEF h, v
<1>12. Has(m)
  BY <1>9, <1>10, <1>11
<1> QED
  BY <1>2, <1>12

\* Along a path on which a rank grows, it grows from any place to any later one.
LEMMA PathGrows ==
  ASSUME NEW n \in Nat, NEW c, NEW rk, \A i \in 1..n : rk[c[i]] \in Nat,
         \A i \in 1..n : i + 1 <= n => rk[c[i]] < rk[c[i + 1]]
  PROVE  \A i, j \in 1..n : i < j => rk[c[i]] < rk[c[j]]
<1> DEFINE T == {j \in 1..n : \E i \in 1..n : i < j /\ ~(rk[c[i]] < rk[c[j]])}
<1> SUFFICES ASSUME T # {} PROVE FALSE
  OBVIOUS
<1>1. PICK j \in T : \A i \in T : j <= i
  <2> T \subseteq Nat
    OBVIOUS
  <2> HIDE DEF T
  <2> QED
    BY LeastNatural
<1>2. j \in 1..n
  OBVIOUS
<1>3. PICK i \in 1..n : i < j /\ ~(rk[c[i]] < rk[c[j]])
  OBVIOUS
<1>4. j - 1 \in 1..n /\ i <= j - 1 /\ ~(j <= j - 1) /\ (j - 1) + 1 = j
  BY <1>2, <1>3
<1>5. rk[c[j - 1]] < rk[c[j]]
  BY <1>2, <1>4
<1>6. i = j - 1 \/ rk[c[i]] < rk[c[j - 1]]
  BY <1>1, <1>4
<1> HIDE DEF T
<1>7. rk[c[i]] \in Nat /\ rk[c[j]] \in Nat /\ rk[c[j - 1]] \in Nat
  BY <1>2, <1>4
<1> QED
  BY <1>3, <1>5, <1>6, <1>7

\* So no place is visited twice, and the path is not longer than there are places.
LEMMA PathShort ==
  ASSUME NEW n \in Nat, NEW c, \A i \in 1..n : c[i] \in Off, NEW rk, \A i \in 1..n : rk[c[i]] \in Nat,
         \A i \in 1..n : i + 1 <= n => rk[c[i]] < rk[c[i + 1]]
  PROVE  n <= MaxOff /\ \A i, j \in 1..n : c[i] = c[j] => i = j
<1>1. \A i, j \in 1..n : i < j => rk[c[i]] < rk[c[j]]
  BY PathGrows
<1>2. ASSUME NEW i \in 1..n, NEW j \in 1..n, c[i] = c[j]
      PROVE  i = j
  <2>1. i < j \/ j < i \/ i = j
    OBVIOUS
  <2>2. ~(i < j) /\ ~(j < i)
    BY <1>1, <1>2
  <2> QED
    BY <2>1, <2>2
<1>3. n <= MaxOff
  <2> SUFFICES ASSUME ~(n <= MaxOff) PROVE FALSE
    OBVIOUS
  <2> DEFINE f == [i \in 1..n |-> c[i]]
  <2>1. f \in [1..n -> Off]
    OBVIOUS
  <2>2. IsFiniteSet(1..n) /\ Cardinality(1..n) = IF 1 > n THEN 0 ELSE n - 1 + 1
    BY FS_Interval
  <2>3. Cardinality(Off) < Cardinality(1..n) /\ IsFiniteSet(Off)
    BY <2>2, OffFinite, Constants
  <2> HIDE DEF f
  <2>4. \E i, j \in 1..n : i # j /\ f[i] = f[j]
    BY <2>1, <2>2, <2>3, FS_PigeonHole
  <2> QED
    BY <1>2, <2>4 DEF f
<1> QED
  BY <1>2, <1>3

-----------------------------------------------------------------------------
(* Line pointers.                                                            *)

IdSet == 1..(MaxOff + MaxTuples)

\* The kinds of line pointers.
LEMMA ItemKinds ==
  ASSUME NEW t \in Item
  PROVE  /\ t.st \in {"unused", "dead", "redirect", "normal"}
         /\ t.st = "normal" => t \in Tuple
         /\ t.st = "redirect" => t.to \in Off /\ t = Redirect(t.to)
         /\ t.st = "dead" => t = Dead
         /\ t.st = "unused" => t = Unused
<1>1. CASE t \in Tuple
  <2>1. t.st = "normal"
    BY <1>1 DEF Tuple
  <2> QED
    BY <1>1, <2>1
<1>2. CASE t = Unused
  BY <1>2 DEF Unused
<1>3. CASE t = Dead
  BY <1>3 DEF Dead
<1>4. CASE t \in {Redirect(o) : o \in Off}
  <2>1. PICK o \in Off : t = Redirect(o)
    BY <1>4
  <2>2. t.st = "redirect" /\ t.to = o
    BY <2>1 DEF Redirect
  <2> QED
    BY <2>1, <2>2
<1> QED
  BY <1>1, <1>2, <1>3, <1>4 DEF Item

\* The fields of a tuple.
LEMMA TupleFields ==
  ASSUME NEW t \in Tuple
  PROVE  /\ t.st = "normal" /\ t.id \in IdSet /\ t.id \in Nat /\ t.id # None /\ t.key \in Key
         /\ t.xmin \in Xid /\ t.xmin # None /\ t.xmax \in {None} \cup Xid /\ t.lockOnly \in BOOLEAN
         /\ t.ctid \in {None} \cup Off /\ t.heapOnly \in BOOLEAN /\ t.hotUpdated \in BOOLEAN
<1>1. /\ t.st = "normal" /\ t.id \in IdSet /\ t.key \in Key
      /\ t.xmin \in Xid /\ t.xmax \in {None} \cup Xid /\ t.lockOnly \in BOOLEAN
      /\ t.ctid \in {None} \cup Off /\ t.heapOnly \in BOOLEAN /\ t.hotUpdated \in BOOLEAN
  BY DEF Tuple, IdSet
<1>2. \A i \in IdSet : i \in Nat /\ i # None
  BY Constants DEF IdSet, None
<1>3. \A x \in Xid : x # None
  BY DEF Xid, None
<1> QED
  BY <1>1, <1>2, <1>3

\* A normal line pointer leads to a tuple.
LEMMA NormalTuple ==
  ASSUME NEW P \in [Off -> Item], NEW o, Normal(P, o)
  PROVE  o \in Off /\ P[o] \in Tuple
BY ItemKinds DEF Normal

\* Unused, dead and redirected line pointers are line pointers.
LEMMA ItemFacts ==
  /\ Unused \in Item /\ Dead \in Item /\ \A o \in Off : Redirect(o) \in Item
  /\ Unused.st = "unused" /\ Dead.st = "dead"
  /\ \A o : Redirect(o).st = "redirect" /\ Redirect(o).to = o
  /\ Tuple \subseteq Item
BY DEF Item, Unused, Dead, Redirect

-----------------------------------------------------------------------------
(* Chains.                                                                   *)

\* Edges are between line pointers, where one leads to the other.
LEMMA EdgesAre ==
  ASSUME NEW P, NEW C
  PROVE  /\ Edges(P, C) \subseteq Off \X Off
         /\ \A a, b \in Off : <<a, b>> \in Edges(P, C) <=> Leads(P, C, a, b)
BY DEF Edges

\* No line pointer leads to two.
LEMMA OneWay ==
  ASSUME NEW P, NEW C, NEW a \in Off, NEW b \in Off, NEW c \in Off,
         <<a, b>> \in Edges(P, C), <<a, c>> \in Edges(P, C)
  PROVE  b = c
<1>1. Leads(P, C, a, b) /\ Leads(P, C, a, c)
  BY EdgesAre
<1> QED
  BY <1>1 DEF Leads, Normal

\* Ids grow along a chain.
Rank(P) == [o \in Off |-> IF Normal(P, o) THEN P[o].id ELSE 0]

\* Along edges the ids of the tuples grow.
LEMMA RankGrows ==
  ASSUME NEW P \in [Off -> Item], NEW C, EdgesFine(P, C)
  PROVE  /\ \A o \in Off : Rank(P)[o] \in Nat
         /\ \A a, b \in Off : <<a, b>> \in Edges(P, C) => Rank(P)[a] < Rank(P)[b]
<1>1. \A o \in Off : Normal(P, o) => P[o].id \in Nat /\ P[o].id > 0
  <2>1. ASSUME NEW o \in Off, Normal(P, o)
        PROVE  P[o].id \in Nat /\ P[o].id > 0
    <3>1. P[o].id \in IdSet
      BY <2>1, NormalTuple, TupleFields
    <3> QED
      BY <3>1, Constants DEF IdSet
  <2> QED
    BY <2>1
<1>2. \A o \in Off : Rank(P)[o] = IF Normal(P, o) THEN P[o].id ELSE 0
  BY DEF Rank
<1>3. \A a, b \in Off : <<a, b>> \in Edges(P, C) =>
        Normal(P, b) /\ (Normal(P, a) => P[a].id < P[b].id)
  BY DEF EdgesFine
<1> QED
  BY <1>1, <1>2, <1>3

\* Members of a chain after the root are heap-only; the root comes after nobody.
LEMMA RootFirst ==
  ASSUME NEW P, NEW C, EdgesFine(P, C), NEW o, Root(P, o)
  PROVE  o \in Off /\ \A a \in Off : <<a, o>> \notin Edges(P, C)
BY DEF EdgesFine, Root, Normal

\* Who is in a chain: the tuples that are reached from a root.
LEMMA ChainIs ==
  ASSUME NEW P, NEW C, NEW o \in Off
  PROVE  /\ Chain(P, C, o) \subseteq Off
         /\ \A m \in Chain(P, C, o) : Normal(P, m) /\ m \in From(Edges(P, C), o)
         /\ Root(P, o) => \A m \in From(Edges(P, C), o) : Normal(P, m) => m \in Chain(P, C, o)
         /\ Chain(P, C, o) # {} => Root(P, o)
BY FromStarts DEF Chain

\* A tuple is in one chain only.
LEMMA ChainsApart ==
  ASSUME NEW P, NEW C, EdgesFine(P, C), NEW o \in Off, NEW p \in Off, NEW m,
         m \in Chain(P, C, o), m \in Chain(P, C, p)
  PROVE  o = p
<1>1. Root(P, o) /\ Root(P, p) /\ m \in From(Edges(P, C), o) /\ m \in From(Edges(P, C), p)
  BY ChainIs
<1>2. \A a \in Off : <<a, o>> \notin Edges(P, C) /\ <<a, p>> \notin Edges(P, C)
  BY <1>1, RootFirst
<1>3. \A c, d, e \in Off : <<c, e>> \in Edges(P, C) /\ <<d, e>> \in Edges(P, C) => c = d
  BY DEF EdgesFine
<1> QED
  BY <1>1, <1>2, <1>3, EdgesAre, FromUnique

\* All its members have the same key.
LEMMA ChainKey ==
  ASSUME NEW P, NEW C, EdgesFine(P, C), NEW o \in Off, NEW m \in Chain(P, C, o),
         NEW n \in Chain(P, C, o)
  PROVE  P[m].key = P[n].key
<1> DEFINE R == Edges(P, C)
           S(k) == {q \in Off : Normal(P, q) /\ P[q].key = P[k].key}
<1>1. \A k \in Off : Normal(P, k) => From(R, k) \subseteq S(k)
  <2>1. ASSUME NEW k \in Off, Normal(P, k)
        PROVE  From(R, k) \subseteq S(k)
    <3>1. k \in S(k)
      BY <2>1
    <3>2. \A b, c \in Off : <<b, c>> \in R /\ b \in S(k) => c \in S(k)
      BY DEF EdgesFine
    <3>3. R \subseteq Off \X Off
      BY EdgesAre
    <3> HIDE DEF S, R
    <3> QED
      BY <3>1, <3>2, <3>3, FromInduct
  <2> QED
    BY <2>1
<1>2. m \in From(R, o) /\ n \in From(R, o) /\ m \in Off /\ n \in Off /\ Normal(P, m) /\ Normal(P, n)
  BY ChainIs
<1>3. m \in From(R, n) \/ n \in From(R, m)
  <2>1. \A a, b, c \in Off : <<a, b>> \in R /\ <<a, c>> \in R => b = c
    BY OneWay
  <2> HIDE DEF R
  <2>2. R \subseteq Off \X Off
    BY EdgesAre DEF R
  <2> QED
    BY <1>2, <2>1, <2>2, FromLine
<1> QED
  BY <1>1, <1>2, <1>3

-----------------------------------------------------------------------------
(* pg_tde_hot_search_buffer visits the members of the chain.                 *)

\* Where a search may go on.
Onward(a, b) == IsHotUpdated(lp[a]) /\ ChainLink(lp[a].xmax, b) /\ b = lp[a].ctid

\* A search goes on where an edge does (pg_tde_hot_search_buffer: at a tuple that
\* is HeapTupleHeaderIsHotUpdated, to its t_ctid, if xmin there is its xmax).
LEMMA OnwardIsEdge ==
  ASSUME Types, NEW a \in Off, Normal(lp, a), NEW b
  PROVE  Onward(a, b) <=> b \in Off /\ <<a, b>> \in Edges(lp, clog)
<1>1. lp[a] \in Tuple /\ lp[a].st = "normal"
  BY NormalTuple, TupleFields DEF Types
<1>2. IsHotUpdated(lp[a]) <=> Hot(clog, lp[a])
  BY DEF IsHotUpdated, Hot, Deleted, Removed
<1>3. Hot(clog, lp[a]) => lp[a].xmax # None
  BY DEF Hot, Removed
<1>4. b \in Off => (<<a, b>> \in Edges(lp, clog) <=> Leads(lp, clog, a, b))
  BY EdgesAre
<1>5. b \in Off => (Leads(lp, clog, a, b) <=> /\ Normal(lp, b) /\ Hot(clog, lp[a])
                                             /\ lp[a].ctid = b /\ lp[a].xmax = lp[b].xmin)
  BY <1>1 DEF Leads
<1>6. ChainLink(lp[a].xmax, b) => b \in Off
  BY DEF ChainLink, Normal
<1>7. lp[a].xmax # None => (ChainLink(lp[a].xmax, b) <=> Normal(lp, b) /\ lp[a].xmax = lp[b].xmin)
  BY DEF ChainLink
<1> QED
  BY <1>2, <1>3, <1>4, <1>5, <1>6, <1>7 DEF Onward

\* A search that has gone n steps: the path so far, which ends early only where
\* there is no way on.
IsSearch(o, n, c) ==
  /\ c \in Seq(Off) /\ Len(c) \in 1..n /\ c[1] = SearchStart(o)
  /\ \A i \in 1..Len(c) : Normal(lp, c[i])
  /\ \A i \in 1..Len(c) : i + 1 <= Len(c) => <<c[i], c[i + 1]>> \in Edges(lp, clog)
  /\ Len(c) # n => \A b \in Off : <<c[Len(c)], b>> \notin Edges(lp, clog)

NoStart(o) == ~ChainLink(None, SearchStart(o))

SearchMore(n, chain) ==
  LET last == lp[chain[n - 1]] IN
  IF Len(chain) = n - 1 /\ IsHotUpdated(last) /\ ChainLink(last.xmax, last.ctid)
    THEN Append(chain, last.ctid) ELSE chain

\* One more turn of the loop of pg_tde_hot_search_buffer.
LEMMA SearchGoesOn ==
  ASSUME Types, NEW o \in Off, NEW n \in Nat, n >= 2, NEW c, IsSearch(o, n - 1, c)
  PROVE  IsSearch(o, n, SearchMore(n, c))
<1> DEFINE a == c[n - 1]
           b == lp[a].ctid
<1>1. /\ c \in Seq(Off) /\ Len(c) \in 1..(n - 1) /\ c[1] = SearchStart(o)
      /\ \A i \in 1..Len(c) : Normal(lp, c[i]) /\ c[i] \in Off
      /\ \A i \in 1..Len(c) : i + 1 <= Len(c) => <<c[i], c[i + 1]>> \in Edges(lp, clog)
      /\ Len(c) # n - 1 => \A d \in Off : <<c[Len(c)], d>> \notin Edges(lp, clog)
  BY DEF IsSearch, Normal
<1>2. CASE Len(c) # n - 1
  <2>1. SearchMore(n, c) = c
    BY <1>2 DEF SearchMore
  <2>2. Len(c) \in 1..n
    BY <1>1
  <2> QED
    BY <1>1, <1>2, <2>1, <2>2 DEF IsSearch
<1>3. CASE Len(c) = n - 1 /\ ~Onward(a, b)
  <2>1. SearchMore(n, c) = c
    BY <1>3 DEF SearchMore, Onward
  <2>2. Len(c) \in 1..n /\ a = c[Len(c)] /\ a \in Off /\ Normal(lp, a)
    BY <1>1, <1>3
  <2>3. \A d \in Off : <<a, d>> \notin Edges(lp, clog)
    <3>1. ASSUME NEW d \in Off, <<a, d>> \in Edges(lp, clog)
          PROVE  FALSE
      <4>1. Onward(a, d)
        BY <2>2, <3>1, OnwardIsEdge
      <4> QED
        BY <1>3, <4>1 DEF Onward
    <3> QED
      BY <3>1
  <2> HIDE DEF a, b
  <2> QED
    BY <1>1, <2>1, <2>2, <2>3 DEF IsSearch
<1>4. CASE Len(c) = n - 1 /\ Onward(a, b)
  <2>1. a \in Off /\ Normal(lp, a)
    BY <1>1, <1>4
  <2>2. b \in Off /\ <<a, b>> \in Edges(lp, clog)
    BY <1>4, <2>1, OnwardIsEdge
  <2>3. Normal(lp, b)
    BY <1>4 DEF Onward, ChainLink
  <2> DEFINE d == Append(c, b)
  <2>4. SearchMore(n, c) = d
    BY <1>4 DEF SearchMore, Onward
  <2> HIDE DEF b
  <2>5. d \in Seq(Off) /\ Len(d) = n /\ d[n] = b /\ \A i \in 1..(n - 1) : d[i] = c[i]
    BY <1>1, <1>4, <2>2
  <2> HIDE DEF d
  <2>6. d[1] = SearchStart(o)
    BY <1>1, <2>5
  <2>7. \A i \in 1..n : Normal(lp, d[i])
    BY <1>1, <1>4, <2>3, <2>5
  <2>8. ASSUME NEW i \in 1..n, i + 1 <= n
        PROVE  <<d[i], d[i + 1]>> \in Edges(lp, clog)
    <3>1. CASE i = n - 1
      <4>1. n - 1 \in 1..(n - 1) /\ i + 1 = n
        BY <3>1
      <4>2. d[n - 1] = a /\ d[n] = b
        BY ONLY <2>5, <4>1
      <4> QED
        BY <2>2, <3>1, <4>1, <4>2
    <3>2. CASE i # n - 1
      <4>1. i \in 1..(n - 1) /\ i + 1 \in 1..(n - 1)
        BY <2>8, <3>2
      <4> QED
        BY <1>1, <1>4, <2>5, <4>1
    <3> QED
      BY <3>1, <3>2
  <2> QED
    BY <2>4, <2>5, <2>6, <2>7, <2>8 DEF IsSearch
<1> QED
  BY <1>2, <1>3, <1>4

\* The whole loop: it follows the edges from the start of the search to the end.
LEMMA SearchSteps ==
  ASSUME Types, NEW o \in Off
  PROVE  IF NoStart(o) THEN Search(o) = <<>> ELSE IsSearch(o, MaxOff, Search(o))
<1> DEFINE start == SearchStart(o)
           A == IF ChainLink(None, start) THEN <<start>> ELSE <<>>
           G == [n \in Nat |-> [c \in Seq(Off) |->
                   IF SearchMore(n, c) \in Seq(Off) THEN SearchMore(n, c) ELSE c]]
           body(f) == [n \in Off |->
             IF n = 1
               THEN LET start_1 == SearchStart(o) IN IF ChainLink(None, start_1) THEN <<start_1>> ELSE <<>>
               ELSE LET chain == f[n - 1]
                        last == lp[chain[n - 1]] IN
                    IF Len(chain) = n - 1 /\ IsHotUpdated(last) /\ ChainLink(last.xmax, last.ctid)
                      THEN Append(chain, last.ctid) ELSE chain]
           Fine(n, c) == IF NoStart(o) THEN c = <<>> ELSE IsSearch(o, n, c)
<1>1. Search(o) = (CHOOSE f : f = body(f))[MaxOff]
  BY DEF Search
<1>2. \A f : body(f) = [n \in Off |-> IF n = 1 THEN A ELSE SearchMore(n, f[n - 1])]
  BY DEF SearchMore
<1> HIDE DEF body
<1>3. A \in Seq(Off) /\ Fine(1, A)
  <2>1. CASE NoStart(o)
    BY <2>1 DEF NoStart
  <2>2. CASE ~NoStart(o)
    <3>1. start \in Off /\ Normal(lp, start) /\ A = <<start>>
      BY <2>2 DEF NoStart, ChainLink, Normal
    <3> HIDE DEF start, A
    <3>2. A \in Seq(Off) /\ Len(A) = 1 /\ A[1] = start
      BY <3>1
    <3> QED
      BY <2>2, <3>1, <3>2 DEF IsSearch, start
  <2> QED
    BY <2>1, <2>2
<1> HIDE DEF A
<1>4. \A n \in Nat : \A c : n >= 2 /\ Fine(n - 1, c) => Fine(n, SearchMore(n, c)) /\ SearchMore(n, c) \in Seq(Off)
  <2>1. ASSUME NEW n \in Nat, NEW c, n >= 2, Fine(n - 1, c)
        PROVE  Fine(n, SearchMore(n, c)) /\ SearchMore(n, c) \in Seq(Off)
    <3>1. CASE NoStart(o)
      <4>1. c = <<>> /\ Len(c) = 0 /\ <<>> \in Seq(Off)
        BY <2>1, <3>1
      <4>2. SearchMore(n, c) = c
        BY <2>1, <4>1 DEF SearchMore
      <4> QED
        BY <3>1, <4>1, <4>2
    <3>2. CASE ~NoStart(o)
      <4>1. IsSearch(o, n, SearchMore(n, c))
        BY <2>1, <3>2, SearchGoesOn
      <4> QED
        BY <3>2, <4>1 DEF IsSearch
    <3> QED
      BY <3>1, <3>2
  <2> QED
    BY <2>1
<1>5. G \in [Nat -> [Seq(Off) -> Seq(Off)]]
  OBVIOUS
<1>6. \A n \in Nat, c \in Seq(Off) :
        G[n][c] = IF SearchMore(n, c) \in Seq(Off) THEN SearchMore(n, c) ELSE c
  OBVIOUS
<1> HIDE DEF G
<1>7. 1 \in Nat /\ MaxOff \in Nat /\ 1 <= MaxOff /\ Off = 1..MaxOff /\ MaxOff \in Off
  BY Constants, OffNumbers DEF Off
<1>8. PICK g \in [1..MaxOff -> Seq(Off)] :
        g[1] = A /\ \A n \in 2..MaxOff : g[n] = G[n][g[n - 1]]
  <2>1. \E g : IsRecursive(g, Seq(Off), A, G, 1, MaxOff)
    BY <1>3, <1>5, <1>7, RecursionWorks
  <2>2. PICK g : IsRecursive(g, Seq(Off), A, G, 1, MaxOff)
    BY <2>1
  <2>3. g \in [1..MaxOff -> Seq(Off)] /\ g[1] = A
    BY <2>2 DEF IsRecursive
  <2>4. \A n \in (1 + 1)..MaxOff : g[n] = G[n][g[n - 1]]
    BY <2>2, Zenon DEF IsRecursive
  <2>5. (1 + 1)..MaxOff = 2..MaxOff
    OBVIOUS
  <2> QED
    BY <2>3, <2>4, <2>5, Zenon
<1>9. \A n \in 2..MaxOff : n - 1 \in 1..MaxOff /\ g[n - 1] \in Seq(Off)
  BY <1>7
<1>10. \A n \in 1..MaxOff : Fine(n, g[n])
  <2> DEFINE T == {n \in 1..MaxOff : ~Fine(n, g[n])}
  <2> SUFFICES ASSUME T # {} PROVE FALSE
    OBVIOUS
  <2>1. PICK n \in T : \A i \in T : n <= i
    <3>1. T \subseteq Nat
      OBVIOUS
    <3> HIDE DEF T
    <3> QED
      BY <3>1, LeastNatural
  <2>2. n \in 1..MaxOff /\ ~Fine(n, g[n])
    OBVIOUS
  <2>3. n # 1
    BY <1>3, <1>8, <2>2
  <2>4. n \in 2..MaxOff /\ n \in Nat /\ n >= 2 /\ ~(n <= n - 1)
    BY <1>7, <2>2, <2>3
  <2>5. Fine(n - 1, g[n - 1])
    BY <1>9, <2>1, <2>4
  <2>6. g[n] = G[n][g[n - 1]]
    BY <1>8, <2>4
  <2>7. Fine(n, SearchMore(n, g[n - 1])) /\ SearchMore(n, g[n - 1]) \in Seq(Off)
    BY <1>4, <2>4, <2>5
  <2>8. g[n] = SearchMore(n, g[n - 1])
    BY <1>6, <1>9, <2>4, <2>6, <2>7
  <2> QED
    BY <2>2, <2>7, <2>8
<1>11. \A n \in 2..MaxOff : g[n] = SearchMore(n, g[n - 1])
  <2>1. ASSUME NEW n \in 2..MaxOff
        PROVE  g[n] = SearchMore(n, g[n - 1])
    <3>1. SearchMore(n, g[n - 1]) \in Seq(Off)
      BY <1>4, <1>7, <1>9, <1>10
    <3>2. g[n] = G[n][g[n - 1]] /\ n \in Nat
      BY <1>7, <1>8
    <3> QED
      BY <1>6, <1>9, <3>1, <3>2
  <2> QED
    BY <2>1
<1>12. g = body(g)
  <2> DEFINE h == [n \in Off |-> IF n = 1 THEN A ELSE SearchMore(n, g[n - 1])]
  <2>1. DOMAIN g = Off /\ DOMAIN h = Off
    BY <1>7
  <2>2. \A n \in Off : g[n] = h[n]
    BY <1>7, <1>8, <1>11
  <2>3. g = [n \in DOMAIN g |-> g[n]] /\ h = [n \in DOMAIN h |-> h[n]]
    OBVIOUS
  <2>4. g = h
    BY <2>1, <2>2, <2>3
  <2> QED
    BY <1>2, <2>4
<1> DEFINE F == CHOOSE f : f = body(f)
<1>13. F = body(F)
  BY <1>12, Zenon
<1>14. Search(o) = F[MaxOff]
  BY <1>1
<1> HIDE DEF F
<1>15. DOMAIN F = Off /\ F[1] = A /\ \A n \in 2..MaxOff : F[n] = SearchMore(n, F[n - 1])
  <2>1. F = [n \in Off |-> IF n = 1 THEN A ELSE SearchMore(n, F[n - 1])]
    BY <1>2, <1>13
  <2>2. 1 \in Off /\ \A n \in 2..MaxOff : n \in Off /\ n # 1
    BY <1>7
  <2> HIDE DEF Fine
  <2>3. DOMAIN F = Off
    BY ONLY <2>1
  <2>4. \A n \in Off : F[n] = IF n = 1 THEN A ELSE SearchMore(n, F[n - 1])
    BY ONLY <2>1, Zenon
  <2> QED
    BY <2>2, <2>3, <2>4
<1>16. \A n \in 1..MaxOff : Fine(n, F[n])
  <2> DEFINE T == {n \in 1..MaxOff : ~Fine(n, F[n])}
  <2> SUFFICES ASSUME T # {} PROVE FALSE
    OBVIOUS
  <2>1. PICK n \in T : \A i \in T : n <= i
    <3>1. T \subseteq Nat
      OBVIOUS
    <3> HIDE DEF T
    <3> QED
      BY <3>1, LeastNatural
  <2>2. n \in 1..MaxOff /\ ~Fine(n, F[n])
    OBVIOUS
  <2>3. n # 1
    BY <1>3, <1>15, <2>2
  <2>4. n \in 2..MaxOff /\ n \in Nat /\ n >= 2 /\ ~(n <= n - 1) /\ n - 1 \in 1..MaxOff
    BY <1>7, <2>2, <2>3
  <2>5. Fine(n - 1, F[n - 1])
    BY <2>1, <2>4
  <2> QED
    BY <1>4, <1>15, <2>2, <2>4, <2>5
<1> QED
  BY <1>7, <1>14, <1>16

\* A redirected line pointer leads to a tuple.
LEMMA StartIsRoot ==
  ASSUME Types, EdgeInv, NEW o \in Off
  PROVE  /\ NoStart(o) <=> ~Root(lp, o)
         /\ ~NoStart(o) => Normal(lp, SearchStart(o))
         /\ Root(lp, o) /\ Normal(lp, o) => SearchStart(o) = o
         /\ Root(lp, o) /\ ~Normal(lp, o) => <<o, SearchStart(o)>> \in Edges(lp, clog)
<1>1. lp[o] \in Item
  BY DEF Types
<1>2. CASE lp[o].st = "redirect"
  <2>1. lp[o].to \in Off
    BY <1>1, <1>2, ItemKinds
  <2>2. <<o, lp[o].to>> \in Edges(lp, clog)
    BY <1>2, <2>1, EdgesAre DEF Leads
  <2>3. Normal(lp, lp[o].to)
    BY <2>1, <2>2 DEF EdgeInv, EdgesFine
  <2>4. SearchStart(o) = lp[o].to
    BY <1>2 DEF SearchStart
  <2>5. ~Normal(lp, o)
    BY <1>2 DEF Normal
  <2> QED
    BY <1>2, <2>2, <2>3, <2>4, <2>5 DEF NoStart, ChainLink, Root
<1>3. CASE lp[o].st = "normal" /\ ~lp[o].heapOnly
  <2>1. SearchStart(o) = o
    BY <1>3 DEF SearchStart
  <2> QED
    BY <1>3, <2>1 DEF NoStart, ChainLink, Root, Normal
<1>4. CASE lp[o].st # "redirect" /\ ~(lp[o].st = "normal" /\ ~lp[o].heapOnly)
  <2>1. SearchStart(o) = None
    BY <1>4 DEF SearchStart
  <2>2. ~Normal(lp, None)
    BY OffNumbers DEF Normal
  <2> QED
    BY <1>4, <2>1, <2>2 DEF NoStart, ChainLink, Root
<1> QED
  BY <1>2, <1>3, <1>4

\* The search visits the tuples of the chain.
LEMMA SearchIs ==
  ASSUME Types, EdgeInv, NEW o \in Off
  PROVE  Search(o) \in Seq(Off) /\ Range(Search(o)) = Chain(lp, clog, o)
<1> DEFINE R == Edges(lp, clog)
           c == Search(o)
<1>1. CASE NoStart(o)
  <2>1. c = <<>>
    BY <1>1, SearchSteps
  <2>2. ~Root(lp, o)
    BY <1>1, StartIsRoot
  <2>3. Range(c) = {} /\ c \in Seq(Off)
    BY <2>1 DEF Range
  <2> QED
    BY <2>2, <2>3 DEF Chain
<1>2. CASE ~NoStart(o)
  <2>0. IsSearch(o, MaxOff, c)
    BY <1>2, SearchSteps
  <2>1. /\ c \in Seq(Off) /\ Len(c) \in 1..MaxOff /\ c[1] = SearchStart(o)
        /\ \A i \in 1..Len(c) : Normal(lp, c[i]) /\ c[i] \in Off
        /\ \A i \in 1..Len(c) : i + 1 <= Len(c) => <<c[i], c[i + 1]>> \in R
        /\ Len(c) # MaxOff => \A b \in Off : <<c[Len(c)], b>> \notin R
    BY <2>0 DEF IsSearch, Normal
  <2>2. Root(lp, o) /\ R \subseteq Off \X Off
    BY <1>2, StartIsRoot, EdgesAre
  <2>3. Normal(lp, o) => c[1] = o
    BY <2>1, <2>2, StartIsRoot
  <2>4. ~Normal(lp, o) => <<o, c[1]>> \in R
    BY <2>1, <2>2, StartIsRoot
  <2>5. Range(c) = {c[i] : i \in 1..Len(c)}
    BY <2>1 DEF Range
  <2>6. \A a \in Off : Rank(lp)[a] \in Nat
    BY RankGrows DEF Types, EdgeInv
  <2>7. \A a, b \in Off : <<a, b>> \in R => Rank(lp)[a] < Rank(lp)[b]
    BY RankGrows DEF Types, EdgeInv
  <2>8. \A a, b, d \in Off : <<a, b>> \in R /\ <<a, d>> \in R => b = d
    BY OneWay
  <2> HIDE DEF R, c
  <2>9. \A d \in Off : <<c[Len(c)], d>> \notin R
    <3> SUFFICES ASSUME NEW d \in Off, <<c[Len(c)], d>> \in R, Len(c) = MaxOff
                 PROVE  FALSE
      BY <2>1
    <3> DEFINE e == [i \in 1..(MaxOff + 1) |-> IF i = MaxOff + 1 THEN d ELSE c[i]]
               n == MaxOff + 1
    <3>1. n \in Nat /\ ~(n <= MaxOff) /\ 1..n = 1..(MaxOff + 1)
      BY Constants
    <3>2. \A i \in 1..n : e[i] = IF i = n THEN d ELSE c[i]
      OBVIOUS
    <3>3. \A i \in 1..n : i # n => i \in 1..Len(c)
      BY <3>1, Constants
    <3>4. \A i \in 1..n : e[i] \in Off
      BY <2>1, <3>2, <3>3
    <3>5. ASSUME NEW i \in 1..n, i + 1 <= n
          PROVE  <<e[i], e[i + 1]>> \in R
      <4>1. i # n /\ i \in 1..Len(c) /\ e[i] = c[i] /\ i + 1 \in 1..n
        BY <3>1, <3>2, <3>3, <3>5
      <4>2. CASE i + 1 = n
        <5>1. i = Len(c) /\ e[i + 1] = d
          BY <3>1, <3>2, <4>1, <4>2, Constants
        <5> QED
          BY <4>1, <5>1
      <4>3. CASE i + 1 # n
        <5>1. i + 1 \in 1..Len(c) /\ i + 1 <= Len(c) /\ e[i + 1] = c[i + 1]
          BY <3>2, <3>3, <4>1, <4>3
        <5> QED
          BY <2>1, <4>1, <5>1
      <4> QED
        BY <4>2, <4>3
    <3> HIDE DEF e, n
    <3>6. \A i \in 1..n : i + 1 <= n => Rank(lp)[e[i]] < Rank(lp)[e[i + 1]]
      <4>1. \A i \in 1..n : i + 1 <= n => e[i] \in Off /\ e[i + 1] \in Off
        BY <3>1, <3>4
      <4> QED
        BY <2>7, <3>5, <4>1
    <3>7. \A i \in 1..n : Rank(lp)[e[i]] \in Nat
      BY <2>6, <3>4
    <3>8. n <= MaxOff
      BY <3>1, <3>4, <3>6, <3>7, PathShort
    <3> QED
      BY <3>1, <3>8
  <2>10. \A i \in 1..Len(c) : c[i] \in From(R, o)
    <3> DEFINE T == {i \in 1..Len(c) : c[i] \notin From(R, o)}
    <3> SUFFICES ASSUME T # {} PROVE FALSE
      OBVIOUS
    <3>1. PICK i \in T : \A j \in T : i <= j
      <4>1. T \subseteq Nat
        BY <2>1
      <4> HIDE DEF T
      <4> QED
        BY <4>1, LeastNatural
    <3>2. i \in 1..Len(c) /\ c[i] \notin From(R, o)
      OBVIOUS
    <3>3. o \in From(R, o)
      BY FromStarts
    <3>4. c[1] \in From(R, o)
      <4>1. c[1] \in Off
        BY <2>1
      <4> QED
        BY <2>3, <2>4, <3>3, <4>1, FromSteps
    <3>5. i - 1 \in 1..Len(c) /\ (i - 1) + 1 = i /\ ~(i <= i - 1)
      BY <2>1, <3>2, <3>4
    <3>6. c[i - 1] \in From(R, o)
      BY <3>1, <3>5
    <3>7. <<c[i - 1], c[i]>> \in R /\ c[i] \in Off
      BY <2>1, <3>2, <3>5
    <3> QED
      BY <3>2, <3>6, <3>7, FromSteps
  <2>11. From(R, o) \subseteq {o} \cup Range(c)
    <3> DEFINE S == {o} \cup Range(c)
    <3>1. ASSUME NEW a \in Off, NEW b \in Off, <<a, b>> \in R, a \in S
          PROVE  b \in S
      <4>1. CASE a = o /\ ~Normal(lp, o)
        <5>1. b = c[1] /\ 1 \in 1..Len(c)
          BY <2>1, <2>4, <2>8, <3>1, <4>1
        <5> QED
          BY <2>5, <5>1
      <4>2. CASE ~(a = o /\ ~Normal(lp, o))
        <5>1. PICK i \in 1..Len(c) : a = c[i]
          BY <2>1, <2>3, <2>5, <3>1, <4>2
        <5>2. i # Len(c)
          BY <2>9, <3>1, <5>1
        <5>3. i + 1 \in 1..Len(c) /\ i + 1 <= Len(c)
          BY <2>1, <5>2
        <5>4. b = c[i + 1]
          BY <2>1, <2>8, <3>1, <5>1, <5>3
        <5> QED
          BY <2>5, <5>3, <5>4
      <4> QED
        BY <4>1, <4>2
    <3>2. o \in S
      OBVIOUS
    <3> HIDE DEF S
    <3>3. From(R, o) \subseteq S
      BY <2>2, <3>1, <3>2, FromInduct
    <3> QED
      BY <3>3 DEF S
  <2>12. Normal(lp, o) => o \in Range(c)
    BY <2>1, <2>3, <2>5
  <2>13. Chain(lp, clog, o) = {m \in From(R, o) : Normal(lp, m)}
    BY <2>2 DEF Chain, R
  <2> QED
    BY <2>1, <2>5, <2>10, <2>11, <2>12, <2>13 DEF c
<1> QED
  BY <1>1, <1>2

\* The search finds a version that the snapshot sees, if the chain has one.
LEMMA HotSearchFinds ==
  ASSUME Types, EdgeInv, NEW o \in Off, NEW s
  PROVE  \/ /\ HotSearch(o, s) = None
            /\ \A m \in Chain(lp, clog, o) : ~Visible(lp[m], s)
         \/ \E m \in Chain(lp, clog, o) : Visible(lp[m], s) /\ HotSearch(o, s) = lp[m].id
<1> DEFINE chain == Search(o)
           hits == {n \in DOMAIN chain : Visible(lp[chain[n]], s)}
<1>1. chain \in Seq(Off) /\ Chain(lp, clog, o) = {chain[n] : n \in DOMAIN chain}
  BY SearchIs DEF Range
<1>2. HotSearch(o, s) = IF hits = {} THEN None ELSE lp[chain[MinOf(hits)]].id
  BY DEF HotSearch
<1>3. CASE hits = {}
  BY <1>1, <1>2, <1>3
<1>4. CASE hits # {}
  <2>1. hits \subseteq Nat
    BY <1>1
  <2>2. MinOf(hits) \in hits
    BY <1>4, <2>1, MinIsLeast
  <2>3. MinOf(hits) \in DOMAIN chain /\ Visible(lp[chain[MinOf(hits)]], s)
    BY <2>2
  <2>4. HotSearch(o, s) = lp[chain[MinOf(hits)]].id
    BY <1>2, <1>4
  <2> QED
    BY <1>1, <2>3, <2>4
<1> QED
  BY <1>3, <1>4

\* Visibility, in the terms of the proofs.
LEMMA ShownIsVisible ==
  ASSUME NEW t, NEW s
  PROVE  Visible(t, s) <=> Shows(clog, t, s)
BY DEF Visible, Shows, InSnapshot, Sees

-----------------------------------------------------------------------------
(* Horizons.                                                                 *)

\* The fields of a snapshot.
LEMMA SnapFields ==
  ASSUME Types, NEW r \in Reader, snap[r] # NoSnap
  PROVE  /\ snap[r].xmax \in 1..(MaxXid + 1) /\ snap[r].xip \subseteq Xid
         /\ snap[r].seen \subseteq RowVersion /\ snap[r].leads \in [Off -> Nat]
<1>1. snap[r] \in Snapshot
  BY DEF Types
<1> QED
  BY <1>1 DEF Snapshot

\* GetOldestNonRemovableTransactionId computes the greatest horizon.
LEMMA HorizonIs ==
  ASSUME Types
  PROVE  Horizon \in 1..(MaxXid + 1) /\ \A h \in Int : h <= Horizon <=> IsHorizon(h)
<1> DEFINE Act == {q \in Reader : snap[q] # NoSnap}
           Own(r) == snap[r].xip \cup {snap[r].xmax}
           H == Running \cup {nextXid} \cup {MinOf(Own(r)) : r \in Act}
<1>0. MaxXid \in Nat
  BY Constants
<1>1. \A r \in Act : Own(r) \subseteq 1..(MaxXid + 1) /\ Own(r) # {}
  <2>1. ASSUME NEW r \in Act
        PROVE  Own(r) \subseteq 1..(MaxXid + 1) /\ Own(r) # {}
    <3>1. snap[r].xmax \in 1..(MaxXid + 1) /\ snap[r].xip \subseteq 1..MaxXid
      BY SnapFields DEF Xid
    <3> QED
      BY <1>0, <3>1
  <2> QED
    BY <2>1
<1>2. \A r \in Act : MinOf(Own(r)) \in Own(r) /\ \A n \in Own(r) : MinOf(Own(r)) <= n
  <2>1. ASSUME NEW r \in Act
        PROVE  MinOf(Own(r)) \in Own(r) /\ \A n \in Own(r) : MinOf(Own(r)) <= n
    <3>1. Own(r) \subseteq Nat /\ Own(r) # {}
      BY <1>1
    <3> HIDE DEF Own
    <3> QED
      BY <3>1, MinIsLeast
  <2> QED
    BY <2>1
<1>3. Running \subseteq 1..(MaxXid + 1) /\ nextXid \in 1..(MaxXid + 1)
  BY <1>0 DEF Types, Running, Xid
<1>4. H \subseteq 1..(MaxXid + 1) /\ H # {}
  BY <1>1, <1>2, <1>3
<1>5. Horizon = MinOf(H)
  BY DEF Horizon
<1>6. MinOf(H) \in H /\ \A n \in H : MinOf(H) <= n
  <2>1. H \subseteq Nat /\ H # {}
    BY <1>4
  <2> HIDE DEF H
  <2> QED
    BY <2>1, MinIsLeast
<1>7. Horizon \in 1..(MaxXid + 1) /\ Horizon \in H /\ \A n \in H : Horizon <= n
  BY <1>4, <1>5, <1>6
<1>8. ASSUME NEW h \in Int
      PROVE  h <= Horizon <=> \A n \in H : h <= n
  <2>1. \A n \in H : n \in Int
    BY <1>4
  <2> HIDE DEF H
  <2> QED
    BY <1>7, <2>1
<1>9. ASSUME NEW h \in Int
      PROVE  (\A n \in H : h <= n) <=> IsHorizon(h)
  <2>2. ASSUME NEW r \in Act
        PROVE  h <= MinOf(Own(r)) <=> \A n \in Own(r) : h <= n
    <3>1. Own(r) \subseteq 1..(MaxXid + 1) /\ MinOf(Own(r)) \in Own(r) /\ \A n \in Own(r) : MinOf(Own(r)) <= n
      BY <1>1, <1>2
    <3> HIDE DEF Own
    <3>2. \A n \in Own(r) : n \in Int
      BY <1>0, <3>1
    <3>3. \A n \in Own(r) : h <= MinOf(Own(r)) => h <= n
      BY <3>1, <3>2
    <3> QED
      BY <3>1, <3>3
  <2>3. (\A n \in H : h <= n) <=> /\ h <= nextXid /\ \A x \in Running : h <= x
                                  /\ \A r \in Act : h <= MinOf(Own(r))
    OBVIOUS
  <2>4. \A r \in Act : (\A n \in Own(r) : h <= n) <=> h <= snap[r].xmax /\ \A x \in snap[r].xip : h <= x
    OBVIOUS
  <2> HIDE DEF H, Own
  <2> QED
    BY <2>2, <2>3, <2>4 DEF IsHorizon
<1> HIDE DEF H
<1> QED
  BY <1>7, <1>8, <1>9

\* HeapTupleSatisfiesVacuum, in the terms of the proofs.
LEMMA HTSVIs ==
  ASSUME NEW t, NEW h
  PROVE  HTSV(t, h) = IF clog[t.xmin] = "aborted" THEN "DEAD"
                      ELSE IF clog[t.xmin] = "running" THEN "INSERT_IN_PROGRESS"
                      ELSE IF ~Removed(clog, t) THEN "LIVE"
                      ELSE IF clog[t.xmax] = "running" THEN "DELETE_IN_PROGRESS"
                      ELSE IF t.xmax < h THEN "DEAD" ELSE "RECENTLY_DEAD"
BY DEF HTSV, Deleted, Removed

\* What a vacuum with a horizon takes for dead, nobody sees any more.
LEMMA DeadIsGone ==
  ASSUME Types, XactInv, NEW h \in Int, IsHorizon(h), NEW t \in Tuple, HTSV(t, h) = "DEAD"
  PROVE  Gone(clog, snap, t)
<1>1. t.xmin \in Xid /\ t.xmax \in {None} \cup Xid
  BY TupleFields
<1>2. CASE clog[t.xmin] = "aborted"
  BY <1>2 DEF Gone
<1>3. CASE clog[t.xmin] # "aborted"
  <2>1. /\ t.xmax # None /\ ~t.lockOnly /\ clog[t.xmax] # "aborted" /\ clog[t.xmax] # "running"
        /\ t.xmax < h
    BY <1>3, HTSVIs DEF Removed
  <2>2. t.xmax \in Xid /\ t.xmax \in Nat /\ nextXid \in Nat
    BY <1>1, <2>1 DEF Xid, Types
  <2>3. t.xmax < nextXid
    BY <2>1, <2>2 DEF IsHorizon
  <2>4. clog[t.xmax] = "committed"
    <3>1. clog[t.xmax] # "none"
      BY <2>2, <2>3 DEF XactInv
    <3>2. clog[t.xmax] \in {"none", "running", "committed", "aborted"}
      BY <2>2 DEF Types
    <3> QED
      BY <2>1, <3>1, <3>2
  <2>5. ASSUME NEW r \in Reader, snap[r] # NoSnap
        PROVE  Sees(snap[r], t.xmax)
    <3>1. h <= snap[r].xmax /\ \A x \in snap[r].xip : h <= x
      BY <2>5 DEF IsHorizon
    <3>2. snap[r].xmax \in Nat
      BY <2>5, SnapFields
    <3> QED
      BY <2>1, <2>2, <3>1, <3>2 DEF Sees
  <2> QED
    BY <2>1, <2>4, <2>5 DEF Gone
<1> QED
  BY <1>2, <1>3

\* Who is dead for a horizon is dead for a later one.
LEMMA DeadLater ==
  ASSUME Types, NEW h1 \in Int, NEW h2 \in Int, h1 <= h2, NEW t \in Tuple, HTSV(t, h1) = "DEAD"
  PROVE  HTSV(t, h2) = "DEAD"
<1>1. t.xmax \in {None} \cup Xid
  BY TupleFields
<1>2. t.xmax \in Int
  BY <1>1 DEF None, Xid
<1>3. t.xmax < h1 => t.xmax < h2
  BY <1>2
<1> QED
  BY <1>3, HTSVIs

\* The states of the tuples, as pruning finds them out.
IsView(v) ==
  \A o \in Off :
    IF Normal(lp, o)
      THEN \E h \in Int : IsHorizon(h) /\ v[o] = HTSV(lp[o], h)
      ELSE v[o] = "none"

\* What heap_prune_satisfies_vacuum says while the horizon moves on is a view: each
\* tuple is judged by some horizon.
LEMMA SeenIsView ==
  ASSUME Types, NEW h1 \in Int, IsHorizon(h1), NEW h2 \in Int, IsHorizon(h2), NEW k
  PROVE  IsView(Seen(h1, h2, k))
<1>1. ASSUME NEW o \in Off
      PROVE  Seen(h1, h2, k)[o] = IF Normal(lp, o) THEN HTSV(lp[o], IF o > k THEN h1 ELSE h2) ELSE "none"
  BY DEF Seen
<1> QED
  BY <1>1 DEF IsView

\* What a view tells of a tuple.
LEMMA ViewFacts ==
  ASSUME Types, XactInv, NEW v, IsView(v), NEW o \in Off
  PROVE  /\ v[o] = "DEAD" => Normal(lp, o) /\ Gone(clog, snap, lp[o])
         /\ v[o] \in SoonDead => lp[o].xmax \in Xid
         /\ ~Normal(lp, o) => v[o] = "none"
         /\ Normal(lp, o) /\ clog[lp[o].xmin] = "committed" /\ ~Removed(clog, lp[o]) => v[o] = "LIVE"
         /\ /\ Normal(lp, o) /\ clog[lp[o].xmin] = "committed"
            /\ Removed(clog, lp[o]) /\ clog[lp[o].xmax] = "committed"
            => v[o] \in {"DEAD", "RECENTLY_DEAD"}
<1>1. CASE Normal(lp, o)
  <2>1. PICK h \in Int : IsHorizon(h) /\ v[o] = HTSV(lp[o], h)
    BY <1>1 DEF IsView
  <2>2. lp[o] \in Tuple
    BY <1>1, NormalTuple DEF Types
  <2>3. v[o] = "DEAD" => Gone(clog, snap, lp[o])
    BY <2>1, <2>2, DeadIsGone
  <2>4. v[o] \in SoonDead => lp[o].xmax \in Xid
    <3>1. v[o] \in SoonDead => lp[o].xmax # None
      BY <2>1, HTSVIs DEF SoonDead, Removed
    <3> QED
      BY <2>2, <3>1, TupleFields
  <2>5. clog[lp[o].xmin] = "committed" /\ ~Removed(clog, lp[o]) => v[o] = "LIVE"
    BY <2>1, HTSVIs
  <2>6. /\ clog[lp[o].xmin] = "committed" /\ Removed(clog, lp[o]) /\ clog[lp[o].xmax] = "committed"
        => v[o] \in {"DEAD", "RECENTLY_DEAD"}
    BY <2>1, HTSVIs
  <2> QED
    BY <1>1, <2>3, <2>4, <2>5, <2>6
<1>2. CASE ~Normal(lp, o)
  <2>1. v[o] = "none"
    BY <1>2 DEF IsView
  <2> QED
    BY <1>2, <2>1 DEF SoonDead
<1> QED
  BY <1>1, <1>2

\* If nobody sees a version any more, nobody sees the ones before it in the chain.
LEMMA GoneBefore ==
  ASSUME Types, TupleInv, NEW a \in Off, NEW b \in Off, <<a, b>> \in Edges(lp, clog),
         Normal(lp, a), Gone(clog, snap, lp[b])
  PROVE  Gone(clog, snap, lp[a])
<1>1. Leads(lp, clog, a, b)
  BY EdgesAre
<1>2. /\ Normal(lp, b) /\ Hot(clog, lp[a]) /\ lp[a].xmax = lp[b].xmin
  BY <1>1 DEF Leads, Normal
<1>3. lp[a].xmax # None /\ ~lp[a].lockOnly /\ clog[lp[b].xmin] # "aborted"
  BY <1>2 DEF Hot, Removed
<1>4. /\ lp[b].xmax # None /\ ~lp[b].lockOnly /\ clog[lp[b].xmax] = "committed"
      /\ \A r \in Reader : snap[r] # NoSnap => Sees(snap[r], lp[b].xmax)
  BY <1>3 DEF Gone
<1>5. /\ lp[b].xmax = lp[b].xmin \/ clog[lp[b].xmin] = "committed"
      /\ \A r \in Reader : snap[r] # NoSnap /\ ~lp[b].lockOnly /\ Sees(snap[r], lp[b].xmax)
                             /\ clog[lp[b].xmax] = "committed" => Sees(snap[r], lp[b].xmin)
  BY <1>2, <1>4 DEF TupleInv
<1> QED
  BY <1>2, <1>3, <1>4, <1>5 DEF Gone

\* Every version but those of aborted transactions is in the chain of a root.
LEMMA HasRoot ==
  ASSUME NEW P \in [Off -> Item], NEW C, EdgesFine(P, C),
         \A o \in Off : Normal(P, o) /\ P[o].heapOnly /\ C[P[o].xmin] # "aborted" =>
           \E a \in Off : <<a, o>> \in Edges(P, C),
         NEW m \in Off, Normal(P, m), C[P[m].xmin] # "aborted"
  PROVE  \E o \in Off : m \in Chain(P, C, o)
<1> DEFINE R == Edges(P, C)
           Bad(n) == Normal(P, n) /\ C[P[n].xmin] # "aborted" /\ ~\E o \in Off : n \in Chain(P, C, o)
           T == {i \in Nat : \E n \in Off : Bad(n) /\ Rank(P)[n] = i}
<1> SUFFICES ASSUME Bad(m) PROVE FALSE
  OBVIOUS
<1>1. \A o \in Off : Rank(P)[o] \in Nat
  BY RankGrows
<1>2. T # {}
  BY <1>1
<1>3. PICK i \in T : \A j \in T : i <= j
  <2>1. T \subseteq Nat
    OBVIOUS
  <2> HIDE DEF T
  <2> QED
    BY <1>2, <2>1, LeastNatural
<1>4. PICK n \in Off : Bad(n) /\ Rank(P)[n] = i
  OBVIOUS
<1>5. P[n].heapOnly
  <2> SUFFICES ASSUME ~P[n].heapOnly PROVE FALSE
    OBVIOUS
  <2>1. Root(P, n)
    BY <1>4 DEF Root, Normal
  <2>2. n \in From(R, n)
    BY FromStarts
  <2>3. n \in Chain(P, C, n)
    BY <1>4, <2>1, <2>2, ChainIs
  <2> QED
    BY <1>4, <2>3
<1>6. PICK a \in Off : <<a, n>> \in R
  BY <1>4, <1>5
<1>7. Leads(P, C, a, n)
  BY <1>6, EdgesAre
<1>8. CASE P[a].st = "redirect"
  <2>1. Root(P, a)
    BY <1>8 DEF Root
  <2>2. n \in From(R, a)
    BY <1>6, FromStarts, FromSteps
  <2>3. n \in Chain(P, C, a)
    BY <1>4, <2>1, <2>2, ChainIs
  <2> QED
    BY <1>4, <2>3
<1>9. CASE P[a].st # "redirect"
  <2>1. Normal(P, a) /\ C[P[a].xmin] # "aborted"
    BY <1>7, <1>9 DEF Leads, Hot
  <2>2. Rank(P)[a] < Rank(P)[n]
    BY <1>6, RankGrows
  <2>3. ~Bad(a)
    <3>1. Bad(a) => Rank(P)[a] \in T
      BY <1>1
    <3> HIDE DEF T, Bad
    <3> QED
      BY <1>1, <1>3, <1>4, <2>2, <3>1
  <2>4. PICK o \in Off : a \in Chain(P, C, o)
    BY <2>1, <2>3
  <2>5. Root(P, o) /\ a \in From(R, o)
    BY <2>4, ChainIs
  <2>6. n \in From(R, o)
    BY <1>6, <2>5, FromSteps
  <2>7. n \in Chain(P, C, o)
    BY <1>4, <2>5, <2>6, ChainIs
  <2> QED
    BY <1>4, <2>7
<1> QED
  BY <1>8, <1>9

-----------------------------------------------------------------------------
(* heap_prune_chain follows a chain.                                         *)

Walk == [chainitems : Seq(Off), offnum : {None} \cup Off, priorXmax : {None} \cup Xid,
         latestdead : {None} \cup Off, prunable : SUBSET Xid, more : BOOLEAN]

GoesOn(v, o) == v[o] \in {"DEAD", "RECENTLY_DEAD"} /\ IsHotUpdated(lp[o])

\* A walk from r that has gone n steps.  Marks are the line pointers marked before.
IsWalk(v, marks, r, n, w) ==
  LET c == w.chainitems
      e == c[Len(c)] IN
  /\ w \in Walk
  /\ Len(c) <= n /\ (n >= 1 => Len(c) >= 1 /\ c[1] = r)
  /\ n = 0 => w.more /\ w.offnum = r /\ w.priorXmax = None /\ w.latestdead = None
  /\ \A i \in 1..Len(c) : c[i] \in Off \ marks /\ (i >= 2 => Normal(lp, c[i]))
  /\ \A i \in 1..Len(c) : i + 1 <= Len(c) => <<c[i], c[i + 1]>> \in Edges(lp, clog)
  /\ w.latestdead = None => \A i \in 1..Len(c) : v[c[i]] # "DEAD"
  /\ w.latestdead # None =>
       \E k \in 1..Len(c) : /\ c[k] = w.latestdead /\ v[c[k]] = "DEAD"
                            /\ \A i \in 1..Len(c) : i > k => v[c[i]] # "DEAD"
  /\ w.more => Len(c) = n
  /\ n >= 1 /\ w.more =>
       IF lp[e].st = "redirect" THEN w.offnum = lp[e].to /\ w.priorXmax = None
       ELSE w.offnum = lp[e].ctid /\ w.priorXmax = lp[e].xmax /\ GoesOn(v, e)
  /\ n >= 1 /\ ~w.more =>
       \/ Normal(lp, e) /\ ~GoesOn(v, e)
       \/ \A b \in Off : <<e, b>> \in Edges(lp, clog) => b \in marks

(* The three turns of the loop.                                              *)
Stopped(w) == [w EXCEPT !.more = FALSE]
AtRedirect(w) == [w EXCEPT !.chainitems = <<w.offnum>>, !.offnum = lp[w.offnum].to]
AtTuple(v, w) ==
  LET o == w.offnum IN
  [chainitems |-> Append(w.chainitems, o),
   offnum |-> lp[o].ctid, priorXmax |-> lp[o].xmax,
   latestdead |-> IF v[o] = "DEAD" THEN o ELSE w.latestdead,
   prunable |-> w.prunable \cup IF v[o] \in SoonDead THEN {lp[o].xmax} ELSE {},
   more |-> v[o] \in {"DEAD", "RECENTLY_DEAD"} /\ IsHotUpdated(lp[o])]

\* One turn of the loop of heap_prune_chain, as an alternative of three.
LEMMA FollowIs ==
  ASSUME NEW p, NEW v, NEW w
  PROVE  FollowChain(p, v, w) =
           IF w.offnum \notin Off \ Marked(p) THEN Stopped(w)
           ELSE IF lp[w.offnum].st = "redirect" /\ w.chainitems = <<>> THEN AtRedirect(w)
           ELSE IF lp[w.offnum].st = "normal" /\ (w.priorXmax # None => lp[w.offnum].xmin = w.priorXmax)
             THEN AtTuple(v, w)
           ELSE Stopped(w)
BY Zenon DEF FollowChain, Stopped, AtRedirect, AtTuple

\* A walk that stops keeps what it has found.
LEMMA StoppedFields ==
  ASSUME NEW w \in Walk
  PROVE  /\ Stopped(w) \in Walk /\ Stopped(w).more = FALSE
         /\ Stopped(w).chainitems = w.chainitems /\ Stopped(w).latestdead = w.latestdead
<1>1. Stopped(w) = [w EXCEPT !["more"] = FALSE]
  BY Zenon DEF Stopped
<1> QED
  BY ONLY <1>1, w \in Walk DEF Walk

\* A walk that begins at a redirected line pointer.
LEMMA RedirectFields ==
  ASSUME NEW w \in Walk, w.offnum \in Off, lp[w.offnum].to \in Off
  PROVE  /\ AtRedirect(w) \in Walk /\ AtRedirect(w).more = w.more
         /\ AtRedirect(w).chainitems = <<w.offnum>> /\ AtRedirect(w).latestdead = w.latestdead
         /\ AtRedirect(w).offnum = lp[w.offnum].to /\ AtRedirect(w).priorXmax = w.priorXmax
<1> DEFINE a == <<w.offnum>>
           b == lp[w.offnum].to
<1>1. AtRedirect(w) = [[w EXCEPT !["chainitems"] = a] EXCEPT !["offnum"] = b]
  BY Zenon DEF AtRedirect
<1>2. a \in Seq(Off) /\ b \in Off
  OBVIOUS
<1> HIDE DEF a, b
<1>3. /\ AtRedirect(w) \in Walk /\ AtRedirect(w).more = w.more
      /\ AtRedirect(w).chainitems = a /\ AtRedirect(w).latestdead = w.latestdead
      /\ AtRedirect(w).offnum = b /\ AtRedirect(w).priorXmax = w.priorXmax
  BY ONLY <1>1, <1>2, w \in Walk DEF Walk
<1> QED
  BY <1>3 DEF a, b

\* The walk may stop where there is nothing more to follow.
LEMMA StopFine ==
  ASSUME NEW v, NEW marks, NEW r, NEW n \in Nat, n >= 1, NEW w, IsWalk(v, marks, r, n - 1, w),
         n - 1 >= 1, w.more, w.offnum \notin Off \ marks \/ ~ChainLink(w.priorXmax, w.offnum),
         Types, EdgeInv
  PROVE  IsWalk(v, marks, r, n, Stopped(w))
<1> DEFINE c == w.chainitems
           e == c[Len(c)]
<1>1. /\ w \in Walk /\ c \in Seq(Off) /\ Len(c) = n - 1 /\ c[1] = r
      /\ \A i \in 1..Len(c) : c[i] \in Off \ marks /\ (i >= 2 => Normal(lp, c[i]))
      /\ \A i \in 1..Len(c) : i + 1 <= Len(c) => <<c[i], c[i + 1]>> \in Edges(lp, clog)
      /\ w.latestdead = None => \A i \in 1..Len(c) : v[c[i]] # "DEAD"
      /\ w.latestdead # None =>
           \E k \in 1..Len(c) : /\ c[k] = w.latestdead /\ v[c[k]] = "DEAD"
                                /\ \A i \in 1..Len(c) : i > k => v[c[i]] # "DEAD"
  BY DEF IsWalk, Walk
<1>2. IF lp[e].st = "redirect" THEN w.offnum = lp[e].to /\ w.priorXmax = None
      ELSE w.offnum = lp[e].ctid /\ w.priorXmax = lp[e].xmax /\ GoesOn(v, e)
  BY DEF IsWalk
<1>3. e \in Off
  BY <1>1
<1>4. ASSUME NEW b \in Off, <<e, b>> \in Edges(lp, clog)
      PROVE  b \in marks
  <2>1. Leads(lp, clog, e, b)
    BY <1>3, <1>4, EdgesAre
  <2>2. CASE lp[e].st = "redirect"
    <3>1. b = w.offnum /\ w.priorXmax = None
      BY <1>2, <2>1, <2>2 DEF Leads, Normal
    <3>2. Normal(lp, b)
      BY <1>3, <1>4 DEF EdgeInv, EdgesFine
    <3> QED
      BY <3>1, <3>2 DEF ChainLink
  <2>3. CASE lp[e].st # "redirect"
    <3>1. b = w.offnum /\ Normal(lp, b) /\ lp[b].xmin = w.priorXmax
      BY <1>2, <2>1, <2>3 DEF Leads
    <3> QED
      BY <3>1 DEF ChainLink
  <2> QED
    BY <2>2, <2>3
<1>5. /\ Stopped(w) \in Walk /\ Stopped(w).more = FALSE
      /\ Stopped(w).chainitems = c /\ Stopped(w).latestdead = w.latestdead
  BY <1>1, StoppedFields
<1> DEFINE u == Stopped(w)
<1>6. u \in Walk /\ ~u.more /\ u.chainitems = c /\ u.latestdead = w.latestdead
  BY <1>5
<1> HIDE DEF u, c
<1>7. IsWalk(v, marks, r, n, u)
  BY <1>1, <1>4, <1>6 DEF IsWalk
<1> QED
  BY <1>7 DEF u

\* At its start the walk looks at the root.
LEMMA RootFine ==
  ASSUME Types, XactInv, NEW v, IsView(v), NEW marks, NEW r, Root(lp, r), r \notin marks,
         NEW w, IsWalk(v, marks, r, 0, w)
  PROVE  /\ lp[r].st = "redirect" => IsWalk(v, marks, r, 1, AtRedirect(w))
         /\ lp[r].st = "normal" => IsWalk(v, marks, r, 1, AtTuple(v, w))
         /\ w.offnum = r /\ w.priorXmax = None /\ w.chainitems = <<>>
<1>1. /\ w \in Walk /\ w.chainitems \in Seq(Off) /\ Len(w.chainitems) <= 0 /\ w.more
      /\ w.offnum = r /\ w.priorXmax = None /\ w.latestdead = None
  BY DEF IsWalk, Walk
<1>2. w.chainitems = <<>> /\ r \in Off /\ lp[r] \in Item
  BY <1>1 DEF Root, Types
<1>3. ASSUME lp[r].st = "redirect"
      PROVE  IsWalk(v, marks, r, 1, AtRedirect(w))
  <2>1. lp[r].to \in Off
    BY <1>2, <1>3, ItemKinds
  <2> DEFINE u == AtRedirect(w)
  <2>2. /\ u \in Walk /\ u.more /\ u.chainitems = <<r>> /\ u.latestdead = None
        /\ u.offnum = lp[r].to /\ u.priorXmax = None
    BY <1>1, <1>2, <2>1, RedirectFields
  <2>3. v[r] # "DEAD"
    BY <1>2, <1>3, ViewFacts DEF Normal
  <2> HIDE DEF u
  <2>4. u.chainitems \in Seq(Off) /\ Len(u.chainitems) = 1 /\ u.chainitems[1] = r
    BY <1>2, <2>2
  <2>5. IsWalk(v, marks, r, 1, u)
    BY <1>2, <1>3, <2>2, <2>3, <2>4 DEF IsWalk
  <2> QED
    BY <2>5 DEF u
<1>4. ASSUME lp[r].st = "normal"
      PROVE  IsWalk(v, marks, r, 1, AtTuple(v, w))
  <2> DEFINE u == AtTuple(v, w)
  <2>1. lp[r] \in Tuple
    BY <1>2, <1>4, ItemKinds
  <2>2. Append(w.chainitems, r) = <<r>> /\ <<r>> \in Seq(Off)
    BY <1>2
  <2>3. v[r] \in SoonDead => lp[r].xmax \in Xid
    BY <1>2, ViewFacts
  <2>4. w.prunable \subseteq Xid
    BY <1>1 DEF Walk
  <2>5. u = [chainitems |-> <<r>>, offnum |-> lp[r].ctid, priorXmax |-> lp[r].xmax,
             latestdead |-> IF v[r] = "DEAD" THEN r ELSE None,
             prunable |-> w.prunable \cup IF v[r] \in SoonDead THEN {lp[r].xmax} ELSE {},
             more |-> v[r] \in {"DEAD", "RECENTLY_DEAD"} /\ IsHotUpdated(lp[r])]
    BY <1>1, <2>2 DEF AtTuple
  <2>6. IsHotUpdated(lp[r]) \in BOOLEAN
    BY DEF IsHotUpdated
  <2>7. lp[r].ctid \in {None} \cup Off /\ lp[r].xmax \in {None} \cup Xid
    BY <2>1, TupleFields
  <2>8. /\ u \in Walk
        /\ u.chainitems = <<r>> /\ u.offnum = lp[r].ctid /\ u.priorXmax = lp[r].xmax
        /\ u.latestdead = IF v[r] = "DEAD" THEN r ELSE None
        /\ u.more = (v[r] \in {"DEAD", "RECENTLY_DEAD"} /\ IsHotUpdated(lp[r]))
    BY <1>2, <2>2, <2>3, <2>4, <2>5, <2>6, <2>7 DEF Walk
  <2>9. r # None
    BY <1>2, OffNumbers
  <2> HIDE DEF u
  <2>10. u.chainitems \in Seq(Off) /\ Len(u.chainitems) = 1 /\ u.chainitems[1] = r
    BY <2>2, <2>8
  <2>11. u.more <=> GoesOn(v, r)
    BY <2>8 DEF GoesOn
  <2>12. Normal(lp, r) /\ lp[r].st # "redirect"
    BY <1>2, <1>4 DEF Normal
  <2>13. u.latestdead # None => v[r] = "DEAD" /\ u.latestdead = r
    BY <2>8
  <2>14. u.latestdead = None => v[r] # "DEAD"
    BY <2>8, <2>9
  <2>15. IsWalk(v, marks, r, 1, u)
    BY <1>2, <2>8, <2>10, <2>11, <2>12, <2>13, <2>14 DEF IsWalk
  <2> QED
    BY <2>15 DEF u
<1> QED
  BY <1>1, <1>2, <1>3, <1>4

\* Then it goes on along the edges.
LEMMA StepFine ==
  ASSUME Types, XactInv, EdgeInv, NEW v, IsView(v), NEW marks, NEW r, NEW n \in Nat, n >= 2,
         NEW w, IsWalk(v, marks, r, n - 1, w), w.more, w.offnum \in Off \ marks,
         ChainLink(w.priorXmax, w.offnum)
  PROVE  IsWalk(v, marks, r, n, AtTuple(v, w))
<1> DEFINE c == w.chainitems
           e == c[Len(c)]
           o == w.offnum
           u == AtTuple(v, w)
           d == Append(c, o)
<1>1. /\ w \in Walk /\ c \in Seq(Off) /\ Len(c) = n - 1 /\ c[1] = r
      /\ \A i \in 1..Len(c) : c[i] \in Off \ marks /\ (i >= 2 => Normal(lp, c[i]))
      /\ \A i \in 1..Len(c) : i + 1 <= Len(c) => <<c[i], c[i + 1]>> \in Edges(lp, clog)
      /\ w.latestdead = None => \A i \in 1..Len(c) : v[c[i]] # "DEAD"
      /\ w.latestdead # None =>
           \E k \in 1..Len(c) : /\ c[k] = w.latestdead /\ v[c[k]] = "DEAD"
                                /\ \A i \in 1..Len(c) : i > k => v[c[i]] # "DEAD"
  BY DEF IsWalk, Walk
<1>2. IF lp[e].st = "redirect" THEN w.offnum = lp[e].to /\ w.priorXmax = None
      ELSE w.offnum = lp[e].ctid /\ w.priorXmax = lp[e].xmax /\ GoesOn(v, e)
  BY DEF IsWalk
<1>3. e \in Off /\ o \in Off /\ Normal(lp, o)
  BY <1>1 DEF ChainLink
<1>4. <<e, o>> \in Edges(lp, clog)
  <2>1. CASE lp[e].st = "redirect"
    BY <1>2, <1>3, <2>1, EdgesAre DEF Leads
  <2>2. CASE lp[e].st # "redirect"
    <3>1. v[e] \in {"DEAD", "RECENTLY_DEAD"} /\ IsHotUpdated(lp[e]) /\ o = lp[e].ctid
      BY <1>2, <2>2 DEF GoesOn
    <3>2. Normal(lp, e)
      BY <1>3, <3>1 DEF IsView
    <3>3. Onward(e, o)
      BY <1>2, <2>2, <3>1 DEF Onward
    <3> QED
      BY <1>3, <3>2, <3>3, OnwardIsEdge
  <2> QED
    BY <2>1, <2>2
<1>5. lp[o] \in Tuple
  BY <1>3, NormalTuple DEF Types
<1>6. d \in Seq(Off) /\ Len(d) = n /\ d[n] = o /\ \A i \in 1..(n - 1) : d[i] = c[i]
  BY <1>1, <1>3
<1>7. v[o] \in SoonDead => lp[o].xmax \in Xid
  BY <1>3, ViewFacts
<1>8. w.prunable \subseteq Xid /\ w.latestdead \in {None} \cup Off
  BY <1>1 DEF Walk
<1>9. IsHotUpdated(lp[o]) \in BOOLEAN
  BY DEF IsHotUpdated
<1>10. lp[o].ctid \in {None} \cup Off /\ lp[o].xmax \in {None} \cup Xid
  BY <1>5, TupleFields
<1>11. u = [chainitems |-> d, offnum |-> lp[o].ctid, priorXmax |-> lp[o].xmax,
            latestdead |-> IF v[o] = "DEAD" THEN o ELSE w.latestdead,
            prunable |-> w.prunable \cup IF v[o] \in SoonDead THEN {lp[o].xmax} ELSE {},
            more |-> v[o] \in {"DEAD", "RECENTLY_DEAD"} /\ IsHotUpdated(lp[o])]
  BY Zenon DEF AtTuple
<1> HIDE DEF u, d, o
<1>12. /\ u \in Walk
       /\ u.chainitems = d /\ u.offnum = lp[o].ctid /\ u.priorXmax = lp[o].xmax
       /\ u.latestdead = IF v[o] = "DEAD" THEN o ELSE w.latestdead
       /\ u.more = (v[o] \in {"DEAD", "RECENTLY_DEAD"} /\ IsHotUpdated(lp[o]))
  BY <1>3, <1>6, <1>7, <1>8, <1>9, <1>10, <1>11 DEF Walk
<1>13. o # None
  BY <1>3, OffNumbers
<1>14. u.more <=> GoesOn(v, o)
  BY <1>12 DEF GoesOn
<1>15. n - 1 \in 1..n /\ 1 \in 1..(n - 1) /\ n \in 1..n
  OBVIOUS
<1>16. d[1] = r
  BY <1>1, <1>6, <1>15
<1>17. \A i \in 1..n : d[i] \in Off \ marks /\ (i >= 2 => Normal(lp, d[i]))
  <2>1. ASSUME NEW i \in 1..n
        PROVE  d[i] \in Off \ marks /\ (i >= 2 => Normal(lp, d[i]))
    <3>1. CASE i = n
      BY <1>3, <1>6, <3>1 DEF o
    <3>2. CASE i # n
      <4>1. i \in 1..(n - 1)
        BY <3>2
      <4> QED
        BY <1>1, <1>6, <4>1
    <3> QED
      BY <3>1, <3>2
  <2> QED
    BY <2>1
<1>18. \A i \in 1..n : i + 1 <= n => <<d[i], d[i + 1]>> \in Edges(lp, clog)
  <2>1. ASSUME NEW i \in 1..n, i + 1 <= n
        PROVE  <<d[i], d[i + 1]>> \in Edges(lp, clog)
    <3>1. CASE i + 1 = n
      <4>1. i \in 1..(n - 1) /\ i = Len(c)
        BY <1>1, <3>1
      <4> QED
        BY <1>4, <1>6, <3>1, <4>1
    <3>2. CASE i + 1 # n
      <4>1. i \in 1..(n - 1) /\ i + 1 \in 1..(n - 1) /\ i + 1 <= n - 1
        BY <2>1, <3>2
      <4> QED
        BY <1>1, <1>6, <4>1
    <3> QED
      BY <3>1, <3>2
  <2> QED
    BY <2>1
<1>19. u.latestdead = None => \A i \in 1..n : v[d[i]] # "DEAD"
  <2>1. ASSUME u.latestdead = None, NEW i \in 1..n
        PROVE  v[d[i]] # "DEAD"
    <3>1. v[o] # "DEAD" /\ w.latestdead = None
      BY <1>12, <1>13, <2>1
    <3>2. CASE i = n
      BY <1>6, <3>1, <3>2
    <3>3. CASE i # n
      <4>1. i \in 1..(n - 1)
        BY <3>3
      <4> QED
        BY <1>1, <1>6, <3>1, <4>1
    <3> QED
      BY <3>2, <3>3
  <2> QED
    BY <2>1
<1>20. ASSUME u.latestdead # None
       PROVE  \E k \in 1..n : /\ d[k] = u.latestdead /\ v[d[k]] = "DEAD"
                              /\ \A i \in 1..n : i > k => v[d[i]] # "DEAD"
  <2>1. CASE v[o] = "DEAD"
    BY <1>6, <1>12, <1>15, <2>1
  <2>2. CASE v[o] # "DEAD"
    <3>1. w.latestdead = u.latestdead /\ w.latestdead # None
      BY <1>12, <1>20, <2>2
    <3>2. PICK k \in 1..(n - 1) : /\ c[k] = w.latestdead /\ v[c[k]] = "DEAD"
                                  /\ \A i \in 1..(n - 1) : i > k => v[c[i]] # "DEAD"
      BY <1>1, <3>1
    <3>3. ASSUME NEW i \in 1..n, i > k
          PROVE  v[d[i]] # "DEAD"
      <4>1. CASE i = n
        BY <1>6, <2>2, <4>1
      <4>2. CASE i # n
        <5>1. i \in 1..(n - 1)
          BY <4>2
        <5> QED
          BY <1>6, <3>2, <3>3, <5>1
      <4> QED
        BY <4>1, <4>2
    <3>4. k \in 1..n /\ d[k] = c[k]
      BY <1>6
    <3> QED
      BY <3>1, <3>2, <3>3, <3>4
  <2> QED
    BY <2>1, <2>2
<1>21. lp[o].st # "redirect" /\ Normal(lp, o)
  BY <1>3 DEF Normal, o
<1>22. IsWalk(v, marks, r, n, u)
  <2> HIDE DEF c, e
  <2>1. u.chainitems = d /\ Len(d) = n /\ d[n] = o /\ n >= 1 /\ n # 0
    BY <1>6, <1>12
  <2>2. u.more => ~(lp[o].st = "redirect") /\ u.offnum = lp[o].ctid /\ u.priorXmax = lp[o].xmax /\ GoesOn(v, o)
    BY <1>12, <1>14, <1>21
  <2>3. ~u.more => Normal(lp, o) /\ ~GoesOn(v, o)
    BY <1>14, <1>21
  <2> QED
    BY <1>12, <1>16, <1>17, <1>18, <1>19, <1>20, <2>1, <2>2, <2>3 DEF IsWalk
<1> QED
  BY <1>22 DEF u

WalkMore(p, v, w) == IF w.more THEN FollowChain(p, v, w) ELSE w

\* One more turn of the loop of heap_prune_chain keeps what a walk is.
LEMMA WalkGoesOn ==
  ASSUME Types, XactInv, EdgeInv, NEW p, NEW v, IsView(v), NEW r, Root(lp, r), r \notin Marked(p),
         NEW n \in Nat, n >= 1, NEW w, IsWalk(v, Marked(p), r, n - 1, w)
  PROVE  IsWalk(v, Marked(p), r, n, WalkMore(p, v, w)) /\ WalkMore(p, v, w) \in Walk
<1> DEFINE marks == Marked(p)
           u == WalkMore(p, v, w)
<1>0. w \in Walk /\ w.offnum \in {None} \cup Off
  BY DEF IsWalk, Walk
<1>1. CASE n = 1
  <2>1. r \in Off /\ r \notin marks /\ lp[r].st \in {"redirect", "normal"}
    BY DEF Root
  <2>2. IsWalk(v, marks, r, 0, w)
    BY <1>1
  <2>3. w.more
    BY <2>2 DEF IsWalk
  <2> HIDE DEF marks
  <2>4. /\ lp[r].st = "redirect" => IsWalk(v, marks, r, 1, AtRedirect(w))
        /\ lp[r].st = "normal" => IsWalk(v, marks, r, 1, AtTuple(v, w))
        /\ w.offnum = r /\ w.priorXmax = None /\ w.chainitems = <<>>
    BY <2>1, <2>2, RootFine
  <2>5. u = IF lp[r].st = "redirect" THEN AtRedirect(w) ELSE AtTuple(v, w)
    BY <2>1, <2>3, <2>4, FollowIs DEF WalkMore, marks
  <2>6. IsWalk(v, marks, r, 1, u)
    BY <2>1, <2>4, <2>5
  <2>7. u \in Walk
    BY <2>6 DEF IsWalk
  <2> QED
    BY <1>1, <2>6, <2>7 DEF marks
<1>2. CASE n # 1 /\ w.more
  <2>1. n >= 2 /\ n - 1 >= 1
    BY <1>2
  <2>2. w.chainitems # <<>>
    <3>1. Len(w.chainitems) >= 1
      BY <2>1 DEF IsWalk
    <3> QED
      BY <3>1
  <2>3. u = IF w.offnum \notin Off \ marks THEN Stopped(w)
            ELSE IF lp[w.offnum].st = "normal" /\ (w.priorXmax # None => lp[w.offnum].xmin = w.priorXmax)
              THEN AtTuple(v, w)
            ELSE Stopped(w)
    BY <1>2, <2>2, FollowIs DEF WalkMore
  <2> HIDE DEF u, marks
  <2>4. w.offnum \in Off =>
          (ChainLink(w.priorXmax, w.offnum) <=>
             lp[w.offnum].st = "normal" /\ (w.priorXmax # None => lp[w.offnum].xmin = w.priorXmax))
    BY DEF ChainLink, Normal
  <2>5. CASE w.offnum \in Off \ marks /\ ChainLink(w.priorXmax, w.offnum)
    <3>1. u = AtTuple(v, w)
      BY <2>3, <2>4, <2>5
    <3>2. IsWalk(v, marks, r, n, AtTuple(v, w))
      BY <1>2, <2>1, <2>5, StepFine DEF marks
    <3>3. AtTuple(v, w) \in Walk
      BY <3>2 DEF IsWalk
    <3> QED
      BY <3>1, <3>2, <3>3 DEF u, marks
  <2>6. CASE ~(w.offnum \in Off \ marks /\ ChainLink(w.priorXmax, w.offnum))
    <3>1. u = Stopped(w)
      BY <2>3, <2>4, <2>6
    <3>2. w.offnum \notin Off \ marks \/ ~ChainLink(w.priorXmax, w.offnum)
      BY <2>6
    <3>3. IsWalk(v, marks, r, n, Stopped(w))
      BY <1>2, <2>1, <3>2, StopFine DEF marks
    <3>4. Stopped(w) \in Walk
      BY <3>3 DEF IsWalk
    <3> QED
      BY <3>1, <3>3, <3>4 DEF u, marks
  <2> QED
    BY <2>5, <2>6
<1>3. CASE n # 1 /\ ~w.more
  <2>1. u = w /\ n - 1 >= 1 /\ n >= 1 /\ n # 0
    BY <1>3 DEF WalkMore
  <2>2. Len(w.chainitems) <= n
    <3>1. Len(w.chainitems) \in Nat
      BY <1>0 DEF Walk
    <3>2. Len(w.chainitems) <= n - 1
      BY DEF IsWalk
    <3> QED
      BY <3>1, <3>2
  <2> HIDE DEF u, marks
  <2>3. IsWalk(v, marks, r, n - 1, w)
    BY DEF marks
  <2>4. IsWalk(v, marks, r, n, w)
    BY ONLY <1>3, <2>1, <2>2, <2>3 DEF IsWalk
  <2> QED
    BY <1>0, <2>1, <2>4 DEF marks, u
<1> QED
  BY <1>1, <1>2, <1>3

\* The whole walk: it has come to its end before it ran out of steps.
IsWhole(v, marks, r, w) == IsWalk(v, marks, r, MaxOff + 1, w) /\ ~w.more

\* The loop of heap_prune_chain ends: no chain is longer than the page.
LEMMA WalkEnds ==
  ASSUME Types, EdgeInv, NEW v, NEW marks, NEW r, NEW w, IsWalk(v, marks, r, MaxOff + 1, w)
  PROVE  ~w.more
<1> SUFFICES ASSUME w.more PROVE FALSE
  OBVIOUS
<1> DEFINE c == w.chainitems
           n == MaxOff + 1
<1>1. Len(c) = n /\ n \in Nat /\ ~(n <= MaxOff)
  BY Constants DEF IsWalk
<1>2. \A i \in 1..n : c[i] \in Off
  BY <1>1 DEF IsWalk
<1>3. \A i \in 1..n : i + 1 <= n => <<c[i], c[i + 1]>> \in Edges(lp, clog)
  BY <1>1 DEF IsWalk
<1>4. \A a \in Off : Rank(lp)[a] \in Nat
  BY RankGrows DEF Types, EdgeInv
<1>5. \A a, b \in Off : <<a, b>> \in Edges(lp, clog) => Rank(lp)[a] < Rank(lp)[b]
  BY RankGrows DEF Types, EdgeInv
<1> HIDE DEF c, n
<1>6. \A i \in 1..n : i + 1 <= n => Rank(lp)[c[i]] < Rank(lp)[c[i + 1]]
  <2>1. ASSUME NEW i \in 1..n, i + 1 <= n
        PROVE  Rank(lp)[c[i]] < Rank(lp)[c[i + 1]]
    <3>1. i + 1 \in 1..n
      BY <1>1, <2>1
    <3> QED
      BY <1>2, <1>3, <1>5, <2>1, <3>1
  <2> QED
    BY <2>1
<1>7. n <= MaxOff
  BY <1>1, <1>2, <1>4, <1>6, PathShort
<1> QED
  BY <1>1, <1>7

\* What the loop of heap_prune_chain finds at a root that is not done yet.
LEMMA ChainWalk ==
  ASSUME Types, XactInv, EdgeInv, NEW p, NEW v, IsView(v), NEW r, Root(lp, r), r \notin Marked(p)
  PROVE  IsWhole(v, Marked(p), r, ChainFrom(p, v, r))
<1> DEFINE K == MaxOff + 1
           A == [chainitems |-> <<>>, offnum |-> r, priorXmax |-> None,
                 latestdead |-> None, prunable |-> {}, more |-> TRUE]
           G == [n \in Nat |-> [w \in Walk |->
                   IF WalkMore(p, v, w) \in Walk THEN WalkMore(p, v, w) ELSE w]]
           body(f) == [n \in 0..(MaxOff + 1) |->
             IF n = 0 THEN [chainitems |-> <<>>, offnum |-> r, priorXmax |-> None,
                            latestdead |-> None, prunable |-> {}, more |-> TRUE]
             ELSE LET w == f[n - 1] IN IF w.more THEN FollowChain(p, v, w) ELSE w]
           Fine(n, w) == IsWalk(v, Marked(p), r, n, w)
<1>1. ChainFrom(p, v, r) = (CHOOSE f : f = body(f))[K]
  BY DEF ChainFrom
<1>2. \A f : body(f) = [n \in 0..K |-> IF n = 0 THEN A ELSE WalkMore(p, v, f[n - 1])]
  BY DEF WalkMore
<1> HIDE DEF body
<1>3. A \in Walk /\ Fine(0, A)
  <2>1. r \in Off
    BY DEF Root
  <2>2. A \in Walk
    BY <2>1 DEF Walk
  <2>3. Len(A.chainitems) = 0 /\ A.more /\ A.offnum = r /\ A.priorXmax = None /\ A.latestdead = None
    OBVIOUS
  <2> HIDE DEF A
  <2> QED
    BY <2>2, <2>3 DEF IsWalk
<1> HIDE DEF A
<1>4. \A n \in Nat : \A w : n >= 1 /\ Fine(n - 1, w) =>
                              Fine(n, WalkMore(p, v, w)) /\ WalkMore(p, v, w) \in Walk
  BY WalkGoesOn
<1>5. G \in [Nat -> [Walk -> Walk]]
  OBVIOUS
<1>6. \A n \in Nat : \A w \in Walk :
        G[n][w] = IF WalkMore(p, v, w) \in Walk THEN WalkMore(p, v, w) ELSE w
  OBVIOUS
<1> HIDE DEF G, Fine
<1>7. 0 \in Nat /\ K \in Nat /\ 0 <= K /\ K \in 0..K
  BY Constants
<1> HIDE DEF K
<1>8. PICK g \in [0..K -> Walk] : g[0] = A /\ \A n \in 1..K : g[n] = G[n][g[n - 1]]
  <2>1. \E g : IsRecursive(g, Walk, A, G, 0, K)
    BY <1>3, <1>5, <1>7, RecursionWorks
  <2>2. PICK g : IsRecursive(g, Walk, A, G, 0, K)
    BY <2>1
  <2>3. g \in [0..K -> Walk] /\ g[0] = A
    BY <2>2 DEF IsRecursive
  <2>4. \A n \in (0 + 1)..K : g[n] = G[n][g[n - 1]]
    BY <2>2, Zenon DEF IsRecursive
  <2>5. (0 + 1)..K = 1..K
    OBVIOUS
  <2> QED
    BY <2>3, <2>4, <2>5, Zenon
<1>9. \A n \in 1..K : n - 1 \in 0..K /\ g[n - 1] \in Walk
  BY <1>7
<1>10. \A n \in 0..K : Fine(n, g[n])
  <2> DEFINE T == {n \in 0..K : ~Fine(n, g[n])}
  <2> SUFFICES ASSUME T # {} PROVE FALSE
    OBVIOUS
  <2>1. PICK n \in T : \A i \in T : n <= i
    <3>1. T \subseteq Nat
      OBVIOUS
    <3> HIDE DEF T
    <3> QED
      BY <3>1, LeastNatural
  <2>2. n \in 0..K /\ ~Fine(n, g[n])
    OBVIOUS
  <2>3. n # 0
    BY <1>3, <1>8, <2>2
  <2>4. n \in 1..K /\ n \in Nat /\ n >= 1 /\ ~(n <= n - 1)
    BY <1>7, <2>2, <2>3
  <2>5. Fine(n - 1, g[n - 1])
    BY <1>9, <2>1, <2>4
  <2>6. g[n] = G[n][g[n - 1]]
    BY <1>8, <2>4
  <2>7. Fine(n, WalkMore(p, v, g[n - 1])) /\ WalkMore(p, v, g[n - 1]) \in Walk
    BY <1>4, <2>4, <2>5
  <2>8. g[n] = WalkMore(p, v, g[n - 1])
    BY <1>6, <1>9, <2>4, <2>6, <2>7
  <2> QED
    BY <2>2, <2>7, <2>8
<1>11. \A n \in 1..K : g[n] = WalkMore(p, v, g[n - 1])
  <2>1. ASSUME NEW n \in 1..K
        PROVE  g[n] = WalkMore(p, v, g[n - 1])
    <3>1. n \in Nat /\ n >= 1
      BY <1>7
    <3>2. WalkMore(p, v, g[n - 1]) \in Walk
      BY <1>4, <1>9, <1>10, <3>1
    <3>3. g[n] = G[n][g[n - 1]]
      BY <1>8
    <3> QED
      BY <1>6, <1>9, <3>1, <3>2, <3>3
  <2> QED
    BY <2>1
<1>12. g = body(g)
  <2> DEFINE h == [n \in 0..K |-> IF n = 0 THEN A ELSE WalkMore(p, v, g[n - 1])]
  <2>1. DOMAIN g = 0..K /\ DOMAIN h = 0..K
    BY <1>8
  <2>2. \A n \in 0..K : g[n] = h[n]
    BY <1>7, <1>8, <1>11
  <2>3. g = [n \in DOMAIN g |-> g[n]] /\ h = [n \in DOMAIN h |-> h[n]]
    BY <1>8
  <2>4. g = h
    BY <2>1, <2>2, <2>3
  <2> QED
    BY <1>2, <2>4
<1> DEFINE F == CHOOSE f : f = body(f)
<1>13. F = body(F)
  BY <1>12, Zenon
<1>14. ChainFrom(p, v, r) = F[K]
  BY <1>1
<1> HIDE DEF F
<1>15. F[0] = A /\ \A n \in 1..K : F[n] = WalkMore(p, v, F[n - 1])
  <2>1. F = [n \in 0..K |-> IF n = 0 THEN A ELSE WalkMore(p, v, F[n - 1])]
    BY <1>2, <1>13
  <2>2. 0 \in 0..K /\ \A n \in 1..K : n \in 0..K /\ n # 0
    BY <1>7
  <2>3. \A n \in 0..K : F[n] = IF n = 0 THEN A ELSE WalkMore(p, v, F[n - 1])
    BY ONLY <2>1, Zenon
  <2> QED
    BY <2>2, <2>3
<1>16. \A n \in 0..K : Fine(n, F[n])
  <2> DEFINE T == {n \in 0..K : ~Fine(n, F[n])}
  <2> SUFFICES ASSUME T # {} PROVE FALSE
    OBVIOUS
  <2>1. PICK n \in T : \A i \in T : n <= i
    <3>1. T \subseteq Nat
      OBVIOUS
    <3> HIDE DEF T
    <3> QED
      BY <3>1, LeastNatural
  <2>2. n \in 0..K /\ ~Fine(n, F[n])
    OBVIOUS
  <2>3. n # 0
    BY <1>3, <1>15, <2>2
  <2>4. n \in 1..K /\ n \in Nat /\ n >= 1 /\ ~(n <= n - 1) /\ n - 1 \in 0..K
    BY <1>7, <2>2, <2>3
  <2>5. Fine(n - 1, F[n - 1])
    BY <2>1, <2>4
  <2> QED
    BY <1>4, <1>15, <2>2, <2>4, <2>5
<1>17. IsWalk(v, Marked(p), r, MaxOff + 1, ChainFrom(p, v, r))
  BY <1>7, <1>14, <1>16 DEF Fine, K
<1>18. ~ChainFrom(p, v, r).more
  BY <1>17, WalkEnds
<1> QED
  BY <1>17, <1>18 DEF IsWhole

-----------------------------------------------------------------------------
(* What pruning decides.                                                     *)

Plan == [redirected : SUBSET (Off \X Off), nowdead : SUBSET Off, nowunused : SUBSET Off,
         prunable : SUBSET Xid]

\* The line pointers that lose what they had.
Cleared(p) == p.nowdead \cup p.nowunused \cup {e[1] : e \in p.redirected}

\* The line pointers that are freed hold heap-only tuples, those that become dead
\* or are redirected anew are roots, and nobody needs the tuples that go.  What
\* comes next to a line pointer that is cleared is cleared or a root leads to it.
PlanFine(v, p) ==
  /\ p \in Plan
  /\ \A o \in p.nowunused : /\ Normal(lp, o) /\ lp[o].heapOnly
                            /\ \/ ~IsHotUpdated(lp[o]) /\ v[o] = "DEAD"
                               \/ \E r \in Cleared(p) : Root(lp, r) /\ o \in From(Edges(lp, clog), r)
  /\ \A o \in p.nowdead : Root(lp, o)
  /\ \A o \in Cleared(p) : Normal(lp, o) => Gone(clog, snap, lp[o])
  /\ \A e \in p.redirected :
       /\ Root(lp, e[1]) /\ e[2] \in From(Edges(lp, clog), e[1]) /\ e[2] \notin Cleared(p)
       /\ Normal(lp, e[2]) /\ lp[e[2]].heapOnly /\ v[e[2]] # "DEAD"
       /\ e[1] \notin p.nowdead
       /\ \A f \in p.redirected : e[1] = f[1] => e = f
       /\ \A a \in Off : <<a, e[2]>> \in Edges(lp, clog) => a \in Cleared(p)
  /\ \A a, b \in Off : <<a, b>> \in Edges(lp, clog) /\ a \in Cleared(p) =>
       /\ a \in p.nowdead => b \in Cleared(p)
       /\ b \in Cleared(p) \/ \E e \in p.redirected : e[2] = b

AddPrunable(p, S) == [p EXCEPT !.prunable = @ \cup S]
AddUnused(p, S) == [p EXCEPT !.nowunused = @ \cup S]
AddDead(p, S) == [p EXCEPT !.nowdead = @ \cup S]
AddRedirected(p, S) == [p EXCEPT !.redirected = @ \cup S]

\* What an addition to the plan leaves alone.
LEMMA AddFields ==
  ASSUME NEW p \in Plan, NEW S
  PROVE  /\ S \subseteq Xid =>
              /\ AddPrunable(p, S) \in Plan
              /\ AddPrunable(p, S).nowdead = p.nowdead /\ AddPrunable(p, S).nowunused = p.nowunused
              /\ AddPrunable(p, S).redirected = p.redirected
         /\ S \subseteq Off =>
              /\ AddUnused(p, S) \in Plan
              /\ AddUnused(p, S).nowdead = p.nowdead /\ AddUnused(p, S).nowunused = p.nowunused \cup S
              /\ AddUnused(p, S).redirected = p.redirected
              /\ AddDead(p, S) \in Plan
              /\ AddDead(p, S).nowdead = p.nowdead \cup S /\ AddDead(p, S).nowunused = p.nowunused
              /\ AddDead(p, S).redirected = p.redirected
         /\ S \subseteq Off \X Off =>
              /\ AddRedirected(p, S) \in Plan
              /\ AddRedirected(p, S).nowdead = p.nowdead /\ AddRedirected(p, S).nowunused = p.nowunused
              /\ AddRedirected(p, S).redirected = p.redirected \cup S
<1>1. AddPrunable(p, S) = [p EXCEPT !["prunable"] = p["prunable"] \cup S]
  BY Zenon DEF AddPrunable
<1>2. AddUnused(p, S) = [p EXCEPT !["nowunused"] = p["nowunused"] \cup S]
  BY Zenon DEF AddUnused
<1>3. AddDead(p, S) = [p EXCEPT !["nowdead"] = p["nowdead"] \cup S]
  BY Zenon DEF AddDead
<1>4. AddRedirected(p, S) = [p EXCEPT !["redirected"] = p["redirected"] \cup S]
  BY Zenon DEF AddRedirected
<1>5. /\ p.redirected \subseteq Off \X Off /\ p.nowdead \subseteq Off /\ p.nowunused \subseteq Off
      /\ p.prunable \subseteq Xid
  BY DEF Plan
<1>6. ASSUME S \subseteq Xid
      PROVE  /\ AddPrunable(p, S) \in Plan
             /\ AddPrunable(p, S).nowdead = p.nowdead /\ AddPrunable(p, S).nowunused = p.nowunused
             /\ AddPrunable(p, S).redirected = p.redirected
  BY ONLY <1>1, <1>5, <1>6, p \in Plan DEF Plan
<1>7. ASSUME S \subseteq Off
      PROVE  /\ AddUnused(p, S) \in Plan
             /\ AddUnused(p, S).nowdead = p.nowdead /\ AddUnused(p, S).nowunused = p.nowunused \cup S
             /\ AddUnused(p, S).redirected = p.redirected
  BY ONLY <1>2, <1>5, <1>7, p \in Plan DEF Plan
<1>8. ASSUME S \subseteq Off
      PROVE  /\ AddDead(p, S) \in Plan
             /\ AddDead(p, S).nowdead = p.nowdead \cup S /\ AddDead(p, S).nowunused = p.nowunused
             /\ AddDead(p, S).redirected = p.redirected
  BY ONLY <1>3, <1>5, <1>8, p \in Plan DEF Plan
<1>9. ASSUME S \subseteq Off \X Off
      PROVE  /\ AddRedirected(p, S) \in Plan
             /\ AddRedirected(p, S).nowdead = p.nowdead /\ AddRedirected(p, S).nowunused = p.nowunused
             /\ AddRedirected(p, S).redirected = p.redirected \cup S
  BY ONLY <1>4, <1>5, <1>9, p \in Plan DEF Plan
<1> QED
  BY <1>6, <1>7, <1>8, <1>9

\* The line pointers that are marked after an addition to the plan.
LEMMA MarkedAre ==
  ASSUME NEW v, NEW p, PlanFine(v, p), NEW o
  PROVE  /\ o \in Marked(p) <=> o \in Cleared(p) \/ \E e \in p.redirected : o = e[2]
         /\ Cleared(p) \subseteq Off
         /\ o \in Cleared(p) => (Normal(lp, o) /\ lp[o].heapOnly /\ o \in p.nowunused) \/ Root(lp, o)
         /\ o \in Off /\ Root(lp, o) /\ o \in Marked(p) => o \in Cleared(p)
<1>1. p \in Plan /\ p.redirected \subseteq Off \X Off /\ p.nowdead \subseteq Off /\ p.nowunused \subseteq Off
  BY DEF PlanFine, Plan
<1>2. o \in Marked(p) <=> o \in Cleared(p) \/ \E e \in p.redirected : o = e[2]
  BY DEF Marked, Cleared
<1>3. Cleared(p) \subseteq Off
  BY <1>1 DEF Cleared
<1>4. ASSUME o \in Cleared(p)
      PROVE  (Normal(lp, o) /\ lp[o].heapOnly /\ o \in p.nowunused) \/ Root(lp, o)
  <2>1. CASE o \in p.nowdead
    BY <2>1 DEF PlanFine
  <2>2. CASE o \in p.nowunused
    BY <2>2 DEF PlanFine
  <2>3. CASE \E e \in p.redirected : o = e[1]
    BY <2>3 DEF PlanFine
  <2> QED
    BY <1>4, <2>1, <2>2, <2>3 DEF Cleared
<1>5. \A e \in p.redirected : ~Root(lp, e[2])
  <2>1. ASSUME NEW e \in p.redirected
        PROVE  Normal(lp, e[2]) /\ lp[e[2]].heapOnly
    BY DEF PlanFine
  <2> QED
    BY <2>1 DEF Normal, Root
<1> QED
  BY <1>2, <1>3, <1>4, <1>5

\* Who is reached from a root that is not done yet can have been marked only alone.
LEMMA MarkedAlone ==
  ASSUME EdgeInv, NEW v, NEW p, PlanFine(v, p), NEW r, Root(lp, r), r \notin Marked(p),
         NEW b \in From(Edges(lp, clog), r), b # r, b \in Marked(p)
  PROVE  b \in Cleared(p) /\ b \in p.nowunused /\ ~IsHotUpdated(lp[b])
<1>1. ASSUME NEW q \in Off, Root(lp, q), b \in From(Edges(lp, clog), q)
      PROVE  q = r
  <2>1. /\ \A c, d, e \in Off : <<c, e>> \in Edges(lp, clog) /\ <<d, e>> \in Edges(lp, clog) => c = d
    BY DEF EdgeInv, EdgesFine
  <2>2. r \in Off /\ \A c \in Off : <<c, q>> \notin Edges(lp, clog) /\ <<c, r>> \notin Edges(lp, clog)
    BY <1>1, RootFirst DEF EdgeInv
  <2> QED
    BY <1>1, <2>1, <2>2, EdgesAre, FromUnique
<1>2. ~\E e \in p.redirected : b = e[2]
  <2> SUFFICES ASSUME NEW e \in p.redirected, b = e[2]
               PROVE  FALSE
    OBVIOUS
  <2>1. Root(lp, e[1]) /\ b \in From(Edges(lp, clog), e[1])
    BY DEF PlanFine
  <2>2. e[1] = r
    BY <1>1, <2>1 DEF Root
  <2>3. r \in Cleared(p)
    BY <2>2 DEF Cleared
  <2> QED
    BY <2>3, MarkedAre
<1>3. b \in Cleared(p)
  BY <1>2, MarkedAre
<1>4. ~Root(lp, b)
  <2>1. PICK c \in From(Edges(lp, clog), r) : <<c, b>> \in Edges(lp, clog)
    <3>1. r \in Off
      BY DEF Root
    <3> QED
      BY <3>1, FromEnds, EdgesAre
  <2>2. c \in Off
    BY FromStarts DEF Root
  <2> QED
    BY <2>1, <2>2, RootFirst DEF EdgeInv
<1>5. b \in p.nowunused
  BY <1>3, <1>4, MarkedAre
<1>6. ~IsHotUpdated(lp[b])
  <2> SUFFICES ASSUME NEW q \in Cleared(p), Root(lp, q), b \in From(Edges(lp, clog), q)
               PROVE  FALSE
    BY <1>5 DEF PlanFine
  <2>1. q = r
    BY <1>1 DEF Root
  <2> QED
    BY <2>1, MarkedAre
<1> QED
  BY <1>3, <1>5, <1>6

\* A heap-only tuple that is the end of its chain.
LEMMA AddAlone ==
  ASSUME Types, EdgeInv, NEW v, NEW p, PlanFine(v, p), NEW o \in Off, o \notin Marked(p), Normal(lp, o),
         lp[o].heapOnly, ~IsHotUpdated(lp[o]), v[o] = "DEAD", Gone(clog, snap, lp[o])
  PROVE  PlanFine(v, AddUnused(p, {o})) /\ Cleared(AddUnused(p, {o})) = Cleared(p) \cup {o}
<1> DEFINE q == AddUnused(p, {o})
           R == Edges(lp, clog)
<1>1. p \in Plan
  BY DEF PlanFine
<1>2. /\ q \in Plan /\ q.nowdead = p.nowdead /\ q.nowunused = p.nowunused \cup {o}
      /\ q.redirected = p.redirected
  BY <1>1, AddFields
<1> HIDE DEF q
<1>3. Cleared(q) = Cleared(p) \cup {o}
  BY <1>2 DEF Cleared
<1>4. \A e \in p.redirected : e[2] # o
  BY MarkedAre
<1>5. \A b \in Off : <<o, b>> \notin R
  <2>1. ASSUME NEW b \in Off, <<o, b>> \in R
        PROVE  FALSE
    <3>1. Onward(o, b)
      BY <2>1, OnwardIsEdge
    <3> QED
      BY <3>1 DEF Onward
  <2> QED
    BY <2>1
<1>6. \A d \in q.nowunused : /\ Normal(lp, d) /\ lp[d].heapOnly
                             /\ \/ ~IsHotUpdated(lp[d]) /\ v[d] = "DEAD"
                                \/ \E r \in Cleared(q) : Root(lp, r) /\ d \in From(R, r)
  BY <1>2, <1>3 DEF PlanFine
<1>7. \A d \in Cleared(q) : Normal(lp, d) => Gone(clog, snap, lp[d])
  BY <1>3 DEF PlanFine
<1>8. \A e \in q.redirected :
       /\ Root(lp, e[1]) /\ e[2] \in From(R, e[1]) /\ e[2] \notin Cleared(q)
       /\ Normal(lp, e[2]) /\ lp[e[2]].heapOnly /\ v[e[2]] # "DEAD"
       /\ e[1] \notin q.nowdead
       /\ \A f \in q.redirected : e[1] = f[1] => e = f
       /\ \A a \in Off : <<a, e[2]>> \in R => a \in Cleared(q)
  BY <1>2, <1>3, <1>4 DEF PlanFine
<1>9. \A a, b \in Off : <<a, b>> \in R /\ a \in Cleared(q) =>
       /\ a \in q.nowdead => b \in Cleared(q)
       /\ b \in Cleared(q) \/ \E e \in q.redirected : e[2] = b
  BY <1>2, <1>3, <1>5 DEF PlanFine
<1>10. \A d \in q.nowdead : Root(lp, d)
  BY <1>2 DEF PlanFine
<1> HIDE DEF R
<1>11. PlanFine(v, q)
  BY <1>2, <1>6, <1>7, <1>8, <1>9, <1>10 DEF PlanFine, R
<1> QED
  BY <1>3, <1>11 DEF q

\* A chain that is dead from its root to its end, or to where the walk found
\* nothing more to follow.
LEMMA AddDeadChain ==
  ASSUME EdgeInv, NEW v, NEW p, PlanFine(v, p), NEW r, Root(lp, r), r \notin Marked(p),
         Normal(lp, r) => Gone(clog, snap, lp[r]),
         NEW X, X \subseteq From(Edges(lp, clog), r) \ Marked(p),
         \A o \in X : Normal(lp, o) /\ lp[o].heapOnly /\ Gone(clog, snap, lp[o]),
         \A a, b \in Off : <<a, b>> \in Edges(lp, clog) /\ a \in X \cup {r} => b \in X \cup Cleared(p),
         NEW q \in Plan, q.nowdead = p.nowdead \cup {r}, q.nowunused = p.nowunused \cup X,
         q.redirected = p.redirected
  PROVE  PlanFine(v, q) /\ Cleared(q) = Cleared(p) \cup X \cup {r}
<1> DEFINE R == Edges(lp, clog)
<1>1. Cleared(q) = Cleared(p) \cup X \cup {r}
  BY DEF Cleared
<1>2. \A e \in p.redirected : e[2] \notin X /\ e[2] # r /\ e[1] # r
  <2>1. \A e \in p.redirected : e[2] \in Marked(p) /\ e[1] \in Marked(p)
    BY DEF Marked
  <2> QED
    BY <2>1
<1>3. \A d \in q.nowunused : /\ Normal(lp, d) /\ lp[d].heapOnly
                             /\ \/ ~IsHotUpdated(lp[d]) /\ v[d] = "DEAD"
                                \/ \E s \in Cleared(q) : Root(lp, s) /\ d \in From(R, s)
  <2>1. ASSUME NEW d \in X
        PROVE  \E s \in Cleared(q) : Root(lp, s) /\ d \in From(R, s)
    BY <1>1
  <2>2. ASSUME NEW d \in p.nowunused
        PROVE  /\ Normal(lp, d) /\ lp[d].heapOnly
               /\ \/ ~IsHotUpdated(lp[d]) /\ v[d] = "DEAD"
                  \/ \E s \in Cleared(q) : Root(lp, s) /\ d \in From(R, s)
    BY <1>1 DEF PlanFine
  <2> QED
    BY <2>1, <2>2
<1>4. \A d \in Cleared(q) : Normal(lp, d) => Gone(clog, snap, lp[d])
  BY <1>1 DEF PlanFine
<1>5. \A e \in q.redirected :
       /\ Root(lp, e[1]) /\ e[2] \in From(R, e[1]) /\ e[2] \notin Cleared(q)
       /\ Normal(lp, e[2]) /\ lp[e[2]].heapOnly /\ v[e[2]] # "DEAD"
       /\ e[1] \notin q.nowdead
       /\ \A f \in q.redirected : e[1] = f[1] => e = f
       /\ \A a \in Off : <<a, e[2]>> \in R => a \in Cleared(q)
  BY <1>1, <1>2 DEF PlanFine
<1>6. ASSUME NEW a \in Off, NEW b \in Off, <<a, b>> \in R, a \in Cleared(q)
      PROVE  /\ a \in q.nowdead => b \in Cleared(q)
             /\ b \in Cleared(q) \/ \E e \in q.redirected : e[2] = b
  <2>1. CASE a \in X \cup {r}
    BY <1>1, <1>6, <2>1
  <2>2. CASE a \in Cleared(p) /\ a # r
    BY <1>1, <1>6, <2>2 DEF PlanFine
  <2> QED
    BY <1>1, <1>6, <2>1, <2>2
<1>7. \A d \in q.nowdead : Root(lp, d)
  BY DEF PlanFine
<1> HIDE DEF R
<1>8. PlanFine(v, q)
  BY <1>3, <1>4, <1>5, <1>6, <1>7 DEF PlanFine, R
<1> QED
  BY <1>1, <1>8

\* A chain whose dead head goes: the root leads to the first version that stays.
LEMMA AddRedirect ==
  ASSUME EdgeInv, NEW v, NEW p, PlanFine(v, p), NEW r, Root(lp, r), r \notin Marked(p),
         Normal(lp, r) => Gone(clog, snap, lp[r]),
         NEW X, X \subseteq From(Edges(lp, clog), r) \ Marked(p),
         \A o \in X : Normal(lp, o) /\ lp[o].heapOnly /\ Gone(clog, snap, lp[o]),
         NEW t, t \in From(Edges(lp, clog), r), t \notin Marked(p), t \notin X, t # r, Normal(lp, t),
         lp[t].heapOnly, v[t] # "DEAD",
         \A a, b \in Off : <<a, b>> \in Edges(lp, clog) /\ a \in X \cup {r} => b \in X \cup {t},
         \A a \in Off : <<a, t>> \in Edges(lp, clog) => a \in X \cup {r},
         NEW q \in Plan, q.nowdead = p.nowdead, q.nowunused = p.nowunused \cup X,
         q.redirected = p.redirected \cup {<<r, t>>}
  PROVE  PlanFine(v, q) /\ Cleared(q) = Cleared(p) \cup X \cup {r}
<1> DEFINE R == Edges(lp, clog)
           g == <<r, t>>
<1>0. g[1] = r /\ g[2] = t /\ q.redirected = p.redirected \cup {g}
  OBVIOUS
<1> HIDE DEF g
<1>1. Cleared(q) = Cleared(p) \cup X \cup {r}
  BY <1>0 DEF Cleared
<1>2. \A e \in p.redirected : e[2] \notin X /\ e[2] # r /\ e[1] # r
  <2>1. \A e \in p.redirected : e[2] \in Marked(p) /\ e[1] \in Marked(p)
    BY DEF Marked
  <2> QED
    BY <2>1
<1>3. \A d \in q.nowunused : /\ Normal(lp, d) /\ lp[d].heapOnly
                             /\ \/ ~IsHotUpdated(lp[d]) /\ v[d] = "DEAD"
                                \/ \E s \in Cleared(q) : Root(lp, s) /\ d \in From(R, s)
  <2>1. ASSUME NEW d \in X
        PROVE  \E s \in Cleared(q) : Root(lp, s) /\ d \in From(R, s)
    BY <1>1
  <2>2. ASSUME NEW d \in p.nowunused
        PROVE  /\ Normal(lp, d) /\ lp[d].heapOnly
               /\ \/ ~IsHotUpdated(lp[d]) /\ v[d] = "DEAD"
                  \/ \E s \in Cleared(q) : Root(lp, s) /\ d \in From(R, s)
    BY <1>1 DEF PlanFine
  <2> QED
    BY <2>1, <2>2
<1>4. \A d \in Cleared(q) : Normal(lp, d) => Gone(clog, snap, lp[d])
  BY <1>1 DEF PlanFine
<1>5. ASSUME NEW e \in q.redirected
      PROVE  /\ Root(lp, e[1]) /\ e[2] \in From(R, e[1]) /\ e[2] \notin Cleared(q)
             /\ Normal(lp, e[2]) /\ lp[e[2]].heapOnly /\ v[e[2]] # "DEAD"
             /\ e[1] \notin q.nowdead
             /\ \A f \in q.redirected : e[1] = f[1] => e = f
             /\ \A a \in Off : <<a, e[2]>> \in R => a \in Cleared(q)
  <2>1. CASE e \in p.redirected
    <3>1. \A f \in q.redirected : e[1] = f[1] => e = f
      <4>1. \A f \in p.redirected : e[1] = f[1] => e = f
        BY <2>1 DEF PlanFine
      <4> QED
        BY <1>0, <1>2, <2>1, <4>1
    <3>2. e[2] \notin Cleared(q)
      BY <1>1, <1>2, <2>1 DEF PlanFine
    <3> QED
      BY <1>1, <2>1, <3>1, <3>2 DEF PlanFine
  <2>2. CASE e = g
    <3>1. t \notin Cleared(p) /\ r \notin p.nowdead
      BY MarkedAre DEF Cleared
    <3>2. \A f \in q.redirected : e[1] = f[1] => e = f
      BY <1>0, <1>2, <2>2
    <3> QED
      BY <1>0, <1>1, <2>2, <3>1, <3>2
  <2> QED
    BY <1>0, <2>1, <2>2
<1>6. ASSUME NEW a \in Off, NEW b \in Off, <<a, b>> \in R, a \in Cleared(q)
      PROVE  /\ a \in q.nowdead => b \in Cleared(q)
             /\ b \in Cleared(q) \/ \E e \in q.redirected : e[2] = b
  <2>1. CASE a \in X \cup {r}
    <3>1. b \in X \cup {t}
      BY <1>6, <2>1
    <3>2. a \notin q.nowdead
      <4>1. a \in p.nowdead => a \in Marked(p)
        BY DEF Marked
      <4> QED
        BY <2>1, <4>1
    <3> QED
      BY <1>0, <1>1, <3>1, <3>2
  <2>2. CASE a \in Cleared(p)
    BY <1>1, <1>6, <2>2 DEF PlanFine
  <2> QED
    BY <1>1, <1>6, <2>1, <2>2
<1>7. \A d \in q.nowdead : Root(lp, d)
  BY DEF PlanFine
<1> HIDE DEF R
<1>8. PlanFine(v, q)
  BY <1>3, <1>4, <1>5, <1>6, <1>7 DEF PlanFine, R
<1> QED
  BY <1>1, <1>8

-----------------------------------------------------------------------------
(* One chain.                                                                *)

\* A path along the chain of a root, over line pointers that are not marked.
IsPath(marks, r, c) ==
  /\ c \in Seq(Off) /\ Len(c) \in Nat /\ Len(c) >= 1 /\ c[1] = r
  /\ \A i \in 1..Len(c) : c[i] \in Off /\ c[i] \notin marks /\ c[i] \in From(Edges(lp, clog), r)
  /\ \A i \in 1..Len(c) : i >= 2 => Normal(lp, c[i]) /\ lp[c[i]].heapOnly
  /\ \A i \in 1..Len(c) : i + 1 <= Len(c) => <<c[i], c[i + 1]>> \in Edges(lp, clog)
  /\ \A i, j \in 1..Len(c) : c[i] = c[j] => i = j

\* The line pointers of a walk, as a path along the edges.
LEMMA WalkPath ==
  ASSUME Types, EdgeInv, NEW v, NEW marks, NEW r, Root(lp, r), NEW w, IsWhole(v, marks, r, w)
  PROVE  w \in Walk /\ w.prunable \subseteq Xid /\ IsPath(marks, r, w.chainitems)
<1> DEFINE c == w.chainitems
           R == Edges(lp, clog)
           n == Len(c)
<1>1. IsWalk(v, marks, r, MaxOff + 1, w) /\ MaxOff + 1 >= 1
  BY Constants DEF IsWhole
<1>2. w \in Walk /\ c \in Seq(Off) /\ n \in Nat /\ n >= 1 /\ c[1] = r /\ w.prunable \subseteq Xid
  BY <1>1 DEF IsWalk, Walk
<1>3. /\ \A i \in 1..n : c[i] \in Off \ marks /\ (i >= 2 => Normal(lp, c[i]))
      /\ \A i \in 1..n : i + 1 <= n => <<c[i], c[i + 1]>> \in R
  BY <1>1 DEF IsWalk
<1>4. \A a \in Off : Rank(lp)[a] \in Nat
  BY RankGrows DEF Types, EdgeInv
<1>5. \A a, b \in Off : <<a, b>> \in R => Rank(lp)[a] < Rank(lp)[b]
  BY RankGrows DEF Types, EdgeInv
<1>6. \A a, b \in Off : <<a, b>> \in R => lp[b].heapOnly
  BY DEF EdgeInv, EdgesFine
<1> HIDE DEF c, n, R
<1>7. \A i \in 1..n : i + 1 <= n => i + 1 \in 1..n
  BY <1>2
<1>8. \A i, j \in 1..n : c[i] = c[j] => i = j
  <2>1. \A i \in 1..n : i + 1 <= n => Rank(lp)[c[i]] < Rank(lp)[c[i + 1]]
    BY <1>3, <1>5, <1>7
  <2>2. \A i \in 1..n : c[i] \in Off /\ Rank(lp)[c[i]] \in Nat
    BY <1>3, <1>4
  <2> QED
    BY <1>2, <2>1, <2>2, PathShort
<1>9. \A i \in 1..n : c[i] \in From(R, r)
  <2> DEFINE T == {i \in 1..n : c[i] \notin From(R, r)}
  <2> SUFFICES ASSUME T # {} PROVE FALSE
    OBVIOUS
  <2>1. PICK i \in T : \A j \in T : i <= j
    <3>1. T \subseteq Nat
      OBVIOUS
    <3> HIDE DEF T
    <3> QED
      BY <3>1, LeastNatural
  <2>2. i \in 1..n /\ c[i] \notin From(R, r)
    OBVIOUS
  <2>3. i # 1
    <3>1. r \in From(R, r)
      BY FromStarts DEF Root
    <3> QED
      BY <1>2, <2>2, <3>1
  <2>4. i - 1 \in 1..n /\ (i - 1) + 1 = i /\ (i - 1) + 1 <= n /\ ~(i <= i - 1)
    BY <1>2, <2>2, <2>3
  <2>5. c[i - 1] \in From(R, r)
    BY <2>1, <2>4
  <2>6. <<c[i - 1], c[i]>> \in R /\ c[i] \in Off
    BY <1>3, <2>2, <2>4
  <2> QED
    BY <2>2, <2>5, <2>6, FromSteps
<1>10. \A i \in 1..n : i >= 2 => Normal(lp, c[i]) /\ lp[c[i]].heapOnly
  <2>1. ASSUME NEW i \in 1..n, i >= 2
        PROVE  lp[c[i]].heapOnly
    <3>1. i - 1 \in 1..n /\ (i - 1) + 1 = i /\ (i - 1) + 1 <= n
      BY <1>2, <2>1
    <3>2. <<c[i - 1], c[i]>> \in R /\ c[i] \in Off /\ c[i - 1] \in Off
      BY <1>3, <3>1
    <3> QED
      BY <1>6, <3>2
  <2> QED
    BY <1>3, <2>1
<1> QED
  BY <1>2, <1>3, <1>8, <1>9, <1>10 DEF c, n, R, IsPath

\* A version that was replaced by a HOT update that committed.
Passed(m) ==
  /\ Normal(lp, m) /\ clog[lp[m].xmin] = "committed" /\ Removed(clog, lp[m])
  /\ clog[lp[m].xmax] = "committed" /\ IsHotUpdated(lp[m])

\* The tuples a walk passes are of committed transactions, removed by committed
\* ones, and HOT updated.
LEMMA PassedFacts ==
  ASSUME Types, XactInv, TupleInv, EdgeInv, NEW v, IsView(v), NEW m \in Off
  PROVE  /\ Passed(m) => GoesOn(v, m)
         /\ v[m] = "DEAD" /\ IsHotUpdated(lp[m]) => Passed(m)
         /\ \A a \in Off : <<a, m>> \in Edges(lp, clog) /\ Normal(lp, a) /\ Passed(m) => Passed(a)
<1>1. Passed(m) => GoesOn(v, m)
  BY ViewFacts DEF Passed, GoesOn
<1>2. ASSUME v[m] = "DEAD", IsHotUpdated(lp[m])
      PROVE  Passed(m)
  <2>1. Normal(lp, m) /\ Gone(clog, snap, lp[m])
    BY <1>2, ViewFacts
  <2>2. clog[lp[m].xmin] # "aborted"
    BY <1>2 DEF IsHotUpdated
  <2>3. lp[m].xmax # None /\ ~lp[m].lockOnly /\ clog[lp[m].xmax] = "committed"
    BY <2>1, <2>2 DEF Gone
  <2>4. clog[lp[m].xmin] = "committed"
    BY <2>1, <2>3 DEF TupleInv
  <2> QED
    BY <1>2, <2>1, <2>3, <2>4 DEF Passed, Removed
<1>3. ASSUME NEW a \in Off, <<a, m>> \in Edges(lp, clog), Normal(lp, a), Passed(m)
      PROVE  Passed(a)
  <2>1. Leads(lp, clog, a, m)
    BY <1>3, EdgesAre
  <2>2. Hot(clog, lp[a]) /\ lp[a].xmax = lp[m].xmin
    BY <1>3, <2>1 DEF Leads, Normal
  <2>3. Removed(clog, lp[a]) /\ clog[lp[a].xmax] = "committed" /\ lp[a].xmax # None
    BY <1>3, <2>2 DEF Passed, Hot, Removed
  <2>4. clog[lp[a].xmin] = "committed"
    BY <1>3, <2>3 DEF TupleInv
  <2>5. IsHotUpdated(lp[a])
    BY <2>2 DEF Hot, IsHotUpdated, Removed, Deleted
  <2> QED
    BY <1>3, <2>3, <2>4, <2>5 DEF Passed
<1> QED
  BY <1>1, <1>2, <1>3

\* The walk reaches all of them.
LEMMA WalkCovers ==
  ASSUME Types, XactInv, TupleInv, EdgeInv, NEW v, IsView(v), NEW p, PlanFine(v, p),
         NEW r, Root(lp, r), r \notin Marked(p), NEW w, IsWhole(v, Marked(p), r, w),
         NEW m \in From(Edges(lp, clog), r), Passed(m)
  PROVE  \E i \in 1..Len(w.chainitems) : m = w.chainitems[i]
<1> DEFINE c == w.chainitems
           n == Len(c)
           R == Edges(lp, clog)
           S == {c[i] : i \in 1..n} \cup {b \in Off : Normal(lp, b) /\ ~Passed(b)}
<1>0. IsPath(Marked(p), r, w.chainitems)
  BY WalkPath
<1>1. /\ n \in Nat /\ n >= 1 /\ c[1] = r
      /\ \A i \in 1..n : c[i] \in Off /\ c[i] \in From(R, r)
      /\ \A i \in 1..n : i + 1 <= n => <<c[i], c[i + 1]>> \in R
  BY <1>0 DEF IsPath
<1>2. \/ Normal(lp, c[n]) /\ ~GoesOn(v, c[n])
      \/ \A b \in Off : <<c[n], b>> \in R => b \in Marked(p)
  <2>1. IsWalk(v, Marked(p), r, MaxOff + 1, w) /\ ~w.more /\ MaxOff + 1 >= 1
    BY Constants DEF IsWhole
  <2> QED
    BY <2>1 DEF IsWalk
<1> HIDE DEF c, n
<1>3. ASSUME NEW a \in Off, NEW b \in Off, <<a, b>> \in R, a \in S
      PROVE  b \in S
  <2>1. Normal(lp, b)
    BY <1>3 DEF EdgeInv, EdgesFine
  <2>2. Normal(lp, a) /\ Passed(b) => Passed(a)
    BY <1>3, PassedFacts
  <2>3. CASE Normal(lp, a) /\ ~Passed(a)
    BY <2>1, <2>2, <2>3
  <2>4. CASE ~(Normal(lp, a) /\ ~Passed(a))
    <3>1. PICK i \in 1..n : a = c[i]
      BY <1>3, <2>4
    <3>2. CASE i # n
      <4>1. i + 1 \in 1..n /\ i + 1 <= n
        BY <1>1, <3>2
      <4>2. b = c[i + 1]
        BY <1>1, <1>3, <3>1, <4>1, OneWay
      <4> QED
        BY <4>1, <4>2
    <3>3. CASE i = n
      <4>1. ~(Normal(lp, a) /\ ~GoesOn(v, a))
        BY <2>4, PassedFacts
      <4>2. b \in Marked(p)
        BY <1>2, <1>3, <3>1, <3>3, <4>1
      <4>3. b \in From(R, r)
        BY <1>1, <1>3, <3>1, FromSteps
      <4>4. b # r
        BY <1>3, RootFirst DEF EdgeInv
      <4>5. ~IsHotUpdated(lp[b])
        BY <4>2, <4>3, <4>4, MarkedAlone
      <4> QED
        BY <2>1, <4>5 DEF Passed
    <3> QED
      BY <3>2, <3>3
  <2> QED
    BY <2>3, <2>4
<1>4. r \in S /\ r \in Off
  BY <1>1 DEF Root
<1> HIDE DEF S
<1>5. From(R, r) \subseteq S
  BY <1>3, <1>4, EdgesAre, FromInduct
<1> QED
  BY <1>5 DEF S, c, n

\* The dead head of a chain.
LEMMA DeadHead ==
  ASSUME Types, XactInv, TupleInv, EdgeInv, NEW v, IsView(v), NEW r, Root(lp, r),
         NEW marks, NEW w, IsWhole(v, marks, r, w), w.latestdead # None
  PROVE  LET c == w.chainitems
             k == CHOOSE i \in DOMAIN c : c[i] = w.latestdead IN
         /\ k \in 1..Len(c) /\ v[c[k]] = "DEAD"
         /\ \A i \in 1..Len(c) : i > k => v[c[i]] # "DEAD"
         /\ \A i \in 1..k : Normal(lp, c[i]) => Gone(clog, snap, lp[c[i]])
<1> DEFINE c == w.chainitems
           n == Len(c)
           R == Edges(lp, clog)
<1>0. IsPath(marks, r, w.chainitems)
  BY WalkPath
<1>1. /\ c \in Seq(Off) /\ n \in Nat /\ n >= 1 /\ c[1] = r
      /\ \A i \in 1..n : c[i] \in Off
      /\ \A i \in 1..n : i >= 2 => Normal(lp, c[i])
      /\ \A i \in 1..n : i + 1 <= n => <<c[i], c[i + 1]>> \in R
      /\ \A i, j \in 1..n : c[i] = c[j] => i = j
  BY <1>0 DEF IsPath
<1>2. PICK k \in 1..n : /\ c[k] = w.latestdead /\ v[c[k]] = "DEAD"
                        /\ \A i \in 1..n : i > k => v[c[i]] # "DEAD"
  BY DEF IsWhole, IsWalk
<1>3. (CHOOSE i \in DOMAIN c : c[i] = w.latestdead) = k
  <2>1. DOMAIN c = 1..n
    BY <1>1
  <2>2. \A i \in DOMAIN c : c[i] = w.latestdead => i = k
    BY <1>1, <1>2, <2>1
  <2>3. k \in DOMAIN c /\ c[k] = w.latestdead
    BY <1>2, <2>1
  <2> HIDE DEF c
  <2> QED
    BY <2>2, <2>3
<1> HIDE DEF c, n
<1>4. \A i \in 1..k : Normal(lp, c[i]) => Gone(clog, snap, lp[c[i]])
  <2> DEFINE T == {j \in 0..k : k - j \in 1..k /\ Normal(lp, c[k - j]) /\ ~Gone(clog, snap, lp[c[k - j]])}
  <2>1. T = {}
    <3> SUFFICES ASSUME T # {} PROVE FALSE
      OBVIOUS
    <3>1. PICK j \in T : \A i \in T : j <= i
      <4>1. T \subseteq Nat
        OBVIOUS
      <4> HIDE DEF T
      <4> QED
        BY <4>1, LeastNatural
    <3>2. /\ j \in 0..k /\ k - j \in 1..k /\ k - j \in 1..n
          /\ Normal(lp, c[k - j]) /\ ~Gone(clog, snap, lp[c[k - j]])
      BY <1>1
    <3>3. j # 0
      <4>1. c[k] \in Off
        BY <1>1
      <4>2. Gone(clog, snap, lp[c[k]])
        BY <1>2, <4>1, ViewFacts
      <4> QED
        BY <1>1, <3>2, <4>2
    <3>4. /\ j - 1 \in 0..k /\ k - (j - 1) \in 1..k /\ k - (j - 1) \in 1..n /\ k - (j - 1) = (k - j) + 1
          /\ k - (j - 1) >= 2 /\ (k - j) + 1 <= n /\ ~(j <= j - 1)
      BY <1>1, <3>2, <3>3
    <3>5. Normal(lp, c[k - (j - 1)])
      BY <1>1, <3>4
    <3>6. Gone(clog, snap, lp[c[k - (j - 1)]])
      BY <3>1, <3>4, <3>5
    <3>7. <<c[k - j], c[k - (j - 1)]>> \in R
      BY <1>1, <3>2, <3>4
    <3>8. c[k - j] \in Off /\ c[k - (j - 1)] \in Off
      BY <1>1, <3>2, <3>4
    <3> QED
      BY <3>2, <3>6, <3>7, <3>8, GoneBefore
  <2>2. ASSUME NEW i \in 1..k, Normal(lp, c[i]), ~Gone(clog, snap, lp[c[i]])
        PROVE  FALSE
    <3>1. k - i \in 0..k /\ k - (k - i) = i
      BY <1>1
    <3>2. k - i \in T
      BY <2>2, <3>1
    <3> QED
      BY <2>1, <3>2
  <2> QED
    BY <2>2
<1> QED
  BY <1>2, <1>3, <1>4 DEF c, n

\* The end of heap_prune_chain: which additions it makes to the plan.
LEMMA ChainAtIs ==
  ASSUME NEW p, NEW r, NEW w
  PROVE  PruneChainAt(p, r, w) =
           LET c == w.chainitems
               last == CHOOSE i \in DOMAIN c : c[i] = w.latestdead
               q == AddPrunable(p, w.prunable) IN
           IF w.latestdead # None
             THEN LET u == AddUnused(q, {c[i] : i \in 2..last}) IN
                  IF last = Len(c) THEN AddDead(u, {r}) ELSE AddRedirected(u, {<<r, c[last + 1]>>})
           ELSE IF Len(c) < 2 /\ lp[r].st = "redirect" THEN AddDead(q, {r})
           ELSE q
BY Zenon DEF PruneChainAt, AddPrunable, AddUnused, AddDead, AddRedirected

\* A chain from which nothing is pruned.
LEMMA PlanSame ==
  ASSUME NEW v, NEW p, PlanFine(v, p), NEW q \in Plan, q.nowdead = p.nowdead,
         q.nowunused = p.nowunused, q.redirected = p.redirected
  PROVE  PlanFine(v, q) /\ Cleared(q) = Cleared(p) /\ Marked(q) = Marked(p)
<1>1. Cleared(q) = Cleared(p) /\ Marked(q) = Marked(p)
  BY DEF Cleared, Marked
<1> QED
  BY <1>1 DEF PlanFine

\* What pruning the chain at r does to the plan.
ChainDone(v, p, r, q) ==
  /\ PlanFine(v, q) /\ Cleared(p) \subseteq Cleared(q)
  /\ \A o \in Cleared(q) : Root(lp, o) => o \in Cleared(p) \cup {r}
  /\ \A m \in From(Edges(lp, clog), r) :
       v[m] = "DEAD" /\ (m = r \/ IsHotUpdated(lp[m])) => m \in Cleared(q)
  /\ lp[r].st = "redirect" =>
       \A b \in Off : <<r, b>> \in Edges(lp, clog) /\ v[b] = "DEAD" => r \in Cleared(q)

\* A chain with a dead head keeps the plan fine, and is done.
LEMMA DeadHeadPruned ==
  ASSUME Types, XactInv, TupleInv, EdgeInv, NEW v, IsView(v), NEW p, PlanFine(v, p),
         NEW r, Root(lp, r), r \notin Marked(p), NEW w, IsWhole(v, Marked(p), r, w),
         w.latestdead # None
  PROVE  ChainDone(v, p, r, PruneChainAt(p, r, w))
<1> DEFINE c == w.chainitems
           n == Len(c)
           R == Edges(lp, clog)
           k == CHOOSE i \in DOMAIN c : c[i] = w.latestdead
           X == {c[i] : i \in 2..k}
           p1 == AddPrunable(p, w.prunable)
           p2 == AddUnused(p1, X)
           q == IF k = n THEN AddDead(p2, {r}) ELSE AddRedirected(p2, {<<r, c[k + 1]>>})
<1>0. IsPath(Marked(p), r, c) /\ w.prunable \subseteq Xid
  BY WalkPath
<1>1. /\ n \in Nat /\ n >= 1 /\ c[1] = r
      /\ \A i \in 1..n : c[i] \in Off /\ c[i] \notin Marked(p) /\ c[i] \in From(R, r)
      /\ \A i \in 1..n : i >= 2 => Normal(lp, c[i]) /\ lp[c[i]].heapOnly
      /\ \A i \in 1..n : i + 1 <= n => <<c[i], c[i + 1]>> \in R
      /\ \A i, j \in 1..n : c[i] = c[j] => i = j
  BY <1>0 DEF IsPath
<1>2. /\ k \in 1..n /\ v[c[k]] = "DEAD"
      /\ \A i \in 1..n : i > k => v[c[i]] # "DEAD"
      /\ \A i \in 1..k : Normal(lp, c[i]) => Gone(clog, snap, lp[c[i]])
  BY DeadHead
<1>3. PruneChainAt(p, r, w) = q
  BY ChainAtIs
<1>4. \/ Normal(lp, c[n]) /\ ~GoesOn(v, c[n])
      \/ \A b \in Off : <<c[n], b>> \in R => b \in Marked(p)
  <2>1. IsWalk(v, Marked(p), r, MaxOff + 1, w) /\ ~w.more /\ MaxOff + 1 >= 1
    BY Constants DEF IsWhole
  <2> QED
    BY <2>1 DEF IsWalk
<1>5. r \in Off /\ p \in Plan
  BY DEF Root, PlanFine
<1> HIDE DEF c, n, k
<1>6. X \subseteq Off /\ X \subseteq From(R, r) \ Marked(p)
  BY <1>1, <1>2
<1>7. \A o \in X : Normal(lp, o) /\ lp[o].heapOnly /\ Gone(clog, snap, lp[o])
  <2>1. ASSUME NEW i \in 2..k
        PROVE  Normal(lp, c[i]) /\ lp[c[i]].heapOnly /\ Gone(clog, snap, lp[c[i]])
    <3>1. i \in 1..n /\ i \in 1..k /\ i >= 2
      BY <1>1, <1>2
    <3> QED
      BY <1>1, <1>2, <3>1
  <2> QED
    BY <2>1
<1>8. Normal(lp, r) => Gone(clog, snap, lp[r])
  <2>1. 1 \in 1..k
    BY <1>2
  <2> QED
    BY <1>1, <1>2, <2>1
<1>9. \A a \in X \cup {r} : \E i \in 1..k : a = c[i]
  <2>1. 1 \in 1..k /\ \A i \in 2..k : i \in 1..k
    BY <1>2
  <2> QED
    BY <1>1, <2>1
<1>10. \A i \in 1..k : c[i] \in X \cup {r}
  <2>1. ASSUME NEW i \in 1..k
        PROVE  c[i] \in X \cup {r}
    <3>1. i = 1 \/ i \in 2..k
      BY <1>2
    <3> QED
      BY <1>1, <3>1
  <2> QED
    BY <2>1
<1>11. /\ p1 \in Plan /\ p1.nowdead = p.nowdead /\ p1.nowunused = p.nowunused
       /\ p1.redirected = p.redirected
  BY <1>0, <1>5, AddFields
<1> HIDE DEF p1, X
<1>12. /\ p2 \in Plan /\ p2.nowdead = p.nowdead /\ p2.nowunused = p.nowunused \cup X
       /\ p2.redirected = p.redirected
  BY <1>6, <1>11, AddFields
<1> HIDE DEF p2
<1>13. ASSUME NEW a \in Off, NEW b \in Off, <<a, b>> \in R, a \in X \cup {r}
       PROVE  \/ b \in X
              \/ k # n /\ b = c[k + 1]
              \/ k = n /\ b \in Cleared(p)
  <2>1. PICK i \in 1..k : a = c[i]
    BY <1>9, <1>13
  <2>2. i \in 1..n
    BY <1>1, <1>2
  <2>3. CASE i # n
    <3>1. i + 1 \in 1..n /\ i + 1 <= n
      BY <1>1, <2>2, <2>3
    <3>2. b = c[i + 1]
      BY <1>1, <1>13, <2>1, <2>2, <3>1, OneWay
    <3>3. CASE i = k
      BY <2>3, <3>2, <3>3
    <3>4. CASE i # k
      <4>1. i + 1 \in 2..k
        BY <1>2, <3>4
      <4> QED
        BY <3>2, <4>1 DEF X
    <3> QED
      BY <3>3, <3>4
  <2>4. CASE i = n
    <3>1. k = n /\ a = c[n] /\ v[a] = "DEAD"
      BY <1>1, <1>2, <2>1, <2>4
    <3>2. Normal(lp, a)
      BY <1>13, <3>1, ViewFacts
    <3>3. Onward(a, b)
      BY <1>13, <3>2, OnwardIsEdge
    <3>4. GoesOn(v, a)
      BY <3>1, <3>3 DEF Onward, GoesOn
    <3>5. b \in Marked(p)
      BY <1>4, <1>13, <3>1, <3>4
    <3>6. b \in From(R, r)
      BY <1>1, <1>13, <2>1, <2>2, FromSteps
    <3>7. b # r
      BY <1>13, RootFirst DEF EdgeInv
    <3> QED
      BY <3>1, <3>5, <3>6, <3>7, MarkedAlone
  <2> QED
    BY <2>3, <2>4
<1>14. PlanFine(v, q) /\ Cleared(q) = Cleared(p) \cup X \cup {r}
  <2>1. CASE k = n
    <3>1. q = AddDead(p2, {r})
      BY <2>1
    <3> HIDE DEF q, R
    <3>0. {r} \subseteq Off
      BY <1>5
    <3>2. /\ q \in Plan /\ q.nowdead = p.nowdead \cup {r} /\ q.nowunused = p.nowunused \cup X
          /\ q.redirected = p.redirected
      BY <1>12, <3>0, <3>1, AddFields
    <3>3. \A a, b \in Off : <<a, b>> \in R /\ a \in X \cup {r} => b \in X \cup Cleared(p)
      BY <1>13, <2>1
    <3> QED
      BY <1>6, <1>7, <1>8, <3>2, <3>3, AddDeadChain DEF R
  <2>2. CASE k # n
    <3> DEFINE t == c[k + 1]
    <3>1. q = AddRedirected(p2, {<<r, t>>})
      BY <2>2
    <3>2. k + 1 \in 1..n /\ k \in 1..n /\ k + 1 >= 2 /\ k + 1 <= n /\ k + 1 > k
      BY <1>1, <1>2, <2>2
    <3>3. /\ t \in From(R, r) \ Marked(p) /\ t \in Off /\ Normal(lp, t) /\ lp[t].heapOnly
          /\ v[t] # "DEAD" /\ <<c[k], t>> \in R
      BY <1>1, <1>2, <3>2
    <3>4. t \notin X \cup {r}
      <4>1. ASSUME t \in X \cup {r}
            PROVE  FALSE
        <5>1. PICK i \in 1..k : t = c[i]
          BY <1>9, <4>1
        <5>2. i \in 1..n /\ i # k + 1
          BY <1>1, <1>2
        <5> QED
          BY <1>1, <3>2, <5>1, <5>2
      <4> QED
        BY <4>1
    <3>5. \A a \in Off : <<a, t>> \in R => a \in X \cup {r}
      <4>1. c[k] \in Off /\ c[k] \in X \cup {r}
        BY <1>1, <1>2, <1>10
      <4>2. \A a \in Off : <<a, t>> \in R => a = c[k]
        BY <3>3, <4>1 DEF EdgeInv, EdgesFine
      <4> QED
        BY <4>1, <4>2
    <3>6. \A a, b \in Off : <<a, b>> \in R /\ a \in X \cup {r} => b \in X \cup {t}
      BY <1>13, <2>2
    <3> HIDE DEF t
    <3>7. {<<r, t>>} \subseteq Off \X Off
      BY <1>5, <3>3
    <3> HIDE DEF q, R
    <3>8. /\ q \in Plan /\ q.nowdead = p.nowdead /\ q.nowunused = p.nowunused \cup X
          /\ q.redirected = p.redirected \cup {<<r, t>>}
      BY <1>12, <3>1, <3>7, AddFields
    <3> QED
      BY <1>6, <1>7, <1>8, <3>3, <3>4, <3>5, <3>6, <3>8, AddRedirect DEF R
  <2> QED
    BY <2>1, <2>2
<1> HIDE DEF q
<1>15. \A o \in Cleared(q) : Root(lp, o) => o \in Cleared(p) \cup {r}
  BY <1>7, <1>14 DEF Root, Normal
<1>16. ASSUME NEW m \in From(R, r), v[m] = "DEAD", m = r \/ IsHotUpdated(lp[m])
       PROVE  m \in Cleared(q)
  <2>1. CASE m = r
    BY <1>14, <2>1
  <2>2. CASE m # r
    <3>1. m \in Off
      BY <1>5, FromStarts
    <3>2. Passed(m)
      BY <1>16, <2>2, <3>1, PassedFacts
    <3>3. PICK i \in 1..n : m = c[i]
      BY <3>2, WalkCovers DEF c, n
    <3>4. i \in 1..k
      BY <1>1, <1>2, <1>16, <3>3
    <3> QED
      BY <1>10, <1>14, <3>3, <3>4
  <2> QED
    BY <2>1, <2>2
<1> QED
  BY <1>3, <1>14, <1>15, <1>16 DEF ChainDone

\* So does a chain without one.
LEMMA NoHeadPruned ==
  ASSUME Types, XactInv, TupleInv, EdgeInv, NEW v, IsView(v), NEW p, PlanFine(v, p),
         NEW r, Root(lp, r), r \notin Marked(p), NEW w, IsWhole(v, Marked(p), r, w),
         w.latestdead = None
  PROVE  ChainDone(v, p, r, PruneChainAt(p, r, w))
<1> DEFINE c == w.chainitems
           n == Len(c)
           R == Edges(lp, clog)
           p1 == AddPrunable(p, w.prunable)
           lone == n < 2 /\ lp[r].st = "redirect"
           q == IF lone THEN AddDead(p1, {r}) ELSE p1
<1>0. IsPath(Marked(p), r, c) /\ w.prunable \subseteq Xid
  BY WalkPath
<1>1. /\ n \in Nat /\ n >= 1 /\ c[1] = r
      /\ \A i \in 1..n : c[i] \in Off /\ c[i] \notin Marked(p) /\ c[i] \in From(R, r)
  BY <1>0 DEF IsPath
<1>2. PruneChainAt(p, r, w) = q
  BY ChainAtIs
<1>3. /\ \/ Normal(lp, c[n]) /\ ~GoesOn(v, c[n])
         \/ \A b \in Off : <<c[n], b>> \in R => b \in Marked(p)
      /\ \A i \in 1..n : v[c[i]] # "DEAD"
  <2>1. IsWalk(v, Marked(p), r, MaxOff + 1, w) /\ ~w.more /\ MaxOff + 1 >= 1
    BY Constants DEF IsWhole
  <2> QED
    BY <2>1 DEF IsWalk
<1>4. r \in Off /\ p \in Plan
  BY DEF Root, PlanFine
<1>5. /\ p1 \in Plan /\ p1.nowdead = p.nowdead /\ p1.nowunused = p.nowunused
      /\ p1.redirected = p.redirected
  BY <1>0, <1>4, AddFields
<1> HIDE DEF c, n, p1
<1>6. ASSUME NEW m \in From(R, r), v[m] = "DEAD", m = r \/ IsHotUpdated(lp[m])
      PROVE  FALSE
  <2>1. CASE m = r
    <3>1. 1 \in 1..n
      BY <1>1
    <3> QED
      BY <1>1, <1>3, <1>6, <2>1, <3>1
  <2>2. CASE m # r
    <3>1. m \in Off
      BY <1>4, FromStarts
    <3>2. Passed(m)
      BY <1>6, <2>2, <3>1, PassedFacts
    <3>3. \E i \in 1..n : m = c[i]
      BY <3>2, WalkCovers DEF c, n
    <3> QED
      BY <1>3, <1>6, <3>3
  <2> QED
    BY <2>1, <2>2, <1>6
<1>7. CASE lone
  <2>1. n = 1 /\ lp[r].st = "redirect"
    BY <1>1, <1>7
  <2>2. ~Normal(lp, r)
    BY <2>1 DEF Normal
  <2>3. ASSUME NEW b \in Off, <<r, b>> \in R
        PROVE  b \in Cleared(p)
    <3>1. b \in Marked(p)
      BY <1>1, <1>3, <2>1, <2>2, <2>3
    <3>2. b \in From(R, r)
      BY <1>4, <2>3, FromStarts, FromSteps
    <3>3. b # r
      BY <2>3, RootFirst DEF EdgeInv
    <3> QED
      BY <3>1, <3>2, <3>3, MarkedAlone
  <2>4. q = AddDead(p1, {r})
    BY <1>7
  <2>5. /\ q \in Plan /\ q.nowdead = p.nowdead \cup {r} /\ q.nowunused = p.nowunused \cup {}
        /\ q.redirected = p.redirected
    BY <1>4, <1>5, <2>4, AddFields
  <2> HIDE DEF q, R
  <2>6. PlanFine(v, q) /\ Cleared(q) = Cleared(p) \cup {} \cup {r}
    <3>1. \A a, b \in Off : <<a, b>> \in R /\ a \in {} \cup {r} => b \in {} \cup Cleared(p)
      BY <2>3
    <3> DEFINE X == {}
    <3>2. /\ X \subseteq From(R, r) \ Marked(p)
          /\ \A o \in X : Normal(lp, o) /\ lp[o].heapOnly /\ Gone(clog, snap, lp[o])
          /\ \A a, b \in Off : <<a, b>> \in R /\ a \in X \cup {r} => b \in X \cup Cleared(p)
          /\ q.nowunused = p.nowunused \cup X
      BY <2>5, <3>1
    <3> HIDE DEF X
    <3>3. PlanFine(v, q) /\ Cleared(q) = Cleared(p) \cup X \cup {r}
      BY <2>2, <2>5, <3>2, AddDeadChain DEF R
    <3> QED
      BY <3>3 DEF X
  <2> QED
    BY <1>2, <1>6, <2>6 DEF ChainDone, R
<1>8. CASE ~lone
  <2>1. q = p1
    BY <1>8
  <2>2. PlanFine(v, p1) /\ Cleared(p1) = Cleared(p)
    BY <1>5, PlanSame
  <2>3. ASSUME lp[r].st = "redirect", NEW b \in Off, <<r, b>> \in R, v[b] = "DEAD"
        PROVE  FALSE
    <3>1. 1 \in 1..n /\ 2 \in 1..n /\ 1 + 1 = 2 /\ 1 + 1 <= n
      BY <1>1, <1>8, <2>3
    <3>2. <<r, c[2]>> \in R /\ c[2] \in Off /\ v[c[2]] # "DEAD"
      BY <1>0, <1>1, <1>3, <3>1 DEF IsPath, n, c
    <3>3. b = c[2]
      BY <1>4, <2>3, <3>2, OneWay
    <3> QED
      BY <2>3, <3>2, <3>3
  <2> HIDE DEF q
  <2> QED
    BY <1>2, <1>6, <2>1, <2>2, <2>3 DEF ChainDone
<1> QED
  BY <1>7, <1>8

-----------------------------------------------------------------------------
(* All line pointers, one after the other.                                   *)

\* The plan after line pointer n.
PlanInv(v, n, p) ==
  /\ PlanFine(v, p)
  /\ \A o \in Cleared(p) : Root(lp, o) => o <= n
  /\ \A o \in Off : o <= n =>
       /\ Normal(lp, o) /\ lp[o].heapOnly /\ v[o] = "DEAD" /\ ~IsHotUpdated(lp[o]) => o \in Cleared(p)
       /\ Root(lp, o) => \A m \in From(Edges(lp, clog), o) :
                           v[m] = "DEAD" /\ (m = o \/ IsHotUpdated(lp[m])) => m \in Cleared(p)
       /\ lp[o].st = "redirect" =>
            \A b \in Off : <<o, b>> \in Edges(lp, clog) /\ v[b] = "DEAD" => o \in Cleared(p)

PlanMore(v, n, p) ==
  IF n \in Marked(p) \/ lp[n].st \in {"unused", "dead"} THEN p ELSE heap_prune_chain(p, v, n)

\* The empty plan is fine.
LEMMA PlanStarts ==
  ASSUME NEW v
  PROVE  PlanInv(v, 0, NoChange) /\ NoChange \in Plan
<1>1. /\ NoChange \in Plan /\ NoChange.nowdead = {} /\ NoChange.nowunused = {}
      /\ NoChange.redirected = {}
  BY DEF NoChange, Plan
<1>2. Cleared(NoChange) = {}
  BY <1>1 DEF Cleared
<1>3. PlanFine(v, NoChange)
  BY <1>1, <1>2 DEF PlanFine
<1>4. \A o \in Off : ~(o <= 0)
  BY DEF Off
<1> QED
  BY <1>1, <1>2, <1>3, <1>4 DEF PlanInv

\* One line pointer more of pg_tde_page_prune.
LEMMA PlanGoesOn ==
  ASSUME Types, XactInv, TupleInv, EdgeInv, NEW v, IsView(v), NEW n \in Off, NEW p,
         PlanInv(v, n - 1, p)
  PROVE  PlanInv(v, n, PlanMore(v, n, p)) /\ PlanMore(v, n, p) \in Plan
<1> DEFINE q == PlanMore(v, n, p)
<1>1. PlanFine(v, p) /\ p \in Plan /\ n \in Nat
  BY OffNumbers DEF PlanInv, PlanFine
<1>2. \A o \in Off : o <= n <=> o <= n - 1 \/ o = n
  BY OffNumbers
<1>3. SUFFICES
        /\ PlanFine(v, q) /\ Cleared(p) \subseteq Cleared(q)
        /\ \A o \in Cleared(q) : Root(lp, o) => o \in Cleared(p) \/ o = n
        /\ Normal(lp, n) /\ lp[n].heapOnly /\ v[n] = "DEAD" /\ ~IsHotUpdated(lp[n]) => n \in Cleared(q)
        /\ Root(lp, n) => \A m \in From(Edges(lp, clog), n) :
                            v[m] = "DEAD" /\ (m = n \/ IsHotUpdated(lp[m])) => m \in Cleared(q)
        /\ lp[n].st = "redirect" =>
             \A b \in Off : <<n, b>> \in Edges(lp, clog) /\ v[b] = "DEAD" => n \in Cleared(q)
  <2> HIDE DEF q
  <2>1. q \in Plan
    BY DEF PlanFine
  <2>2. \A o \in Cleared(q) : Root(lp, o) => o <= n
    <3>1. ASSUME NEW o \in Cleared(q), Root(lp, o)
          PROVE  o <= n
      <4>1. o \in Off
        BY <3>1 DEF Root
      <4>2. o \in Cleared(p) => o <= n - 1
        BY <3>1 DEF PlanInv
      <4> QED
        BY <1>2, <3>1, <4>1, <4>2
    <3> QED
      BY <3>1
  <2>3. ASSUME NEW o \in Off, o <= n
        PROVE  /\ Normal(lp, o) /\ lp[o].heapOnly /\ v[o] = "DEAD" /\ ~IsHotUpdated(lp[o]) => o \in Cleared(q)
               /\ Root(lp, o) => \A m \in From(Edges(lp, clog), o) :
                                   v[m] = "DEAD" /\ (m = o \/ IsHotUpdated(lp[m])) => m \in Cleared(q)
               /\ lp[o].st = "redirect" =>
                    \A b \in Off : <<o, b>> \in Edges(lp, clog) /\ v[b] = "DEAD" => o \in Cleared(q)
    <3>1. CASE o <= n - 1
      BY <3>1 DEF PlanInv
    <3>2. CASE o = n
      BY <3>2
    <3> QED
      BY <1>2, <2>3, <3>1, <3>2
  <2>4. PlanInv(v, n, q)
    BY <2>2, <2>3 DEF PlanInv
  <2> QED
    BY <2>1, <2>4 DEF q
<1>4. CASE n \in Marked(p) \/ lp[n].st \in {"unused", "dead"}
  <2>1. q = p
    BY <1>4 DEF PlanMore
  <2>2. ~Root(lp, n) /\ lp[n].st # "redirect"
    <3>0. lp[n].st = "redirect" => Root(lp, n)
      BY DEF Root
    <3> SUFFICES ASSUME Root(lp, n), n \in Marked(p) PROVE FALSE
      BY <1>4, <3>0 DEF Root
    <3>1. n \in Cleared(p)
      BY <1>1, MarkedAre
    <3>2. n <= n - 1
      BY <3>1 DEF PlanInv
    <3> QED
      BY <1>1, <3>2
  <2>3. Normal(lp, n) /\ v[n] = "DEAD" => n \in Cleared(p)
    <3> SUFFICES ASSUME Normal(lp, n), v[n] = "DEAD" PROVE n \in Cleared(p)
      OBVIOUS
    <3>1. n \in Marked(p)
      BY <1>4 DEF Normal
    <3>2. \A e \in p.redirected : n # e[2]
      BY <1>1 DEF PlanFine
    <3> QED
      BY <1>1, <3>1, <3>2, MarkedAre
  <2> QED
    BY <1>1, <2>1, <2>2, <2>3
<1>5. CASE n \notin Marked(p) /\ lp[n].st = "normal" /\ lp[n].heapOnly
  <2>1. Normal(lp, n) /\ ~Root(lp, n) /\ lp[n].st # "redirect"
    BY <1>5 DEF Normal, Root
  <2>2. q = IF v[n] = "DEAD" /\ ~IsHotUpdated(lp[n]) THEN AddUnused(p, {n}) ELSE p
    <3>1. q = heap_prune_chain(p, v, n)
      BY <1>5 DEF PlanMore
    <3>2. heap_prune_chain(p, v, n) =
            IF v[n] = "DEAD" /\ ~IsHotUpdated(lp[n]) THEN AddUnused(p, {n}) ELSE p
      BY <1>5, Zenon DEF heap_prune_chain, AddUnused
    <3> QED
      BY <3>1, <3>2
  <2> HIDE DEF q
  <2>3. CASE v[n] = "DEAD" /\ ~IsHotUpdated(lp[n])
    <3>1. Gone(clog, snap, lp[n])
      BY <2>3, ViewFacts
    <3>2. q = AddUnused(p, {n})
      BY <2>2, <2>3
    <3>3. PlanFine(v, AddUnused(p, {n})) /\ Cleared(AddUnused(p, {n})) = Cleared(p) \cup {n}
      BY <1>1, <1>5, <2>1, <2>3, <3>1, AddAlone
    <3> QED
      BY <2>1, <3>2, <3>3 DEF q
  <2>4. CASE ~(v[n] = "DEAD" /\ ~IsHotUpdated(lp[n]))
    BY <1>1, <2>1, <2>2, <2>4 DEF q
  <2> QED
    BY <2>3, <2>4
<1>6. CASE n \notin Marked(p) /\ lp[n].st \notin {"unused", "dead"} /\ ~(lp[n].st = "normal" /\ lp[n].heapOnly)
  <2>1. Root(lp, n)
    <3>1. lp[n] \in Item
      BY DEF Types
    <3> QED
      BY <1>6, <3>1, ItemKinds DEF Root
  <2>2. q = PruneChainAt(p, n, ChainFrom(p, v, n))
    BY <1>6 DEF PlanMore, heap_prune_chain
  <2> DEFINE w == ChainFrom(p, v, n)
  <2>3. IsWhole(v, Marked(p), n, w)
    BY <1>6, <2>1, ChainWalk
  <2> HIDE DEF w, q
  <2>4. ChainDone(v, p, n, PruneChainAt(p, n, w))
    <3>1. CASE w.latestdead = None
      BY <1>1, <1>6, <2>1, <2>3, <3>1, NoHeadPruned
    <3>2. CASE w.latestdead # None
      BY <1>1, <1>6, <2>1, <2>3, <3>2, DeadHeadPruned
    <3> QED
      BY <3>1, <3>2
  <2>5. ChainDone(v, p, n, q)
    BY <2>2, <2>4 DEF w
  <2> QED
    BY <1>6, <2>5 DEF ChainDone, Normal, q
<1> QED
  BY <1>4, <1>5, <1>6

\* All the line pointers of pg_tde_page_prune.
LEMMA PlanWhole ==
  ASSUME Types, XactInv, TupleInv, EdgeInv, NEW v, IsView(v)
  PROVE  PlanInv(v, MaxOff, PrunePlan(v)) /\ PrunePlan(v) \in Plan
<1> DEFINE K == MaxOff
           A == NoChange
           G == [n \in Nat |-> [p \in Plan |->
                   IF PlanMore(v, n, p) \in Plan THEN PlanMore(v, n, p) ELSE p]]
           body(f) == [n \in 0..MaxOff |->
             IF n = 0 THEN NoChange
             ELSE LET p == f[n - 1] IN
                  IF n \in Marked(p) \/ lp[n].st \in {"unused", "dead"} THEN p
                  ELSE heap_prune_chain(p, v, n)]
           Fine(n, p) == PlanInv(v, n, p) /\ p \in Plan
<1>1. PrunePlan(v) = (CHOOSE f : f = body(f))[K]
  BY DEF PrunePlan
<1>2. \A f : body(f) = [n \in 0..K |-> IF n = 0 THEN A ELSE PlanMore(v, n, f[n - 1])]
  BY DEF PlanMore
<1> HIDE DEF body
<1>3. A \in Plan /\ Fine(0, A)
  BY PlanStarts
<1> HIDE DEF A
<1>4. \A n \in 1..K : \A p : Fine(n - 1, p) => Fine(n, PlanMore(v, n, p)) /\ PlanMore(v, n, p) \in Plan
  BY PlanGoesOn DEF Off
<1>5. G \in [Nat -> [Plan -> Plan]]
  OBVIOUS
<1>6. \A n \in Nat : \A p \in Plan :
        G[n][p] = IF PlanMore(v, n, p) \in Plan THEN PlanMore(v, n, p) ELSE p
  OBVIOUS
<1> HIDE DEF G, Fine
<1>7. 0 \in Nat /\ K \in Nat /\ 0 <= K /\ K \in 0..K
  BY Constants
<1>20. K = MaxOff
  OBVIOUS
<1> HIDE DEF K
<1>8. PICK g \in [0..K -> Plan] : g[0] = A /\ \A n \in 1..K : g[n] = G[n][g[n - 1]]
  <2>1. \E g : IsRecursive(g, Plan, A, G, 0, K)
    BY <1>3, <1>5, <1>7, RecursionWorks
  <2>2. PICK g : IsRecursive(g, Plan, A, G, 0, K)
    BY <2>1
  <2>3. g \in [0..K -> Plan] /\ g[0] = A
    BY <2>2 DEF IsRecursive
  <2>4. \A n \in (0 + 1)..K : g[n] = G[n][g[n - 1]]
    BY <2>2, Zenon DEF IsRecursive
  <2>5. (0 + 1)..K = 1..K
    OBVIOUS
  <2> QED
    BY <2>3, <2>4, <2>5, Zenon
<1>9. \A n \in 1..K : n - 1 \in 0..K /\ g[n - 1] \in Plan
  BY <1>7
<1>10. \A n \in 0..K : Fine(n, g[n])
  <2> DEFINE T == {n \in 0..K : ~Fine(n, g[n])}
  <2> SUFFICES ASSUME T # {} PROVE FALSE
    OBVIOUS
  <2>1. PICK n \in T : \A i \in T : n <= i
    <3>1. T \subseteq Nat
      OBVIOUS
    <3> HIDE DEF T
    <3> QED
      BY <3>1, LeastNatural
  <2>2. n \in 0..K /\ ~Fine(n, g[n])
    OBVIOUS
  <2>3. n # 0
    BY <1>3, <1>8, <2>2
  <2>4. n \in 1..K /\ n \in Nat /\ n >= 1 /\ ~(n <= n - 1)
    BY <1>7, <2>2, <2>3
  <2>5. Fine(n - 1, g[n - 1])
    BY <1>9, <2>1, <2>4
  <2>6. g[n] = G[n][g[n - 1]]
    BY <1>8, <2>4
  <2>7. Fine(n, PlanMore(v, n, g[n - 1])) /\ PlanMore(v, n, g[n - 1]) \in Plan
    BY <1>4, <2>4, <2>5
  <2>8. g[n] = PlanMore(v, n, g[n - 1])
    BY <1>6, <1>9, <2>4, <2>6, <2>7
  <2> QED
    BY <2>2, <2>7, <2>8
<1>11. \A n \in 1..K : g[n] = PlanMore(v, n, g[n - 1])
  <2>1. ASSUME NEW n \in 1..K
        PROVE  g[n] = PlanMore(v, n, g[n - 1])
    <3>1. n \in Nat
      BY <1>7
    <3>2. PlanMore(v, n, g[n - 1]) \in Plan
      BY <1>4, <1>9, <1>10
    <3>3. g[n] = G[n][g[n - 1]]
      BY <1>8
    <3> QED
      BY <1>6, <1>9, <3>1, <3>2, <3>3
  <2> QED
    BY <2>1
<1>12. g = body(g)
  <2> DEFINE h == [n \in 0..K |-> IF n = 0 THEN A ELSE PlanMore(v, n, g[n - 1])]
  <2>1. DOMAIN g = 0..K /\ DOMAIN h = 0..K
    BY <1>8
  <2>2. \A n \in 0..K : g[n] = h[n]
    BY <1>7, <1>8, <1>11
  <2>3. g = [n \in DOMAIN g |-> g[n]] /\ h = [n \in DOMAIN h |-> h[n]]
    BY <1>8
  <2>4. g = h
    BY <2>1, <2>2, <2>3
  <2> QED
    BY <1>2, <2>4
<1> DEFINE F == CHOOSE f : f = body(f)
<1>13. F = body(F)
  BY <1>12, Zenon
<1>14. PrunePlan(v) = F[K]
  BY <1>1
<1> HIDE DEF F
<1>15. F[0] = A /\ \A n \in 1..K : F[n] = PlanMore(v, n, F[n - 1])
  <2>1. F = [n \in 0..K |-> IF n = 0 THEN A ELSE PlanMore(v, n, F[n - 1])]
    BY <1>2, <1>13
  <2>2. 0 \in 0..K /\ \A n \in 1..K : n \in 0..K /\ n # 0
    BY <1>7
  <2>3. \A n \in 0..K : F[n] = IF n = 0 THEN A ELSE PlanMore(v, n, F[n - 1])
    BY ONLY <2>1, Zenon
  <2> QED
    BY <2>2, <2>3
<1>16. \A n \in 0..K : Fine(n, F[n])
  <2> DEFINE T == {n \in 0..K : ~Fine(n, F[n])}
  <2> SUFFICES ASSUME T # {} PROVE FALSE
    OBVIOUS
  <2>1. PICK n \in T : \A i \in T : n <= i
    <3>1. T \subseteq Nat
      OBVIOUS
    <3> HIDE DEF T
    <3> QED
      BY <3>1, LeastNatural
  <2>2. n \in 0..K /\ ~Fine(n, F[n])
    OBVIOUS
  <2>3. n # 0
    BY <1>3, <1>15, <2>2
  <2>4. n \in 1..K /\ n \in Nat /\ n >= 1 /\ ~(n <= n - 1) /\ n - 1 \in 0..K
    BY <1>7, <2>2, <2>3
  <2>5. Fine(n - 1, F[n - 1])
    BY <2>1, <2>4
  <2> QED
    BY <1>4, <1>15, <2>2, <2>4, <2>5
<1> QED
  BY <1>7, <1>14, <1>16, <1>20 DEF Fine

\* The plan of pg_tde_page_prune is fine, and every dead tuple is in it.
LEMMA PrunePlanFine ==
  ASSUME Types, XactInv, TupleInv, EdgeInv, Anchored, NEW v, IsView(v)
  PROVE  /\ PlanFine(v, PrunePlan(v)) /\ PrunePlan(v) \in Plan
         /\ \A o \in Off : Normal(lp, o) /\ v[o] = "DEAD" => o \in Cleared(PrunePlan(v))
<1>1. PlanInv(v, MaxOff, PrunePlan(v)) /\ PrunePlan(v) \in Plan
  BY PlanWhole
<1>2. ASSUME NEW o \in Off, Normal(lp, o), v[o] = "DEAD"
      PROVE  o \in Cleared(PrunePlan(v))
  <2>1. \A a \in Off : a <= MaxOff
    BY OffNumbers
  <2>2. CASE ~lp[o].heapOnly
    <3>1. Root(lp, o)
      BY <1>2, <2>2 DEF Normal, Root
    <3>2. o \in From(Edges(lp, clog), o)
      BY FromStarts
    <3> QED
      BY <1>1, <1>2, <2>1, <3>1, <3>2 DEF PlanInv
  <2>3. CASE lp[o].heapOnly /\ ~IsHotUpdated(lp[o])
    BY <1>1, <1>2, <2>1, <2>3 DEF PlanInv
  <2>4. CASE lp[o].heapOnly /\ IsHotUpdated(lp[o])
    <3>1. clog[lp[o].xmin] # "aborted"
      BY <2>4 DEF IsHotUpdated
    <3>2. \E r \in Off : o \in Chain(lp, clog, r)
      BY <1>2, <3>1, HasRoot DEF Types, EdgeInv, Anchored
    <3>3. PICK r \in Off : o \in Chain(lp, clog, r)
      BY <3>2
    <3>4. Root(lp, r) /\ o \in From(Edges(lp, clog), r)
      BY <3>3, ChainIs
    <3> QED
      BY <1>1, <1>2, <2>1, <2>4, <3>4 DEF PlanInv
  <2> QED
    BY <2>2, <2>3, <2>4
<1> QED
  BY <1>1, <1>2 DEF PlanInv

-----------------------------------------------------------------------------
(* A page with some of its tuples removed.                                   *)

\* P is what is left of the page: the tuples that somebody may still need, each
\* in the chain it was in.
IsLeft(P) ==
  /\ P \in [Off -> Item]
  /\ \A o \in Off : Normal(P, o) => Normal(lp, o) /\ P[o] = lp[o]
  /\ \A o \in Off : Normal(lp, o) /\ ~Gone(clog, snap, lp[o]) => Normal(P, o)
  /\ \A o \in Off : /\ Root(P, o) => Root(lp, o)
                    /\ Root(lp, o) => Root(P, o) \/ P[o] = Dead
  /\ \A a, b \in Off : <<a, b>> \in Edges(P, clog) =>
       b \in From(Edges(lp, clog), a) /\ Normal(P, b) /\ P[b].heapOnly
  /\ \A a, b, c \in Off : <<a, c>> \in Edges(P, clog) /\ <<b, c>> \in Edges(P, clog) => a = b
  /\ \A a, b \in Off : <<a, b>> \in Edges(lp, clog) /\ Normal(P, b) =>
       /\ \E c \in Off : <<c, b>> \in Edges(P, clog)
       /\ Normal(P, a) => <<a, b>> \in Edges(P, clog)

\* The page after pg_tde_page_prune_execute.
LEMMA PageAfter ==
  ASSUME Types, NEW v, NEW p, PlanFine(v, p), NEW o \in Off
  PROVE  LET P == pg_tde_page_prune_execute(p) IN
         /\ P[o] \in Item
         /\ o \notin Cleared(p) => P[o] = lp[o]
         /\ o \in Cleared(p) => ~Normal(P, o)
         /\ \A e \in p.redirected : e[1] = o => P[o] = Redirect(e[2])
         /\ o \in p.nowdead => P[o] = Dead
         /\ o \in p.nowunused /\ o \notin p.nowdead => P[o] = Unused
<1> DEFINE P == pg_tde_page_prune_execute(p)
<1>1. P[o] = IF o \in p.nowdead THEN Dead
             ELSE IF o \in p.nowunused THEN Unused
             ELSE IF \E r \in p.redirected : r[1] = o
               THEN Redirect((CHOOSE r \in p.redirected : r[1] = o)[2])
             ELSE lp[o]
  BY DEF pg_tde_page_prune_execute
<1> HIDE DEF P
<1>2. p.redirected \subseteq Off \X Off /\ lp[o] \in Item
  BY DEF PlanFine, Plan, Types
<1>3. \A e \in p.redirected : e[1] = o => o \notin p.nowdead /\ o \notin p.nowunused
  <2>1. ASSUME NEW e \in p.redirected, e[1] = o
        PROVE  o \notin p.nowdead /\ Root(lp, o)
    BY <2>1 DEF PlanFine
  <2>2. o \in p.nowunused => Normal(lp, o) /\ lp[o].heapOnly
    BY DEF PlanFine
  <2> QED
    BY <2>1, <2>2 DEF Root, Normal
<1>4. \A e \in p.redirected : e[1] = o => P[o] = Redirect(e[2])
  <2>1. ASSUME NEW e \in p.redirected, e[1] = o
        PROVE  P[o] = Redirect(e[2])
    <3>1. \A f \in p.redirected : f[1] = o => f = e
      BY <2>1 DEF PlanFine
    <3>2. (CHOOSE r \in p.redirected : r[1] = o) = e
      BY <2>1, <3>1
    <3> QED
      BY <1>1, <1>3, <2>1, <3>2
  <2> QED
    BY <2>1
<1>5. \A e \in p.redirected : Redirect(e[2]) \in Item /\ Redirect(e[2]).st = "redirect"
  BY <1>2, ItemFacts
<1>6. (\E e \in p.redirected : e[1] = o) => P[o] \in Item /\ ~Normal(P, o)
  BY <1>4, <1>5 DEF Normal
<1>7. o \in p.nowdead => P[o] = Dead
  BY <1>1
<1>8. o \in p.nowunused /\ o \notin p.nowdead => P[o] = Unused
  BY <1>1
<1>9. o \in Cleared(p) <=> o \in p.nowdead \/ o \in p.nowunused \/ \E e \in p.redirected : e[1] = o
  BY DEF Cleared
<1>10. o \notin Cleared(p) => P[o] = lp[o]
  BY <1>1, <1>9
<1>11. o \in p.nowdead \/ o \in p.nowunused => P[o] \in Item /\ ~Normal(P, o)
  BY <1>7, <1>8, ItemFacts DEF Normal
<1> QED
  BY <1>2, <1>4, <1>6, <1>7, <1>8, <1>9, <1>10, <1>11 DEF P

\* What pruning leaves on the page: dead line pointers stay, on a page on which
\* everything is needed there are no new ones, and no tuple that was found dead is left.
LEMMA PruneLeaves ==
  ASSUME Types, XactInv, TupleInv, EdgeInv, Anchored, NEW v, IsView(v),
         NEW P, P = pg_tde_page_prune_execute(PrunePlan(v))
  PROVE  /\ IsLeft(P)
         /\ \A o \in Off : lp[o] = Dead => P[o] = Dead
         /\ (\A o \in Off : Normal(lp, o) => ~Gone(clog, snap, lp[o])) =>
              \A o \in Off : P[o] = Dead => lp[o] = Dead
         /\ \A o \in Off : Normal(P, o) => P[o] = lp[o] /\ v[o] # "DEAD"
<1> DEFINE p == PrunePlan(v)
           R == Edges(lp, clog)
           Q == Edges(P, clog)
<1>1. PlanFine(v, p) /\ p \in Plan /\ PlanInv(v, MaxOff, p)
  BY PrunePlanFine, PlanWhole
<1>2. \A o \in Off : Normal(lp, o) /\ v[o] = "DEAD" => o \in Cleared(p)
  BY PrunePlanFine
<1>3. \A o \in Off : /\ P[o] \in Item
                     /\ o \notin Cleared(p) => P[o] = lp[o]
                     /\ o \in Cleared(p) => ~Normal(P, o)
                     /\ \A e \in p.redirected : e[1] = o => P[o] = Redirect(e[2])
                     /\ o \in p.nowdead => P[o] = Dead
                     /\ o \in p.nowunused /\ o \notin p.nowdead => P[o] = Unused
  BY <1>1, PageAfter
<1>4. P \in [Off -> Item]
  <2>1. P = [o \in Off |-> P[o]]
    BY DEF pg_tde_page_prune_execute
  <2> QED
    BY <1>3, <2>1
<1>5. /\ p.redirected \subseteq Off \X Off /\ p.nowdead \subseteq Off /\ p.nowunused \subseteq Off
      /\ Cleared(p) = p.nowdead \cup p.nowunused \cup {e[1] : e \in p.redirected}
  BY <1>1 DEF Plan, Cleared
<1> HIDE DEF p, R, Q
<1>6. \A o \in Off : Normal(P, o) <=> Normal(lp, o) /\ o \notin Cleared(p)
  BY <1>3 DEF Normal
<1>7. \A o \in Off : Normal(P, o) => P[o] = lp[o]
  BY <1>3, <1>6
<1>8. \A o \in Off : Normal(lp, o) /\ ~Gone(clog, snap, lp[o]) => Normal(P, o)
  <2>1. \A o \in Cleared(p) : Normal(lp, o) => Gone(clog, snap, lp[o])
    BY <1>1 DEF PlanFine
  <2> QED
    BY <1>6, <2>1
<1>9. \A o : Redirect(o).st = "redirect" /\ Redirect(o).to = o /\ Redirect(o) # Dead /\ Unused # Dead
             /\ Dead.st = "dead" /\ Unused.st = "unused"
  <2>1. \A o : Redirect(o).st = "redirect" /\ Redirect(o).to = o /\ Dead.st = "dead" /\ Unused.st = "unused"
    BY ItemFacts
  <2> QED
    BY <2>1
<1>10. \A o \in Cleared(p) : /\ (Normal(lp, o) /\ lp[o].heapOnly /\ o \in p.nowunused) \/ Root(lp, o)
                             /\ o \in Off
  BY <1>1, <1>5, MarkedAre
<1>11. ASSUME NEW o \in Off
       PROVE  /\ Root(P, o) => Root(lp, o)
              /\ Root(lp, o) => Root(P, o) \/ P[o] = Dead
  <2>1. CASE o \notin Cleared(p)
    BY <1>3, <2>1 DEF Root
  <2>2. CASE o \in p.nowdead
    <3>1. P[o] = Dead /\ ~Root(P, o)
      BY <1>3, <1>9, <2>2 DEF Root
    <3> QED
      BY <3>1
  <2>3. CASE o \in p.nowunused /\ o \notin p.nowdead
    <3>1. ~Root(P, o)
      BY <1>3, <1>9, <2>3 DEF Root
    <3>2. ~Root(lp, o)
      <4>1. Normal(lp, o) /\ lp[o].heapOnly
        BY <1>1, <2>3 DEF PlanFine
      <4> QED
        BY <4>1 DEF Root, Normal
    <3> QED
      BY <3>1, <3>2
  <2>4. CASE \E e \in p.redirected : e[1] = o
    <3>1. P[o].st = "redirect"
      BY <1>3, <1>9, <2>4
    <3>2. Root(lp, o)
      BY <1>1, <2>4 DEF PlanFine
    <3> QED
      BY <3>1, <3>2 DEF Root
  <2> QED
    BY <1>5, <2>1, <2>2, <2>3, <2>4
\* Edges of the page that is left: old ones, or new redirections.
<1>12. ASSUME NEW a \in Off, NEW b \in Off, <<a, b>> \in Q
       PROVE  \/ <<a, b>> \in R /\ a \notin Cleared(p) /\ b \notin Cleared(p)
              \/ <<a, b>> \in p.redirected /\ Root(lp, a)
  <2>1. Leads(P, clog, a, b)
    BY <1>12, EdgesAre DEF Q
  <2>2. CASE a \notin Cleared(p) /\ lp[a].st = "redirect"
    <3>1. lp[a].to = b
      BY <1>3, <2>1, <2>2 DEF Leads, Normal
    <3>2. <<a, b>> \in R
      BY <2>2, <3>1, EdgesAre DEF Leads, R
    <3>3. ASSUME b \in Cleared(p)
          PROVE  FALSE
      <4>1. Normal(lp, b) /\ lp[b].heapOnly
        BY <3>2 DEF EdgeInv, EdgesFine, R
      <4>2. ~Root(lp, b)
        BY <4>1 DEF Root, Normal
      <4>3. b \in p.nowunused
        BY <1>10, <3>3, <4>2
      <4>4. CASE v[b] = "DEAD"
        <5>1. a <= MaxOff
          BY OffNumbers
        <5>2. a \in Cleared(p)
          BY <1>1, <2>2, <3>2, <4>4, <5>1 DEF PlanInv, R
        <5> QED
          BY <2>2, <5>2
      <4>5. CASE \E r \in Cleared(p) : Root(lp, r) /\ b \in From(R, r)
        <5>1. PICK r \in Cleared(p) : Root(lp, r) /\ b \in From(R, r)
          BY <4>5
        <5>2. Root(lp, a) /\ b \in From(R, a)
          BY <2>2, <3>2, FromStarts, FromSteps DEF Root
        <5>3. b \in Chain(lp, clog, a) /\ b \in Chain(lp, clog, r) /\ r \in Off
          BY <1>10, <4>1, <5>1, <5>2, ChainIs DEF R
        <5>4. a = r
          BY <5>3, ChainsApart DEF EdgeInv
        <5> QED
          BY <2>2, <5>1, <5>4
      <4> QED
        BY <1>1, <4>3, <4>4, <4>5 DEF PlanFine, R
    <3> QED
      BY <2>2, <3>2, <3>3
  <2>3. CASE a \notin Cleared(p) /\ lp[a].st # "redirect"
    <3>1. P[a] = lp[a] /\ Normal(P, a) /\ Normal(P, b) /\ P[b] = lp[b]
      BY <1>3, <1>7, <2>1, <2>3 DEF Leads
    <3>2. Leads(lp, clog, a, b)
      BY <1>6, <2>1, <2>3, <3>1 DEF Leads
    <3>3. <<a, b>> \in R /\ b \notin Cleared(p)
      BY <1>6, <3>1, <3>2, EdgesAre DEF R
    <3> QED
      BY <2>3, <3>3
  <2>4. CASE a \in Cleared(p)
    <3>1. P[a].st = "redirect" /\ P[a].to = b
      BY <1>3, <2>1, <2>4 DEF Leads
    <3>2. a \notin p.nowdead /\ a \notin p.nowunused
      BY <1>3, <1>9, <3>1
    <3>3. PICK e \in p.redirected : e[1] = a
      BY <1>5, <2>4, <3>2
    <3>4. b = e[2]
      BY <1>3, <1>9, <3>1, <3>3
    <3>5. e = <<a, b>>
      BY <1>5, <3>3, <3>4
    <3>6. Root(lp, a)
      BY <1>1, <3>3 DEF PlanFine
    <3> QED
      BY <3>5, <3>6
  <2> QED
    BY <2>2, <2>3, <2>4
<1>13. \A e \in p.redirected :
         /\ Root(lp, e[1]) /\ e[2] \in From(R, e[1]) /\ e[2] \notin Cleared(p)
         /\ Normal(lp, e[2]) /\ lp[e[2]].heapOnly
         /\ \A a \in Off : <<a, e[2]>> \in R => a \in Cleared(p)
  BY <1>1 DEF PlanFine, R
<1>14. ASSUME NEW a \in Off, NEW b \in Off, <<a, b>> \in Q
       PROVE  b \in From(R, a) /\ Normal(P, b) /\ P[b].heapOnly
  <2>1. CASE <<a, b>> \in R /\ a \notin Cleared(p) /\ b \notin Cleared(p)
    <3>1. b \in From(R, a)
      BY <2>1, FromStarts, FromSteps
    <3>2. Normal(lp, b) /\ lp[b].heapOnly
      BY <2>1 DEF EdgeInv, EdgesFine, R
    <3> QED
      BY <1>6, <1>7, <2>1, <3>1, <3>2
  <2>2. CASE <<a, b>> \in p.redirected
    <3>1. b \in From(R, a) /\ b \notin Cleared(p) /\ Normal(lp, b) /\ lp[b].heapOnly
      BY <1>13, <2>2
    <3> QED
      BY <1>6, <1>7, <3>1
  <2> QED
    BY <1>12, <1>14, <2>1, <2>2
<1>15. ASSUME NEW a \in Off, NEW b \in Off, NEW c \in Off, <<a, c>> \in Q, <<b, c>> \in Q
       PROVE  a = b
  <2>1. <<a, c>> \in p.redirected => ~(<<b, c>> \in R /\ b \notin Cleared(p))
    BY <1>13
  <2>2. <<b, c>> \in p.redirected => ~(<<a, c>> \in R /\ a \notin Cleared(p))
    BY <1>13
  <2>3. CASE <<a, c>> \in p.redirected /\ <<b, c>> \in p.redirected
    <3>1. /\ Root(lp, a) /\ Root(lp, b) /\ c \in From(R, a) /\ c \in From(R, b) /\ Normal(lp, c)
      BY <1>13, <2>3
    <3>2. c \in Chain(lp, clog, a) /\ c \in Chain(lp, clog, b)
      BY <3>1, ChainIs DEF R
    <3> QED
      BY <3>2, ChainsApart DEF EdgeInv
  <2>4. CASE <<a, c>> \in R /\ <<b, c>> \in R
    BY <2>4 DEF EdgeInv, EdgesFine, R
  <2> QED
    BY <1>12, <1>15, <2>1, <2>2, <2>3, <2>4
<1>16. ASSUME NEW a \in Off, NEW b \in Off, <<a, b>> \in R, a \notin Cleared(p), Normal(P, b)
       PROVE  <<a, b>> \in Q
  <2>1. Leads(lp, clog, a, b) /\ P[a] = lp[a] /\ P[b] = lp[b]
    BY <1>3, <1>7, <1>16, EdgesAre DEF R
  <2>2. Normal(lp, a) => Normal(P, a)
    BY <1>6, <1>16
  <2>3. Leads(P, clog, a, b)
    BY <1>16, <2>1, <2>2 DEF Leads
  <2> QED
    BY <2>3, EdgesAre DEF Q
<1>17. ASSUME NEW a \in Off, NEW b \in Off, <<a, b>> \in R, Normal(P, b)
       PROVE  /\ \E c \in Off : <<c, b>> \in Q
              /\ Normal(P, a) => <<a, b>> \in Q
  <2>1. CASE a \notin Cleared(p)
    BY <1>16, <1>17, <2>1
  <2>2. CASE a \in Cleared(p)
    <3>1. b \notin Cleared(p)
      BY <1>6, <1>17
    <3>2. PICK e \in p.redirected : e[2] = b
      BY <1>1, <1>17, <2>2, <3>1 DEF PlanFine, R
    <3>3. e[1] \in Off /\ P[e[1]].st = "redirect" /\ P[e[1]].to = b
      BY <1>3, <1>5, <1>9, <3>2
    <3>4. <<e[1], b>> \in Q
      BY <3>3, EdgesAre DEF Leads, Q
    <3>5. ~Normal(P, a)
      BY <1>6, <2>2
    <3> QED
      BY <3>3, <3>4, <3>5
  <2> QED
    BY <2>1, <2>2
<1>18. IsLeft(P)
  BY <1>4, <1>6, <1>7, <1>8, <1>11, <1>14, <1>15, <1>17 DEF IsLeft, Q, R
<1>19. \A o \in Off : lp[o] = Dead => P[o] = Dead
  <2>1. ASSUME NEW o \in Off, lp[o] = Dead
        PROVE  o \notin Cleared(p)
    BY <1>9, <1>10, <2>1 DEF Root, Normal
  <2> QED
    BY <1>3, <2>1
<1>20. ASSUME \A o \in Off : Normal(lp, o) => ~Gone(clog, snap, lp[o]), NEW o \in Off, P[o] = Dead
       PROVE  lp[o] = Dead
  <2>1. \A d \in Cleared(p) : ~Normal(lp, d)
    BY <1>1, <1>5, <1>10, <1>20 DEF PlanFine
  <2>2. CASE o \notin Cleared(p)
    BY <1>3, <1>20, <2>2
  <2>3. CASE o \in Cleared(p)
    <3>1. o \in p.nowdead
      BY <1>3, <1>5, <1>9, <1>20, <2>3
    <3>2. Root(lp, o) /\ ~Normal(lp, o)
      BY <1>1, <2>1, <2>3, <3>1 DEF PlanFine
    <3>3. lp[o].st = "redirect" /\ lp[o].to \in Off
      <4>1. lp[o] \in Item
        BY DEF Types
      <4>2. lp[o].st = "redirect"
        BY <3>2 DEF Root, Normal
      <4> QED
        BY <4>1, <4>2, ItemKinds
    <3>4. <<o, lp[o].to>> \in R
      BY <3>3, EdgesAre DEF Leads, R
    <3>5. lp[o].to \in Cleared(p)
      BY <1>1, <2>3, <3>1, <3>3, <3>4 DEF PlanFine, R
    <3>6. Normal(lp, lp[o].to)
      BY <3>3, <3>4 DEF EdgeInv, EdgesFine, R
    <3> QED
      BY <2>1, <3>5, <3>6
  <2> QED
    BY <2>2, <2>3
<1>21. \A o \in Off : Normal(P, o) => P[o] = lp[o] /\ v[o] # "DEAD"
  BY <1>2, <1>6, <1>7
<1> QED
  BY <1>18, <1>19, <1>20, <1>21

AnchoredOn(P, C) ==
  \A o \in Off : Normal(P, o) /\ P[o].heapOnly /\ C[P[o].xmin] # "aborted" =>
    \E a \in Off : <<a, o>> \in Edges(P, C)

\* The chains of the page that is left: nobody who is needed has gone from one.
LEMMA LeftChains ==
  ASSUME Types, EdgeInv, Anchored, NEW P, IsLeft(P)
  PROVE  /\ EdgesFine(P, clog) /\ AnchoredOn(P, clog)
         /\ \A o \in Off : Chain(P, clog, o) \subseteq Chain(lp, clog, o)
         /\ \A o \in Off : \A m \in Chain(lp, clog, o) : ~Gone(clog, snap, lp[m]) => m \in Chain(P, clog, o)
<1> DEFINE R == Edges(lp, clog)
           Q == Edges(P, clog)
<1>0. R \subseteq Off \X Off /\ Q \subseteq Off \X Off
  BY EdgesAre
<1>1. EdgesFine(P, clog)
  <2>1. ASSUME NEW a \in Off, NEW b \in Off, <<a, b>> \in Q
        PROVE  /\ Normal(P, b) /\ P[b].heapOnly
               /\ Normal(P, a) => P[a].key = P[b].key /\ P[a].id < P[b].id
    <3>1. Normal(P, b) /\ P[b].heapOnly
      BY <2>1 DEF IsLeft
    <3>2. ASSUME Normal(P, a)
          PROVE  P[a].key = P[b].key /\ P[a].id < P[b].id
      <4>1. P[a] = lp[a] /\ P[b] = lp[b] /\ Normal(lp, a) /\ Normal(lp, b)
        BY <3>1, <3>2 DEF IsLeft
      <4>2. Leads(P, clog, a, b)
        BY <2>1, EdgesAre
      <4>3. Leads(lp, clog, a, b)
        BY <4>1, <4>2 DEF Leads
      <4>4. <<a, b>> \in R
        BY <4>3, EdgesAre
      <4> QED
        BY <4>1, <4>4 DEF EdgeInv, EdgesFine
    <3> QED
      BY <3>1, <3>2
  <2>2. \A a, b, c \in Off : <<a, c>> \in Q /\ <<b, c>> \in Q => a = b
    BY DEF IsLeft
  <2> QED
    BY <2>1, <2>2 DEF EdgesFine
<1>2. AnchoredOn(P, clog)
  <2>1. ASSUME NEW o \in Off, Normal(P, o), P[o].heapOnly, clog[P[o].xmin] # "aborted"
        PROVE  \E a \in Off : <<a, o>> \in Q
    <3>1. Normal(lp, o) /\ P[o] = lp[o]
      BY <2>1 DEF IsLeft
    <3>2. PICK a \in Off : <<a, o>> \in R
      BY <2>1, <3>1 DEF Anchored
    <3> QED
      BY <2>1, <3>2 DEF IsLeft
  <2> QED
    BY <2>1 DEF AnchoredOn
<1>3. ASSUME NEW o \in Off
      PROVE  Chain(P, clog, o) \subseteq Chain(lp, clog, o)
  <2>1. \A b, c \in Off : <<b, c>> \in Q /\ b \in From(R, o) => c \in From(R, o)
    <3>1. ASSUME NEW b \in Off, NEW c \in Off, <<b, c>> \in Q, b \in From(R, o)
          PROVE  c \in From(R, o)
      <4>1. c \in From(R, b)
        BY <3>1 DEF IsLeft
      <4> QED
        BY <1>0, <3>1, <4>1, FromTrans
    <3> QED
      BY <3>1
  <2>2. o \in From(R, o)
    BY FromStarts
  <2> HIDE DEF R, Q
  <2>3. From(Q, o) \subseteq From(R, o)
    BY <1>0, <2>1, <2>2, FromInduct
  <2>4. Root(P, o) => Root(lp, o)
    BY DEF IsLeft
  <2>5. \A m \in Off : Normal(P, m) => Normal(lp, m)
    BY DEF IsLeft
  <2>6. ASSUME NEW m \in Chain(P, clog, o)
        PROVE  m \in Chain(lp, clog, o)
    <3>1. Root(P, o) /\ m \in From(Q, o) /\ Normal(P, m) /\ m \in Off
      BY <2>6, ChainIs DEF Q
    <3> QED
      BY <2>3, <2>4, <2>5, <3>1, ChainIs DEF R
  <2> QED
    BY <2>6
<1>4. ASSUME NEW o \in Off, NEW m \in Chain(lp, clog, o), ~Gone(clog, snap, lp[m])
      PROVE  m \in Chain(P, clog, o)
  <2>1. m \in Off /\ Normal(lp, m)
    BY ChainIs
  <2>2. Normal(P, m) /\ P[m] = lp[m] /\ P \in [Off -> Item]
    BY <1>4, <2>1 DEF IsLeft
  <2>3. clog[P[m].xmin] # "aborted"
    BY <1>4, <2>2 DEF Gone
  <2>4. \E c \in Off : m \in Chain(P, clog, c)
    BY <1>1, <1>2, <2>1, <2>2, <2>3, HasRoot DEF AnchoredOn
  <2>5. PICK c \in Off : m \in Chain(P, clog, c)
    BY <2>4
  <2>6. m \in Chain(lp, clog, c)
    BY <1>3, <2>5
  <2>7. c = o
    BY <2>6, ChainsApart DEF EdgeInv
  <2> QED
    BY <2>5, <2>7
<1> QED
  BY <1>1, <1>2, <1>3, <1>4

\* What a running transaction has to do with is needed.
LEMMA RunningNotGone ==
  ASSUME TupleInv, NEW o \in Off, Normal(lp, o), NEW x, clog[x] = "running",
         lp[o].xmin = x \/ (lp[o].xmax = x /\ lp[o].xmax # None)
  PROVE  ~Gone(clog, snap, lp[o])
<1>1. lp[o].xmax # None => lp[o].xmax = lp[o].xmin \/ clog[lp[o].xmin] = "committed"
  BY DEF TupleInv
<1> QED
  BY <1>1 DEF Gone

\* Current versions, and those that a snapshot is shown, are needed.
LEMMA CurrentNotGone ==
  ASSUME NEW o \in Off, NEW C, NEW S
  PROVE  /\ o \in Current(lp, C) => ~Gone(C, S, lp[o])
         /\ \A r \in Reader : S[r] # NoSnap /\ Shows(C, lp[o], S[r]) => ~Gone(C, S, lp[o])
BY DEF Current, Gone, Shows

\* Removing what nobody needs.
LEMMA LeftKeeps ==
  ASSUME Types, XactInv, TupleInv, IdsUnique, EdgeInv, Anchored, RowsInv, IndexInv, SeenInv,
         IsLeft(lp'), UNCHANGED <<clog, nextXid, snap, rows, made, gone, lastId, index, todo>>,
         \A e \in index : Root(lp', e.off) \/ lp'[e.off] = Dead
  PROVE  /\ TupleInv' /\ IdsUnique' /\ EdgeInv' /\ Anchored' /\ RowsInv' /\ IndexInv' /\ SeenInv'
<1>1. PICK P : P = lp'
  OBVIOUS
<1>2. IsLeft(P) /\ \A e \in index : Root(P, e.off) \/ P[e.off] = Dead
  BY <1>1
<1>3. /\ P \in [Off -> Item]
      /\ \A o \in Off : Normal(P, o) => Normal(lp, o) /\ P[o] = lp[o]
      /\ \A o \in Off : Normal(lp, o) /\ ~Gone(clog, snap, lp[o]) => Normal(P, o)
      /\ \A a, b \in Off : <<a, b>> \in Edges(lp, clog) /\ Normal(P, b) /\ Normal(P, a) =>
           <<a, b>> \in Edges(P, clog)
  BY <1>2 DEF IsLeft
<1>4. /\ EdgesFine(P, clog) /\ AnchoredOn(P, clog)
      /\ \A o \in Off : Chain(P, clog, o) \subseteq Chain(lp, clog, o)
      /\ \A o \in Off : \A m \in Chain(lp, clog, o) : ~Gone(clog, snap, lp[m]) => m \in Chain(P, clog, o)
  BY <1>2, LeftChains
<1>5. EdgeInv'
  BY <1>1, <1>4 DEF EdgeInv
<1>6. Anchored'
  BY <1>1, <1>4 DEF Anchored, AnchoredOn
<1>7. IdsUnique'
  BY <1>1, <1>3 DEF IdsUnique
<1>8. TupleInv'
  <2>1. ASSUME NEW o \in Off, Normal(P, o), P[o].hotUpdated, clog[P[o].xmax] = "running"
        PROVE  <<o, P[o].ctid>> \in Edges(P, clog)
    <3>1. Normal(lp, o) /\ P[o] = lp[o]
      BY <1>3, <2>1
    <3>2. <<o, lp[o].ctid>> \in Edges(lp, clog)
      BY <2>1, <3>1 DEF TupleInv
    <3>3. PICK b \in Off : b = lp[o].ctid
      BY <3>2, EdgesAre
    <3>4. Leads(lp, clog, o, b)
      BY <3>2, <3>3, EdgesAre
    <3>5. Normal(lp, b) /\ lp[o].xmax = lp[b].xmin
      BY <3>1, <3>4 DEF Leads, Normal
    <3>6. Normal(P, b)
      <4>1. ~Gone(clog, snap, lp[b])
        BY <2>1, <3>1, <3>5, RunningNotGone
      <4> QED
        BY <1>3, <3>5, <4>1
    <3> QED
      BY <1>3, <2>1, <3>1, <3>2, <3>3, <3>6
  <2>2. ASSUME NEW o \in Off, Normal(P, o)
        PROVE  LET t == P[o] IN
               /\ t.id <= lastId /\ clog[t.xmin] # "none"
               /\ t.xmax # None => /\ clog[t.xmax] # "none"
                                   /\ t.xmax = t.xmin \/ clog[t.xmin] = "committed"
                                   /\ \A r \in Reader : snap[r] # NoSnap /\ ~t.lockOnly /\ Sees(snap[r], t.xmax)
                                        /\ clog[t.xmax] = "committed" => Sees(snap[r], t.xmin)
               /\ t.hotUpdated => t.xmax # None /\ ~t.lockOnly
               /\ t.hotUpdated /\ clog[t.xmax] = "running" => <<o, t.ctid>> \in Edges(P, clog)
    <3>1. Normal(lp, o) /\ P[o] = lp[o]
      BY <1>3, <2>2
    <3>2. P[o].hotUpdated /\ clog[P[o].xmax] = "running" => <<o, P[o].ctid>> \in Edges(P, clog)
      BY <2>1, <2>2
    <3> QED
      BY <3>1, <3>2 DEF TupleInv
  <2> QED
    BY <1>1, <2>2 DEF TupleInv
<1>9. RowsInv'
  <2>1. Current(P, clog) = Current(lp, clog) /\ \A o \in Current(lp, clog) : P[o] = lp[o]
    <3>1. \A o \in Current(lp, clog) : Normal(P, o)
      <4>1. \A o \in Current(lp, clog) : o \in Off /\ Normal(lp, o)
        BY DEF Current
      <4> QED
        BY <1>3, <4>1, CurrentNotGone
    <3> QED
      BY <1>3, <3>1 DEF Current
  <2>2. ASSUME NEW x \in Running
        PROVE  /\ {o \in Off : Normal(P, o) /\ P[o].xmin = x} = {o \in Off : Normal(lp, o) /\ lp[o].xmin = x}
               /\ {o \in Off : Normal(P, o) /\ P[o].xmax = x /\ ~P[o].lockOnly}
                    = {o \in Off : Normal(lp, o) /\ lp[o].xmax = x /\ ~lp[o].lockOnly}
    <3>1. clog[x] = "running" /\ x # None
      BY DEF Running, Xid, None
    <3>2. \A o \in Off : Normal(lp, o) /\ (lp[o].xmin = x \/ lp[o].xmax = x) => Normal(P, o)
      BY <1>3, <3>1, RunningNotGone
    <3> QED
      BY <1>3, <3>2
  <2>3. {Version(P, o) : o \in Current(P, clog)} = {Version(lp, o) : o \in Current(lp, clog)}
    BY <2>1 DEF Version
  <2>4. ASSUME NEW x \in Running
        PROVE  /\ made[x] = {Version(P, o) : o \in {q \in Off : Normal(P, q) /\ P[q].xmin = x}}
               /\ gone[x] = {Version(P, o) : o \in {q \in Off : Normal(P, q) /\ P[q].xmax = x
                                                                 /\ ~P[q].lockOnly}}
    <3>1. /\ made[x] = {Version(lp, o) : o \in {q \in Off : Normal(lp, q) /\ lp[q].xmin = x}}
          /\ gone[x] = {Version(lp, o) : o \in {q \in Off : Normal(lp, q) /\ lp[q].xmax = x
                                                            /\ ~lp[q].lockOnly}}
      BY DEF RowsInv
    <3>2. \A o \in Off : Normal(P, o) => Version(P, o) = Version(lp, o)
      BY <1>3 DEF Version
    <3>3. {Version(P, o) : o \in {q \in Off : Normal(P, q) /\ P[q].xmin = x}}
            = {Version(lp, o) : o \in {q \in Off : Normal(P, q) /\ P[q].xmin = x}}
      BY <3>2
    <3>4. {Version(P, o) : o \in {q \in Off : Normal(P, q) /\ P[q].xmax = x /\ ~P[q].lockOnly}}
            = {Version(lp, o) : o \in {q \in Off : Normal(P, q) /\ P[q].xmax = x /\ ~P[q].lockOnly}}
      BY <3>2
    <3> QED
      BY <2>2, <3>1, <3>3, <3>4
  <2>5. Running' = Running
    BY DEF Running
  <2>6. rows = {Version(P, o) : o \in Current(P, clog)}
    BY <2>3 DEF RowsInv
  <2> QED
    BY <1>1, <2>4, <2>5, <2>6 DEF RowsInv
<1>10. IndexInv'
  <2>1. ASSUME NEW e \in index
        PROVE  /\ Root(P, e.off) \/ P[e.off] = Dead
               /\ \A m \in Chain(P, clog, e.off) : P[m].key = e.key
    <3>1. e.off \in Off
      BY DEF Types, Entry
    <3>2. \A m \in Chain(P, clog, e.off) : P[m] = lp[m] /\ m \in Chain(lp, clog, e.off)
      <4>1. \A m \in Chain(P, clog, e.off) : Normal(P, m) /\ m \in Off
        BY <3>1, ChainIs
      <4> QED
        BY <1>3, <1>4, <3>1, <4>1
    <3> QED
      BY <1>2, <3>2 DEF IndexInv
  <2>2. ASSUME NEW o \in Off, NEW m \in Off, m \in Chain(P, clog, o), ~Gone(clog, snap, P[m])
        PROVE  LET e == [key |-> P[m].key, off |-> o] IN
               e \in index \/ (Normal(P, o) /\ clog[P[o].xmin] = "running" /\ todo[P[o].xmin] = e)
    <3>1. P[m] = lp[m] /\ m \in Chain(lp, clog, o)
      <4>1. Normal(P, m)
        BY <2>2, ChainIs
      <4> QED
        BY <1>3, <1>4, <2>2, <4>1
    <3> DEFINE e == [key |-> P[m].key, off |-> o]
    <3>2. e = [key |-> lp[m].key, off |-> o]
      BY <3>1
    <3> HIDE DEF e
    <3>3. e \in index \/ (Normal(lp, o) /\ clog[lp[o].xmin] = "running" /\ todo[lp[o].xmin] = e)
      BY <2>2, <3>1, <3>2 DEF IndexInv
    <3>4. Normal(lp, o) /\ clog[lp[o].xmin] = "running" => Normal(P, o) /\ P[o] = lp[o]
      BY <1>3, RunningNotGone
    <3> QED
      BY <3>3, <3>4 DEF e
  <2> QED
    BY <1>1, <2>1, <2>2 DEF IndexInv
<1>11. SeenInv'
  <2>1. ASSUME NEW r \in Reader, snap[r] # NoSnap
        PROVE  /\ snap[r].seen = {Version(P, o) : o \in {q \in Off : Normal(P, q) /\ Shows(clog, P[q], snap[r])}}
               /\ \A o \in Off :
                    LET hits == {m \in Chain(P, clog, o) : Shows(clog, P[m], snap[r])} IN
                    /\ \A m \in hits : P[m].id = snap[r].leads[o]
                    /\ snap[r].leads[o] # None => hits # {}
    <3>1. {q \in Off : Normal(P, q) /\ Shows(clog, P[q], snap[r])}
            = {q \in Off : Normal(lp, q) /\ Shows(clog, lp[q], snap[r])}
      <4>1. \A q \in Off : Normal(lp, q) /\ Shows(clog, lp[q], snap[r]) => Normal(P, q)
        BY <1>3, <2>1, CurrentNotGone
      <4> QED
        BY <1>3, <4>1
    <3> DEFINE W == {q \in Off : Normal(lp, q) /\ Shows(clog, lp[q], snap[r])}
    <3>2. snap[r].seen = {Version(lp, o) : o \in W}
      BY <2>1 DEF SeenInv
    <3>3. \A o \in W : Version(P, o) = Version(lp, o)
      <4>1. \A o \in W : P[o] = lp[o]
        <5>1. \A o \in W : o \in Off /\ Normal(P, o)
          BY <3>1
        <5> QED
          BY <1>3, <5>1
      <4> QED
        BY <4>1 DEF Version
    <3>4. snap[r].seen = {Version(P, o) : o \in W}
      BY <3>2, <3>3
    <3>5. ASSUME NEW o \in Off
          PROVE  LET hits == {m \in Chain(P, clog, o) : Shows(clog, P[m], snap[r])} IN
                 /\ \A m \in hits : P[m].id = snap[r].leads[o]
                 /\ snap[r].leads[o] # None => hits # {}
      <4> DEFINE old == {m \in Chain(lp, clog, o) : Shows(clog, lp[m], snap[r])}
                 new == {m \in Chain(P, clog, o) : Shows(clog, P[m], snap[r])}
      <4>1. \A m \in Chain(P, clog, o) : P[m] = lp[m] /\ m \in Chain(lp, clog, o)
        <5>1. \A m \in Chain(P, clog, o) : Normal(P, m) /\ m \in Off
          BY ChainIs
        <5> QED
          BY <1>3, <1>4, <5>1
      <4>2. \A m \in Chain(lp, clog, o) : Shows(clog, lp[m], snap[r]) => m \in Chain(P, clog, o)
        <5>1. \A m \in Chain(lp, clog, o) : m \in Off
          BY ChainIs
        <5> QED
          BY <1>4, <2>1, <5>1, CurrentNotGone
      <4>3. new = old /\ \A m \in new : P[m] = lp[m]
        BY <4>1, <4>2
      <4>4. /\ \A m \in old : lp[m].id = snap[r].leads[o]
            /\ snap[r].leads[o] # None => old # {}
        BY <2>1 DEF SeenInv
      <4> HIDE DEF old
      <4>5. /\ \A m \in new : P[m].id = snap[r].leads[o]
            /\ snap[r].leads[o] # None => new # {}
        BY <4>3, <4>4
      <4> QED
        BY <4>5
    <3> QED
      BY <3>1, <3>4, <3>5
  <2> QED
    BY <1>1, <2>1 DEF SeenInv
<1> QED
  BY <1>5, <1>6, <1>7, <1>8, <1>9, <1>10, <1>11

-----------------------------------------------------------------------------
(* Transactions begin and write.                                             *)

\* C and N are the states of the transactions when x has its xid.
Begins(C, N, x) ==
  /\ C \in [Xid -> {"none", "running", "committed", "aborted"}] /\ N \in 2..(MaxXid + 1)
  /\ C[x] = "running" /\ \A y \in Xid : y # x => C[y] = clog[y]
  /\ \/ clog[x] = "running" /\ N = nextXid
     \/ clog[x] = "none" /\ x = nextXid /\ N = nextXid + 1

\* A transaction that has its xid already.
LEMMA BeginsFirst ==
  ASSUME Types, XactInv, NEW x \in Xid, GetCurrentTransactionId(x)
  PROVE  Begins(clog', nextXid', x) /\ moving[x] = None /\ todo[x] = NoTodo
<1>0. x \in 1..MaxXid /\ MaxXid \in Nat
  BY Constants DEF Xid
<1>1. CASE Free(x) /\ UNCHANGED <<clog, nextXid>>
  BY <1>1 DEF Free, Begins, Types
<1>2. CASE x = nextXid /\ clog' = [clog EXCEPT ![x] = "running"] /\ nextXid' = nextXid + 1
  <2>1. clog[x] = "none" /\ moving[x] = None /\ todo[x] = NoTodo
    <3>1. x >= nextXid
      BY <1>0, <1>2
    <3>2. clog[x] = "none"
      BY <3>1 DEF XactInv
    <3> QED
      BY <3>2 DEF XactInv
  <2>2. clog' \in [Xid -> {"none", "running", "committed", "aborted"}] /\ clog'[x] = "running"
        /\ \A y \in Xid : y # x => clog'[y] = clog[y]
    BY <1>2 DEF Types
  <2>3. nextXid' \in 2..(MaxXid + 1)
    BY <1>0, <1>2 DEF Types
  <2> QED
    BY <1>2, <2>1, <2>2, <2>3 DEF Begins
<1> QED
  BY <1>1, <1>2 DEF GetCurrentTransactionId

\* GetCurrentTransactionId takes nothing from other transactions.
LEMMA BeginsSame ==
  ASSUME Types, XactInv, NEW x \in Xid, NEW C, NEW N, Begins(C, N, x)
  PROVE  /\ \A y \in Xid : /\ C[y] = "committed" <=> clog[y] = "committed"
                           /\ C[y] = "aborted" <=> clog[y] = "aborted"
                           /\ C[y] = "running" <=> y = x \/ clog[y] = "running"
                           /\ clog[y] # "none" => C[y] # "none"
                           /\ C[y] = "none" <=> y >= N
         /\ \A t \in Tuple : /\ Removed(C, t) <=> Removed(clog, t)
                             /\ Hot(C, t) <=> Hot(clog, t)
                             /\ \A S : Gone(C, S, t) <=> Gone(clog, S, t)
                             /\ \A s : Shows(C, t, s) <=> Shows(clog, t, s)
<1>1. \A y \in Xid : y \in Int
  BY DEF Xid
<1>2. nextXid \in Int
  BY Constants DEF Types
<1>3. \A y \in Xid : clog[y] = "none" <=> y >= nextXid
  BY DEF XactInv
<1>4. ASSUME NEW y \in Xid
      PROVE  /\ C[y] = "committed" <=> clog[y] = "committed"
             /\ C[y] = "aborted" <=> clog[y] = "aborted"
             /\ C[y] = "running" <=> y = x \/ clog[y] = "running"
             /\ clog[y] # "none" => C[y] # "none"
             /\ C[y] = "none" <=> y >= N
  <2>1. CASE y = x
    BY <1>1, <1>2, <1>3, <2>1 DEF Begins
  <2>2. CASE y # x
    BY <1>1, <1>2, <1>3, <2>2 DEF Begins
  <2> QED
    BY <2>1, <2>2
<1>5. ASSUME NEW t \in Tuple
      PROVE  /\ Removed(C, t) <=> Removed(clog, t)
             /\ Hot(C, t) <=> Hot(clog, t)
             /\ \A S : Gone(C, S, t) <=> Gone(clog, S, t)
             /\ \A s : Shows(C, t, s) <=> Shows(clog, t, s)
  <2>1. t.xmin \in Xid /\ t.xmax \in {None} \cup Xid
    BY TupleFields
  <2>2. Removed(C, t) <=> Removed(clog, t)
    BY <1>4, <2>1 DEF Removed
  <2>3. Hot(C, t) <=> Hot(clog, t)
    BY <1>4, <2>1, <2>2 DEF Hot
  <2>4. \A S : Gone(C, S, t) <=> Gone(clog, S, t)
    BY <1>4, <2>1 DEF Gone
  <2>5. \A s : Shows(C, t, s) <=> Shows(clog, t, s)
    BY <1>4, <2>1 DEF Shows
  <2> QED
    BY <2>2, <2>3, <2>4, <2>5
<1> QED
  BY <1>4, <1>5

\* P is the page when x has written its xid into the header of the tuple at o,
\* and stored a version at new; None: it has not.  hot: the one is a HOT update
\* to the other.
Written(P, C, x, o, new, k, hot) ==
  /\ P \in [Off -> Item]
  /\ \A p \in Off : p # o /\ p # new => P[p] = lp[p]
  /\ o # None =>
       /\ Normal(lp, o) /\ Normal(P, o) /\ P[o].id = lp[o].id /\ P[o].key = lp[o].key
       /\ P[o].xmin = lp[o].xmin /\ P[o].heapOnly = lp[o].heapOnly /\ P[o].xmax = x
       /\ ~Removed(C, lp[o]) /\ (lp[o].xmax # None /\ C[lp[o].xmax] = "running" => lp[o].xmax = x)
       /\ lp[o].xmin = x \/ C[lp[o].xmin] = "committed"
       /\ ~hot => ~P[o].hotUpdated
  /\ new # None =>
       /\ new \in Off /\ lp[new] = Unused /\ Normal(P, new) /\ P[new].id = lastId + 1
       /\ P[new].key = k /\ P[new].xmin = x /\ P[new].xmax = None /\ P[new].heapOnly = hot
       /\ ~P[new].hotUpdated
  /\ hot =>
       /\ o # None /\ new # None /\ P[o].ctid = new /\ P[o].hotUpdated /\ ~P[o].lockOnly
       /\ k = lp[o].key

\* The edges of a page after a write: some of those it had, and one to the new tuple.
LEMMA WrittenEdges ==
  ASSUME Types, XactInv, TupleInv, EdgeInv, NEW x \in Xid, NEW C, NEW N, Begins(C, N, x),
         NEW P, NEW o, NEW new, NEW k, NEW hot \in BOOLEAN, Written(P, C, x, o, new, k, hot)
  PROVE  /\ \A a, b \in Off : <<a, b>> \in Edges(P, C) <=> \/ <<a, b>> \in Edges(lp, clog)
                                                           \/ hot /\ a = o /\ b = new
         /\ new # None => \A a \in Off : <<a, new>> \notin Edges(lp, clog) /\ <<new, a>> \notin Edges(lp, clog)
         /\ \A a \in Off : <<o, a>> \notin Edges(lp, clog)
<1> DEFINE R == Edges(lp, clog)
           Q == Edges(P, C)
<1>0. x # None
  BY DEF Xid, None
<1>1. \A p \in Off : Normal(lp, p) => lp[p] \in Tuple
  BY NormalTuple DEF Types
<1>2. \A p \in Off : Normal(lp, p) => /\ Hot(C, lp[p]) <=> Hot(clog, lp[p])
                                      /\ Removed(C, lp[p]) <=> Removed(clog, lp[p])
  BY <1>1, BeginsSame
<1>3. new # None => new \in Off /\ ~Normal(lp, new) /\ lp[new].st # "redirect" /\ new # o
  BY ItemFacts DEF Written, Normal
<1>4. \A a \in Off : new # None => <<a, new>> \notin R
  BY <1>3 DEF EdgeInv, EdgesFine
<1>5. \A a \in Off : new # None => <<new, a>> \notin R
  <2>1. ASSUME NEW a \in Off, new # None, <<new, a>> \in R
        PROVE  FALSE
    <3>1. Leads(lp, clog, new, a)
      BY <1>3, <2>1, EdgesAre
    <3> QED
      BY <1>3, <2>1, <3>1 DEF Leads
  <2> QED
    BY <2>1
<1>6. o # None => /\ o \in Off /\ Normal(lp, o) /\ ~Hot(clog, lp[o]) /\ lp[o].st # "redirect"
  BY <1>2 DEF Written, Normal, Hot
<1>7. \A a \in Off : <<o, a>> \notin R
  <2>1. ASSUME NEW a \in Off, <<o, a>> \in R
        PROVE  FALSE
    <3>0. o \in Off
      BY <2>1, EdgesAre
    <3>1. Leads(lp, clog, o, a)
      BY <2>1, <3>0, EdgesAre
    <3>2. o # None
      BY <3>0, OffNumbers
    <3> QED
      BY <1>6, <3>1, <3>2 DEF Leads
  <2> QED
    BY <2>1
<1>8. \A p \in Off : p # o /\ p # new => P[p] = lp[p]
  BY DEF Written
<1>9. ASSUME NEW a \in Off, NEW b \in Off, <<a, b>> \in R
      PROVE  <<a, b>> \in Q
  <2>1. Leads(lp, clog, a, b)
    BY <1>9, EdgesAre
  <2>2. a # o /\ a # new /\ b # new
    BY <1>4, <1>5, <1>7, <1>9, OffNumbers
  <2>3. P[a] = lp[a]
    BY <1>8, <2>2
  <2>4. Normal(lp, b) => Normal(P, b) /\ P[b].xmin = lp[b].xmin
    BY <1>8, <2>2, OffNumbers DEF Written, Normal
  <2>5. Leads(P, C, a, b)
    BY <1>2, <2>1, <2>3, <2>4 DEF Leads, Normal
  <2> QED
    BY <2>5, EdgesAre
<1>10. ASSUME hot
       PROVE  o \in Off /\ new \in Off /\ <<o, new>> \in Q
  <2>1. o \in Off /\ new \in Off /\ Normal(P, o) /\ Normal(P, new) /\ P[o].ctid = new /\ P[o].hotUpdated
        /\ ~P[o].lockOnly /\ P[o].xmax = x /\ P[new].xmin = x /\ P[o].xmin = lp[o].xmin
    BY <1>3, <1>6, <1>10 DEF Written
  <2>2. C[P[o].xmin] # "aborted" /\ C[x] # "aborted"
    BY <1>10, <2>1 DEF Written, Begins
  <2>3. Hot(C, P[o])
    BY <1>0, <2>1, <2>2 DEF Hot, Removed
  <2>4. Leads(P, C, o, new)
    BY <2>1, <2>3 DEF Leads
  <2> QED
    BY <2>1, <2>4, EdgesAre
<1>11. ASSUME NEW a \in Off, NEW b \in Off, <<a, b>> \in Q
       PROVE  <<a, b>> \in R \/ (hot /\ a = o /\ b = new)
  <2>1. Leads(P, C, a, b)
    BY <1>11, EdgesAre
  <2>2. CASE a = o
    <3>1. Normal(P, a) /\ Hot(C, P[a]) /\ P[a].ctid = b
      BY <2>1, <2>2, OffNumbers DEF Written, Leads, Normal
    <3>2. hot
      BY <2>2, <3>1, OffNumbers DEF Written, Hot
    <3> QED
      BY <2>2, <3>1, <3>2 DEF Written
  <2>3. CASE a = new
    <3>1. Normal(P, a) /\ ~Hot(C, P[a])
      BY <2>3, OffNumbers DEF Written, Hot
    <3> QED
      BY <2>1, <3>1 DEF Leads, Normal
  <2>4. CASE a # o /\ a # new
    <3>1. P[a] = lp[a]
      BY <1>8, <2>4
    <3>2. CASE b = new
      <4>1. CASE lp[a].st = "redirect"
        <5>1. Leads(lp, clog, a, b)
          BY <2>1, <3>1, <4>1 DEF Leads, Normal
        <5> QED
          BY <5>1, EdgesAre
      <4>2. CASE lp[a].st # "redirect"
        <5>1. /\ Normal(lp, a) /\ Hot(C, lp[a]) /\ lp[a].ctid = b /\ lp[a].xmax = P[b].xmin
          BY <2>1, <3>1, <4>2 DEF Leads, Normal
        <5>2. lp[a].xmax = x /\ lp[a].hotUpdated
          BY <3>2, <5>1, OffNumbers DEF Written, Hot
        <5>3. clog[x] # "none"
          BY <1>0, <5>1, <5>2 DEF TupleInv
        <5>4. clog[lp[a].xmax] = "running"
          BY <5>2, <5>3 DEF Begins
        <5> QED
          BY <5>1, <5>2, <5>4 DEF TupleInv
      <4> QED
        BY <4>1, <4>2
    <3>3. CASE b # new
      <4>1. Normal(P, b) => Normal(lp, b) /\ P[b].xmin = lp[b].xmin
        BY <1>8, <3>3, OffNumbers DEF Written, Normal
      <4>2. Leads(lp, clog, a, b)
        BY <1>2, <2>1, <3>1, <4>1 DEF Leads, Normal
      <4> QED
        BY <4>2, EdgesAre
    <3> QED
      BY <3>2, <3>3
  <2> QED
    BY <2>2, <2>3, <2>4
<1> QED
  BY <1>4, <1>5, <1>7, <1>9, <1>10, <1>11

\* The chains of a page after a write.
LEMMA WrittenChains ==
  ASSUME Types, XactInv, TupleInv, EdgeInv, NEW x \in Xid, NEW C, NEW N, Begins(C, N, x),
         NEW P, NEW o, NEW new, NEW k, NEW hot \in BOOLEAN, Written(P, C, x, o, new, k, hot)
  PROVE  /\ \A q \in Off : Root(P, q) <=> Root(lp, q) \/ (q = new /\ ~hot)
         /\ \A q \in Off : Chain(lp, clog, q) \subseteq Chain(P, C, q)
         /\ \A q \in Off : \A m \in Chain(P, C, q) :
              \/ m \in Chain(lp, clog, q)
              \/ m = new /\ hot /\ o \in Chain(lp, clog, q)
              \/ m = new /\ q = new /\ ~hot
<1> DEFINE R == Edges(lp, clog)
           Q == Edges(P, C)
<1>0. R \subseteq Off \X Off /\ Q \subseteq Off \X Off
  BY EdgesAre
<1>1. /\ \A a, b \in Off : <<a, b>> \in Q <=> <<a, b>> \in R \/ (hot /\ a = o /\ b = new)
      /\ new # None => \A a \in Off : <<a, new>> \notin R /\ <<new, a>> \notin R
      /\ \A a \in Off : <<o, a>> \notin R
  BY WrittenEdges
<1>2. new # None => new \in Off /\ ~Normal(lp, new) /\ lp[new].st # "redirect" /\ new # o
                    /\ Normal(P, new) /\ P[new].heapOnly = hot
  BY ItemFacts DEF Written, Normal
<1>3. o # None => o \in Off /\ Normal(lp, o) /\ Normal(P, o) /\ P[o].heapOnly = lp[o].heapOnly
  BY DEF Written, Normal
<1>4. \A p \in Off : p # o /\ p # new => P[p] = lp[p]
  BY DEF Written
<1>5. hot => o \in Off /\ new \in Off /\ o # None /\ new # None
  BY <1>2, <1>3 DEF Written
<1>6. \A q \in Off : q # None
  BY OffNumbers
<1> HIDE DEF R, Q
<1>7. ASSUME NEW q \in Off
      PROVE  /\ Root(P, q) <=> Root(lp, q) \/ (q = new /\ ~hot)
             /\ Normal(P, q) <=> Normal(lp, q) \/ q = new
  <2>1. CASE q = o
    <3>1. o # None /\ q # new
      BY <1>2, <1>6, <2>1
    <3>2. lp[q].st = "normal" /\ P[q].st = "normal" /\ P[q].heapOnly = lp[q].heapOnly
      BY <1>3, <2>1, <3>1 DEF Normal
    <3> QED
      BY <3>1, <3>2 DEF Root, Normal
  <2>2. CASE q = new
    BY <1>2, <1>6, <2>2 DEF Root, Normal
  <2>3. CASE q # o /\ q # new
    BY <1>4, <2>3 DEF Root, Normal
  <2> QED
    BY <2>1, <2>2, <2>3
<1>8. ASSUME NEW q \in Off
      PROVE  From(R, q) \subseteq From(Q, q)
  <2>1. q \in From(Q, q)
    BY FromStarts
  <2>2. \A b, c \in Off : <<b, c>> \in R /\ b \in From(Q, q) => c \in From(Q, q)
    BY <1>1, FromSteps
  <2> QED
    BY <1>0, <2>1, <2>2, FromInduct
<1>9. ASSUME NEW q \in Off
      PROVE  Chain(lp, clog, q) \subseteq Chain(P, C, q)
  <2>1. ASSUME NEW m \in Chain(lp, clog, q)
        PROVE  m \in Chain(P, C, q)
    <3>1. Root(lp, q) /\ Normal(lp, m) /\ m \in From(R, q) /\ m \in Off
      BY <2>1, ChainIs DEF R
    <3>2. Root(P, q) /\ Normal(P, m) /\ m \in From(Q, q)
      BY <1>7, <1>8, <3>1
    <3> QED
      BY <3>2, ChainIs DEF Q
  <2> QED
    BY <2>1
<1>10. ASSUME NEW q \in Off, NEW m \in Chain(P, C, q)
       PROVE  \/ m \in Chain(lp, clog, q)
              \/ m = new /\ hot /\ o \in Chain(lp, clog, q)
              \/ m = new /\ q = new /\ ~hot
  <2>1. Root(P, q) /\ Normal(P, m) /\ m \in From(Q, q) /\ m \in Off
    BY <1>10, ChainIs DEF Q
  <2>2. CASE q = new
    <3>1. ~hot
      BY <1>2, <1>6, <2>1, <2>2 DEF Root, Normal
    <3>2. \A b, c \in Off : <<b, c>> \in Q /\ b \in {q} => c \in {q}
      BY <1>1, <1>6, <2>2, <3>1
    <3>3. From(Q, q) \subseteq {q}
      BY <1>0, <3>2, FromInduct
    <3> QED
      BY <2>1, <2>2, <3>1, <3>3
  <2>3. CASE q # new
    <3> DEFINE S == {b \in Off : b \in From(R, q) \/ (b = new /\ hot /\ o \in From(R, q))}
    <3>1. ASSUME NEW b \in Off, NEW c \in Off, <<b, c>> \in Q, b \in S
          PROVE  c \in S
      <4>1. CASE b \in From(R, q)
        <5>1. CASE <<b, c>> \in R
          BY <4>1, <5>1, FromSteps
        <5>2. CASE hot /\ b = o /\ c = new
          BY <4>1, <5>2
        <5> QED
          BY <1>1, <3>1, <5>1, <5>2
      <4>2. CASE b = new
        BY <1>1, <1>2, <1>6, <3>1, <4>2
      <4> QED
        BY <3>1, <4>1, <4>2
    <3>2. q \in S
      BY FromStarts
    <3> HIDE DEF S
    <3>3. From(Q, q) \subseteq S
      BY <1>0, <3>1, <3>2, FromInduct
    <3>4. m \in From(R, q) \/ (m = new /\ hot /\ o \in From(R, q))
      BY <2>1, <3>3 DEF S
    <3>5. Root(lp, q)
      BY <1>7, <2>1, <2>3
    <3>6. m \in From(R, q) => m # new
      <4>1. ASSUME m \in From(R, q), m = new
            PROVE  FALSE
        <5>1. m = q \/ \E c \in From(R, q) : <<c, m>> \in R
          BY <1>0, <4>1, FromEnds
        <5>2. m # None /\ \A c \in From(R, q) : c \in Off
          BY <1>6, <2>1, FromStarts
        <5> QED
          BY <1>1, <2>3, <4>1, <5>1, <5>2
      <4> QED
        BY <4>1
    <3>7. m \in From(R, q) => m \in Chain(lp, clog, q)
      BY <1>7, <2>1, <3>5, <3>6, ChainIs DEF R
    <3>8. m = new /\ hot /\ o \in From(R, q) => o \in Chain(lp, clog, q)
      BY <1>3, <1>5, <3>5, ChainIs DEF R
    <3> QED
      BY <3>4, <3>7, <3>8
  <2> QED
    BY <2>2, <2>3
<1> QED
  BY <1>7, <1>9, <1>10

\* The step of a writer.
WriteStep(x, o, new, k, hot) ==
  /\ Begins(clog', nextXid', x) /\ Written(lp', clog', x, o, new, k, hot)
  /\ UNCHANGED <<index, snap, vac, rows>>
  /\ lastId' = (IF new = None THEN lastId ELSE lastId + 1) /\ lastId' \in MaxOff..(MaxOff + MaxTuples)
  /\ made' \in [Xid -> SUBSET RowVersion] /\ gone' \in [Xid -> SUBSET RowVersion]
  /\ moving' \in [Xid -> {None} \cup Off] /\ todo' \in [Xid -> Entry \cup {NoTodo}]
  /\ \A y \in Xid : y # x => /\ made'[y] = made[y] /\ gone'[y] = gone[y]
                             /\ moving'[y] = moving[y] /\ todo'[y] = todo[y]
  /\ made'[x] = made[x] \cup (IF new = None THEN {} ELSE {[id |-> lastId + 1, key |-> k]})
  /\ gone'[x] = gone[x] \cup (IF o = None \/ lp'[o].lockOnly THEN {} ELSE {Version(lp, o)})
  /\ todo[x] = NoTodo
  /\ todo'[x] = IF new # None /\ ~hot THEN [key |-> k, off |-> new] ELSE NoTodo
  /\ moving'[x] = None \/ (o # None /\ moving'[x] = o /\ lp'[o].lockOnly /\ new = None)
  /\ pruneXid' \in {None} \cup Xid /\ full' \in BOOLEAN /\ allVisible' \in BOOLEAN
  /\ allVisible' => allVisible /\ new = None /\ (o # None => lp'[o].lockOnly)

\* The tuples of a page after a write.
LEMMA WrittenTuples ==
  ASSUME Types, XactInv, NEW x \in Xid, NEW C, NEW N, Begins(C, N, x),
         NEW P, NEW o, NEW new, NEW k, NEW hot \in BOOLEAN, Written(P, C, x, o, new, k, hot)
  PROVE  /\ \A p \in Off : Normal(P, p) <=> Normal(lp, p) \/ p = new
         /\ \A p \in Off : Normal(lp, p) =>
              /\ p # new /\ P[p].id = lp[p].id /\ P[p].key = lp[p].key /\ P[p].xmin = lp[p].xmin
              /\ P[p].heapOnly = lp[p].heapOnly
              /\ P[p] = lp[p] \/ (p = o /\ o # None /\ P[p].xmax = x /\ ~Removed(C, lp[p]))
         /\ \A p \in Off : Normal(P, p) => P[p] \in Tuple
         /\ \A p \in Off : Normal(lp, p) => lp[p] \in Tuple
         /\ \A p \in Off : p # None
         /\ \A p \in Off : ~Normal(lp, p) /\ p # new => P[p] = lp[p]
<1>1. \A p \in Off : p # None
  BY OffNumbers
<1>2. \A p \in Off : Normal(P, p) => P[p] \in Tuple
  BY NormalTuple DEF Written
<1>3. \A p \in Off : Normal(lp, p) => lp[p] \in Tuple
  BY NormalTuple DEF Types
<1>4. new # None => new \in Off /\ ~Normal(lp, new) /\ new # o /\ Normal(P, new)
  BY ItemFacts DEF Written, Normal
<1>5. ASSUME NEW p \in Off
      PROVE  /\ Normal(P, p) <=> Normal(lp, p) \/ p = new
             /\ Normal(lp, p) =>
                  /\ p # new /\ P[p].id = lp[p].id /\ P[p].key = lp[p].key /\ P[p].xmin = lp[p].xmin
                  /\ P[p].heapOnly = lp[p].heapOnly
                  /\ P[p] = lp[p] \/ (p = o /\ o # None /\ P[p].xmax = x /\ ~Removed(C, lp[p]))
             /\ ~Normal(lp, p) /\ p # new => P[p] = lp[p]
  <2>1. CASE p = o
    BY <1>1, <1>4, <2>1 DEF Written
  <2>2. CASE p = new
    BY <1>1, <1>4, <2>2
  <2>3. CASE p # o /\ p # new
    <3>1. P[p] = lp[p]
      BY <2>3 DEF Written
    <3> QED
      BY <2>3, <3>1 DEF Normal
  <2> QED
    BY <2>1, <2>2, <2>3
<1> QED
  BY <1>1, <1>2, <1>3, <1>5

\* A write keeps the invariant of the page.
LEMMA WriteKeepsPage ==
  ASSUME Types, XactInv, SnapInv, TupleInv, IdsUnique, EdgeInv, Anchored,
         NEW x \in Xid, NEW o, NEW new, NEW k, NEW hot \in BOOLEAN, WriteStep(x, o, new, k, hot)
  PROVE  /\ Types' /\ XactInv' /\ SnapInv' /\ TupleInv' /\ IdsUnique' /\ EdgeInv' /\ Anchored'
<1>1. PICK P : P = lp'
  OBVIOUS
<1>2. PICK C : C = clog'
  OBVIOUS
<1>3. PICK N : N = nextXid'
  OBVIOUS
<1>4. Begins(C, N, x) /\ Written(P, C, x, o, new, k, hot)
  BY <1>1, <1>2, <1>3 DEF WriteStep
<1>5. /\ \A y \in Xid : /\ C[y] = "committed" <=> clog[y] = "committed"
                        /\ C[y] = "aborted" <=> clog[y] = "aborted"
                        /\ C[y] = "running" <=> y = x \/ clog[y] = "running"
                        /\ clog[y] # "none" => C[y] # "none"
                        /\ C[y] = "none" <=> y >= N
      /\ \A t \in Tuple : Removed(C, t) <=> Removed(clog, t)
  BY <1>4, BeginsSame
<1>6. /\ \A p \in Off : Normal(P, p) <=> Normal(lp, p) \/ p = new
      /\ \A p \in Off : Normal(lp, p) =>
           /\ p # new /\ P[p].id = lp[p].id /\ P[p].key = lp[p].key /\ P[p].xmin = lp[p].xmin
           /\ P[p].heapOnly = lp[p].heapOnly
           /\ P[p] = lp[p] \/ (p = o /\ o # None /\ P[p].xmax = x /\ ~Removed(C, lp[p]))
      /\ \A p \in Off : Normal(P, p) => P[p] \in Tuple
      /\ \A p \in Off : Normal(lp, p) => lp[p] \in Tuple
      /\ \A p \in Off : p # None
  BY <1>4, WrittenTuples
<1>7. /\ \A a, b \in Off : <<a, b>> \in Edges(P, C) <=> \/ <<a, b>> \in Edges(lp, clog)
                                                        \/ hot /\ a = o /\ b = new
      /\ new # None => \A a \in Off : <<a, new>> \notin Edges(lp, clog) /\ <<new, a>> \notin Edges(lp, clog)
      /\ \A a \in Off : <<o, a>> \notin Edges(lp, clog)
  BY <1>4, WrittenEdges
<1>8. new # None => /\ new \in Off /\ P[new].id = lastId + 1
                    /\ P[new].key = k /\ P[new].xmin = x /\ P[new].xmax = None /\ P[new].heapOnly = hot
                    /\ ~P[new].hotUpdated
  BY <1>4 DEF Written
<1>9. hot => /\ o # None /\ o \in Off /\ Normal(lp, o) /\ new # None /\ new \in Off
             /\ P[o].ctid = new /\ P[o].hotUpdated /\ ~P[o].lockOnly /\ k = lp[o].key
  BY <1>4 DEF Written, Normal
<1>10. lastId \in Nat /\ lastId' = (IF new = None THEN lastId ELSE lastId + 1)
  BY Constants DEF WriteStep, Types
<1>11. \A p \in Off : Normal(lp, p) => lp[p].id \in Nat /\ lp[p].id <= lastId
  BY <1>6, TupleFields DEF TupleInv
<1>12. Types'
  <2>1. P \in [Off -> Item] /\ C \in [Xid -> {"none", "running", "committed", "aborted"}]
        /\ N \in 2..(MaxXid + 1)
    BY <1>4 DEF Begins, Written
  <2>2. index' = index /\ snap' = snap /\ vac' = vac /\ rows' = rows
    BY DEF WriteStep
  <2> QED
    BY <1>1, <1>2, <1>3, <2>1, <2>2 DEF Types, WriteStep
<1>13. XactInv'
  <2>1. ASSUME NEW y \in Xid
        PROVE  /\ C[y] = "none" <=> y >= N
               /\ C[y] # "running" => moving'[y] = None /\ todo'[y] = NoTodo /\ made'[y] = {} /\ gone'[y] = {}
    <3>1. C[y] # "running" => y # x /\ clog[y] # "running"
      BY <1>5
    <3>2. clog[y] # "running" => moving[y] = None /\ todo[y] = NoTodo /\ made[y] = {} /\ gone[y] = {}
      BY DEF XactInv
    <3>3. y # x => moving'[y] = moving[y] /\ todo'[y] = todo[y] /\ made'[y] = made[y] /\ gone'[y] = gone[y]
      BY DEF WriteStep
    <3> QED
      BY <1>5, <3>1, <3>2, <3>3
  <2> QED
    BY <1>2, <1>3, <2>1 DEF XactInv
<1>14. SnapInv'
  <2>1. snap' = snap
    BY DEF WriteStep
  <2>2. ASSUME NEW r \in Reader, snap[r] # NoSnap
        PROVE  /\ snap[r].xmax <= N
               /\ \A y \in Xid : Sees(snap[r], y) => C[y] \in {"committed", "aborted"}
    <3>1. snap[r].xmax \in Int /\ nextXid \in Int
      BY <2>2, SnapFields, Constants DEF Types
    <3>2. snap[r].xmax <= nextXid
      BY <2>2 DEF SnapInv
    <3>3. nextXid <= N
      BY <1>4, <3>1 DEF Begins
    <3>4. N \in Int
      BY <1>4, Constants DEF Begins
    <3>5. \A y \in Xid : Sees(snap[r], y) => clog[y] \in {"committed", "aborted"}
      BY <2>2 DEF SnapInv
    <3> QED
      BY <1>5, <3>1, <3>2, <3>3, <3>4, <3>5
  <2> QED
    BY <1>2, <1>3, <2>1, <2>2 DEF SnapInv
<1>15. TupleInv'
  <2>1. snap' = snap
    BY DEF WriteStep
  <2>2. ASSUME NEW p \in Off, Normal(P, p)
        PROVE  LET t == P[p] IN
               /\ t.id <= lastId' /\ C[t.xmin] # "none"
               /\ t.xmax # None => /\ C[t.xmax] # "none"
                                   /\ t.xmax = t.xmin \/ C[t.xmin] = "committed"
                                   /\ \A r \in Reader : snap[r] # NoSnap /\ ~t.lockOnly /\ Sees(snap[r], t.xmax)
                                        /\ C[t.xmax] = "committed" => Sees(snap[r], t.xmin)
               /\ t.hotUpdated => t.xmax # None /\ ~t.lockOnly
               /\ t.hotUpdated /\ C[t.xmax] = "running" => <<p, t.ctid>> \in Edges(P, C)
    <3>1. CASE p = new
      <4>1. new # None
        BY <1>6, <3>1
      <4>2. P[p].id = lastId' /\ lastId' \in Int
        BY <1>8, <1>10, <3>1, <4>1
      <4> QED
        BY <1>5, <1>8, <3>1, <4>1, <4>2
    <3>2. CASE p = o /\ p # new /\ o # None
      <4>1. Normal(lp, p) /\ P[p].xmin = lp[p].xmin /\ P[p].id = lp[p].id
        BY <1>6, <2>2, <3>2
      <4>2. P[p].id <= lastId'
        BY <1>10, <1>11, <4>1
      <4>3. C[P[p].xmin] # "none"
        BY <1>4, <1>5, <3>2, <4>1 DEF Written
      <4>4. P[p].xmax = x /\ (P[p].xmax = P[p].xmin \/ C[P[p].xmin] = "committed")
        BY <1>4, <3>2 DEF Written
      <4>5. C[P[p].xmax] = "running"
        BY <1>5, <4>4
      <4>6. P[p].hotUpdated => hot
        BY <1>4, <3>2 DEF Written
      <4>7. P[p].hotUpdated => ~P[p].lockOnly /\ <<p, P[p].ctid>> \in Edges(P, C)
        BY <1>7, <1>9, <3>2, <4>6
      <4>8. x # None
        BY DEF Xid, None
      <4> QED
        BY <4>2, <4>3, <4>4, <4>5, <4>7, <4>8
    <3>3. CASE p # new /\ (p # o \/ o = None)
      <4>1. Normal(lp, p) /\ P[p] = lp[p] /\ P[p] \in Tuple
        BY <1>6, <2>2, <3>3
      <4>2. P[p].xmin \in Xid /\ P[p].xmax \in {None} \cup Xid
        BY <4>1, TupleFields
      <4>3. P[p].id <= lastId'
        BY <1>10, <1>11, <4>1
      <4>4. P[p].hotUpdated /\ C[P[p].xmax] = "running" => <<p, P[p].ctid>> \in Edges(P, C)
        <5>1. ASSUME P[p].hotUpdated, C[P[p].xmax] = "running"
              PROVE  <<p, P[p].ctid>> \in Edges(P, C)
          <6>1. P[p].xmax \in Xid /\ clog[P[p].xmax] # "none"
            BY <4>1, <4>2, <5>1 DEF TupleInv
          <6>2. clog[P[p].xmax] = "running"
            BY <1>4, <5>1, <6>1 DEF Begins
          <6>3. <<p, P[p].ctid>> \in Edges(lp, clog)
            BY <4>1, <5>1, <6>2 DEF TupleInv
          <6>4. P[p].ctid \in Off
            BY <6>3, EdgesAre
          <6> QED
            BY <1>7, <6>3, <6>4
        <5> QED
          BY <5>1
      <4>5. /\ clog[P[p].xmin] # "none"
            /\ P[p].xmax # None => /\ clog[P[p].xmax] # "none"
                                   /\ P[p].xmax = P[p].xmin \/ clog[P[p].xmin] = "committed"
                                   /\ \A r \in Reader : snap[r] # NoSnap /\ ~P[p].lockOnly /\ Sees(snap[r], P[p].xmax)
                                        /\ clog[P[p].xmax] = "committed" => Sees(snap[r], P[p].xmin)
            /\ P[p].hotUpdated => P[p].xmax # None /\ ~P[p].lockOnly
        BY <4>1 DEF TupleInv
      <4> QED
        BY <1>5, <4>2, <4>3, <4>4, <4>5
    <3> QED
      BY <3>1, <3>2, <3>3
  <2> QED
    BY <1>1, <1>2, <2>1, <2>2 DEF TupleInv
<1>16. IdsUnique'
  <2>1. ASSUME NEW p \in Off, NEW q \in Off, Normal(P, p), Normal(P, q), P[p].id = P[q].id
        PROVE  p = q
    <3>1. \A a \in Off : Normal(P, a) => a = new \/ (Normal(lp, a) /\ P[a].id = lp[a].id)
      BY <1>6
    <3>2. \A a \in Off : Normal(lp, a) => lp[a].id # lastId + 1
      BY <1>10, <1>11
    <3>3. \A a \in Off : a = new => P[a].id = lastId + 1
      BY <1>6, <1>8
    <3> QED
      BY <2>1, <3>1, <3>2, <3>3 DEF IdsUnique
  <2> QED
    BY <1>1, <2>1 DEF IdsUnique
<1>17. EdgeInv'
  <2>1. ASSUME NEW a \in Off, NEW b \in Off, <<a, b>> \in Edges(P, C)
        PROVE  /\ Normal(P, b) /\ P[b].heapOnly
               /\ Normal(P, a) => P[a].key = P[b].key /\ P[a].id < P[b].id
    <3>1. CASE <<a, b>> \in Edges(lp, clog)
      <4>1. /\ Normal(lp, b) /\ lp[b].heapOnly
            /\ Normal(lp, a) => lp[a].key = lp[b].key /\ lp[a].id < lp[b].id
        BY <3>1 DEF EdgeInv, EdgesFine
      <4>2. Normal(P, a) => Normal(lp, a)
        BY <1>6, <1>7, <3>1
      <4> QED
        BY <1>6, <4>1, <4>2
    <3>2. CASE hot /\ a = o /\ b = new
      <4>1. Normal(P, b) /\ P[b].heapOnly
        BY <1>6, <1>8, <1>9, <3>2
      <4>2. P[a].key = P[b].key
        BY <1>6, <1>8, <1>9, <3>2
      <4>3. P[a].id < P[b].id
        <5>1. P[a].id = lp[a].id /\ lp[a].id \in Nat /\ lp[a].id <= lastId /\ P[b].id = lastId + 1
          BY <1>6, <1>8, <1>9, <1>11, <3>2
        <5> QED
          BY <1>10, <5>1
      <4> QED
        BY <4>1, <4>2, <4>3
    <3> QED
      BY <1>7, <2>1, <3>1, <3>2
  <2>2. ASSUME NEW a \in Off, NEW b \in Off, NEW c \in Off, <<a, c>> \in Edges(P, C), <<b, c>> \in Edges(P, C)
        PROVE  a = b
    <3>1. <<a, c>> \in Edges(lp, clog) /\ <<b, c>> \in Edges(lp, clog) => a = b
      BY DEF EdgeInv, EdgesFine
    <3> QED
      BY <1>6, <1>7, <2>2, <3>1
  <2> QED
    BY <1>1, <1>2, <2>1, <2>2 DEF EdgeInv, EdgesFine
<1>18. Anchored'
  <2>1. ASSUME NEW p \in Off, Normal(P, p), P[p].heapOnly, C[P[p].xmin] # "aborted"
        PROVE  \E a \in Off : <<a, p>> \in Edges(P, C)
    <3>1. CASE p = new
      BY <1>6, <1>7, <1>8, <1>9, <2>1, <3>1
    <3>2. CASE p # new
      <4>1. Normal(lp, p) /\ lp[p].heapOnly /\ P[p].xmin = lp[p].xmin /\ lp[p] \in Tuple
        BY <1>6, <2>1, <3>2
      <4>2. clog[lp[p].xmin] # "aborted"
        BY <1>5, <2>1, <4>1, TupleFields
      <4>3. PICK a \in Off : <<a, p>> \in Edges(lp, clog)
        BY <4>1, <4>2 DEF Anchored
      <4> QED
        BY <1>7, <4>3
    <3> QED
      BY <3>1, <3>2
  <2> QED
    BY <1>1, <1>2, <2>1 DEF Anchored
<1> QED
  BY <1>12, <1>13, <1>14, <1>15, <1>16, <1>17, <1>18

\* A write keeps the rows and the index.
LEMMA WriteKeepsRows ==
  ASSUME Types, XactInv, TupleInv, IdsUnique, EdgeInv, RowsInv, PendingInv,
         NEW x \in Xid, NEW o, NEW new, NEW k, NEW hot \in BOOLEAN, WriteStep(x, o, new, k, hot)
  PROVE  RowsInv' /\ PendingInv'
<1>1. PICK P : P = lp'
  OBVIOUS
<1>2. PICK C : C = clog'
  OBVIOUS
<1>3. PICK N : N = nextXid'
  OBVIOUS
<1>4. Begins(C, N, x) /\ Written(P, C, x, o, new, k, hot)
  BY <1>1, <1>2, <1>3 DEF WriteStep
<1>5. /\ \A y \in Xid : /\ C[y] = "committed" <=> clog[y] = "committed"
                        /\ C[y] = "aborted" <=> clog[y] = "aborted"
                        /\ C[y] = "running" <=> y = x \/ clog[y] = "running"
      /\ \A t \in Tuple : Removed(C, t) <=> Removed(clog, t)
  BY <1>4, BeginsSame
<1>6. /\ \A p \in Off : Normal(P, p) <=> Normal(lp, p) \/ p = new
      /\ \A p \in Off : Normal(lp, p) =>
           /\ p # new /\ P[p].id = lp[p].id /\ P[p].key = lp[p].key /\ P[p].xmin = lp[p].xmin
           /\ P[p].heapOnly = lp[p].heapOnly
           /\ P[p] = lp[p] \/ (p = o /\ o # None /\ P[p].xmax = x /\ ~Removed(C, lp[p]))
      /\ \A p \in Off : Normal(P, p) => P[p] \in Tuple
      /\ \A p \in Off : Normal(lp, p) => lp[p] \in Tuple
      /\ \A p \in Off : p # None
  BY <1>4, WrittenTuples
<1>7. new # None => /\ new \in Off /\ P[new].id = lastId + 1
                    /\ P[new].key = k /\ P[new].xmin = x /\ P[new].xmax = None /\ P[new].heapOnly = hot
                    /\ Normal(P, new)
  BY <1>4 DEF Written
<1>8. o # None => /\ o \in Off /\ Normal(lp, o) /\ Normal(P, o) /\ P[o].xmax = x
                  /\ lp[o].xmax # None /\ C[lp[o].xmax] = "running" => lp[o].xmax = x
                  /\ lp[o].xmin = x \/ C[lp[o].xmin] = "committed"
  BY <1>4 DEF Written, Normal
<1>9. x # None
  BY DEF Xid, None
<1>10. \A p \in Off : Normal(lp, p) => /\ lp[p].xmin \in Xid /\ lp[p].xmax \in {None} \cup Xid
                                       /\ lp[p].lockOnly \in BOOLEAN
  BY <1>6, TupleFields
<1>11. Current(P, C) = Current(lp, clog)
  <2>1. ASSUME NEW p \in Off
        PROVE  p \in Current(P, C) <=> p \in Current(lp, clog)
    <3>1. CASE p = new
      <4>1. p \notin Current(P, C)
        BY <1>4, <1>6, <1>7, <3>1 DEF Current, Begins
      <4>2. p \notin Current(lp, clog)
        BY <1>6, <3>1 DEF Current
      <4> QED
        BY <4>1, <4>2
    <3>2. CASE p # new /\ ~Normal(lp, p)
      BY <1>6, <3>2 DEF Current
    <3>3. CASE Normal(lp, p) /\ P[p] = lp[p]
      BY <1>5, <1>6, <1>10, <3>3 DEF Current
    <3>4. CASE Normal(lp, p) /\ P[p].xmax = x /\ ~Removed(C, lp[p])
      <4>1. P[p].xmin = lp[p].xmin /\ Normal(P, p)
        BY <1>6, <3>4
      <4>2. C[P[p].xmax] # "committed"
        BY <1>4, <3>4 DEF Begins
      <4>3. p \in Current(P, C) <=> C[P[p].xmin] = "committed"
        BY <4>1, <4>2 DEF Current
      <4>4. ~(lp[p].xmax # None /\ ~lp[p].lockOnly /\ clog[lp[p].xmax] = "committed")
        BY <1>5, <1>10, <3>4 DEF Removed
      <4>5. p \in Current(lp, clog) <=> clog[lp[p].xmin] = "committed"
        BY <3>4, <4>4 DEF Current
      <4> QED
        BY <1>5, <1>10, <3>4, <4>1, <4>3, <4>5
    <3> QED
      BY <1>6, <3>1, <3>2, <3>3, <3>4
  <2> QED
    BY <2>1 DEF Current
<1>12. \A p \in Off : Normal(lp, p) => Version(P, p) = Version(lp, p)
  BY <1>6 DEF Version
<1>13. rows' = {Version(P, p) : p \in Current(P, C)}
  <2>1. rows' = {Version(lp, p) : p \in Current(lp, clog)}
    BY DEF WriteStep, RowsInv
  <2>2. \A p \in Current(lp, clog) : Version(P, p) = Version(lp, p)
    <3>1. \A p \in Current(lp, clog) : p \in Off /\ Normal(lp, p)
      BY DEF Current
    <3> QED
      BY <1>12, <3>1
  <2> QED
    BY <1>11, <2>1, <2>2
<1> DEFINE Made(Q, y) == {p \in Off : Normal(Q, p) /\ Q[p].xmin = y}
           Took(Q, y) == {p \in Off : Normal(Q, p) /\ Q[p].xmax = y /\ ~Q[p].lockOnly}
<1>14. ASSUME NEW y \in Xid, C[y] = "running"
       PROVE  /\ made[y] = {Version(lp, p) : p \in Made(lp, y)}
              /\ gone[y] = {Version(lp, p) : p \in Took(lp, y)}
  <2>1. CASE clog[y] = "running"
    BY <2>1 DEF RowsInv, Running
  <2>2. CASE clog[y] # "running"
    <3>1. made[y] = {} /\ gone[y] = {}
      BY <2>2 DEF XactInv
    <3>2. clog[y] = "none"
      BY <1>4, <1>14, <2>2 DEF Begins
    <3>3. Made(lp, y) = {} /\ Took(lp, y) = {}
      <4>1. \A p \in Off : Normal(lp, p) => lp[p].xmin # y /\ lp[p].xmax # y
        <5>1. y # None
          BY DEF Xid, None
        <5> QED
          BY <3>2, <5>1 DEF TupleInv
      <4> QED
        BY <4>1
    <3> QED
      BY <3>1, <3>3
  <2> QED
    BY <2>1, <2>2
<1>15. ASSUME NEW y \in Xid
       PROVE  Made(P, y) = Made(lp, y) \cup (IF y = x /\ new # None THEN {new} ELSE {})
  <2>1. ASSUME NEW p \in Off
        PROVE  p \in Made(P, y) <=> p \in Made(lp, y) \/ (y = x /\ new # None /\ p = new)
    <3>1. CASE p = new
      BY <1>6, <1>7, <3>1
    <3>2. CASE p # new
      BY <1>6, <3>2
    <3> QED
      BY <3>1, <3>2
  <2> QED
    BY <1>7, <2>1
<1>16. ASSUME NEW y \in Xid, C[y] = "running"
       PROVE  Took(P, y) = Took(lp, y) \cup (IF y = x /\ o # None /\ ~P[o].lockOnly THEN {o} ELSE {})
  <2>0. y # None
    BY DEF Xid, None
  <2>1. ASSUME NEW p \in Off
        PROVE  p \in Took(P, y) <=> p \in Took(lp, y) \/ (y = x /\ o # None /\ ~P[o].lockOnly /\ p = o)
    <3>1. CASE p = new
      <4>1. p \notin Took(P, y) /\ p \notin Took(lp, y) /\ (o # None => p # o)
        BY <1>6, <1>7, <1>8, <2>0, <3>1
      <4> QED
        BY <4>1
    <3>2. CASE p = o /\ p # new
      <4>1. o # None /\ Normal(lp, p) /\ Normal(P, p) /\ P[p].xmax = x /\ ~Removed(C, lp[p])
        BY <1>4, <1>6, <1>8, <3>2 DEF Written
      <4>2. lp[p].xmax = y => lp[p].lockOnly
        BY <1>16, <2>0, <4>1 DEF Removed
      <4> QED
        BY <3>2, <4>1, <4>2
    <3>3. CASE p # o /\ p # new
      <4>1. P[p] = lp[p]
        BY <1>4, <3>3 DEF Written
      <4> QED
        BY <1>6, <3>3, <4>1
    <3> QED
      BY <3>1, <3>2, <3>3
  <2> QED
    BY <1>8, <2>1
<1>17. ASSUME NEW y \in Xid, C[y] = "running"
       PROVE  /\ made'[y] = {Version(P, p) : p \in Made(P, y)}
              /\ gone'[y] = {Version(P, p) : p \in Took(P, y)}
  <2>1. \A p \in Made(lp, y) \cup Took(lp, y) : Version(P, p) = Version(lp, p)
    BY <1>12
  <2>2. made[y] = {Version(P, p) : p \in Made(lp, y)} /\ gone[y] = {Version(P, p) : p \in Took(lp, y)}
    BY <1>14, <1>17, <2>1
  <2>3. made'[y] = made[y] \cup (IF y = x /\ new # None THEN {Version(P, new)} ELSE {})
    <3>1. new # None => Version(P, new) = [id |-> lastId + 1, key |-> k]
      BY <1>7 DEF Version
    <3>2. y # x => made'[y] = made[y]
      BY DEF WriteStep
    <3>3. made'[x] = made[x] \cup (IF new = None THEN {} ELSE {[id |-> lastId + 1, key |-> k]})
      BY DEF WriteStep
    <3> QED
      BY <3>1, <3>2, <3>3
  <2>4. gone'[y] = gone[y] \cup (IF y = x /\ o # None /\ ~P[o].lockOnly THEN {Version(P, o)} ELSE {})
    <3>1. o # None => Version(P, o) = Version(lp, o)
      BY <1>8, <1>12
    <3>2. y # x => gone'[y] = gone[y]
      BY DEF WriteStep
    <3>3. gone'[x] = gone[x] \cup (IF o = None \/ P[o].lockOnly THEN {} ELSE {Version(lp, o)})
      BY <1>1 DEF WriteStep
    <3> QED
      BY <3>1, <3>2, <3>3
  <2>5. /\ Made(P, y) = Made(lp, y) \cup (IF y = x /\ new # None THEN {new} ELSE {})
        /\ Took(P, y) = Took(lp, y) \cup (IF y = x /\ o # None /\ ~P[o].lockOnly THEN {o} ELSE {})
    BY <1>15, <1>16, <1>17
  <2> HIDE DEF Made, Took
  <2> QED
    BY <2>2, <2>3, <2>4, <2>5
<1>18. RowsInv'
  <2>1. Running' = {y \in Xid : C[y] = "running"}
    BY <1>2 DEF Running
  <2> QED
    BY <1>1, <1>2, <1>13, <1>17, <2>1 DEF RowsInv
<1>19. PendingInv'
  <2>1. ASSUME NEW y \in Xid
        PROVE  /\ moving'[y] # None => todo'[y] = NoTodo
               /\ moving'[y] # None =>
                    LET m == moving'[y] IN
                    /\ Normal(P, m) /\ P[m].xmax = y /\ P[m].lockOnly
                    /\ P[m].xmin = y \/ C[P[m].xmin] = "committed"
               /\ todo'[y] # NoTodo =>
                    LET m == todo'[y].off IN
                    Normal(P, m) /\ P[m].xmin = y /\ ~P[m].heapOnly /\ P[m].key = todo'[y].key
    <3>1. CASE y = x
      <4>1. moving'[x] # None => o # None /\ moving'[x] = o /\ P[o].lockOnly /\ new = None
        BY <1>1 DEF WriteStep
      <4>2. moving'[x] # None => todo'[x] = NoTodo
        BY <4>1 DEF WriteStep
      <4>3. o # None => P[o].xmin = lp[o].xmin
        BY <1>4 DEF Written
      <4>4. todo'[x] = IF new # None /\ ~hot THEN [key |-> k, off |-> new] ELSE NoTodo
        BY DEF WriteStep
      <4>5. ASSUME todo'[x] # NoTodo
            PROVE  /\ Normal(P, todo'[x].off) /\ P[todo'[x].off].xmin = x /\ ~P[todo'[x].off].heapOnly
                   /\ P[todo'[x].off].key = todo'[x].key
        <5>1. new # None /\ ~hot /\ todo'[x].off = new /\ todo'[x].key = k
          BY <4>4, <4>5
        <5> QED
          BY <1>7, <5>1
      <4> QED
        BY <1>8, <3>1, <4>1, <4>2, <4>3, <4>5
    <3>2. CASE y # x
      <4>1. moving'[y] = moving[y] /\ todo'[y] = todo[y]
        BY <3>2 DEF WriteStep
      <4>2. moving[y] # None => todo[y] = NoTodo
        BY DEF PendingInv
      <4>3. ASSUME moving[y] # None
            PROVE  /\ Normal(P, moving[y]) /\ P[moving[y]].xmax = y /\ P[moving[y]].lockOnly
                   /\ P[moving[y]].xmin = y \/ C[P[moving[y]].xmin] = "committed"
        <5>1. PICK m : m = moving[y]
          OBVIOUS
        <5>2. /\ Normal(lp, m) /\ lp[m].xmax = y /\ lp[m].lockOnly
              /\ lp[m].xmin = y \/ clog[lp[m].xmin] = "committed"
          BY <4>3, <5>1 DEF PendingInv
        <5>3. m \in Off /\ y # None
          BY <5>2 DEF Normal, Xid, None
        <5>4. clog[y] = "running" /\ C[y] = "running"
          BY <1>5, <4>3 DEF XactInv
        <5>5. m # o
          BY <1>6, <1>8, <3>2, <5>2, <5>3, <5>4
        <5>6. P[m] = lp[m] /\ Normal(P, m)
          BY <1>6, <5>2, <5>3, <5>5
        <5> QED
          BY <1>5, <1>10, <5>1, <5>2, <5>3, <5>6
      <4>4. ASSUME todo[y] # NoTodo
            PROVE  /\ Normal(P, todo[y].off) /\ P[todo[y].off].xmin = y /\ ~P[todo[y].off].heapOnly
                   /\ P[todo[y].off].key = todo[y].key
        <5>1. PICK m : m = todo[y].off
          OBVIOUS
        <5>2. Normal(lp, m) /\ lp[m].xmin = y /\ ~lp[m].heapOnly /\ lp[m].key = todo[y].key
          BY <4>4, <5>1 DEF PendingInv
        <5>3. m \in Off
          BY <5>2 DEF Normal
        <5>4. Normal(P, m) /\ P[m].xmin = lp[m].xmin /\ P[m].heapOnly = lp[m].heapOnly /\ P[m].key = lp[m].key
          BY <1>6, <5>2, <5>3
        <5> QED
          BY <5>1, <5>2, <5>4
      <4> QED
        BY <4>1, <4>2, <4>3, <4>4
    <3> QED
      BY <3>1, <3>2
  <2> QED
    BY <1>1, <1>2, <2>1 DEF PendingInv
<1> QED
  BY <1>18, <1>19

\* A write keeps what snapshots and vacuum rely on.
LEMMA WriteKeepsReaders ==
  ASSUME Types, XactInv, TupleInv, IdsUnique, EdgeInv, PendingInv, IndexInv, SeenInv, VacInv, AllVisibleInv,
         NEW x \in Xid, NEW o, NEW new, NEW k, NEW hot \in BOOLEAN, WriteStep(x, o, new, k, hot)
  PROVE  IndexInv' /\ SeenInv' /\ VacInv' /\ AllVisibleInv'
<1>1. PICK P : P = lp'
  OBVIOUS
<1>2. PICK C : C = clog'
  OBVIOUS
<1>3. PICK N : N = nextXid'
  OBVIOUS
<1>4. Begins(C, N, x) /\ Written(P, C, x, o, new, k, hot)
  BY <1>1, <1>2, <1>3 DEF WriteStep
<1>5. /\ \A y \in Xid : /\ C[y] = "committed" <=> clog[y] = "committed"
                        /\ C[y] = "aborted" <=> clog[y] = "aborted"
                        /\ C[y] = "running" <=> y = x \/ clog[y] = "running"
      /\ \A t \in Tuple : /\ Removed(C, t) <=> Removed(clog, t)
                          /\ \A S : Gone(C, S, t) <=> Gone(clog, S, t)
                          /\ \A s : Shows(C, t, s) <=> Shows(clog, t, s)
  BY <1>4, BeginsSame
<1>6. /\ \A p \in Off : Normal(P, p) <=> Normal(lp, p) \/ p = new
      /\ \A p \in Off : Normal(lp, p) =>
           /\ p # new /\ P[p].id = lp[p].id /\ P[p].key = lp[p].key /\ P[p].xmin = lp[p].xmin
           /\ P[p].heapOnly = lp[p].heapOnly
           /\ P[p] = lp[p] \/ (p = o /\ o # None /\ P[p].xmax = x /\ ~Removed(C, lp[p]))
      /\ \A p \in Off : Normal(P, p) => P[p] \in Tuple
      /\ \A p \in Off : Normal(lp, p) => lp[p] \in Tuple
      /\ \A p \in Off : p # None
      /\ \A p \in Off : ~Normal(lp, p) /\ p # new => P[p] = lp[p]
  BY <1>4, WrittenTuples
<1>7. new # None => /\ new \in Off /\ P[new].id = lastId + 1
                    /\ P[new].key = k /\ P[new].xmin = x /\ P[new].xmax = None /\ P[new].heapOnly = hot
                    /\ Normal(P, new) /\ lp[new] = Unused
  BY <1>4 DEF Written
<1>8. o # None => /\ o \in Off /\ Normal(lp, o) /\ Normal(P, o) /\ P[o].xmax = x
                  /\ lp[o].xmin = x \/ C[lp[o].xmin] = "committed"
                  /\ ~Removed(C, lp[o])
  BY <1>4 DEF Written, Normal
<1>9. hot => o # None /\ new # None /\ k = lp[o].key
  BY <1>4 DEF Written
<1>10. \A p \in Off : Normal(lp, p) => /\ lp[p].xmin \in Xid /\ lp[p].xmax \in {None} \cup Xid
                                       /\ lp[p].lockOnly \in BOOLEAN
  BY <1>6, TupleFields
<1>11. /\ \A q \in Off : Root(P, q) <=> Root(lp, q) \/ (q = new /\ ~hot)
       /\ \A q \in Off : Chain(lp, clog, q) \subseteq Chain(P, C, q)
       /\ \A q \in Off : \A m \in Chain(P, C, q) :
            \/ m \in Chain(lp, clog, q)
            \/ m = new /\ hot /\ o \in Chain(lp, clog, q)
            \/ m = new /\ q = new /\ ~hot
  BY <1>4, WrittenChains
<1>12. \A q \in Off : \A m \in Chain(lp, clog, q) : m \in Off /\ Normal(lp, m)
  BY ChainIs
<1>13. C[x] = "running"
  BY <1>4 DEF Begins
\* Which versions somebody needs, and who is shown which.
<1>14. o # None => ~Gone(clog, snap, lp[o])
  BY <1>5, <1>8, <1>10, <1>13 DEF Gone, Removed
<1>15. ASSUME NEW p \in Off, Normal(lp, p), ~Gone(C, snap, P[p])
       PROVE  ~Gone(clog, snap, lp[p])
  <2>1. CASE P[p] = lp[p]
    BY <1>5, <1>6, <1>15, <2>1
  <2>2. CASE p = o /\ o # None
    BY <1>14, <2>2
  <2> QED
    BY <1>6, <1>15, <2>1, <2>2
<1>16. ASSUME NEW p \in Off, Normal(lp, p), NEW s
       PROVE  Shows(C, P[p], s) <=> Shows(clog, lp[p], s)
  <2>1. CASE P[p] = lp[p]
    BY <1>5, <1>6, <1>16, <2>1
  <2>2. CASE P[p].xmax = x /\ ~Removed(C, lp[p])
    <3>1. Shows(C, P[p], s) <=> Sees(s, lp[p].xmin) /\ C[lp[p].xmin] = "committed"
      BY <1>6, <1>13, <1>16, <2>2 DEF Shows
    <3>2. Shows(C, lp[p], s) <=> Sees(s, lp[p].xmin) /\ C[lp[p].xmin] = "committed"
      BY <2>2 DEF Shows, Removed
    <3> QED
      BY <1>5, <1>6, <1>16, <3>1, <3>2
  <2> QED
    BY <1>6, <1>16, <2>1, <2>2
<1>17. \A s : new # None => ~Shows(C, P[new], s)
  BY <1>7, <1>13 DEF Shows
<1>18. /\ index' = index /\ snap' = snap /\ vac' = vac
       /\ \A y \in Xid : y # x => todo'[y] = todo[y]
       /\ todo[x] = NoTodo /\ todo'[x] = IF new # None /\ ~hot THEN [key |-> k, off |-> new] ELSE NoTodo
  BY DEF WriteStep
<1>19. \A e \in index : e.off \in Off
  BY DEF Types, Entry
<1>20. IndexInv'
  <2>1. ASSUME NEW e \in index
        PROVE  /\ Root(P, e.off) \/ P[e.off] = Dead
               /\ \A m \in Chain(P, C, e.off) : P[m].key = e.key
    <3>1. /\ Root(lp, e.off) \/ lp[e.off] = Dead
          /\ \A m \in Chain(lp, clog, e.off) : lp[m].key = e.key
      BY DEF IndexInv
    <3>2. Dead # Unused /\ Dead.st = "dead" /\ Unused.st = "unused"
      <4>1. Dead.st = "dead" /\ Unused.st = "unused"
        BY ItemFacts
      <4> QED
        BY <4>1
    <3>3. lp[e.off] = Dead => P[e.off] = Dead
      <4>1. ASSUME lp[e.off] = Dead
            PROVE  P[e.off] = Dead
        <5>1. ~Normal(lp, e.off) /\ e.off # new
          BY <1>7, <1>19, <1>6, <3>2, <4>1 DEF Normal
        <5> QED
          BY <1>6, <1>19, <4>1, <5>1
      <4> QED
        BY <4>1
    <3>4. e.off # new
      <4>1. ASSUME e.off = new
            PROVE  FALSE
        <5>1. lp[e.off] = Unused
          BY <1>6, <1>7, <1>19, <4>1
        <5> QED
          BY <3>1, <3>2, <5>1 DEF Root
      <4> QED
        BY <4>1
    <3>5. ASSUME NEW m \in Chain(P, C, e.off)
          PROVE  P[m].key = e.key
      <4>1. CASE m \in Chain(lp, clog, e.off)
        BY <1>6, <1>12, <1>19, <3>1, <4>1
      <4>2. CASE m = new /\ hot /\ o \in Chain(lp, clog, e.off)
        BY <1>7, <1>9, <3>1, <4>2
      <4> QED
        BY <1>11, <1>19, <3>4, <3>5, <4>1, <4>2
    <3> QED
      BY <1>11, <1>19, <3>1, <3>3, <3>5
  <2>2. ASSUME NEW q \in Off, NEW m \in Off, m \in Chain(P, C, q), ~Gone(C, snap, P[m])
        PROVE  LET e == [key |-> P[m].key, off |-> q] IN
               e \in index \/ (Normal(P, q) /\ C[P[q].xmin] = "running" /\ todo'[P[q].xmin] = e)
    <3>1. ASSUME NEW n \in Off, n \in Chain(lp, clog, q), ~Gone(clog, snap, lp[n]), lp[n].key = P[m].key
          PROVE  LET e == [key |-> P[m].key, off |-> q] IN
                 e \in index \/ (Normal(P, q) /\ C[P[q].xmin] = "running" /\ todo'[P[q].xmin] = e)
      <4> DEFINE e == [key |-> P[m].key, off |-> q]
      <4>1. e = [key |-> lp[n].key, off |-> q]
        BY <3>1
      <4> HIDE DEF e
      <4>2. e \in index \/ (Normal(lp, q) /\ clog[lp[q].xmin] = "running" /\ todo[lp[q].xmin] = e)
        BY <3>1, <4>1 DEF IndexInv
      <4>3. e # NoTodo
        <5>1. e.off = q
          BY DEF e
        <5>2. DOMAIN e = {"key", "off"}
          BY DEF e
        <5>3. DOMAIN NoTodo = {"key"}
          BY DEF NoTodo
        <5> QED
          BY <5>2, <5>3
      <4>4. ASSUME Normal(lp, q), clog[lp[q].xmin] = "running", todo[lp[q].xmin] = e
            PROVE  Normal(P, q) /\ C[P[q].xmin] = "running" /\ todo'[P[q].xmin] = e
        <5>1. lp[q].xmin # x
          BY <1>18, <4>3, <4>4
        <5> QED
          BY <1>5, <1>6, <1>10, <1>18, <4>4, <5>1
      <4> QED
        BY <4>2, <4>4 DEF e
    <3>2. CASE m \in Chain(lp, clog, q)
      <4>1. Normal(lp, m) /\ lp[m].key = P[m].key /\ ~Gone(clog, snap, lp[m])
        BY <1>6, <1>12, <1>15, <2>2, <3>2
      <4> QED
        BY <3>1, <3>2, <4>1
    <3>3. CASE m = new /\ hot /\ o \in Chain(lp, clog, q)
      BY <1>7, <1>8, <1>9, <1>14, <3>1, <3>3
    <3>4. CASE m = new /\ q = new /\ ~hot
      <4>1. new # None
        BY <1>6, <3>4
      <4>2. Normal(P, q) /\ P[q].xmin = x /\ P[m].key = k /\ todo'[x] = [key |-> k, off |-> q]
        BY <1>7, <1>18, <3>4, <4>1
      <4> QED
        BY <1>13, <4>2
    <3> QED
      BY <1>11, <2>2, <3>2, <3>3, <3>4
  <2> QED
    BY <1>1, <1>2, <1>18, <2>1, <2>2 DEF IndexInv
<1>21. SeenInv'
  <2>1. ASSUME NEW r \in Reader, snap[r] # NoSnap
        PROVE  /\ snap[r].seen = {Version(P, p) : p \in {q \in Off : Normal(P, q) /\ Shows(C, P[q], snap[r])}}
               /\ \A p \in Off :
                    LET hits == {m \in Chain(P, C, p) : Shows(C, P[m], snap[r])} IN
                    /\ \A m \in hits : P[m].id = snap[r].leads[p]
                    /\ snap[r].leads[p] # None => hits # {}
    <3> DEFINE W == {q \in Off : Normal(lp, q) /\ Shows(clog, lp[q], snap[r])}
    <3>1. {q \in Off : Normal(P, q) /\ Shows(C, P[q], snap[r])} = W
      BY <1>6, <1>16, <1>17
    <3>2. \A p \in W : Version(P, p) = Version(lp, p)
      BY <1>6 DEF Version
    <3>3. snap[r].seen = {Version(lp, p) : p \in W}
      BY <2>1 DEF SeenInv
    <3>4. snap[r].seen = {Version(P, p) : p \in W}
      BY <3>2, <3>3
    <3>5. ASSUME NEW p \in Off
          PROVE  LET hits == {m \in Chain(P, C, p) : Shows(C, P[m], snap[r])} IN
                 /\ \A m \in hits : P[m].id = snap[r].leads[p]
                 /\ snap[r].leads[p] # None => hits # {}
      <4> DEFINE old == {m \in Chain(lp, clog, p) : Shows(clog, lp[m], snap[r])}
                 now == {m \in Chain(P, C, p) : Shows(C, P[m], snap[r])}
      <4>1. ASSUME NEW m \in now
            PROVE  m \in old /\ P[m].id = lp[m].id
        <5>1. m \in Chain(lp, clog, p)
          BY <1>6, <1>9, <1>11, <1>17
        <5> QED
          BY <1>6, <1>12, <1>16, <5>1
      <4>2. ASSUME NEW m \in old
            PROVE  m \in now
        BY <1>11, <1>12, <1>16
      <4>3. /\ \A m \in old : lp[m].id = snap[r].leads[p]
            /\ snap[r].leads[p] # None => old # {}
        BY <2>1 DEF SeenInv
      <4> HIDE DEF old
      <4>4. /\ \A m \in now : P[m].id = snap[r].leads[p]
            /\ snap[r].leads[p] # None => now # {}
        BY <4>1, <4>2, <4>3
      <4> QED
        BY <4>4
    <3> QED
      BY <3>1, <3>4, <3>5
  <2> QED
    BY <1>1, <1>2, <1>18, <2>1 DEF SeenInv
<1>22. VacInv'
  <2>1. vac.phase # "idle" => IsHorizon(vac.oldest)'
    <3>1. ASSUME vac.phase # "idle"
          PROVE  /\ vac.oldest <= N /\ \A y \in Xid : C[y] = "running" => vac.oldest <= y
                 /\ \A r \in Reader : snap[r] # NoSnap => vac.oldest <= snap[r].xmax /\ \A y \in snap[r].xip : vac.oldest <= y
      <4>1. IsHorizon(vac.oldest)
        BY <3>1 DEF VacInv
      <4>2. vac.oldest \in Int /\ nextXid \in Int
        BY Constants DEF Types, Vacuum
      <4>3. N \in Int /\ nextXid <= N
        BY <1>4, <4>2 DEF Begins
      <4>4. vac.oldest <= N
        BY <4>1, <4>2, <4>3 DEF IsHorizon
      <4>5. \A y \in Xid : clog[y] = "running" => vac.oldest <= y
        BY <4>1 DEF IsHorizon, Running
      <4>6. vac.oldest <= x
        <5>1. clog[x] = "running" \/ x = nextXid
          BY <1>4 DEF Begins
        <5> QED
          BY <4>1, <4>5, <5>1 DEF IsHorizon
      <4> QED
        BY <1>5, <4>1, <4>4, <4>5, <4>6 DEF IsHorizon
    <3> QED
      BY <1>2, <1>3, <1>18, <3>1 DEF IsHorizon, Running
  <2>2. \A q \in Off : lp[q] = Dead => P[q] = Dead
    <3>1. Dead # Unused /\ Dead.st # "normal"
      <4>1. Dead.st = "dead" /\ Unused.st = "unused"
        BY ItemFacts
      <4> QED
        BY <4>1
    <3> QED
      BY <1>6, <1>7, <3>1 DEF Normal
  <2>3. vac.dead \subseteq Off
    BY DEF Types, Vacuum
  <2> QED
    BY <1>1, <1>18, <2>1, <2>2, <2>3 DEF VacInv
<1>23. AllVisibleInv'
  <2>1. ASSUME allVisible'
        PROVE  /\ \A p \in Off : P[p] # Dead
               /\ \A p \in Off : Normal(P, p) =>
                    /\ C[P[p].xmin] = "committed" /\ ~Removed(C, P[p])
                    /\ \A r \in Reader : snap[r] # NoSnap => Sees(snap[r], P[p].xmin)
    <3>1. allVisible /\ new = None /\ (o # None => P[o].lockOnly)
      BY <1>1, <2>1 DEF WriteStep
    <3>2. /\ \A p \in Off : lp[p] # Dead
          /\ \A p \in Off : Normal(lp, p) =>
               /\ clog[lp[p].xmin] = "committed" /\ ~Removed(clog, lp[p])
               /\ \A r \in Reader : snap[r] # NoSnap => Sees(snap[r], lp[p].xmin)
      BY <3>1 DEF AllVisibleInv
    <3>3. ASSUME NEW p \in Off
          PROVE  P[p] # Dead
      <4>1. Dead.st # "normal"
        BY ItemFacts
      <4>2. p # new
        BY <1>6, <3>1
      <4> QED
        BY <1>6, <3>2, <4>1, <4>2 DEF Normal
    <3>4. ASSUME NEW p \in Off, Normal(P, p)
          PROVE  /\ C[P[p].xmin] = "committed" /\ ~Removed(C, P[p])
                 /\ \A r \in Reader : snap[r] # NoSnap => Sees(snap[r], P[p].xmin)
      <4>1. Normal(lp, p) /\ P[p].xmin = lp[p].xmin
        BY <1>6, <3>1, <3>4
      <4>2. ~Removed(C, P[p])
        <5>1. CASE P[p] = lp[p]
          BY <1>5, <1>6, <3>2, <4>1, <5>1
        <5>2. CASE p = o /\ o # None
          BY <3>1, <5>2 DEF Removed
        <5> QED
          BY <1>6, <4>1, <5>1, <5>2
      <4> QED
        BY <1>5, <1>10, <3>2, <4>1, <4>2
    <3> QED
      BY <3>3, <3>4
  <2> QED
    BY <1>1, <1>2, <1>18, <2>1 DEF AllVisibleInv
<1> QED
  BY <1>20, <1>21, <1>22, <1>23

\* Writers keep the invariant.
LEMMA WriteKeeps ==
  ASSUME IInv, NEW x \in Xid, NEW o, NEW new, NEW k, NEW hot \in BOOLEAN, WriteStep(x, o, new, k, hot)
  PROVE  IInv'
BY WriteKeepsPage, WriteKeepsRows, WriteKeepsReaders DEF IInv

\* Where the next tuple goes is an unused line pointer.
LEMMA FreeOffIs ==
  ASSUME Fits
  PROVE  FreeOff \in Off /\ lp[FreeOff] = Unused
<1> DEFINE S == {o \in Off : lp[o] = Unused}
<1>1. S \subseteq Nat /\ S # {}
  BY OffNumbers DEF Fits
<1>2. FreeOff = MinOf(S)
  BY DEF FreeOff
<1>3. MinOf(S) \in S
  <2> HIDE DEF S
  <2> QED
    BY <1>1, MinIsLeast
<1> QED
  BY <1>2, <1>3

\* PageSetPrunable sets an xid.
LEMMA PrunableXid ==
  ASSUME Types, NEW x \in Xid
  PROVE  PageSetPrunable(x) \in {None} \cup Xid
BY DEF PageSetPrunable, Types

\* The tuple that a transaction may modify: nobody has removed it.
LEMMA MayWrite ==
  ASSUME Types, XactInv, NEW x \in Xid, NEW C, NEW N, Begins(C, N, x), NEW o, MayModify(x, o)
  PROVE  /\ o \in Off /\ Normal(lp, o) /\ ~Removed(C, lp[o])
         /\ lp[o].xmax # None /\ C[lp[o].xmax] = "running" => lp[o].xmax = x
         /\ lp[o].xmin = x \/ C[lp[o].xmin] = "committed"
<1>1. Normal(lp, o) /\ o \in Off /\ lp[o] \in Tuple
  BY NormalTuple DEF MayModify, Types
<1>2. lp[o].xmin \in Xid /\ lp[o].xmax \in {None} \cup Xid
  BY <1>1, TupleFields
<1>3. /\ \A y \in Xid : /\ C[y] = "committed" <=> clog[y] = "committed"
                        /\ C[y] = "aborted" <=> clog[y] = "aborted"
                        /\ C[y] = "running" <=> y = x \/ clog[y] = "running"
  BY BeginsSame
<1>4. lp[o].xmax # None => \/ clog[lp[o].xmax] = "aborted"
                           \/ lp[o].lockOnly /\ clog[lp[o].xmax] # "running"
  BY DEF MayModify
<1>5. ~Removed(C, lp[o])
  BY <1>2, <1>3, <1>4 DEF Removed
<1>6. lp[o].xmax # None /\ C[lp[o].xmax] = "running" => lp[o].xmax = x
  BY <1>2, <1>3, <1>4
<1>7. lp[o].xmin = x \/ C[lp[o].xmin] = "committed"
  BY <1>2, <1>3 DEF MayModify
<1> QED
  BY <1>1, <1>5, <1>6, <1>7

\* A transaction whose first write is to another page.
LEMMA AssignKeeps ==
  ASSUME IInv, AssignTransactionId
  PROVE  IInv'
<1>1. nextXid \in Xid
  BY Constants DEF AssignTransactionId, IInv, Types, Xid
<1>2. PICK x \in Xid : x = nextXid
  BY <1>1
<1>3. Begins(clog', nextXid', x) /\ moving[x] = None /\ todo[x] = NoTodo
  BY <1>2, BeginsFirst DEF IInv, AssignTransactionId
<1>4. UNCHANGED <<pageVars, index, moving, todo, snap, vac, history>>
  BY DEF AssignTransactionId
<1>5. Types
  BY DEF IInv
<1>6. Written(lp', clog', x, None, None, None, FALSE)
  BY <1>4, <1>5 DEF Written, Types, pageVars
<1>7. WriteStep(x, None, None, None, FALSE)
  BY <1>3, <1>4, <1>5, <1>6 DEF WriteStep, Types, pageVars, history
<1> QED
  BY <1>7, WriteKeeps

\* pg_tde_insert keeps the invariant.
LEMMA InsertKeeps ==
  ASSUME IInv, NEW x \in Xid, NEW k \in Key, pg_tde_insert(x, k)
  PROVE  IInv'
<1>1. Types /\ XactInv
  BY DEF IInv
<1>2. Begins(clog', nextXid', x) /\ moving[x] = None /\ todo[x] = NoTodo
  BY <1>1, BeginsFirst DEF pg_tde_insert
<1>3. FreeOff \in Off /\ lp[FreeOff] = Unused
  BY FreeOffIs DEF pg_tde_insert
<1>4. PICK new \in Off : new = FreeOff /\ lp[new] = Unused
  BY <1>3
<1>5. new # None
  BY OffNumbers
<1>6. lastId \in Nat /\ lastId + 1 \in IdSet /\ lastId' = lastId + 1 /\ lastId' \in MaxOff..(MaxOff + MaxTuples)
  BY <1>1, Constants DEF pg_tde_insert, Store, Types, IdSet
<1>7. PICK u : u = NewTuple(lastId + 1, x, k, FALSE)
  OBVIOUS
<1>8. /\ u \in Tuple /\ u.xmax = None /\ u.hotUpdated = FALSE /\ u.id = lastId + 1 /\ u.key = k /\ u.xmin = x
      /\ u.heapOnly = FALSE /\ u.st = "normal"
  BY <1>6, <1>7 DEF NewTuple, Tuple, IdSet, None
<1>9. lp' = [lp EXCEPT ![new] = u]
  BY <1>4, <1>7 DEF pg_tde_insert
<1>10. lp' \in [Off -> Item] /\ lp'[new] = u /\ \A p \in Off : p # new => lp'[p] = lp[p]
  <2>1. u \in Item /\ lp \in [Off -> Item]
    BY <1>1, <1>8, ItemFacts DEF Types
  <2> QED
    BY <1>9, <2>1
<1>11. Written(lp', clog', x, None, new, k, FALSE)
  BY <1>4, <1>5, <1>8, <1>10 DEF Written, Normal
<1>12. /\ made' = [made EXCEPT ![x] = @ \cup {[id |-> lastId + 1, key |-> k]}] /\ allVisible' = FALSE
       /\ todo' = [todo EXCEPT ![x] = [key |-> k, off |-> new]]
       /\ UNCHANGED <<pruneXid, full, index, moving, snap, vac, rows, gone>>
  BY <1>4, <1>6 DEF pg_tde_insert, Store
<1>13. [id |-> lastId + 1, key |-> k] \in RowVersion /\ [key |-> k, off |-> new] \in Entry
  BY <1>6 DEF RowVersion, Entry, IdSet
<1>14. /\ made' \in [Xid -> SUBSET RowVersion] /\ made'[x] = made[x] \cup {[id |-> lastId + 1, key |-> k]}
       /\ todo' \in [Xid -> Entry \cup {NoTodo}] /\ todo'[x] = [key |-> k, off |-> new]
       /\ \A y \in Xid : y # x => made'[y] = made[y] /\ todo'[y] = todo[y]
  BY <1>1, <1>12, <1>13 DEF Types
<1>15. WriteStep(x, None, new, k, FALSE)
  BY <1>1, <1>2, <1>5, <1>6, <1>11, <1>12, <1>14 DEF WriteStep, Types
<1> QED
  BY <1>15, WriteKeeps

\* pg_tde_delete keeps the invariant.
LEMMA DeleteKeeps ==
  ASSUME IInv, NEW x \in Xid, NEW o \in Off, pg_tde_delete(x, o)
  PROVE  IInv'
<1>1. Types /\ XactInv
  BY DEF IInv
<1>2. Begins(clog', nextXid', x) /\ moving[x] = None /\ todo[x] = NoTodo
  BY <1>1, BeginsFirst DEF pg_tde_delete
<1>3. MayModify(x, o)
  BY DEF pg_tde_delete
<1>4. /\ Normal(lp, o) /\ ~Removed(clog', lp[o])
      /\ lp[o].xmax # None /\ clog'[lp[o].xmax] = "running" => lp[o].xmax = x
      /\ lp[o].xmin = x \/ clog'[lp[o].xmin] = "committed"
  BY <1>1, <1>2, <1>3, MayWrite
<1>5. lp'[o] = [lp[o] EXCEPT !["xmax"] = x, !["lockOnly"] = FALSE, !["ctid"] = None, !["hotUpdated"] = FALSE]
  <2>1. lp \in [Off -> Item]
    BY <1>1 DEF Types
  <2> QED
    BY <2>1, Zenon DEF pg_tde_delete
<1>6. \A p \in Off : p # o => lp'[p] = lp[p]
  <2>1. lp \in [Off -> Item]
    BY <1>1 DEF Types
  <2> QED
    BY <2>1, Zenon DEF pg_tde_delete
<1>7. DOMAIN lp' = Off /\ lp' = [p \in Off |-> lp'[p]]
  <2>1. lp \in [Off -> Item]
    BY <1>1 DEF Types
  <2> QED
    BY <2>1, Zenon DEF pg_tde_delete
<1>8. PICK u : u = lp'[o]
  OBVIOUS
<1>9. lp[o] \in Tuple
  BY <1>1, <1>4, NormalTuple DEF Types
<1>10. /\ u \in Tuple /\ u.xmax = x /\ u.lockOnly = FALSE /\ u.hotUpdated = FALSE
       /\ u.id = lp[o].id /\ u.key = lp[o].key /\ u.xmin = lp[o].xmin /\ u.heapOnly = lp[o].heapOnly /\ u.st = "normal"
  BY ONLY <1>5, <1>8, <1>9, x \in Xid DEF Tuple
<1>11. lp' \in [Off -> Item]
  <2>1. \A p \in Off : lp'[p] \in Item
    <3>1. \A p \in Off : lp[p] \in Item
      BY <1>1 DEF Types
    <3> QED
      BY <1>6, <1>8, <1>10, <3>1, ItemFacts
  <2> QED
    BY <1>7, <2>1
<1>12. o # None
  BY OffNumbers
<1>13. Written(lp', clog', x, o, None, None, FALSE)
  BY <1>4, <1>6, <1>8, <1>10, <1>11 DEF Written, Normal
<1>14. /\ gone' = [gone EXCEPT ![x] = @ \cup {Version(lp, o)}] /\ pruneXid' = PageSetPrunable(x) /\ allVisible' = FALSE
       /\ UNCHANGED <<full, index, moving, todo, snap, vac, lastId, rows, made>>
  BY DEF pg_tde_delete, Remove, Version
<1>15. Version(lp, o) \in RowVersion
  BY <1>9, TupleFields DEF Version, RowVersion, IdSet
<1>16. /\ gone' \in [Xid -> SUBSET RowVersion] /\ gone'[x] = gone[x] \cup {Version(lp, o)}
       /\ \A y \in Xid : y # x => gone'[y] = gone[y]
  BY <1>1, <1>14, <1>15 DEF Types
<1>17. pruneXid' \in {None} \cup Xid
  BY <1>1, <1>14, PrunableXid
<1>18. WriteStep(x, o, None, None, FALSE)
  BY <1>1, <1>2, <1>8, <1>10, <1>12, <1>13, <1>14, <1>16, <1>17 DEF WriteStep, Types
<1> QED
  BY <1>18, WriteKeeps

\* pg_tde_update keeps it when it locks the old version to let the page go.
LEMMA UpdateLockKeeps ==
  ASSUME IInv, NEW x \in Xid, NEW o \in Off, UpdateLock(x, o)
  PROVE  IInv'
<1>1. Types /\ XactInv
  BY DEF IInv
<1>2. Begins(clog', nextXid', x) /\ moving[x] = None /\ todo[x] = NoTodo
  BY <1>1, BeginsFirst DEF UpdateLock
<1>3. MayModify(x, o)
  BY DEF UpdateLock
<1>4. /\ Normal(lp, o) /\ ~Removed(clog', lp[o])
      /\ lp[o].xmax # None /\ clog'[lp[o].xmax] = "running" => lp[o].xmax = x
      /\ lp[o].xmin = x \/ clog'[lp[o].xmin] = "committed"
  BY <1>1, <1>2, <1>3, MayWrite
<1>5. lp \in [Off -> Item]
  BY <1>1 DEF Types
<1>6. lp'[o] = [lp[o] EXCEPT !["xmax"] = x, !["lockOnly"] = TRUE, !["ctid"] = None, !["hotUpdated"] = FALSE]
  BY <1>5, Zenon DEF UpdateLock
<1>7. \A p \in Off : p # o => lp'[p] = lp[p]
  BY <1>5, Zenon DEF UpdateLock
<1>8. DOMAIN lp' = Off /\ lp' = [p \in Off |-> lp'[p]]
  BY <1>5, Zenon DEF UpdateLock
<1>9. PICK u : u = lp'[o]
  OBVIOUS
<1>10. lp[o] \in Tuple
  BY <1>1, <1>4, NormalTuple DEF Types
<1>11. /\ u \in Tuple /\ u.xmax = x /\ u.lockOnly = TRUE /\ u.hotUpdated = FALSE
       /\ u.id = lp[o].id /\ u.key = lp[o].key /\ u.xmin = lp[o].xmin /\ u.heapOnly = lp[o].heapOnly /\ u.st = "normal"
  BY ONLY <1>6, <1>9, <1>10, x \in Xid DEF Tuple
<1>12. lp' \in [Off -> Item]
  <2>1. \A p \in Off : lp'[p] \in Item
    <3>1. \A p \in Off : lp[p] \in Item
      BY <1>5
    <3> QED
      BY <1>7, <1>9, <1>11, <3>1, ItemFacts
  <2> QED
    BY <1>8, <2>1
<1>13. o # None
  BY OffNumbers
<1>14. Written(lp', clog', x, o, None, None, FALSE)
  BY <1>4, <1>7, <1>9, <1>11, <1>12 DEF Written, Normal
<1>15. /\ moving' = [moving EXCEPT ![x] = o]
       /\ UNCHANGED <<pruneXid, full, allVisible, index, todo, snap, vac, lastId, rows, made, gone>>
  BY DEF UpdateLock, history
<1>16. moving' \in [Xid -> {None} \cup Off] /\ moving'[x] = o /\ \A y \in Xid : y # x => moving'[y] = moving[y]
  BY <1>1, <1>15 DEF Types
<1>17. WriteStep(x, o, None, None, FALSE)
  BY <1>1, <1>2, <1>9, <1>11, <1>13, <1>14, <1>15, <1>16 DEF WriteStep, Types
<1> QED
  BY <1>17, WriteKeeps

\* A transaction that is under way and has a tuple locked.
LEMMA MovingFacts ==
  ASSUME IInv, NEW x \in Xid, clog[x] = "running", moving[x] # None
  PROVE  LET o == moving[x] IN
         /\ Begins(clog, nextXid, x) /\ todo[x] = NoTodo
         /\ o \in Off /\ Normal(lp, o) /\ ~Removed(clog, lp[o]) /\ lp[o].xmax = x /\ lp[o].lockOnly
         /\ lp[o].xmin = x \/ clog[lp[o].xmin] = "committed"
         /\ ~lp[o].hotUpdated
<1>1. Begins(clog, nextXid, x)
  BY DEF Begins, IInv, Types
<1>2. PICK o : o = moving[x]
  OBVIOUS
<1>3. /\ todo[x] = NoTodo
      /\ Normal(lp, o) /\ lp[o].xmax = x /\ lp[o].lockOnly
      /\ lp[o].xmin = x \/ clog[lp[o].xmin] = "committed"
  BY <1>2 DEF PendingInv, IInv
<1>4. o \in Off /\ ~Removed(clog, lp[o])
  BY <1>3 DEF Normal, Removed
<1>5. ~lp[o].hotUpdated
  BY <1>3, <1>4 DEF IInv, TupleInv
<1> QED
  BY <1>1, <1>2, <1>3, <1>4, <1>5

\* pg_tde_update keeps it when the new version goes to another page.
LEMMA UpdateMoveKeeps ==
  ASSUME IInv, NEW x \in Xid, UpdateMove(x)
  PROVE  IInv'
<1>1. Types
  BY DEF IInv
<1>2. PICK o : o = moving[x]
  OBVIOUS
<1>3. clog[x] = "running" /\ o # None
  BY <1>2 DEF UpdateMove
<1>4. /\ Begins(clog, nextXid, x) /\ todo[x] = NoTodo
      /\ o \in Off /\ Normal(lp, o) /\ ~Removed(clog, lp[o]) /\ lp[o].xmax = x /\ lp[o].lockOnly
      /\ lp[o].xmin = x \/ clog[lp[o].xmin] = "committed"
      /\ ~lp[o].hotUpdated
  BY <1>2, <1>3, MovingFacts
<1>5. lp \in [Off -> Item]
  BY <1>1 DEF Types
<1>6. lp'[o] = [lp[o] EXCEPT !["lockOnly"] = FALSE]
  BY <1>2, <1>4, <1>5, Zenon DEF UpdateMove
<1>7. \A p \in Off : p # o => lp'[p] = lp[p]
  BY <1>2, <1>4, <1>5, Zenon DEF UpdateMove
<1>8. DOMAIN lp' = Off /\ lp' = [p \in Off |-> lp'[p]]
  BY <1>2, <1>4, <1>5, Zenon DEF UpdateMove
<1>9. PICK u : u = lp'[o]
  OBVIOUS
<1>10. lp[o] \in Tuple
  BY <1>1, <1>4, NormalTuple DEF Types
<1>11. /\ u \in Tuple /\ u.xmax = lp[o].xmax /\ u.lockOnly = FALSE /\ u.hotUpdated = lp[o].hotUpdated
       /\ u.id = lp[o].id /\ u.key = lp[o].key /\ u.xmin = lp[o].xmin /\ u.heapOnly = lp[o].heapOnly /\ u.st = "normal"
  BY ONLY <1>6, <1>9, <1>10 DEF Tuple
<1>12. lp' \in [Off -> Item]
  <2>1. \A p \in Off : lp'[p] \in Item
    <3>1. \A p \in Off : lp[p] \in Item
      BY <1>5
    <3> QED
      BY <1>7, <1>9, <1>11, <3>1, ItemFacts
  <2> QED
    BY <1>8, <2>1
<1>13. clog' = clog /\ nextXid' = nextXid
  BY DEF UpdateMove
<1>14. Written(lp', clog, x, o, None, None, FALSE)
  BY <1>4, <1>7, <1>9, <1>11, <1>12 DEF Written, Normal
<1>15. /\ gone' = [gone EXCEPT ![x] = @ \cup {Version(lp, o)}] /\ pruneXid' = PageSetPrunable(x)
       /\ full' = TRUE /\ allVisible' = FALSE /\ moving' = [moving EXCEPT ![x] = None]
       /\ UNCHANGED <<index, todo, snap, vac, lastId, rows, made>>
  BY <1>2 DEF UpdateMove, Remove, Version
<1>16. Version(lp, o) \in RowVersion
  BY <1>10, TupleFields DEF Version, RowVersion, IdSet
<1>17. /\ gone' \in [Xid -> SUBSET RowVersion] /\ gone'[x] = gone[x] \cup {Version(lp, o)}
       /\ moving' \in [Xid -> {None} \cup Off] /\ moving'[x] = None
       /\ \A y \in Xid : y # x => gone'[y] = gone[y] /\ moving'[y] = moving[y]
  BY <1>1, <1>15, <1>16 DEF Types
<1>18. pruneXid' \in {None} \cup Xid
  BY <1>1, <1>15, PrunableXid
<1>19. WriteStep(x, o, None, None, FALSE)
  BY <1>1, <1>3, <1>4, <1>9, <1>11, <1>13, <1>14, <1>15, <1>17, <1>18 DEF WriteStep, Types
<1> QED
  BY <1>19, WriteKeeps

\* A new version on the page keeps the invariant.
LEMMA PutVersionKeeps ==
  ASSUME IInv, NEW x \in Xid, NEW k \in Key, NEW o \in Off,
         Begins(clog', nextXid', x), todo[x] = NoTodo,
         Normal(lp, o), ~Removed(clog', lp[o]),
         lp[o].xmax # None /\ clog'[lp[o].xmax] = "running" => lp[o].xmax = x,
         lp[o].xmin = x \/ clog'[lp[o].xmin] = "committed",
         PutVersion(x, o, k),
         moving' \in [Xid -> {None} \cup Off], moving'[x] = None,
         \A y \in Xid : y # x => moving'[y] = moving[y]
  PROVE  IInv'
<1>1. Types
  BY DEF IInv
<1>2. FreeOff \in Off /\ lp[FreeOff] = Unused
  BY FreeOffIs DEF PutVersion
<1>3. PICK new \in Off : new = FreeOff /\ lp[new] = Unused
  BY <1>2
<1>4. PICK hot \in BOOLEAN : hot = (k = lp[o].key)
  OBVIOUS
<1>5. new # None /\ o # None /\ o # new
  BY <1>3, OffNumbers, ItemFacts DEF Normal
<1>6. lastId \in Nat /\ lastId + 1 \in IdSet /\ lastId' = lastId + 1 /\ lastId' \in MaxOff..(MaxOff + MaxTuples)
  BY <1>1, Constants DEF PutVersion, Store, Types, IdSet
<1>7. PICK u : u = NewTuple(lastId + 1, x, k, hot)
  OBVIOUS
<1>8. /\ u \in Tuple /\ u.xmax = None /\ u.hotUpdated = FALSE /\ u.id = lastId + 1 /\ u.key = k /\ u.xmin = x
      /\ u.heapOnly = hot /\ u.st = "normal"
  BY ONLY <1>4, <1>6, <1>7, x \in Xid, k \in Key DEF NewTuple, Tuple, IdSet, None
<1>9. lp \in [Off -> Item]
  BY <1>1 DEF Types
<1>10. lp' = [lp EXCEPT ![o].xmax = x, ![o].lockOnly = FALSE, ![o].ctid = new,
                        ![o].hotUpdated = hot, ![new] = u]
  <2>1. lp' = [lp EXCEPT ![o].xmax = x, ![o].lockOnly = FALSE, ![o].ctid = FreeOff,
                         ![o].hotUpdated = (k = lp[o].key), ![FreeOff] = NewTuple(lastId', x, k, k = lp[o].key)]
    BY Zenon DEF PutVersion
  <2>2. lp' = [lp EXCEPT ![o].xmax = x, ![o].lockOnly = FALSE, ![o].ctid = new,
                         ![o].hotUpdated = hot, ![new] = NewTuple(lastId', x, k, hot)]
    BY <1>3, <1>4, <2>1, Zenon
  <2> QED
    BY <1>6, <1>7, <2>2, Zenon
<1>11. lp'[o] = [lp[o] EXCEPT !["xmax"] = x, !["lockOnly"] = FALSE, !["ctid"] = new, !["hotUpdated"] = hot]
  BY ONLY <1>5, <1>9, <1>10, o \in Off, new \in Off, Zenon
<1>12. lp'[new] = u /\ \A p \in Off : p # o /\ p # new => lp'[p] = lp[p]
  BY ONLY <1>5, <1>9, <1>10, o \in Off, new \in Off, Zenon
<1>13. lp' = [p \in Off |-> lp'[p]]
  BY ONLY <1>9, <1>10, Zenon
<1>14. PICK w : w = lp'[o]
  OBVIOUS
<1>15. lp[o] \in Tuple
  BY <1>1, NormalTuple DEF Types
<1>16. /\ w \in Tuple /\ w.xmax = x /\ w.lockOnly = FALSE /\ w.ctid = new /\ w.hotUpdated = hot
       /\ w.id = lp[o].id /\ w.key = lp[o].key /\ w.xmin = lp[o].xmin /\ w.heapOnly = lp[o].heapOnly /\ w.st = "normal"
  BY ONLY <1>4, <1>11, <1>14, <1>15, x \in Xid, new \in Off DEF Tuple
<1>17. lp' \in [Off -> Item]
  <2>1. \A p \in Off : lp'[p] \in Item
    <3>1. \A p \in Off : lp[p] \in Item
      BY <1>9
    <3>2. u \in Item /\ w \in Item
      BY <1>8, <1>16, ItemFacts
    <3> QED
      BY <1>12, <1>14, <3>1, <3>2
  <2> QED
    BY <1>13, <2>1
<1>18. Written(lp', clog', x, o, new, k, hot)
  BY <1>3, <1>4, <1>8, <1>12, <1>14, <1>16, <1>17, <1>5 DEF Written, Normal
<1>19. /\ made' = [made EXCEPT ![x] = @ \cup {[id |-> lastId + 1, key |-> k]}]
       /\ gone' = [gone EXCEPT ![x] = @ \cup {Version(lp, o)}]
       /\ pruneXid' = PageSetPrunable(x) /\ allVisible' = FALSE
       /\ todo' = (IF hot THEN todo ELSE [todo EXCEPT ![x] = [key |-> k, off |-> new]])
       /\ UNCHANGED <<full, index, snap, vac, rows>>
  BY <1>3, <1>4, <1>6, Zenon DEF PutVersion, Store, Remove, Version
<1>20. /\ [id |-> lastId + 1, key |-> k] \in RowVersion /\ [key |-> k, off |-> new] \in Entry
       /\ Version(lp, o) \in RowVersion
  BY <1>6, <1>15, TupleFields DEF RowVersion, Entry, IdSet, Version
<1>21. /\ made' \in [Xid -> SUBSET RowVersion] /\ made'[x] = made[x] \cup {[id |-> lastId + 1, key |-> k]}
       /\ gone' \in [Xid -> SUBSET RowVersion] /\ gone'[x] = gone[x] \cup {Version(lp, o)}
       /\ \A y \in Xid : y # x => made'[y] = made[y] /\ gone'[y] = gone[y]
  BY <1>1, <1>19, <1>20 DEF Types
<1>22. /\ todo' \in [Xid -> Entry \cup {NoTodo}] /\ todo'[x] = IF ~hot THEN [key |-> k, off |-> new] ELSE NoTodo
       /\ \A y \in Xid : y # x => todo'[y] = todo[y]
  <2>1. todo \in [Xid -> Entry \cup {NoTodo}]
    BY <1>1 DEF Types
  <2> QED
    BY <1>4, <1>19, <1>20, <2>1
<1>23. pruneXid' \in {None} \cup Xid
  BY <1>1, <1>19, PrunableXid
<1>24. WriteStep(x, o, new, k, hot)
  <2>1. lastId' = (IF new = None THEN lastId ELSE lastId + 1) /\ lastId' \in MaxOff..(MaxOff + MaxTuples)
    BY <1>5, <1>6
  <2>2. \A y \in Xid : y # x => /\ made'[y] = made[y] /\ gone'[y] = gone[y]
                                 /\ moving'[y] = moving[y] /\ todo'[y] = todo[y]
    BY <1>21, <1>22
  <2>3. /\ made'[x] = made[x] \cup (IF new = None THEN {} ELSE {[id |-> lastId + 1, key |-> k]})
        /\ gone'[x] = gone[x] \cup (IF o = None \/ lp'[o].lockOnly THEN {} ELSE {Version(lp, o)})
        /\ todo'[x] = IF new # None /\ ~hot THEN [key |-> k, off |-> new] ELSE NoTodo
    BY <1>5, <1>14, <1>16, <1>21, <1>22
  <2>4. full' \in BOOLEAN /\ allVisible' = FALSE
    BY <1>1, <1>19 DEF Types
  <2>5. UNCHANGED <<index, snap, vac, rows>>
    BY <1>19
  <2> QED
    BY <1>18, <1>21, <1>22, <1>23, <2>1, <2>2, <2>3, <2>4, <2>5 DEF WriteStep
<1> QED
  BY <1>4, <1>24, WriteKeeps

\* pg_tde_update with room on the page keeps the invariant.
LEMMA UpdateKeeps ==
  ASSUME IInv, NEW x \in Xid, NEW o \in Off, NEW k \in Key, pg_tde_update(x, o, k)
  PROVE  IInv'
<1>1. Types /\ XactInv
  BY DEF IInv
<1>2. Begins(clog', nextXid', x) /\ moving[x] = None /\ todo[x] = NoTodo
  BY <1>1, BeginsFirst DEF pg_tde_update
<1>3. MayModify(x, o) /\ PutVersion(x, o, k) /\ moving' = moving
  BY DEF pg_tde_update
<1>4. /\ Normal(lp, o) /\ ~Removed(clog', lp[o])
      /\ lp[o].xmax # None /\ clog'[lp[o].xmax] = "running" => lp[o].xmax = x
      /\ lp[o].xmin = x \/ clog'[lp[o].xmin] = "committed"
  BY <1>1, <1>2, <1>3, MayWrite
<1>5. moving' \in [Xid -> {None} \cup Off]
  BY <1>1, <1>3 DEF Types
<1> QED
  BY <1>2, <1>3, <1>4, <1>5, PutVersionKeeps

\* pg_tde_update that comes back to the page keeps the invariant.
LEMMA UpdateHereKeeps ==
  ASSUME IInv, NEW x \in Xid, NEW k \in Key, UpdateHere(x, k)
  PROVE  IInv'
<1>1. Types
  BY DEF IInv
<1>2. clog' = clog /\ nextXid' = nextXid /\ clog[x] = "running" /\ moving[x] # None
      /\ moving' = [moving EXCEPT ![x] = None]
  BY DEF UpdateHere
<1>3. PICK o : o = moving[x]
  OBVIOUS
<1>4. /\ Begins(clog, nextXid, x) /\ todo[x] = NoTodo
      /\ o \in Off /\ Normal(lp, o) /\ ~Removed(clog, lp[o]) /\ lp[o].xmax = x
      /\ lp[o].xmin = x \/ clog[lp[o].xmin] = "committed"
  BY <1>2, <1>3, MovingFacts
<1>5. PutVersion(x, o, k)
  BY <1>3 DEF UpdateHere
<1>6. moving' \in [Xid -> {None} \cup Off] /\ moving'[x] = None /\ \A y \in Xid : y # x => moving'[y] = moving[y]
  BY <1>1, <1>2 DEF Types
<1>7. /\ Begins(clog', nextXid', x) /\ ~Removed(clog', lp[o])
      /\ lp[o].xmin = x \/ clog'[lp[o].xmin] = "committed"
  BY <1>2, <1>4
<1> QED
  BY <1>4, <1>5, <1>6, <1>7, PutVersionKeeps

-----------------------------------------------------------------------------
(* What the parts of the invariant depend on.                                *)

\* Each part of the invariant, and the variables it depends on.
LEMMA Frame ==
  ASSUME IInv
  PROVE  /\ UNCHANGED <<clog, nextXid, moving, todo, made, gone>> => XactInv'
         /\ UNCHANGED <<clog, nextXid, snap>> => SnapInv'
         /\ UNCHANGED <<lp, lastId, clog, snap>> => TupleInv'
         /\ UNCHANGED lp => IdsUnique'
         /\ UNCHANGED <<lp, clog>> => EdgeInv' /\ Anchored'
         /\ UNCHANGED <<lp, clog, rows, made, gone>> => RowsInv'
         /\ UNCHANGED <<lp, clog, moving, todo>> => PendingInv'
         /\ UNCHANGED <<lp, clog, snap, todo, index>> => IndexInv'
         /\ UNCHANGED <<lp, clog, snap>> => SeenInv'
         /\ UNCHANGED <<lp, clog, snap, nextXid, index, vac>> => VacInv'
         /\ UNCHANGED <<lp, clog, snap, allVisible>> => AllVisibleInv'
<1> USE DEF IInv
<1>1. UNCHANGED <<clog, nextXid, moving, todo, made, gone>> => XactInv'
  BY DEF XactInv
<1>2. UNCHANGED <<clog, nextXid, snap>> => SnapInv'
  BY DEF SnapInv
<1>3. UNCHANGED <<lp, lastId, clog, snap>> => TupleInv'
  BY DEF TupleInv
<1>4. UNCHANGED lp => IdsUnique'
  BY DEF IdsUnique
<1>5. UNCHANGED <<lp, clog>> => EdgeInv' /\ Anchored'
  BY DEF EdgeInv, Anchored
<1>6. UNCHANGED <<lp, clog, rows, made, gone>> => RowsInv'
  BY DEF RowsInv, Running
<1>7. UNCHANGED <<lp, clog, moving, todo>> => PendingInv'
  BY DEF PendingInv
<1>8. UNCHANGED <<lp, clog, snap, todo, index>> => IndexInv'
  BY DEF IndexInv
<1>9. UNCHANGED <<lp, clog, snap>> => SeenInv'
  BY DEF SeenInv
<1>10. UNCHANGED <<lp, clog, snap, nextXid, index, vac>> => VacInv'
  BY DEF VacInv, IsHorizon, Running
<1>11. UNCHANGED <<lp, clog, snap, allVisible>> => AllVisibleInv'
  BY DEF AllVisibleInv
<1> QED
  BY <1>1, <1>2, <1>3, <1>4, <1>5, <1>6, <1>7, <1>8, <1>9, <1>10, <1>11

\* Vacuum keeps its horizon when a transaction ends.
LEMMA HorizonStays ==
  ASSUME IInv, UNCHANGED <<nextXid, snap, lp, index, vac>>,
         \A y \in Xid : clog'[y] = "running" => clog[y] = "running"
  PROVE  VacInv'
<1>1. vac.phase # "idle" => IsHorizon(vac.oldest)'
  <2>1. vac.phase # "idle" => IsHorizon(vac.oldest)
    BY DEF IInv, VacInv
  <2> QED
    BY <2>1 DEF IsHorizon, Running
<1> QED
  BY <1>1 DEF IInv, VacInv

\* Nobody sees a transaction that is running.
LEMMA Endable ==
  ASSUME IInv, NEW x \in Xid, clog[x] = "running"
  PROVE  /\ \A r \in Reader : snap[r] # NoSnap => ~Sees(snap[r], x)
         /\ x # None
         /\ \A o \in Off : Normal(lp, o) => /\ lp[o] \in Tuple
                                            /\ lp[o].xmin \in Xid /\ lp[o].xmax \in {None} \cup Xid
                                            /\ lp[o].lockOnly \in BOOLEAN
         /\ clog \in [Xid -> {"none", "running", "committed", "aborted"}]
<1>1. \A r \in Reader : snap[r] # NoSnap => ~Sees(snap[r], x)
  BY DEF IInv, SnapInv
<1>2. x # None
  BY DEF Xid, None
<1>3. \A o \in Off : Normal(lp, o) => lp[o] \in Tuple
  BY NormalTuple DEF IInv, Types
<1>4. \A o \in Off : Normal(lp, o) => /\ lp[o].xmin \in Xid /\ lp[o].xmax \in {None} \cup Xid
                                      /\ lp[o].lockOnly \in BOOLEAN
  BY <1>3, TupleFields
<1>5. clog \in [Xid -> {"none", "running", "committed", "aborted"}]
  BY DEF IInv, Types
<1> QED
  BY <1>1, <1>2, <1>3, <1>4, <1>5

-----------------------------------------------------------------------------
(* Commit.                                                                   *)

\* At commit the rows become those of the versions that are current then.
LEMMA CommitRows ==
  ASSUME IInv, NEW x \in Xid, Commit(x)
  PROVE  RowsInv'
<1>1. PICK C : C = clog'
  OBVIOUS
<1>2. clog[x] = "running" /\ lp' = lp /\ rows' = (rows \cup made[x]) \ gone[x]
      /\ made' = [made EXCEPT ![x] = {}] /\ gone' = [gone EXCEPT ![x] = {}] /\ C = [clog EXCEPT ![x] = "committed"]
  BY <1>1 DEF Commit, Free, pageVars
<1>3. /\ x # None
      /\ \A o \in Off : Normal(lp, o) => /\ lp[o].xmin \in Xid /\ lp[o].xmax \in {None} \cup Xid
                                         /\ lp[o].lockOnly \in BOOLEAN
      /\ clog \in [Xid -> {"none", "running", "committed", "aborted"}]
  BY <1>2, Endable
<1>4. C[x] = "committed" /\ \A y \in Xid : y # x => C[y] = clog[y]
  BY <1>2, <1>3
<1> DEFINE Made(y) == {p \in Off : Normal(lp, p) /\ lp[p].xmin = y}
           Took(y) == {p \in Off : Normal(lp, p) /\ lp[p].xmax = y /\ ~lp[p].lockOnly}
           Old == Current(lp, clog)
           New == Current(lp, C)
<1>5. /\ rows = {Version(lp, o) : o \in Old}
      /\ \A y \in Xid : clog[y] = "running" =>
           /\ made[y] = {Version(lp, o) : o \in Made(y)}
           /\ gone[y] = {Version(lp, o) : o \in Took(y)}
  BY DEF IInv, RowsInv, Running
<1>6. New = (Old \cup Made(x)) \ Took(x)
  <2>1. ASSUME NEW o \in Off, Normal(lp, o)
        PROVE  o \in New <=> (o \in Old \/ o \in Made(x)) /\ o \notin Took(x)
    <3>1. lp[o].xmax # None => lp[o].xmax = lp[o].xmin \/ clog[lp[o].xmin] = "committed"
      BY <2>1 DEF IInv, TupleInv
    <3>2. o \in New <=> /\ C[lp[o].xmin] = "committed"
                        /\ ~(lp[o].xmax # None /\ ~lp[o].lockOnly /\ C[lp[o].xmax] = "committed")
      BY <2>1 DEF Current
    <3>3. o \in Old <=> /\ clog[lp[o].xmin] = "committed"
                        /\ ~(lp[o].xmax # None /\ ~lp[o].lockOnly /\ clog[lp[o].xmax] = "committed")
      BY <2>1 DEF Current
    <3>4. o \in Made(x) <=> lp[o].xmin = x
      BY <2>1
    <3>5. o \in Took(x) <=> lp[o].xmax = x /\ ~lp[o].lockOnly
      BY <2>1
    <3> QED
      BY <1>2, <1>3, <1>4, <2>1, <3>1, <3>2, <3>3, <3>4, <3>5
  <2>2. \A o : o \in New \/ o \in Old \/ o \in Made(x) => o \in Off /\ Normal(lp, o)
    BY DEF Current
  <2> HIDE DEF New, Old, Made, Took
  <2> QED
    BY <2>1, <2>2
<1>7. rows' = {Version(lp, o) : o \in New}
  <2>1. rows' = ({Version(lp, o) : o \in Old} \cup {Version(lp, o) : o \in Made(x)}) \ {Version(lp, o) : o \in Took(x)}
    BY <1>2, <1>5
  <2>2. \A o, p : (o \in Old \/ o \in Made(x)) /\ p \in Took(x) /\ Version(lp, o) = Version(lp, p) => o = p
    <3>1. ASSUME NEW o \in Off, Normal(lp, o), NEW p \in Off, Normal(lp, p), Version(lp, o) = Version(lp, p)
          PROVE  o = p
      <4>1. lp[o].id = lp[p].id
        BY <3>1 DEF Version
      <4> QED
        BY <3>1, <4>1 DEF IInv, IdsUnique
    <3>2. \A o : o \in Old \/ o \in Made(x) => o \in Off /\ Normal(lp, o)
      BY DEF Current
    <3>3. \A p : p \in Took(x) => p \in Off /\ Normal(lp, p)
      OBVIOUS
    <3> QED
      BY <3>1, <3>2, <3>3
  <2> HIDE DEF New, Old, Made, Took
  <2> QED
    BY <1>6, <2>1, <2>2
<1>8. ASSUME NEW y \in Xid, C[y] = "running"
      PROVE  /\ made'[y] = {Version(lp, o) : o \in Made(y)}
             /\ gone'[y] = {Version(lp, o) : o \in Took(y)}
  <2>1. y # x /\ clog[y] = "running"
    BY <1>4, <1>8
  <2>2. made'[y] = made[y] /\ gone'[y] = gone[y]
    <3>1. made \in [Xid -> SUBSET RowVersion] /\ gone \in [Xid -> SUBSET RowVersion]
      BY DEF IInv, Types
    <3> QED
      BY <1>2, <2>1, <3>1
  <2> QED
    BY <1>5, <2>1, <2>2
<1>9. Running' = {y \in Xid : C[y] = "running"}
  BY <1>1 DEF Running
<1>10. rows' = {Version(lp', o) : o \in Current(lp', clog')}
  BY <1>1, <1>2, <1>7
<1>11. \A y \in Running' :
         /\ made'[y] = {Version(lp', o) : o \in {p \in Off : Normal(lp', p) /\ lp'[p].xmin = y}}
         /\ gone'[y] = {Version(lp', o) : o \in {p \in Off : Normal(lp', p) /\ lp'[p].xmax = y
                                                           /\ ~lp'[p].lockOnly}}
  BY <1>2, <1>8, <1>9
<1> QED
  BY ONLY <1>10, <1>11 DEF RowsInv

\* Commit keeps the invariant.
LEMMA CommitKeeps ==
  ASSUME IInv, NEW x \in Xid, Commit(x)
  PROVE  IInv'
<1>1. PICK C : C = clog'
  OBVIOUS
<1>2. clog[x] = "running" /\ moving[x] = None /\ todo[x] = NoTodo /\ C = [clog EXCEPT ![x] = "committed"]
      /\ made' = [made EXCEPT ![x] = {}] /\ gone' = [gone EXCEPT ![x] = {}] /\ rows' = (rows \cup made[x]) \ gone[x]
      /\ UNCHANGED <<lp, pruneXid, full, allVisible, index, nextXid, moving, todo, snap, vac, lastId>>
  BY <1>1 DEF Commit, Free, pageVars
<1>3. /\ \A r \in Reader : snap[r] # NoSnap => ~Sees(snap[r], x)
      /\ x # None
      /\ \A o \in Off : Normal(lp, o) => /\ lp[o].xmin \in Xid /\ lp[o].xmax \in {None} \cup Xid
                                         /\ lp[o].lockOnly \in BOOLEAN
      /\ clog \in [Xid -> {"none", "running", "committed", "aborted"}]
  BY <1>2, Endable
<1>4. C[x] = "committed" /\ \A y \in Xid : y # x => C[y] = clog[y]
  BY <1>2, <1>3
<1>5. ASSUME NEW o \in Off, Normal(lp, o)
      PROVE  /\ Removed(C, lp[o]) <=> Removed(clog, lp[o])
             /\ Hot(C, lp[o]) <=> Hot(clog, lp[o])
             /\ Gone(clog, snap, lp[o]) => Gone(C, snap, lp[o])
             /\ \A r \in Reader : snap[r] # NoSnap => (Shows(C, lp[o], snap[r]) <=> Shows(clog, lp[o], snap[r]))
  <2>1. lp[o].xmin \in Xid /\ lp[o].xmax \in {None} \cup Xid
    BY <1>3, <1>5
  <2>2. Removed(C, lp[o]) <=> Removed(clog, lp[o])
    BY <1>2, <1>4, <2>1 DEF Removed
  <2>3. Hot(C, lp[o]) <=> Hot(clog, lp[o])
    BY <1>2, <1>4, <2>1, <2>2 DEF Hot
  <2>4. Gone(clog, snap, lp[o]) => Gone(C, snap, lp[o])
    BY <1>2, <1>4, <2>1 DEF Gone
  <2>5. \A r \in Reader : snap[r] # NoSnap => (Shows(C, lp[o], snap[r]) <=> Shows(clog, lp[o], snap[r]))
    BY <1>2, <1>3, <1>4, <2>1 DEF Shows
  <2> QED
    BY <2>2, <2>3, <2>4, <2>5
<1>6. Edges(lp, C) = Edges(lp, clog)
  <2>1. \A a, b \in Off : Leads(lp, C, a, b) <=> Leads(lp, clog, a, b)
    BY <1>5 DEF Leads
  <2> QED
    BY <2>1 DEF Edges
<1>7. \A o : Chain(lp, C, o) = Chain(lp, clog, o)
  BY <1>6 DEF Chain
<1>8. Types'
  <2>1. C \in [Xid -> {"none", "running", "committed", "aborted"}]
    BY <1>2, <1>3
  <2>2. /\ Types
        /\ made' \in [Xid -> SUBSET RowVersion] /\ gone' \in [Xid -> SUBSET RowVersion] /\ rows' \subseteq RowVersion
    BY <1>2 DEF IInv, Types
  <2> QED
    BY <1>1, <1>2, <2>1, <2>2 DEF Types
<1>9. XactInv'
  <2>1. /\ \A y \in Xid : y # x => made'[y] = made[y] /\ gone'[y] = gone[y]
        /\ made'[x] = {} /\ gone'[x] = {}
    BY <1>2 DEF IInv, Types
  <2>2. \A y \in Xid : /\ clog[y] = "none" <=> y >= nextXid
                       /\ clog[y] # "running" => moving[y] = None /\ todo[y] = NoTodo /\ made[y] = {} /\ gone[y] = {}
    BY DEF IInv, XactInv
  <2> QED
    BY <1>1, <1>2, <1>4, <2>1, <2>2 DEF XactInv
<1>10. SnapInv'
  BY <1>1, <1>2, <1>4 DEF IInv, SnapInv
<1>11. TupleInv'
  <2>1. ASSUME NEW o \in Off, Normal(lp, o)
        PROVE  LET t == lp[o] IN
               /\ t.id <= lastId /\ C[t.xmin] # "none"
               /\ t.xmax # None => /\ C[t.xmax] # "none"
                                   /\ t.xmax = t.xmin \/ C[t.xmin] = "committed"
                                   /\ \A r \in Reader : snap[r] # NoSnap /\ ~t.lockOnly /\ Sees(snap[r], t.xmax)
                                        /\ C[t.xmax] = "committed" => Sees(snap[r], t.xmin)
               /\ t.hotUpdated => t.xmax # None /\ ~t.lockOnly
               /\ t.hotUpdated /\ C[t.xmax] = "running" => <<o, t.ctid>> \in Edges(lp, C)
    <3>1. LET t == lp[o] IN
          /\ t.id <= lastId /\ clog[t.xmin] # "none"
          /\ t.xmax # None => /\ clog[t.xmax] # "none"
                              /\ t.xmax = t.xmin \/ clog[t.xmin] = "committed"
                              /\ \A r \in Reader : snap[r] # NoSnap /\ ~t.lockOnly /\ Sees(snap[r], t.xmax)
                                   /\ clog[t.xmax] = "committed" => Sees(snap[r], t.xmin)
          /\ t.hotUpdated => t.xmax # None /\ ~t.lockOnly
          /\ t.hotUpdated /\ clog[t.xmax] = "running" => <<o, t.ctid>> \in Edges(lp, clog)
      BY <2>1 DEF IInv, TupleInv
    <3>2. lp[o].xmin \in Xid /\ lp[o].xmax \in {None} \cup Xid
      BY <1>3, <2>1
    <3> QED
      BY <1>2, <1>3, <1>4, <1>6, <3>1, <3>2
  <2> QED
    BY <1>1, <1>2, <2>1 DEF TupleInv
<1>12. IdsUnique'
  BY <1>2, Frame
<1>13. EdgeInv'
  BY <1>1, <1>2, <1>6 DEF IInv, EdgeInv, EdgesFine
<1>14. Anchored'
  <2>1. \A o \in Off : Normal(lp, o) => (C[lp[o].xmin] # "aborted" <=> clog[lp[o].xmin] # "aborted")
    BY <1>2, <1>3, <1>4
  <2> QED
    BY <1>1, <1>2, <1>6, <2>1 DEF IInv, Anchored
<1>15. RowsInv'
  BY CommitRows
<1>16. PendingInv'
  <2>1. \A y \in Xid : clog[y] = "committed" => C[y] = "committed"
    BY <1>4
  <2>2. \A y \in Xid :
          moving[y] # None =>
            LET o == moving[y] IN
            /\ Normal(lp, o) /\ lp[o].xmax = y /\ lp[o].lockOnly
            /\ lp[o].xmin = y \/ C[lp[o].xmin] = "committed"
    <3>1. ASSUME NEW y \in Xid, moving[y] # None
          PROVE  LET o == moving[y] IN
                 /\ Normal(lp, o) /\ lp[o].xmax = y /\ lp[o].lockOnly
                 /\ lp[o].xmin = y \/ C[lp[o].xmin] = "committed"
      <4>1. LET o == moving[y] IN
            /\ Normal(lp, o) /\ lp[o].xmax = y /\ lp[o].lockOnly
            /\ lp[o].xmin = y \/ clog[lp[o].xmin] = "committed"
        BY <3>1 DEF IInv, PendingInv
      <4>2. lp[moving[y]].xmin \in Xid
        BY <1>3, <4>1 DEF Normal
      <4> QED
        BY <2>1, <4>1, <4>2
    <3> QED
      BY <3>1
  <2> QED
    BY <1>1, <1>2, <2>2 DEF IInv, PendingInv
<1>17. IndexInv'
  <2>1. ASSUME NEW o \in Off, NEW m \in Off, m \in Chain(lp, C, o), ~Gone(C, snap, lp[m])
        PROVE  LET e == [key |-> lp[m].key, off |-> o] IN
               e \in index \/ (Normal(lp, o) /\ C[lp[o].xmin] = "running" /\ todo[lp[o].xmin] = e)
    <3>1. m \in Chain(lp, clog, o) /\ Normal(lp, m)
      BY <1>7, <2>1, ChainIs
    <3>2. ~Gone(clog, snap, lp[m])
      BY <1>5, <2>1, <3>1
    <3> DEFINE e == [key |-> lp[m].key, off |-> o]
    <3>3. e \in index \/ (Normal(lp, o) /\ clog[lp[o].xmin] = "running" /\ todo[lp[o].xmin] = e)
      BY <3>1, <3>2 DEF IInv, IndexInv
    <3>4. e # NoTodo
      <4>1. DOMAIN e = {"key", "off"}
        OBVIOUS
      <4>2. DOMAIN NoTodo = {"key"}
        BY DEF NoTodo
      <4> QED
        BY <4>1, <4>2
    <3> HIDE DEF e
    <3>5. Normal(lp, o) /\ clog[lp[o].xmin] = "running" /\ todo[lp[o].xmin] = e => C[lp[o].xmin] = "running"
      BY <1>2, <1>3, <1>4, <3>4
    <3> QED
      BY <3>3, <3>5 DEF e
  <2>2. \A e \in index : /\ Root(lp, e.off) \/ lp[e.off] = Dead
                         /\ \A m \in Chain(lp, C, e.off) : lp[m].key = e.key
    BY <1>7 DEF IInv, IndexInv
  <2> QED
    BY <1>1, <1>2, <2>1, <2>2 DEF IndexInv
<1>18. SeenInv'
  <2>1. ASSUME NEW r \in Reader, snap[r] # NoSnap
        PROVE  /\ snap[r].seen = {Version(lp, o) : o \in {p \in Off : Normal(lp, p) /\ Shows(C, lp[p], snap[r])}}
               /\ \A o \in Off :
                    LET hits == {m \in Chain(lp, C, o) : Shows(C, lp[m], snap[r])} IN
                    /\ \A m \in hits : lp[m].id = snap[r].leads[o]
                    /\ snap[r].leads[o] # None => hits # {}
    <3>1. {p \in Off : Normal(lp, p) /\ Shows(C, lp[p], snap[r])}
            = {p \in Off : Normal(lp, p) /\ Shows(clog, lp[p], snap[r])}
      BY <1>5, <2>1
    <3>2. ASSUME NEW o \in Off
          PROVE  {m \in Chain(lp, C, o) : Shows(C, lp[m], snap[r])}
                   = {m \in Chain(lp, clog, o) : Shows(clog, lp[m], snap[r])}
      <4>1. \A m \in Chain(lp, clog, o) : m \in Off /\ Normal(lp, m)
        BY ChainIs
      <4> QED
        BY <1>5, <1>7, <2>1, <4>1
    <3> QED
      BY <2>1, <3>1, <3>2 DEF IInv, SeenInv
  <2>2. clog' = C /\ lp' = lp /\ snap' = snap
    BY <1>1, <1>2
  <2> QED
    BY ONLY <2>1, <2>2 DEF SeenInv
<1>19. VacInv'
  <2>1. \A y \in Xid : clog'[y] = "running" => clog[y] = "running"
    BY <1>1, <1>4
  <2> QED
    BY <1>2, <2>1, HorizonStays
<1>20. AllVisibleInv'
  <2>1. \A o \in Off : Normal(lp, o) => (clog[lp[o].xmin] = "committed" => C[lp[o].xmin] = "committed")
    BY <1>3, <1>4
  <2> QED
    BY <1>1, <1>2, <1>5, <2>1 DEF IInv, AllVisibleInv
<1> QED
  BY <1>8, <1>9, <1>10, <1>11, <1>12, <1>13, <1>14, <1>15, <1>16, <1>17, <1>18, <1>19, <1>20 DEF IInv

-----------------------------------------------------------------------------
(* Abort.                                                                    *)

\* Chains lose the versions of the transaction, and what comes after them.
LEMMA AbortChains ==
  ASSUME IInv, NEW x \in Xid, Abort(x), NEW C, C = clog'
  PROVE  /\ C \in [Xid -> {"none", "running", "committed", "aborted"}]
         /\ C[x] = "aborted" /\ \A y \in Xid : y # x => C[y] = clog[y]
         /\ Edges(lp, C) \subseteq Edges(lp, clog)
         /\ \A a, b \in Off : <<a, b>> \in Edges(lp, clog) /\ lp[b].xmin # x => <<a, b>> \in Edges(lp, C)
         /\ EdgesFine(lp, C) /\ AnchoredOn(lp, C)
         /\ \A o \in Off : Chain(lp, C, o) \subseteq Chain(lp, clog, o)
         /\ \A o \in Off : \A m \in Chain(lp, clog, o) : C[lp[m].xmin] # "aborted" => m \in Chain(lp, C, o)
         /\ \A o \in Off : Normal(lp, o) /\ lp[o].xmin = x => Chain(lp, C, o) \subseteq {o}
<1>1. clog[x] = "running" /\ C = [clog EXCEPT ![x] = "aborted"]
  BY DEF Abort
<1>2. /\ x # None
      /\ \A o \in Off : Normal(lp, o) => /\ lp[o].xmin \in Xid /\ lp[o].xmax \in {None} \cup Xid
                                         /\ lp[o].lockOnly \in BOOLEAN
      /\ clog \in [Xid -> {"none", "running", "committed", "aborted"}]
  BY <1>1, Endable
<1>3. C \in [Xid -> {"none", "running", "committed", "aborted"}]
      /\ C[x] = "aborted" /\ \A y \in Xid : y # x => C[y] = clog[y]
  BY <1>1, <1>2
<1> DEFINE R == Edges(lp, clog)
           Q == Edges(lp, C)
<1>4. R \subseteq Off \X Off /\ Q \subseteq Off \X Off
  BY EdgesAre
<1>5. \A o \in Off : Normal(lp, o) => (Hot(C, lp[o]) <=> Hot(clog, lp[o]) /\ lp[o].xmin # x /\ lp[o].xmax # x)
  BY <1>1, <1>2, <1>3 DEF Hot, Removed
<1>6. Q \subseteq R
  <2>1. \A a, b \in Off : Leads(lp, C, a, b) => Leads(lp, clog, a, b)
    BY <1>5 DEF Leads
  <2> QED
    BY <2>1 DEF Edges
<1>7. ASSUME NEW a \in Off, NEW b \in Off, <<a, b>> \in R, lp[b].xmin # x
      PROVE  <<a, b>> \in Q
  <2>1. Leads(lp, clog, a, b)
    BY <1>7, EdgesAre
  <2>2. ASSUME Normal(lp, a), Normal(lp, b), Hot(clog, lp[a]), lp[a].ctid = b, lp[a].xmax = lp[b].xmin
        PROVE  Leads(lp, C, a, b)
    <3>1. lp[a].xmax # x /\ lp[a].xmax # None
      BY <1>7, <2>2 DEF Hot, Removed
    <3>2. lp[a].xmax = lp[a].xmin \/ clog[lp[a].xmin] = "committed"
      BY <2>2, <3>1 DEF IInv, TupleInv
    <3>3. lp[a].xmin # x
      BY <1>1, <3>1, <3>2
    <3>4. Hot(C, lp[a])
      BY <1>5, <2>2, <3>1, <3>3
    <3> QED
      BY <2>2, <3>4 DEF Leads
  <2>3. Leads(lp, C, a, b)
    BY <2>1, <2>2 DEF Leads
  <2> QED
    BY <2>3, EdgesAre
<1>8. EdgesFine(lp, clog)
  BY DEF IInv, EdgeInv
<1>9. EdgesFine(lp, C)
  BY <1>6, <1>8 DEF EdgesFine
<1>10. AnchoredOn(lp, C)
  <2>1. ASSUME NEW o \in Off, Normal(lp, o), lp[o].heapOnly, C[lp[o].xmin] # "aborted"
        PROVE  \E a \in Off : <<a, o>> \in Q
    <3>1. clog[lp[o].xmin] # "aborted" /\ lp[o].xmin # x
      BY <1>2, <1>3, <2>1
    <3>2. PICK a \in Off : <<a, o>> \in R
      BY <2>1, <3>1 DEF IInv, Anchored
    <3> QED
      BY <1>7, <3>1, <3>2
  <2> QED
    BY <2>1 DEF AnchoredOn
<1>11. ASSUME NEW o \in Off
       PROVE  Chain(lp, C, o) \subseteq Chain(lp, clog, o)
  <2>1. From(Q, o) \subseteq From(R, o)
    <3>1. \A b, c \in Off : <<b, c>> \in Q /\ b \in From(R, o) => c \in From(R, o)
      BY <1>6, FromSteps
    <3>2. o \in From(R, o)
      BY FromStarts
    <3> HIDE DEF R, Q
    <3> QED
      BY <1>4, <3>1, <3>2, FromInduct
  <2> QED
    BY <2>1 DEF Chain
<1>12. ASSUME NEW o \in Off, NEW m \in Chain(lp, clog, o), C[lp[m].xmin] # "aborted"
       PROVE  m \in Chain(lp, C, o)
  <2>1. m \in Off /\ Normal(lp, m)
    BY ChainIs
  <2>2. lp \in [Off -> Item]
    BY DEF IInv, Types
  <2>3. \E c \in Off : m \in Chain(lp, C, c)
    BY <1>9, <1>10, <1>12, <2>1, <2>2, HasRoot DEF AnchoredOn
  <2>4. PICK c \in Off : m \in Chain(lp, C, c)
    BY <2>3
  <2>5. m \in Chain(lp, clog, c)
    BY <1>11, <2>4
  <2>6. c = o
    BY <1>8, <2>5, ChainsApart
  <2> QED
    BY <2>4, <2>6
<1>13. ASSUME NEW o \in Off, Normal(lp, o), lp[o].xmin = x
       PROVE  Chain(lp, C, o) \subseteq {o}
  <2>1. \A b, c \in Off : <<b, c>> \in Q /\ b \in {o} => c \in {o}
    <3>1. ASSUME NEW c \in Off, <<o, c>> \in Q
          PROVE  FALSE
      <4>1. Leads(lp, C, o, c)
        BY <3>1, EdgesAre
      <4> QED
        BY <1>5, <1>13, <4>1 DEF Leads, Normal
    <3> QED
      BY <3>1
  <2> HIDE DEF Q
  <2>2. From(Q, o) \subseteq {o}
    BY <1>4, <2>1, FromInduct
  <2> QED
    BY <2>2, ChainIs DEF Q
<1> QED
  BY <1>3, <1>6, <1>7, <1>9, <1>10, <1>11, <1>12, <1>13

\* Abort keeps the invariant.
LEMMA AbortKeeps ==
  ASSUME IInv, NEW x \in Xid, Abort(x)
  PROVE  IInv'
<1>1. PICK C : C = clog'
  OBVIOUS
<1>2. clog[x] = "running" /\ C = [clog EXCEPT ![x] = "aborted"]
      /\ moving' = [moving EXCEPT ![x] = None] /\ todo' = [todo EXCEPT ![x] = NoTodo]
      /\ made' = [made EXCEPT ![x] = {}] /\ gone' = [gone EXCEPT ![x] = {}]
      /\ UNCHANGED <<lp, pruneXid, full, allVisible, index, nextXid, snap, vac, lastId, rows>>
  BY <1>1 DEF Abort, pageVars
<1>3. /\ x # None
      /\ \A o \in Off : Normal(lp, o) => /\ lp[o].xmin \in Xid /\ lp[o].xmax \in {None} \cup Xid
                                         /\ lp[o].lockOnly \in BOOLEAN
  BY <1>2, Endable
<1>4. /\ C \in [Xid -> {"none", "running", "committed", "aborted"}]
      /\ C[x] = "aborted" /\ \A y \in Xid : y # x => C[y] = clog[y]
      /\ Edges(lp, C) \subseteq Edges(lp, clog)
      /\ \A a, b \in Off : <<a, b>> \in Edges(lp, clog) /\ lp[b].xmin # x => <<a, b>> \in Edges(lp, C)
      /\ EdgesFine(lp, C) /\ AnchoredOn(lp, C)
      /\ \A o \in Off : Chain(lp, C, o) \subseteq Chain(lp, clog, o)
      /\ \A o \in Off : \A m \in Chain(lp, clog, o) : C[lp[m].xmin] # "aborted" => m \in Chain(lp, C, o)
      /\ \A o \in Off : Normal(lp, o) /\ lp[o].xmin = x => Chain(lp, C, o) \subseteq {o}
  BY <1>1, AbortChains
<1>5. ASSUME NEW o \in Off, Normal(lp, o)
      PROVE  /\ Removed(C, lp[o]) => Removed(clog, lp[o])
             /\ Gone(clog, snap, lp[o]) => Gone(C, snap, lp[o])
             /\ \A s : Shows(C, lp[o], s) <=> Shows(clog, lp[o], s)
             /\ o \in Current(lp, C) <=> o \in Current(lp, clog)
  <2>1. lp[o].xmin \in Xid /\ lp[o].xmax \in {None} \cup Xid
    BY <1>3, <1>5
  <2>2. \A y \in Xid : (C[y] = "committed" <=> clog[y] = "committed") /\ (clog[y] = "aborted" => C[y] = "aborted")
    BY <1>2, <1>4
  <2>3. Removed(C, lp[o]) => Removed(clog, lp[o])
    BY <2>1, <2>2 DEF Removed
  <2>4. Gone(clog, snap, lp[o]) => Gone(C, snap, lp[o])
    BY <2>1, <2>2 DEF Gone
  <2>5. \A s : Shows(C, lp[o], s) <=> Shows(clog, lp[o], s)
    BY <2>1, <2>2 DEF Shows
  <2>6. o \in Current(lp, C) <=> o \in Current(lp, clog)
    BY <2>1, <2>2 DEF Current
  <2> QED
    BY <2>3, <2>4, <2>5, <2>6
<1>6. /\ \A y \in Xid : y # x => /\ made'[y] = made[y] /\ gone'[y] = gone[y]
                                 /\ moving'[y] = moving[y] /\ todo'[y] = todo[y]
      /\ made'[x] = {} /\ gone'[x] = {} /\ moving'[x] = None /\ todo'[x] = NoTodo
      /\ made' \in [Xid -> SUBSET RowVersion] /\ gone' \in [Xid -> SUBSET RowVersion]
      /\ moving' \in [Xid -> {None} \cup Off] /\ todo' \in [Xid -> Entry \cup {NoTodo}]
  BY <1>2 DEF IInv, Types
<1>7. Types'
  <2>1. Types
    BY DEF IInv
  <2> QED
    BY <1>1, <1>2, <1>4, <1>6, <2>1 DEF Types
<1>8. XactInv'
  <2>1. \A y \in Xid : /\ clog[y] = "none" <=> y >= nextXid
                       /\ clog[y] # "running" => moving[y] = None /\ todo[y] = NoTodo /\ made[y] = {} /\ gone[y] = {}
    BY DEF IInv, XactInv
  <2> QED
    BY <1>1, <1>2, <1>4, <1>6, <2>1 DEF XactInv
<1>9. SnapInv'
  BY <1>1, <1>2, <1>4 DEF IInv, SnapInv
<1>10. TupleInv'
  <2>1. ASSUME NEW o \in Off, Normal(lp, o)
        PROVE  LET t == lp[o] IN
               /\ t.id <= lastId /\ C[t.xmin] # "none"
               /\ t.xmax # None => /\ C[t.xmax] # "none"
                                   /\ t.xmax = t.xmin \/ C[t.xmin] = "committed"
                                   /\ \A r \in Reader : snap[r] # NoSnap /\ ~t.lockOnly /\ Sees(snap[r], t.xmax)
                                        /\ C[t.xmax] = "committed" => Sees(snap[r], t.xmin)
               /\ t.hotUpdated => t.xmax # None /\ ~t.lockOnly
               /\ t.hotUpdated /\ C[t.xmax] = "running" => <<o, t.ctid>> \in Edges(lp, C)
    <3>1. LET t == lp[o] IN
          /\ t.id <= lastId /\ clog[t.xmin] # "none"
          /\ t.xmax # None => /\ clog[t.xmax] # "none"
                              /\ t.xmax = t.xmin \/ clog[t.xmin] = "committed"
                              /\ \A r \in Reader : snap[r] # NoSnap /\ ~t.lockOnly /\ Sees(snap[r], t.xmax)
                                   /\ clog[t.xmax] = "committed" => Sees(snap[r], t.xmin)
          /\ t.hotUpdated => t.xmax # None /\ ~t.lockOnly
          /\ t.hotUpdated /\ clog[t.xmax] = "running" => <<o, t.ctid>> \in Edges(lp, clog)
      BY <2>1 DEF IInv, TupleInv
    <3>2. lp[o].xmin \in Xid /\ lp[o].xmax \in {None} \cup Xid
      BY <1>3, <2>1
    <3>3. ASSUME lp[o].hotUpdated, C[lp[o].xmax] = "running"
          PROVE  <<o, lp[o].ctid>> \in Edges(lp, C)
      <4>1. lp[o].xmax \in Xid /\ lp[o].xmax # x /\ clog[lp[o].xmax] = "running"
        BY <1>4, <3>1, <3>2, <3>3
      <4>2. PICK b : b = lp[o].ctid
        OBVIOUS
      <4>3. <<o, b>> \in Edges(lp, clog)
        BY <3>1, <3>3, <4>1, <4>2
      <4>4. b \in Off /\ Leads(lp, clog, o, b)
        BY <4>3, EdgesAre
      <4>5. lp[b].xmin = lp[o].xmax
        BY <2>1, <4>4 DEF Leads, Normal
      <4> QED
        BY <1>4, <4>1, <4>2, <4>3, <4>4, <4>5
    <3>4. \A y \in Xid : (C[y] = "committed" <=> clog[y] = "committed") /\ (C[y] = "none" <=> clog[y] = "none")
      BY <1>2, <1>4
    <3> QED
      BY <3>1, <3>2, <3>3, <3>4
  <2> QED
    BY <1>1, <1>2, <2>1 DEF TupleInv
<1>11. IdsUnique'
  BY <1>2, Frame
<1>12. EdgeInv' /\ Anchored'
  BY <1>1, <1>2, <1>4 DEF EdgeInv, Anchored, AnchoredOn
<1>13. RowsInv'
  <2>1. Current(lp, C) = Current(lp, clog)
    <3>1. \A o : o \in Current(lp, C) \/ o \in Current(lp, clog) => o \in Off /\ Normal(lp, o)
      BY DEF Current
    <3> QED
      BY <1>5, <3>1
  <2>2. rows = {Version(lp, o) : o \in Current(lp, C)}
    BY <2>1 DEF IInv, RowsInv
  <2>3. \A y \in Xid : C[y] = "running" => y # x /\ clog[y] = "running"
    BY <1>4
  <2>4. \A y \in Xid : C[y] = "running" =>
          /\ made'[y] = {Version(lp, o) : o \in {p \in Off : Normal(lp, p) /\ lp[p].xmin = y}}
          /\ gone'[y] = {Version(lp, o) : o \in {p \in Off : Normal(lp, p) /\ lp[p].xmax = y
                                                           /\ ~lp[p].lockOnly}}
    BY <1>6, <2>3 DEF IInv, RowsInv, Running
  <2>5. clog' = C /\ lp' = lp /\ rows' = rows
    BY <1>1, <1>2
  <2> QED
    BY ONLY <2>2, <2>4, <2>5 DEF RowsInv, Running
<1>14. PendingInv'
  <2>1. \A y \in Xid :
          /\ moving'[y] # None => todo'[y] = NoTodo
          /\ moving'[y] # None =>
               LET o == moving'[y] IN
               /\ Normal(lp, o) /\ lp[o].xmax = y /\ lp[o].lockOnly
               /\ lp[o].xmin = y \/ C[lp[o].xmin] = "committed"
          /\ todo'[y] # NoTodo =>
               LET o == todo'[y].off IN
               Normal(lp, o) /\ lp[o].xmin = y /\ ~lp[o].heapOnly /\ lp[o].key = todo'[y].key
    <3>1. ASSUME NEW y \in Xid, y # x
          PROVE  /\ moving[y] # None => todo[y] = NoTodo
                 /\ moving[y] # None =>
                      LET o == moving[y] IN
                      /\ Normal(lp, o) /\ lp[o].xmax = y /\ lp[o].lockOnly
                      /\ lp[o].xmin = y \/ C[lp[o].xmin] = "committed"
                 /\ todo[y] # NoTodo =>
                      LET o == todo[y].off IN
                      Normal(lp, o) /\ lp[o].xmin = y /\ ~lp[o].heapOnly /\ lp[o].key = todo[y].key
      <4>1. moving[y] # None =>
              LET o == moving[y] IN
              /\ Normal(lp, o) /\ lp[o].xmax = y /\ lp[o].lockOnly
              /\ lp[o].xmin = y \/ clog[lp[o].xmin] = "committed"
        BY DEF IInv, PendingInv
      <4>2. moving[y] # None => lp[moving[y]].xmin \in Xid
        BY <1>3, <4>1 DEF Normal
      <4>3. \A z \in Xid : clog[z] = "committed" => C[z] = "committed"
        BY <1>2, <1>4
      <4>4. /\ moving[y] # None => todo[y] = NoTodo
            /\ todo[y] # NoTodo =>
                 LET o == todo[y].off IN
                 Normal(lp, o) /\ lp[o].xmin = y /\ ~lp[o].heapOnly /\ lp[o].key = todo[y].key
        BY DEF IInv, PendingInv
      <4> QED
        BY <4>1, <4>2, <4>3, <4>4
    <3> QED
      BY <1>6, <3>1
  <2>2. clog' = C /\ lp' = lp
    BY <1>1, <1>2
  <2> QED
    BY ONLY <2>1, <2>2 DEF PendingInv
<1>15. IndexInv'
  <2>1. ASSUME NEW o \in Off, NEW m \in Off, m \in Chain(lp, C, o), ~Gone(C, snap, lp[m])
        PROVE  LET e == [key |-> lp[m].key, off |-> o] IN
               e \in index \/ (Normal(lp, o) /\ C[lp[o].xmin] = "running" /\ todo'[lp[o].xmin] = e)
    <3>1. m \in Chain(lp, clog, o) /\ Normal(lp, m)
      BY <1>4, <2>1, ChainIs
    <3>2. ~Gone(clog, snap, lp[m])
      BY <1>5, <2>1, <3>1
    <3> DEFINE e == [key |-> lp[m].key, off |-> o]
    <3>3. e \in index \/ (Normal(lp, o) /\ clog[lp[o].xmin] = "running" /\ todo[lp[o].xmin] = e)
      BY <3>1, <3>2 DEF IInv, IndexInv
    <3> HIDE DEF e
    <3>4. Normal(lp, o) => lp[o].xmin # x
      <4>1. ASSUME Normal(lp, o), lp[o].xmin = x
            PROVE  FALSE
        <5>1. m = o
          BY <1>4, <2>1, <4>1
        <5> QED
          BY <1>4, <2>1, <4>1, <5>1 DEF Gone
      <4> QED
        BY <4>1
    <3> QED
      BY <1>3, <1>4, <1>6, <3>3, <3>4 DEF e
  <2>2. \A e \in index : /\ Root(lp, e.off) \/ lp[e.off] = Dead
                         /\ \A m \in Chain(lp, C, e.off) : lp[m].key = e.key
    <3>1. \A e \in index : e.off \in Off
      BY DEF IInv, Types, Entry
    <3> QED
      BY <1>4, <3>1 DEF IInv, IndexInv
  <2>3. clog' = C /\ lp' = lp /\ snap' = snap /\ index' = index
    BY <1>1, <1>2
  <2> QED
    BY ONLY <2>1, <2>2, <2>3 DEF IndexInv
<1>16. SeenInv'
  <2>1. ASSUME NEW r \in Reader, snap[r] # NoSnap
        PROVE  /\ snap[r].seen = {Version(lp, o) : o \in {p \in Off : Normal(lp, p) /\ Shows(C, lp[p], snap[r])}}
               /\ \A o \in Off :
                    LET hits == {m \in Chain(lp, C, o) : Shows(C, lp[m], snap[r])} IN
                    /\ \A m \in hits : lp[m].id = snap[r].leads[o]
                    /\ snap[r].leads[o] # None => hits # {}
    <3>1. {p \in Off : Normal(lp, p) /\ Shows(C, lp[p], snap[r])}
            = {p \in Off : Normal(lp, p) /\ Shows(clog, lp[p], snap[r])}
      BY <1>5, <2>1
    <3>2. ASSUME NEW o \in Off
          PROVE  {m \in Chain(lp, C, o) : Shows(C, lp[m], snap[r])}
                   = {m \in Chain(lp, clog, o) : Shows(clog, lp[m], snap[r])}
      <4>1. \A m \in Chain(lp, clog, o) : m \in Off /\ Normal(lp, m)
        BY ChainIs
      <4>2. \A m \in Chain(lp, clog, o) : Shows(C, lp[m], snap[r]) => m \in Chain(lp, C, o)
        BY <1>4 DEF Shows
      <4> QED
        BY <1>4, <1>5, <2>1, <4>1, <4>2
    <3> QED
      BY <2>1, <3>1, <3>2 DEF IInv, SeenInv
  <2>2. clog' = C /\ lp' = lp /\ snap' = snap
    BY <1>1, <1>2
  <2> QED
    BY ONLY <2>1, <2>2 DEF SeenInv
<1>17. VacInv'
  <2>1. \A y \in Xid : clog'[y] = "running" => clog[y] = "running"
    BY <1>1, <1>4
  <2> QED
    BY <1>2, <2>1, HorizonStays
<1>18. AllVisibleInv'
  <2>1. \A o \in Off : Normal(lp, o) => (clog[lp[o].xmin] = "committed" => C[lp[o].xmin] = "committed")
    BY <1>2, <1>3, <1>4
  <2> QED
    BY <1>1, <1>2, <1>5, <2>1 DEF IInv, AllVisibleInv
<1> QED
  BY <1>7, <1>8, <1>9, <1>10, <1>11, <1>12, <1>13, <1>14, <1>15, <1>16, <1>17, <1>18 DEF IInv

-----------------------------------------------------------------------------
(* Snapshots.                                                                *)

\* A chain has one committed version at most that is not removed.
LEMMA OneCurrent ==
  ASSUME IInv, NEW o \in Off, NEW m \in Chain(lp, clog, o), NEW n \in Chain(lp, clog, o),
         m \in Current(lp, clog), n \in Current(lp, clog)
  PROVE  m = n
<1> DEFINE R == Edges(lp, clog)
<1>0. R \subseteq Off \X Off
  BY EdgesAre
<1>1. ASSUME NEW a \in Current(lp, clog), NEW b \in Current(lp, clog), b \in From(R, a)
      PROVE  a = b
  <2> DEFINE S == {a} \cup {q \in Off : Normal(lp, q) /\ clog[lp[q].xmin] = "running"}
  <2>1. a \in Off /\ Normal(lp, a) /\ b \in Off
    BY DEF Current
  <2>2. ASSUME NEW p \in Off, NEW q \in Off, <<p, q>> \in R, p \in S
        PROVE  q \in S
    <3>1. Normal(lp, p) /\ Leads(lp, clog, p, q)
      BY <2>1, <2>2, EdgesAre
    <3>2. /\ Normal(lp, q) /\ lp[p].xmax = lp[q].xmin
          /\ lp[p].xmax # None /\ ~lp[p].lockOnly /\ clog[lp[p].xmax] # "aborted"
      BY <3>1 DEF Leads, Normal, Hot, Removed
    <3>3. clog[lp[p].xmax] # "none" /\ (lp[p].xmax = lp[p].xmin \/ clog[lp[p].xmin] = "committed")
      BY <3>1, <3>2 DEF IInv, TupleInv
    <3>4. clog[lp[q].xmin] = "running"
      <4>1. CASE p = a
        <5>1. clog[lp[p].xmax] # "committed"
          BY <3>2, <4>1 DEF Current
        <5>2. lp[q].xmin \in Xid
          BY <3>2, NormalTuple, TupleFields DEF IInv, Types
        <5>3. clog[lp[q].xmin] \in {"none", "running", "committed", "aborted"}
          BY <5>2 DEF IInv, Types
        <5> QED
          BY <3>2, <3>3, <5>1, <5>3
      <4>2. CASE clog[lp[p].xmin] = "running"
        BY <3>2, <3>3, <4>2
      <4> QED
        BY <2>2, <4>1, <4>2
    <3> QED
      BY <3>2, <3>4
  <2>3. a \in S
    OBVIOUS
  <2> HIDE DEF S, R
  <2>4. b \in S
    BY <1>0, <1>1, <2>1, <2>2, <2>3, FromInduct
  <2>5. clog[lp[b].xmin] = "committed"
    BY DEF Current
  <2> QED
    BY <2>4, <2>5 DEF S
<1>2. m \in From(R, o) /\ n \in From(R, o)
  BY ChainIs
<1>3. \A b, c, d \in Off : <<b, c>> \in R /\ <<b, d>> \in R => c = d
  BY OneWay
<1> HIDE DEF R
<1>4. m \in From(R, n) \/ n \in From(R, m)
  BY <1>0, <1>2, <1>3, FromLine
<1> QED
  BY <1>1, <1>4

\* A new snapshot sees the committed rows, and keeps the invariant.
LEMMA GetSnapshotKeeps ==
  ASSUME IInv, NEW r \in Reader, GetSnapshot(r)
  PROVE  IInv'
<1>1. PICK s : s = [xmax |-> nextXid, xip |-> Running]
  OBVIOUS
<1>2. PICK z : z = [xmax |-> nextXid, xip |-> Running, seen |-> rows, leads |-> [o \in Off |-> HotSearch(o, s)]]
  OBVIOUS
<1>3. /\ snap[r] = NoSnap /\ snap' = [snap EXCEPT ![r] = z]
      /\ UNCHANGED <<lp, pruneXid, full, allVisible, index, clog, nextXid, moving, todo, vac, lastId, rows, made, gone>>
  BY <1>1, <1>2 DEF GetSnapshot, pageVars, xactVars, history
<1>4. s.xmax = nextXid /\ s.xip = Running /\ z.xmax = nextXid /\ z.xip = Running /\ z.seen = rows
      /\ \A o \in Off : z.leads[o] = HotSearch(o, s)
  BY <1>1, <1>2
<1>5. Types /\ EdgeInv
  BY DEF IInv
<1>6. \A o \in Off : Normal(lp, o) => /\ lp[o] \in Tuple /\ lp[o].xmin \in Xid /\ lp[o].xmax \in {None} \cup Xid
  BY <1>5, NormalTuple, TupleFields DEF Types
<1>7. \A x \in Xid : /\ x < nextXid <=> clog[x] # "none"
                     /\ clog[x] \in {"none", "running", "committed", "aborted"}
                     /\ Sees(z, x) <=> clog[x] \in {"committed", "aborted"}
  <2>1. ASSUME NEW x \in Xid
        PROVE  /\ x < nextXid <=> clog[x] # "none"
               /\ clog[x] \in {"none", "running", "committed", "aborted"}
               /\ Sees(z, x) <=> clog[x] \in {"committed", "aborted"}
    <3>1. x \in Int /\ nextXid \in Int
      BY <1>5, Constants DEF Xid, Types
    <3>2. clog[x] = "none" <=> x >= nextXid
      BY DEF IInv, XactInv
    <3>3. clog[x] \in {"none", "running", "committed", "aborted"}
      BY <1>5 DEF Types
    <3>4. x \in Running <=> clog[x] = "running"
      BY DEF Running
    <3> QED
      BY <1>4, <3>1, <3>2, <3>3, <3>4 DEF Sees
  <2> QED
    BY <2>1
<1>8. \A t \in Tuple : Shows(clog, t, z) <=> Visible(t, s)
  BY <1>4, ShownIsVisible DEF Shows, Sees
<1>9. \A o \in Off : Normal(lp, o) => (Shows(clog, lp[o], z) <=> o \in Current(lp, clog))
  BY <1>6, <1>7 DEF Shows, Current
<1>10. z \in Snapshot
  <2>1. \A o \in Off : HotSearch(o, s) \in Nat
    <3>1. ASSUME NEW o \in Off
          PROVE  HotSearch(o, s) \in Nat
      <4>1. HotSearch(o, s) = None \/ \E m \in Chain(lp, clog, o) : HotSearch(o, s) = lp[m].id
        BY <1>5, HotSearchFinds
      <4>2. \A m \in Chain(lp, clog, o) : lp[m] \in Tuple
        BY <1>6, ChainIs
      <4>3. \A m \in Chain(lp, clog, o) : lp[m].id \in Nat
        BY <4>2, TupleFields
      <4> QED
        BY <4>1, <4>3 DEF None
    <3> QED
      BY <3>1
  <2>2. rows \in SUBSET RowVersion /\ nextXid \in 1..(MaxXid + 1) /\ Running \in SUBSET Xid
    BY <1>5, Constants DEF Types, Running
  <2>3. [o \in Off |-> HotSearch(o, s)] \in [Off -> Nat]
    BY <2>1
  <2> QED
    BY <1>2, <2>2, <2>3 DEF Snapshot
<1>11. z # NoSnap
  <2>1. z.xmax # 0
    BY <1>4, <1>5 DEF Types
  <2>2. NoSnap.xmax = 0
    BY DEF NoSnap
  <2> QED
    BY <2>1, <2>2
<1>12. snap' \in [Reader -> Snapshot \cup {NoSnap}] /\ snap'[r] = z /\ \A q \in Reader : q # r => snap'[q] = snap[q]
  BY <1>3, <1>5, <1>10 DEF Types
<1>13. Types'
  BY <1>3, <1>5, <1>12 DEF Types
<1>14. XactInv' /\ IdsUnique' /\ EdgeInv' /\ Anchored' /\ RowsInv' /\ PendingInv'
  BY <1>3, Frame
<1>15. SnapInv'
  <2>1. ASSUME NEW q \in Reader, snap'[q] # NoSnap
        PROVE  /\ snap'[q].xmax <= nextXid
               /\ \A x \in Xid : Sees(snap'[q], x) => clog[x] \in {"committed", "aborted"}
    <3>1. CASE q = r
      <4>1. nextXid \in Int
        BY <1>5, Constants DEF Types
      <4> QED
        BY <1>4, <1>7, <1>12, <3>1, <4>1
    <3>2. CASE q # r
      BY <1>12, <2>1, <3>2 DEF IInv, SnapInv
    <3> QED
      BY <3>1, <3>2
  <2> QED
    BY <1>3, <2>1 DEF SnapInv
<1>16. TupleInv'
  <2>1. ASSUME NEW o \in Off, Normal(lp, o)
        PROVE  LET t == lp[o] IN
               /\ t.id <= lastId /\ clog[t.xmin] # "none"
               /\ t.xmax # None => /\ clog[t.xmax] # "none"
                                   /\ t.xmax = t.xmin \/ clog[t.xmin] = "committed"
                                   /\ \A q \in Reader : snap'[q] # NoSnap /\ ~t.lockOnly /\ Sees(snap'[q], t.xmax)
                                        /\ clog[t.xmax] = "committed" => Sees(snap'[q], t.xmin)
               /\ t.hotUpdated => t.xmax # None /\ ~t.lockOnly
               /\ t.hotUpdated /\ clog[t.xmax] = "running" => <<o, t.ctid>> \in Edges(lp, clog)
    <3>1. LET t == lp[o] IN
          /\ t.id <= lastId /\ clog[t.xmin] # "none"
          /\ t.xmax # None => /\ clog[t.xmax] # "none"
                              /\ t.xmax = t.xmin \/ clog[t.xmin] = "committed"
                              /\ \A q \in Reader : snap[q] # NoSnap /\ ~t.lockOnly /\ Sees(snap[q], t.xmax)
                                   /\ clog[t.xmax] = "committed" => Sees(snap[q], t.xmin)
          /\ t.hotUpdated => t.xmax # None /\ ~t.lockOnly
          /\ t.hotUpdated /\ clog[t.xmax] = "running" => <<o, t.ctid>> \in Edges(lp, clog)
      BY <2>1 DEF IInv, TupleInv
    <3>2. lp[o].xmax # None /\ clog[lp[o].xmax] = "committed" => Sees(z, lp[o].xmin)
      BY <1>6, <1>7, <2>1, <3>1
    <3> QED
      BY <1>12, <3>1, <3>2
  <2> QED
    BY <1>3, <2>1 DEF TupleInv
<1>17. \A o \in Off : Normal(lp, o) => (Gone(clog, snap', lp[o]) <=> Gone(clog, snap, lp[o]))
  <2>1. ASSUME NEW o \in Off, Normal(lp, o)
        PROVE  Gone(clog, snap', lp[o]) <=> Gone(clog, snap, lp[o])
    <3>1. lp[o].xmax # None /\ clog[lp[o].xmax] = "committed" => Sees(z, lp[o].xmax)
      BY <1>6, <1>7, <2>1
    <3> QED
      BY <1>3, <1>11, <1>12, <3>1 DEF Gone
  <2> QED
    BY <2>1
<1>18. IndexInv'
  <2>1. \A o \in Off : \A m \in Chain(lp, clog, o) : Normal(lp, m)
    BY ChainIs
  <2>2. \A o, m \in Off : m \in Chain(lp, clog, o) /\ ~Gone(clog, snap', lp[m]) =>
          LET e == [key |-> lp[m].key, off |-> o] IN
          e \in index \/ (Normal(lp, o) /\ clog[lp[o].xmin] = "running" /\ todo[lp[o].xmin] = e)
    BY <1>17, <2>1 DEF IInv, IndexInv
  <2>3. \A e \in index : /\ Root(lp, e.off) \/ lp[e.off] = Dead
                         /\ \A m \in Chain(lp, clog, e.off) : lp[m].key = e.key
    BY DEF IInv, IndexInv
  <2>4. clog' = clog /\ lp' = lp /\ index' = index /\ todo' = todo
    BY <1>3
  <2> QED
    BY ONLY <2>2, <2>3, <2>4 DEF IndexInv
<1>19. SeenInv'
  <2>1. ASSUME NEW q \in Reader, snap'[q] # NoSnap
        PROVE  /\ snap'[q].seen = {Version(lp, o) : o \in {p \in Off : Normal(lp, p) /\ Shows(clog, lp[p], snap'[q])}}
               /\ \A o \in Off :
                    LET hits == {m \in Chain(lp, clog, o) : Shows(clog, lp[m], snap'[q])} IN
                    /\ \A m \in hits : lp[m].id = snap'[q].leads[o]
                    /\ snap'[q].leads[o] # None => hits # {}
    <3>1. CASE q # r
      BY <1>12, <2>1, <3>1 DEF IInv, SeenInv
    <3>2. CASE q = r
      <4>1. Current(lp, clog) = {p \in Off : Normal(lp, p) /\ Shows(clog, lp[p], z)}
        BY <1>9 DEF Current
      <4>2. rows = {Version(lp, o) : o \in Current(lp, clog)}
        BY DEF IInv, RowsInv
      <4>3. z.seen = {Version(lp, o) : o \in {p \in Off : Normal(lp, p) /\ Shows(clog, lp[p], z)}}
        BY <1>4, <4>1, <4>2
      <4>4. ASSUME NEW o \in Off
            PROVE  LET hits == {m \in Chain(lp, clog, o) : Shows(clog, lp[m], z)} IN
                   /\ \A m \in hits : lp[m].id = z.leads[o]
                   /\ z.leads[o] # None => hits # {}
        <5>1. \A m \in Chain(lp, clog, o) : m \in Off /\ Normal(lp, m) /\ lp[m] \in Tuple
          BY <1>6, ChainIs
        <5>2. \A m \in Chain(lp, clog, o) : Visible(lp[m], s) <=> Shows(clog, lp[m], z)
          BY <1>8, <5>1
        <5>3. \/ /\ HotSearch(o, s) = None
                 /\ \A m \in Chain(lp, clog, o) : ~Visible(lp[m], s)
              \/ \E m \in Chain(lp, clog, o) : Visible(lp[m], s) /\ HotSearch(o, s) = lp[m].id
          BY <1>5, HotSearchFinds
        <5>4. CASE \A m \in Chain(lp, clog, o) : ~Visible(lp[m], s)
          BY <1>4, <5>2, <5>3, <5>4
        <5>5. CASE \E m \in Chain(lp, clog, o) : Visible(lp[m], s) /\ HotSearch(o, s) = lp[m].id
          <6>1. PICK n \in Chain(lp, clog, o) : Visible(lp[n], s) /\ HotSearch(o, s) = lp[n].id
            BY <5>5
          <6>2. ASSUME NEW m \in Chain(lp, clog, o), Shows(clog, lp[m], z)
                PROVE  m = n
            <7>1. m \in Current(lp, clog) /\ n \in Current(lp, clog)
              BY <1>9, <5>1, <5>2, <6>1, <6>2
            <7> QED
              BY <7>1, OneCurrent
          <6> QED
            BY <1>4, <5>2, <6>1, <6>2
        <5> QED
          BY <5>3, <5>4, <5>5
      <4> QED
        BY <1>12, <3>2, <4>3, <4>4
    <3> QED
      BY <3>1, <3>2
  <2>2. clog' = clog /\ lp' = lp
    BY <1>3
  <2> QED
    BY ONLY <2>1, <2>2 DEF SeenInv
<1>20. VacInv'
  <2>1. ASSUME NEW h \in Int, IsHorizon(h)
        PROVE  IsHorizon(h)'
    BY <1>3, <1>4, <1>12, <2>1 DEF IsHorizon, Running
  <2>2. vac.oldest \in Int
    BY <1>5, Constants DEF Types, Vacuum
  <2>3. vac.phase # "idle" => IsHorizon(vac.oldest)'
    <3>1. PICK h \in Int : h = vac.oldest
      BY <2>2
    <3>2. vac.phase # "idle" => IsHorizon(h)
      BY <3>1 DEF IInv, VacInv
    <3>3. vac.phase # "idle" => IsHorizon(h)'
      BY <2>1, <3>1, <3>2
    <3>4. vac' = vac
      BY <1>3
    <3> QED
      BY <3>1, <3>3, <3>4 DEF IsHorizon
  <2> QED
    BY <1>3, <2>3 DEF IInv, VacInv
<1>21. AllVisibleInv'
  <2>1. ASSUME allVisible
        PROVE  /\ \A o \in Off : lp[o] # Dead
               /\ \A o \in Off : Normal(lp, o) =>
                    /\ clog[lp[o].xmin] = "committed" /\ ~Removed(clog, lp[o])
                    /\ \A q \in Reader : snap'[q] # NoSnap => Sees(snap'[q], lp[o].xmin)
    BY <1>6, <1>7, <1>12, <2>1 DEF IInv, AllVisibleInv
  <2> QED
    BY <1>3, <2>1 DEF AllVisibleInv
<1> QED
  BY <1>13, <1>14, <1>15, <1>16, <1>18, <1>19, <1>20, <1>21 DEF IInv

\* The end of a snapshot keeps the invariant.
LEMMA EndSnapshotKeeps ==
  ASSUME IInv, NEW r \in Reader, EndSnapshot(r)
  PROVE  IInv'
<1>1. /\ snap' = [snap EXCEPT ![r] = NoSnap]
      /\ UNCHANGED <<lp, pruneXid, full, allVisible, index, clog, nextXid, moving, todo, vac, lastId, rows, made, gone>>
  BY DEF EndSnapshot, pageVars, xactVars, history
<1>2. Types
  BY DEF IInv
<1>3. snap' \in [Reader -> Snapshot \cup {NoSnap}] /\ \A q \in Reader : snap'[q] # NoSnap => snap'[q] = snap[q]
  BY <1>1, <1>2 DEF Types
<1>4. Types'
  BY <1>1, <1>2, <1>3 DEF Types
<1>5. XactInv' /\ IdsUnique' /\ EdgeInv' /\ Anchored' /\ RowsInv' /\ PendingInv'
  BY <1>1, Frame
<1>6. SnapInv'
  BY <1>1, <1>3 DEF IInv, SnapInv
<1>7. TupleInv'
  BY <1>1, <1>3 DEF IInv, TupleInv
<1>8. IndexInv'
  <2>1. \A t : Gone(clog, snap, t) => Gone(clog, snap', t)
    BY <1>3 DEF Gone
  <2>2. \A o, m \in Off : m \in Chain(lp, clog, o) /\ ~Gone(clog, snap', lp[m]) =>
          LET e == [key |-> lp[m].key, off |-> o] IN
          e \in index \/ (Normal(lp, o) /\ clog[lp[o].xmin] = "running" /\ todo[lp[o].xmin] = e)
    BY <2>1 DEF IInv, IndexInv
  <2>3. \A e \in index : /\ Root(lp, e.off) \/ lp[e.off] = Dead
                         /\ \A m \in Chain(lp, clog, e.off) : lp[m].key = e.key
    BY DEF IInv, IndexInv
  <2>4. clog' = clog /\ lp' = lp /\ index' = index /\ todo' = todo
    BY <1>1
  <2> QED
    BY ONLY <2>2, <2>3, <2>4 DEF IndexInv
<1>9. SeenInv'
  BY <1>1, <1>3 DEF IInv, SeenInv
<1>10. VacInv'
  <2>1. vac.phase # "idle" => IsHorizon(vac.oldest)
    BY DEF IInv, VacInv
  <2>2. vac.phase # "idle" => IsHorizon(vac.oldest)'
    BY <1>1, <1>3, <2>1 DEF IsHorizon, Running
  <2> QED
    BY <1>1, <2>2 DEF IInv, VacInv
<1>11. AllVisibleInv'
  BY <1>1, <1>3 DEF IInv, AllVisibleInv
<1> QED
  BY <1>4, <1>5, <1>6, <1>7, <1>8, <1>9, <1>10, <1>11 DEF IInv

-----------------------------------------------------------------------------
(* Index entries come and go.                                                *)

\* ExecInsertIndexTuples keeps the invariant: the line pointer still is the root of
\* a chain of that key.
LEMMA InsertIndexEntryKeeps ==
  ASSUME IInv, NEW x \in Xid, InsertIndexEntry(x)
  PROVE  IInv'
<1>1. /\ clog[x] = "running" /\ todo[x] # NoTodo
      /\ index' = index \cup {todo[x]} /\ todo' = [todo EXCEPT ![x] = NoTodo]
      /\ UNCHANGED <<lp, pruneXid, full, allVisible, clog, nextXid, moving, snap, vac, lastId, rows, made, gone>>
  BY DEF InsertIndexEntry, pageVars, history
<1>2. Types /\ EdgeInv
  BY DEF IInv
<1>3. PICK e \in Entry : e = todo[x]
  BY <1>1, <1>2 DEF Types
<1>4. e.key \in Key /\ e.off \in Off
  BY <1>3 DEF Entry
<1>5. todo' \in [Xid -> Entry \cup {NoTodo}] /\ todo'[x] = NoTodo
      /\ \A y \in Xid : y # x => todo'[y] = todo[y]
  BY <1>1, <1>2 DEF Types
<1>6. Normal(lp, e.off) /\ lp[e.off].xmin = x /\ ~lp[e.off].heapOnly /\ lp[e.off].key = e.key
  BY <1>1, <1>3 DEF IInv, PendingInv
<1>7. Root(lp, e.off) /\ lp[e.off] # Dead
  BY <1>4, <1>6, ItemFacts DEF Root, Normal
<1>8. \A m \in Chain(lp, clog, e.off) : lp[m].key = e.key
  <2>1. e.off \in Chain(lp, clog, e.off)
    BY <1>4, <1>6, <1>7, ChainIs, FromStarts
  <2> QED
    BY <1>2, <1>4, <1>6, <2>1, ChainKey DEF EdgeInv
<1>9. Types'
  BY <1>1, <1>2, <1>3, <1>5 DEF Types
<1>10. SnapInv' /\ TupleInv' /\ IdsUnique' /\ EdgeInv' /\ Anchored' /\ RowsInv' /\ SeenInv' /\ AllVisibleInv'
  BY <1>1, Frame
<1>11. XactInv'
  BY <1>1, <1>5 DEF IInv, XactInv
<1>12. PendingInv'
  BY <1>1, <1>5 DEF IInv, PendingInv
<1>13. IndexInv'
  <2>1. \A i \in index' : /\ Root(lp, i.off) \/ lp[i.off] = Dead
                          /\ \A m \in Chain(lp, clog, i.off) : lp[m].key = i.key
    BY <1>1, <1>3, <1>7, <1>8 DEF IInv, IndexInv
  <2>2. ASSUME NEW o \in Off, NEW m \in Off, m \in Chain(lp, clog, o), ~Gone(clog, snap, lp[m]),
               NEW i, i = [key |-> lp[m].key, off |-> o]
        PROVE  i \in index' \/ (Normal(lp, o) /\ clog[lp[o].xmin] = "running" /\ todo'[lp[o].xmin] = i)
    <3>1. i \in index \/ (Normal(lp, o) /\ clog[lp[o].xmin] = "running" /\ todo[lp[o].xmin] = i)
      BY <2>2 DEF IInv, IndexInv
    <3>2. Normal(lp, o) => lp[o].xmin \in Xid
      BY <1>2, NormalTuple, TupleFields DEF Types
    <3> QED
      BY <1>1, <1>5, <3>1, <3>2
  <2>3. clog' = clog /\ lp' = lp /\ snap' = snap
    BY <1>1
  <2>4. \A o, m \in Off : m \in Chain(lp, clog, o) /\ ~Gone(clog, snap, lp[m]) =>
          LET i == [key |-> lp[m].key, off |-> o] IN
          i \in index' \/ (Normal(lp, o) /\ clog[lp[o].xmin] = "running" /\ todo'[lp[o].xmin] = i)
    BY <2>2
  <2> QED
    BY ONLY <2>1, <2>3, <2>4 DEF IndexInv
<1>14. VacInv'
  <2>1. vac.phase \in {"index", "heap"} => e.off \notin vac.dead
    BY <1>7 DEF IInv, VacInv
  <2>2. vac.phase = "heap" => \A i \in index' : i.off \notin vac'.dead
    BY <1>1, <1>3, <2>1 DEF IInv, VacInv
  <2>3. vac.phase # "idle" => IsHorizon(vac.oldest)'
    BY <1>1 DEF IInv, VacInv, IsHorizon, Running
  <2> QED
    BY <1>1, <2>2, <2>3 DEF IInv, VacInv
<1> QED
  BY <1>9, <1>10, <1>11, <1>12, <1>13, <1>14 DEF IInv

(* Fewer entries: what the index keeps to is the same, as long as no chain     *)
(* that somebody may need loses its entry.                                    *)
LEMMA FewerEntries ==
  ASSUME IInv, index' \subseteq index, UNCHANGED <<lp, clog, snap, todo>>,
         \A e \in index : e \notin index' => \A m \in Chain(lp, clog, e.off) : Gone(clog, snap, lp[m])
  PROVE  IndexInv'
<1>1. \A e \in index' : /\ Root(lp, e.off) \/ lp[e.off] = Dead
                        /\ \A m \in Chain(lp, clog, e.off) : lp[m].key = e.key
  BY DEF IInv, IndexInv
<1>2. ASSUME NEW o \in Off, NEW m \in Off, m \in Chain(lp, clog, o), ~Gone(clog, snap, lp[m]),
             NEW e, e = [key |-> lp[m].key, off |-> o]
      PROVE  e \in index' \/ (Normal(lp, o) /\ clog[lp[o].xmin] = "running" /\ todo[lp[o].xmin] = e)
  <2>1. e \in index \/ (Normal(lp, o) /\ clog[lp[o].xmin] = "running" /\ todo[lp[o].xmin] = e)
    BY <1>2 DEF IInv, IndexInv
  <2>2. e.off = o
    BY <1>2
  <2> QED
    BY <1>2, <2>1, <2>2
<1>3. \A o, m \in Off : m \in Chain(lp, clog, o) /\ ~Gone(clog, snap, lp[m]) =>
        LET e == [key |-> lp[m].key, off |-> o] IN
        e \in index' \/ (Normal(lp, o) /\ clog[lp[o].xmin] = "running" /\ todo[lp[o].xmin] = e)
  BY <1>2
<1>4. clog' = clog /\ lp' = lp /\ snap' = snap /\ todo' = todo
  OBVIOUS
<1> QED
  BY ONLY <1>1, <1>3, <1>4 DEF IndexInv

\* So does a scan that has the entry of a dead chain removed.
LEMMA KillIndexEntryKeeps ==
  ASSUME IInv, NEW e \in index, KillIndexEntry(e)
  PROVE  IInv'
<1>1. /\ index' = index \ {e}
      /\ UNCHANGED <<lp, pruneXid, full, allVisible, clog, nextXid, moving, todo, snap, vac, lastId, rows, made, gone>>
  BY DEF KillIndexEntry, pageVars, xactVars, history
<1>2. Types /\ EdgeInv /\ XactInv
  BY DEF IInv
<1>3. e.off \in Off
  BY <1>2 DEF Types, Entry
<1>4. ASSUME NEW m \in Chain(lp, clog, e.off)
      PROVE  Gone(clog, snap, lp[m])
  <2>1. m \in Off /\ Normal(lp, m)
    BY <1>3, ChainIs
  <2>2. HTSV(lp[m], Horizon) = "DEAD"
    BY <1>2, <1>3, SearchIs DEF KillIndexEntry, AllDead
  <2>3. Horizon \in Int /\ IsHorizon(Horizon)
    BY <1>2, HorizonIs, Constants
  <2>4. lp[m] \in Tuple
    BY <1>2, <2>1, NormalTuple DEF Types
  <2> QED
    BY <1>2, <2>2, <2>3, <2>4, DeadIsGone
<1>5. Types'
  BY <1>1, <1>2 DEF Types
<1>6. XactInv' /\ SnapInv' /\ TupleInv' /\ IdsUnique' /\ EdgeInv' /\ Anchored' /\ RowsInv' /\ PendingInv'
      /\ SeenInv' /\ AllVisibleInv'
  BY <1>1, Frame
<1>7. IndexInv'
  BY <1>1, <1>4, FewerEntries
<1>8. VacInv'
  <2>1. vac.phase = "heap" => \A i \in index' : i.off \notin vac'.dead
    BY <1>1 DEF IInv, VacInv
  <2>2. vac.phase # "idle" => IsHorizon(vac.oldest)'
    BY <1>1 DEF IInv, VacInv, IsHorizon, Running
  <2> QED
    BY <1>1, <2>1, <2>2 DEF IInv, VacInv
<1> QED
  BY <1>5, <1>6, <1>7, <1>8 DEF IInv

-----------------------------------------------------------------------------
(* The vacuum's steps that leave the page alone.                             *)

NoVacFields ==
  NoVac \in Vacuum /\ NoVac.phase = "idle"

\* A vacuum that is over.
LEMMA NoVacIs == NoVacFields
<1>1. NoVac = [phase |-> "idle", oldest |-> 0, vm |-> FALSE, dead |-> {}]
  BY DEF NoVac
<1>2. 0 \in -Lag..(MaxXid + 1)
  BY Constants
<1> QED
  BY <1>1, <1>2 DEF NoVacFields, Vacuum

\* A step of vacuum alone.
LEMMA VacuumKeeps ==
  ASSUME IInv, vac' \in Vacuum, VacInv',
         UNCHANGED <<lp, pruneXid, full, allVisible, index, clog, nextXid, moving, todo, snap, lastId, rows, made, gone>>
  PROVE  IInv'
<1>1. Types'
  BY DEF IInv, Types
<1> QED
  BY <1>1, Frame DEF IInv

(* A vacuum that has started: its phase and what it collected, with the horizon *)
(* it started with.                                                           *)
LEMMA VacuumGoesOn ==
  ASSUME IInv, UNCHANGED <<clog, nextXid, snap>>, vac' \in Vacuum,
         vac'.phase # "idle" => vac.phase # "idle" /\ vac'.oldest = vac.oldest,
         vac'.phase \in {"index", "heap"} => vac'.dead # {} /\ \A o \in vac'.dead : lp'[o] = Dead,
         vac'.phase = "heap" => \A e \in index' : e.off \notin vac'.dead
  PROVE  VacInv'
<1>1. vac'.phase # "idle" => IsHorizon(vac.oldest)
  BY DEF IInv, VacInv
<1>2. vac'.phase # "idle" => IsHorizon(vac'.oldest)
  BY <1>1
<1>3. clog' = clog /\ nextXid' = nextXid /\ snap' = snap
  OBVIOUS
<1>4. vac'.phase # "idle" => IsHorizon(vac.oldest)'
  BY <1>2, <1>3 DEF IsHorizon, Running
<1> QED
  BY <1>4 DEF VacInv

\* A vacuum starts with a horizon.
LEMMA VacuumStartKeeps ==
  ASSUME IInv, VacuumStart
  PROVE  IInv'
<1>1. UNCHANGED <<lp, pruneXid, full, allVisible, index, clog, nextXid, moving, todo, snap, lastId, rows, made, gone>>
  BY DEF VacuumStart, pageVars, xactVars, history
<1>2. Horizon \in 1..(MaxXid + 1) /\ \A h \in Int : h <= Horizon <=> IsHorizon(h)
  BY HorizonIs DEF IInv
<1>3. PICK h \in (Horizon - Lag)..Horizon : vac' = [NoVac EXCEPT !.phase = "skip", !.oldest = h]
  BY DEF VacuumStart
<1>4. h \in -Lag..(MaxXid + 1) /\ h \in Int /\ h <= Horizon
  BY <1>2, <1>3, Constants
<1>5. IsHorizon(h)
  BY <1>2, <1>4
<1>6. vac' = [phase |-> "skip", oldest |-> h, vm |-> FALSE, dead |-> {}]
  BY <1>3, Zenon DEF NoVac
<1>7. vac' \in Vacuum /\ vac'.phase = "skip" /\ vac'.oldest = h
  BY ONLY <1>4, <1>6 DEF Vacuum
<1>8. IsHorizon(vac.oldest)'
  BY <1>1, <1>5, <1>7 DEF IsHorizon, Running
<1>9. VacInv'
  BY <1>7, <1>8 DEF VacInv
<1> QED
  BY <1>1, <1>7, <1>9, VacuumKeeps

\* lazy_scan_skip keeps the invariant.
LEMMA SkipKeeps ==
  ASSUME IInv, lazy_scan_skip
  PROVE  IInv'
<1>1. UNCHANGED <<lp, pruneXid, full, allVisible, index, clog, nextXid, moving, todo, snap, lastId, rows, made, gone>>
  BY DEF lazy_scan_skip, pageVars, xactVars, history
<1>2. vac \in Vacuum /\ allVisible \in BOOLEAN
  BY DEF IInv, Types
<1>3. vac.phase = "skip"
  BY DEF lazy_scan_skip
<1>4. CASE vac' = NoVac
  BY <1>1, <1>4, NoVacIs, VacuumGoesOn, VacuumKeeps DEF NoVacFields
<1>5. CASE vac' = [vac EXCEPT !.phase = "scan", !.vm = allVisible]
  <2>1. vac' = [phase |-> "scan", oldest |-> vac.oldest, vm |-> allVisible, dead |-> vac.dead]
    BY ONLY <1>2, <1>5, Zenon DEF Vacuum
  <2>2. vac' \in Vacuum /\ vac'.phase = "scan" /\ vac'.oldest = vac.oldest
    BY ONLY <1>2, <2>1 DEF Vacuum
  <2> QED
    BY <1>1, <1>3, <2>2, VacuumGoesOn, VacuumKeeps
<1> QED
  BY <1>4, <1>5 DEF lazy_scan_skip

(* What AfterScan leaves.                                                     *)
LEMMA AfterScanIs ==
  ASSUME vac \in Vacuum, NEW D, D \subseteq Off, AfterScan(D)
  PROVE  /\ vac' \in Vacuum
         /\ vac'.phase # "idle" => vac'.phase = "index" /\ vac'.oldest = vac.oldest /\ vac'.dead = D /\ D # {}
<1>1. CASE D = {}
  BY <1>1, NoVacIs DEF AfterScan, NoVacFields
<1>2. CASE D # {}
  <2>1. vac' = [vac EXCEPT !.phase = "index", !.dead = D]
    BY <1>2, Zenon DEF AfterScan
  <2>2. vac' = [phase |-> "index", oldest |-> vac.oldest, vm |-> vac.vm, dead |-> D]
    BY ONLY <2>1, vac \in Vacuum, Zenon DEF Vacuum
  <2>3. vac' \in Vacuum /\ vac'.phase = "index" /\ vac'.oldest = vac.oldest /\ vac'.dead = D
    BY ONLY <2>2, vac \in Vacuum, D \subseteq Off DEF Vacuum
  <2> QED
    BY <1>2, <2>3
<1> QED
  BY <1>1, <1>2

\* lazy_scan_noprune keeps the invariant.
LEMMA NopruneKeeps ==
  ASSUME IInv, lazy_scan_noprune
  PROVE  IInv'
<1>1. UNCHANGED <<lp, pruneXid, full, allVisible, index, clog, nextXid, moving, todo, snap, lastId, rows, made, gone>>
  BY DEF lazy_scan_noprune, pageVars, xactVars, history
<1>2. vac \in Vacuum
  BY DEF IInv, Types
<1>3. vac.phase = "scan" /\ AfterScan(DeadItems(lp))
  BY DEF lazy_scan_noprune
<1>4. DeadItems(lp) \subseteq Off /\ \A o \in DeadItems(lp) : lp[o] = Dead
  BY DEF DeadItems
<1>5. /\ vac' \in Vacuum
      /\ vac'.phase # "idle" => vac'.phase = "index" /\ vac'.oldest = vac.oldest
                                /\ vac'.dead = DeadItems(lp) /\ DeadItems(lp) # {}
  BY <1>2, <1>3, <1>4, AfterScanIs
<1>6. VacInv'
  BY <1>1, <1>3, <1>4, <1>5, VacuumGoesOn
<1> QED
  BY <1>1, <1>5, <1>6, VacuumKeeps

\* lazy_vacuum keeps it when it bypasses the indexes.
LEMMA BypassKeeps ==
  ASSUME IInv, BypassIndexes
  PROVE  IInv'
<1>1. /\ UNCHANGED <<lp, pruneXid, full, allVisible, index, clog, nextXid, moving, todo, snap, lastId, rows, made, gone>>
      /\ vac' = NoVac
  BY DEF BypassIndexes, pageVars, xactVars, history
<1> QED
  BY <1>1, NoVacIs, VacuumGoesOn, VacuumKeeps DEF NoVacFields

\* lazy_vacuum_all_indexes keeps the invariant: the entries it removes lead to dead
\* line pointers, which have no chain.
LEMMA VacuumIndexesKeeps ==
  ASSUME IInv, lazy_vacuum_all_indexes
  PROVE  IInv'
<1>1. /\ vac.phase = "index" /\ index' = {e \in index : e.off \notin vac.dead}
      /\ UNCHANGED <<lp, pruneXid, full, allVisible, clog, nextXid, moving, todo, snap, lastId, rows, made, gone>>
  BY DEF lazy_vacuum_all_indexes, pageVars, xactVars, history
<1>2. vac \in Vacuum /\ index \subseteq Entry
  BY DEF IInv, Types
<1>3. vac.dead # {} /\ \A o \in vac.dead : lp[o] = Dead
  BY <1>1 DEF IInv, VacInv
<1>4. ASSUME vac' \in Vacuum,
             vac'.phase # "idle" => vac'.phase = "heap" /\ vac'.oldest = vac.oldest /\ vac'.dead = vac.dead
      PROVE  IInv'
  <2>1. VacInv'
    BY <1>1, <1>3, <1>4, VacuumGoesOn
  <2>2. IndexInv'
    <3>1. ASSUME NEW e \in index, e \notin index'
          PROVE  \A m \in Chain(lp, clog, e.off) : Gone(clog, snap, lp[m])
      <4>1. e.off \in vac.dead /\ e.off \in Off
        BY <1>1, <1>2, <3>1 DEF Entry
      <4>2. ~Root(lp, e.off)
        BY <1>3, <4>1, ItemFacts DEF Root
      <4> QED
        BY <4>2 DEF Chain
    <3> QED
      BY <1>1, <3>1, FewerEntries
  <2>3. Types'
    BY <1>1, <1>2, <1>4 DEF IInv, Types
  <2>4. XactInv' /\ SnapInv' /\ TupleInv' /\ IdsUnique' /\ EdgeInv' /\ Anchored' /\ RowsInv' /\ PendingInv'
        /\ SeenInv' /\ AllVisibleInv'
    BY <1>1, Frame
  <2> QED
    BY <2>1, <2>2, <2>3, <2>4 DEF IInv
<1>5. CASE vac' = NoVac
  BY <1>4, <1>5, NoVacIs DEF NoVacFields
<1>6. CASE vac' = [vac EXCEPT !.phase = "heap"]
  <2>1. vac' = [phase |-> "heap", oldest |-> vac.oldest, vm |-> vac.vm, dead |-> vac.dead]
    BY ONLY <1>2, <1>6, Zenon DEF Vacuum
  <2>2. vac' \in Vacuum /\ vac'.phase = "heap" /\ vac'.oldest = vac.oldest /\ vac'.dead = vac.dead
    BY ONLY <1>2, <2>1 DEF Vacuum
  <2> QED
    BY <1>4, <2>2
<1> QED
  BY <1>5, <1>6 DEF lazy_vacuum_all_indexes

-----------------------------------------------------------------------------
(* Pruning, and the second pass of vacuum.                                   *)

(* What a running transaction still needs is on the page that is left.        *)
LEMMA LeftPending ==
  ASSUME IInv, IsLeft(lp'), UNCHANGED <<clog, moving, todo>>
  PROVE  PendingInv'
<1>1. TupleInv /\ XactInv /\ PendingInv
  BY DEF IInv
<1>2. ASSUME NEW x \in Xid, clog[x] = "running", NEW o, Normal(lp, o),
             lp[o].xmin = x \/ (lp[o].xmax = x /\ lp[o].xmax # None)
      PROVE  Normal(lp', o) /\ lp'[o] = lp[o]
  <2>1. o \in Off
    BY <1>2 DEF Normal
  <2>2. ~Gone(clog, snap, lp[o])
    BY <1>1, <1>2, <2>1, RunningNotGone
  <2> QED
    BY <1>2, <2>1, <2>2 DEF IsLeft
<1>3. \A x \in Xid : x # None
  BY DEF Xid, None
<1>4. ASSUME NEW x \in Xid, moving[x] # None
      PROVE  LET o == moving[x] IN
             /\ Normal(lp', o) /\ lp'[o].xmax = x /\ lp'[o].lockOnly
             /\ lp'[o].xmin = x \/ clog[lp'[o].xmin] = "committed"
  <2>1. clog[x] = "running"
    BY <1>1, <1>4 DEF XactInv
  <2>2. LET o == moving[x] IN
        /\ Normal(lp, o) /\ lp[o].xmax = x /\ lp[o].lockOnly
        /\ lp[o].xmin = x \/ clog[lp[o].xmin] = "committed"
    BY <1>1, <1>4 DEF PendingInv
  <2>3. Normal(lp', moving[x]) /\ lp'[moving[x]] = lp[moving[x]]
    BY <1>2, <1>3, <2>1, <2>2
  <2> QED
    BY <2>2, <2>3
<1>5. ASSUME NEW x \in Xid, todo[x] # NoTodo
      PROVE  LET o == todo[x].off IN
             Normal(lp', o) /\ lp'[o].xmin = x /\ ~lp'[o].heapOnly /\ lp'[o].key = todo[x].key
  <2>1. clog[x] = "running"
    BY <1>1, <1>5 DEF XactInv
  <2>2. LET o == todo[x].off IN
        Normal(lp, o) /\ lp[o].xmin = x /\ ~lp[o].heapOnly /\ lp[o].key = todo[x].key
    BY <1>1, <1>5 DEF PendingInv
  <2>3. Normal(lp', todo[x].off) /\ lp'[todo[x].off] = lp[todo[x].off]
    BY <1>2, <2>1, <2>2
  <2> QED
    BY <2>2, <2>3
<1>6. \A x \in Xid : moving[x] # None => todo[x] = NoTodo
  BY <1>1 DEF PendingInv
<1>7. clog' = clog /\ moving' = moving /\ todo' = todo
  OBVIOUS
<1> QED
  BY ONLY <1>4, <1>5, <1>6, <1>7 DEF PendingInv

(* A page found all-visible is.                                               *)
LEMMA FoundAllVisible ==
  ASSUME IInv, vac.phase # "idle", NEW P, \A o \in Off : Normal(P, o) => Normal(lp, o) /\ P[o] = lp[o],
         pg_tde_page_is_all_visible(P)
  PROVE  /\ \A o \in Off : P[o] # Dead
         /\ \A o \in Off : Normal(P, o) =>
              /\ clog[P[o].xmin] = "committed" /\ ~Removed(clog, P[o])
              /\ \A r \in Reader : snap[r] # NoSnap => Sees(snap[r], P[o].xmin)
<1>1. Types /\ TupleInv /\ XactInv /\ IsHorizon(vac.oldest)
  BY DEF IInv, VacInv
<1>2. vac.oldest \in Int
  BY <1>1, Constants DEF Types, Vacuum
<1>3. ASSUME NEW o \in Off, Normal(P, o)
      PROVE  /\ clog[P[o].xmin] = "committed" /\ ~Removed(clog, P[o])
             /\ \A r \in Reader : snap[r] # NoSnap => Sees(snap[r], P[o].xmin)
  <2>1. Normal(lp, o) /\ P[o] = lp[o]
    BY <1>3
  <2>2. HTSV(lp[o], vac.oldest) = "LIVE" /\ lp[o].xmin < vac.oldest
    BY <1>3, <2>1 DEF pg_tde_page_is_all_visible
  <2>3. lp[o].xmin \in Xid /\ clog[lp[o].xmin] # "none"
    BY <1>1, <2>1, NormalTuple, TupleFields DEF Types, TupleInv
  <2>4. clog[lp[o].xmin] \in {"none", "running", "committed", "aborted"}
    BY <1>1, <2>3 DEF Types
  <2>5. clog[lp[o].xmin] # "aborted" /\ clog[lp[o].xmin] # "running" /\ ~Removed(clog, lp[o])
    BY <2>2, HTSVIs
  <2>6. ASSUME NEW r \in Reader, snap[r] # NoSnap
        PROVE  Sees(snap[r], lp[o].xmin)
    <3>1. vac.oldest <= snap[r].xmax /\ \A x \in snap[r].xip : vac.oldest <= x
      BY <1>1, <2>6 DEF IsHorizon
    <3>2. snap[r].xmax \in Int /\ \A x \in snap[r].xip : x \in Int
      BY <1>1, <2>6, SnapFields, Constants DEF Xid
    <3>3. lp[o].xmin \in Int
      BY <2>3 DEF Xid
    <3>4. lp[o].xmin < snap[r].xmax
      BY <1>2, <2>2, <3>1, <3>2, <3>3
    <3>5. lp[o].xmin \notin snap[r].xip
      BY <1>2, <2>2, <3>1, <3>2, <3>3
    <3> QED
      BY <3>4, <3>5 DEF Sees
  <2> QED
    BY <2>1, <2>3, <2>4, <2>5, <2>6
<1> QED
  BY <1>3 DEF pg_tde_page_is_all_visible

(* A page that was all-visible before pruning still is.                       *)
LEMMA StaysAllVisible ==
  ASSUME IInv, allVisible, NEW P,
         \A o \in Off : Normal(P, o) => Normal(lp, o) /\ P[o] = lp[o],
         (\A o \in Off : Normal(lp, o) => ~Gone(clog, snap, lp[o])) =>
           \A o \in Off : P[o] = Dead => lp[o] = Dead
  PROVE  /\ \A o \in Off : P[o] # Dead
         /\ \A o \in Off : Normal(P, o) =>
              /\ clog[P[o].xmin] = "committed" /\ ~Removed(clog, P[o])
              /\ \A r \in Reader : snap[r] # NoSnap => Sees(snap[r], P[o].xmin)
<1>1. /\ \A o \in Off : lp[o] # Dead
      /\ \A o \in Off : Normal(lp, o) =>
           /\ clog[lp[o].xmin] = "committed" /\ ~Removed(clog, lp[o])
           /\ \A r \in Reader : snap[r] # NoSnap => Sees(snap[r], lp[o].xmin)
  BY DEF IInv, AllVisibleInv
<1>2. \A o \in Off : Normal(lp, o) => ~Gone(clog, snap, lp[o])
  BY <1>1 DEF Gone, Removed
<1> QED
  BY <1>1, <1>2

\* pg_tde_page_prune keeps the invariant of the page.
LEMMA PageLeft ==
  ASSUME IInv, NEW v, IsView(v), pg_tde_page_prune(PrunePlan(v)),
         UNCHANGED <<index, clog, nextXid, moving, todo, snap, lastId, rows, made, gone>>
  PROVE  /\ lp' \in [Off -> Item] /\ pruneXid' \in {None} \cup Xid /\ full' \in BOOLEAN
         /\ XactInv' /\ SnapInv' /\ TupleInv' /\ IdsUnique' /\ EdgeInv' /\ Anchored' /\ RowsInv'
         /\ PendingInv' /\ IndexInv' /\ SeenInv'
         /\ \A o \in Off : lp[o] = Dead => lp'[o] = Dead
         /\ \A o \in Off : Normal(lp', o) => Normal(lp, o) /\ lp'[o] = lp[o]
         /\ (\A o \in Off : Normal(lp, o) => ~Gone(clog, snap, lp[o])) =>
              \A o \in Off : lp'[o] = Dead => lp[o] = Dead
<1>1. Types /\ XactInv /\ TupleInv /\ IdsUnique /\ EdgeInv /\ Anchored /\ RowsInv /\ IndexInv /\ SeenInv
  BY DEF IInv
<1>2. /\ lp' = pg_tde_page_prune_execute(PrunePlan(v))
      /\ pruneXid' = IF PrunePlan(v).prunable = {} THEN None ELSE MinOf(PrunePlan(v).prunable)
      /\ full' = FALSE
  BY DEF pg_tde_page_prune
<1>3. PICK P : P = lp'
  OBVIOUS
<1>4. /\ IsLeft(P)
      /\ \A o \in Off : lp[o] = Dead => P[o] = Dead
      /\ (\A o \in Off : Normal(lp, o) => ~Gone(clog, snap, lp[o])) =>
           \A o \in Off : P[o] = Dead => lp[o] = Dead
  BY <1>1, <1>2, <1>3, PruneLeaves
<1>5. IsLeft(lp')
  BY <1>3, <1>4
<1>6. P \in [Off -> Item] /\ \A o \in Off : Normal(P, o) => Normal(lp, o) /\ P[o] = lp[o]
  BY <1>4 DEF IsLeft
<1>7. \A e \in index : Root(lp', e.off) \/ lp'[e.off] = Dead
  <2>1. ASSUME NEW e \in index
        PROVE  Root(P, e.off) \/ P[e.off] = Dead
    <3>1. e.off \in Off
      BY <1>1 DEF Types, Entry
    <3>2. Root(lp, e.off) \/ lp[e.off] = Dead
      BY <1>1 DEF IndexInv
    <3> QED
      BY <1>4, <3>1, <3>2 DEF IsLeft
  <2> QED
    BY <1>3, <2>1
<1>8. TupleInv' /\ IdsUnique' /\ EdgeInv' /\ Anchored' /\ RowsInv' /\ IndexInv' /\ SeenInv'
  BY <1>1, <1>5, <1>7, LeftKeeps
<1>9. PendingInv'
  BY <1>5, LeftPending
<1>10. XactInv' /\ SnapInv'
  BY Frame
<1>11. pruneXid' \in {None} \cup Xid
  <2>1. PrunePlan(v) \in Plan
    BY <1>1, PrunePlanFine
  <2>2. PrunePlan(v).prunable \subseteq Xid
    BY <2>1 DEF Plan
  <2>3. Xid \subseteq Nat
    BY DEF Xid
  <2> QED
    BY <1>2, <2>2, <2>3, MinIsLeast
<1>12. full' \in BOOLEAN
  BY <1>2
<1> QED
  BY <1>3, <1>4, <1>6, <1>8, <1>9, <1>10, <1>11, <1>12

\* pg_tde_page_prune_opt keeps the invariant.
LEMMA PruneOptKeeps ==
  ASSUME IInv, pg_tde_page_prune_opt
  PROVE  IInv'
<1>1. UNCHANGED <<allVisible, index, clog, nextXid, moving, todo, snap, vac, lastId, rows, made, gone>>
  BY DEF pg_tde_page_prune_opt, xactVars, history
<1>2. Types
  BY DEF IInv
<1>3. PICK h \in Horizon - Lag..Horizon, k \in Off : pg_tde_page_prune(PrunePlan(Seen(h, Horizon, k)))
  BY DEF pg_tde_page_prune_opt
<1>4. Horizon \in 1..(MaxXid + 1) /\ \A i \in Int : i <= Horizon <=> IsHorizon(i)
  BY <1>2, HorizonIs
<1>5. h \in Int /\ h <= Horizon /\ Horizon \in Int /\ Horizon <= Horizon
  BY <1>3, <1>4, Constants
<1>6. IsView(Seen(h, Horizon, k))
  BY <1>2, <1>4, <1>5, SeenIsView
<1>7. /\ lp' \in [Off -> Item] /\ pruneXid' \in {None} \cup Xid /\ full' \in BOOLEAN
      /\ XactInv' /\ SnapInv' /\ TupleInv' /\ IdsUnique' /\ EdgeInv' /\ Anchored' /\ RowsInv'
      /\ PendingInv' /\ IndexInv' /\ SeenInv'
      /\ \A o \in Off : lp[o] = Dead => lp'[o] = Dead
      /\ \A o \in Off : Normal(lp', o) => Normal(lp, o) /\ lp'[o] = lp[o]
      /\ (\A o \in Off : Normal(lp, o) => ~Gone(clog, snap, lp[o])) =>
           \A o \in Off : lp'[o] = Dead => lp[o] = Dead
  BY <1>1, <1>3, <1>6, PageLeft
<1>8. Types'
  BY <1>1, <1>2, <1>7 DEF Types
<1>9. VacInv'
  <2>1. vac.phase \in {"index", "heap"} => vac.dead # {} /\ \A o \in vac.dead : lp[o] = Dead
    BY DEF IInv, VacInv
  <2>2. vac \in Vacuum
    BY <1>2 DEF Types
  <2>3. vac.dead \subseteq Off
    BY <2>2 DEF Vacuum
  <2>4. vac.phase = "heap" => \A e \in index : e.off \notin vac.dead
    BY DEF IInv, VacInv
  <2> QED
    BY <1>1, <1>7, <2>1, <2>2, <2>3, <2>4, VacuumGoesOn
<1>10. AllVisibleInv'
  <2>1. PICK P : P = lp'
    OBVIOUS
  <2>2. allVisible =>
          /\ \A o \in Off : P[o] # Dead
          /\ \A o \in Off : Normal(P, o) =>
               /\ clog[P[o].xmin] = "committed" /\ ~Removed(clog, P[o])
               /\ \A r \in Reader : snap[r] # NoSnap => Sees(snap[r], P[o].xmin)
    BY <1>7, <2>1, StaysAllVisible
  <2>3. clog' = clog /\ snap' = snap /\ allVisible' = allVisible /\ lp' = P
    BY <1>1, <2>1
  <2> QED
    BY ONLY <2>2, <2>3 DEF AllVisibleInv
<1> QED
  BY <1>7, <1>8, <1>9, <1>10 DEF IInv

\* lazy_scan_prune keeps the invariant, and the all-visible bit it sets is true.
LEMMA ScanPruneKeeps ==
  ASSUME IInv, lazy_scan_prune
  PROVE  IInv'
<1>1. UNCHANGED <<index, clog, nextXid, moving, todo, snap, lastId, rows, made, gone>>
  BY DEF lazy_scan_prune, xactVars, history
<1>2. Types /\ vac \in Vacuum
  BY DEF IInv, Types
<1>3. PICK k \in Off : pg_tde_page_prune(PrunePlan(Seen(vac.oldest, Horizon, k)))
  BY DEF lazy_scan_prune
<1>4. vac.phase = "scan" /\ SetAllVisible(lp') /\ AfterScan(DeadItems(lp'))
  BY DEF lazy_scan_prune
<1>5. Horizon \in 1..(MaxXid + 1) /\ \A i \in Int : i <= Horizon <=> IsHorizon(i)
  BY <1>2, HorizonIs
<1>6. Horizon \in Int /\ IsHorizon(Horizon)
  BY <1>5, Constants
<1>7. vac.oldest \in Int /\ IsHorizon(vac.oldest)
  BY <1>2, <1>4, Constants DEF IInv, VacInv, Vacuum
<1>8. IsView(Seen(vac.oldest, Horizon, k))
  BY <1>2, <1>6, <1>7, SeenIsView
<1>9. /\ lp' \in [Off -> Item] /\ pruneXid' \in {None} \cup Xid /\ full' \in BOOLEAN
      /\ XactInv' /\ SnapInv' /\ TupleInv' /\ IdsUnique' /\ EdgeInv' /\ Anchored' /\ RowsInv'
      /\ PendingInv' /\ IndexInv' /\ SeenInv'
      /\ \A o \in Off : lp[o] = Dead => lp'[o] = Dead
      /\ \A o \in Off : Normal(lp', o) => Normal(lp, o) /\ lp'[o] = lp[o]
      /\ (\A o \in Off : Normal(lp, o) => ~Gone(clog, snap, lp[o])) =>
           \A o \in Off : lp'[o] = Dead => lp[o] = Dead
  BY <1>1, <1>3, <1>8, PageLeft
<1>10. DeadItems(lp') \subseteq Off /\ \A o \in DeadItems(lp') : lp'[o] = Dead
  BY DEF DeadItems
<1>11. /\ vac' \in Vacuum
       /\ vac'.phase # "idle" => vac'.phase = "index" /\ vac'.oldest = vac.oldest
                                 /\ vac'.dead = DeadItems(lp') /\ DeadItems(lp') # {}
  BY <1>2, <1>4, <1>10, AfterScanIs
<1>12. VacInv'
  BY <1>1, <1>4, <1>10, <1>11, VacuumGoesOn
<1>13. PICK P : P = lp'
  OBVIOUS
<1>14. allVisible' \in BOOLEAN /\ (allVisible' => allVisible \/ pg_tde_page_is_all_visible(P))
  BY <1>2, <1>4, <1>13 DEF SetAllVisible, Types
<1>15. Types'
  BY <1>1, <1>2, <1>9, <1>11, <1>14 DEF Types
<1>16. AllVisibleInv'
  <2>1. allVisible' =>
          /\ \A o \in Off : P[o] # Dead
          /\ \A o \in Off : Normal(P, o) =>
               /\ clog[P[o].xmin] = "committed" /\ ~Removed(clog, P[o])
               /\ \A r \in Reader : snap[r] # NoSnap => Sees(snap[r], P[o].xmin)
    <3>1. CASE allVisible
      BY <1>9, <1>13, <3>1, StaysAllVisible
    <3>2. CASE pg_tde_page_is_all_visible(P)
      BY <1>4, <1>9, <1>13, <3>2, FoundAllVisible
    <3> QED
      BY <1>14, <3>1, <3>2
  <2>2. clog' = clog /\ snap' = snap /\ lp' = P
    BY <1>1, <1>13
  <2> QED
    BY ONLY <2>1, <2>2 DEF AllVisibleInv
<1> QED
  BY <1>9, <1>12, <1>15, <1>16 DEF IInv

\* lazy_vacuum_pg_tde_page keeps the invariant: no index entry leads to a line
\* pointer that it frees.
LEMMA VacuumPageKeeps ==
  ASSUME IInv, lazy_vacuum_pg_tde_page
  PROVE  IInv'
<1>1. /\ vac.phase = "heap" /\ vac' = NoVac
      /\ UNCHANGED <<pruneXid, full, index, clog, nextXid, moving, todo, snap, lastId, rows, made, gone>>
  BY DEF lazy_vacuum_pg_tde_page, xactVars, history
<1>2. Types /\ XactInv /\ TupleInv /\ IdsUnique /\ EdgeInv /\ Anchored /\ RowsInv /\ IndexInv /\ SeenInv
  BY DEF IInv
<1>3. PICK P : P = lp'
  OBVIOUS
<1>4. P = [o \in Off |-> IF o \in vac.dead THEN Unused ELSE lp[o]]
  BY <1>3 DEF lazy_vacuum_pg_tde_page
<1>5. /\ \A o \in vac.dead : lp[o] = Dead
      /\ vac.dead # {} /\ vac.dead \subseteq Off
      /\ \A e \in index : e.off \notin vac.dead
  BY <1>1, <1>2 DEF IInv, VacInv, Types, Vacuum
<1>6. /\ P \in [Off -> Item]
      /\ \A o \in vac.dead : P[o] = Unused /\ lp[o].st = "dead"
      /\ \A o \in Off : o \notin vac.dead => P[o] = lp[o]
  BY <1>2, <1>4, <1>5, ItemFacts DEF Types
<1>7. Unused.st = "unused"
  BY ItemFacts
<1>8. /\ \A o : Normal(P, o) <=> Normal(lp, o)
      /\ \A o : Normal(P, o) => P[o] = lp[o]
      /\ \A o \in Off : Root(P, o) <=> Root(lp, o)
  BY <1>6, <1>7 DEF Normal, Root
<1>9. \A a, b \in Off : Leads(P, clog, a, b) <=> Leads(lp, clog, a, b)
  BY <1>6, <1>7, <1>8 DEF Leads
<1>10. \A a, b \in Off : <<a, b>> \in Edges(P, clog) <=> <<a, b>> \in Edges(lp, clog)
  BY <1>9, EdgesAre
<1>11. IsLeft(P)
  <2>1. \A a, b \in Off : <<a, b>> \in Edges(P, clog) =>
          b \in From(Edges(lp, clog), a) /\ Normal(P, b) /\ P[b].heapOnly
    <3>1. ASSUME NEW a \in Off, NEW b \in Off, <<a, b>> \in Edges(P, clog)
          PROVE  b \in From(Edges(lp, clog), a) /\ Normal(P, b) /\ P[b].heapOnly
      <4>1. <<a, b>> \in Edges(lp, clog)
        BY <1>10, <3>1
      <4>2. b \in From(Edges(lp, clog), a)
        BY <4>1, FromStarts, FromSteps
      <4>3. Normal(lp, b) /\ lp[b].heapOnly
        BY <1>2, <4>1 DEF EdgeInv, EdgesFine
      <4> QED
        BY <1>8, <4>2, <4>3
    <3> QED
      BY <3>1
  <2>2. \A a, b, c \in Off : <<a, c>> \in Edges(P, clog) /\ <<b, c>> \in Edges(P, clog) => a = b
    BY <1>2, <1>10 DEF EdgeInv, EdgesFine
  <2> QED
    BY <1>6, <1>8, <1>10, <2>1, <2>2 DEF IsLeft
<1>12. IsLeft(lp')
  BY <1>3, <1>11
<1>13. \A e \in index : Root(lp', e.off) \/ lp'[e.off] = Dead
  <2>1. ASSUME NEW e \in index
        PROVE  Root(P, e.off) \/ P[e.off] = Dead
    <3>1. e.off \in Off /\ e.off \notin vac.dead
      BY <1>2, <1>5 DEF Types, Entry
    <3> QED
      BY <1>2, <1>6, <1>8, <3>1 DEF IndexInv
  <2> QED
    BY <1>3, <2>1
<1>14. TupleInv' /\ IdsUnique' /\ EdgeInv' /\ Anchored' /\ RowsInv' /\ IndexInv' /\ SeenInv'
  BY <1>1, <1>2, <1>12, <1>13, LeftKeeps
<1>15. PendingInv'
  BY <1>1, <1>12, LeftPending
<1>16. XactInv' /\ SnapInv'
  BY <1>1, Frame
<1>17. VacInv'
  BY <1>1, NoVacIs, VacuumGoesOn DEF NoVacFields
<1>18. ~allVisible
  BY <1>5 DEF IInv, AllVisibleInv
<1>19. allVisible' <=> pg_tde_page_is_all_visible(P)
  BY <1>3, <1>18 DEF lazy_vacuum_pg_tde_page
<1>20. allVisible' \in BOOLEAN
  BY <1>18 DEF lazy_vacuum_pg_tde_page, pg_tde_page_is_all_visible
<1>21. Types'
  BY <1>1, <1>2, <1>3, <1>6, <1>20, NoVacIs DEF Types, NoVacFields
<1>22. AllVisibleInv'
  <2>1. allVisible' =>
          /\ \A o \in Off : P[o] # Dead
          /\ \A o \in Off : Normal(P, o) =>
               /\ clog[P[o].xmin] = "committed" /\ ~Removed(clog, P[o])
               /\ \A r \in Reader : snap[r] # NoSnap => Sees(snap[r], P[o].xmin)
    <3>1. \A o \in Off : Normal(P, o) => Normal(lp, o) /\ P[o] = lp[o]
      BY <1>8
    <3> QED
      BY <1>1, <1>19, <3>1, FoundAllVisible
  <2>2. clog' = clog /\ snap' = snap /\ lp' = P
    BY <1>1, <1>3
  <2> QED
    BY ONLY <2>1, <2>2 DEF AllVisibleInv
<1> QED
  BY <1>14, <1>15, <1>16, <1>17, <1>21, <1>22 DEF IInv

-----------------------------------------------------------------------------
(* The invariant.                                                            *)

\* The invariant holds at the start.
LEMMA InitHolds ==
  ASSUME Init
  PROVE  IInv
<1>0. PICK O \in Loaded : \E key \in [O -> Key] :
        /\ lp = [o \in Off |-> IF o \in O THEN NewTuple(o, 1, key[o], FALSE) ELSE Unused]
        /\ index = {[key |-> key[o], off |-> o] : o \in O}
        /\ rows = {[id |-> o, key |-> key[o]] : o \in O}
        /\ lastId = MaxOff
        /\ pruneXid = None /\ full = FALSE /\ allVisible = FALSE
        /\ clog = [x \in Xid |-> IF x = 1 THEN "committed" ELSE "none"] /\ nextXid = 2
        /\ moving = [x \in Xid |-> None] /\ todo = [x \in Xid |-> NoTodo]
        /\ snap = [r \in Reader |-> NoSnap]
        /\ vac = NoVac
        /\ made = [x \in Xid |-> {}] /\ gone = [x \in Xid |-> {}]
  BY DEF Init
<1>1. PICK key \in [O -> Key] :
        /\ lp = [o \in Off |-> IF o \in O THEN NewTuple(o, 1, key[o], FALSE) ELSE Unused]
        /\ index = {[key |-> key[o], off |-> o] : o \in O}
        /\ rows = {[id |-> o, key |-> key[o]] : o \in O}
        /\ lastId = MaxOff
        /\ pruneXid = None /\ full = FALSE /\ allVisible = FALSE
        /\ clog = [x \in Xid |-> IF x = 1 THEN "committed" ELSE "none"] /\ nextXid = 2
        /\ moving = [x \in Xid |-> None] /\ todo = [x \in Xid |-> NoTodo]
        /\ snap = [r \in Reader |-> NoSnap]
        /\ vac = NoVac
        /\ made = [x \in Xid |-> {}] /\ gone = [x \in Xid |-> {}]
  BY <1>0
<1>2. O \subseteq Off
  BY HeapPageAssumption DEF Off
<1>3. 1 \in Xid /\ Xid \subseteq Nat /\ 2 \in 2..(MaxXid + 1)
  BY Constants DEF Xid
<1>4. \A o \in O : key[o] \in Key /\ o \in IdSet /\ o \in Nat /\ o <= MaxOff
  BY <1>2, Constants, OffNumbers DEF IdSet
<1>5. ASSUME NEW o \in O
      PROVE  /\ lp[o] \in Tuple /\ lp[o].st = "normal" /\ lp[o].id = o /\ lp[o].key = key[o] /\ lp[o].xmin = 1
             /\ lp[o].xmax = None /\ lp[o].heapOnly = FALSE /\ lp[o].hotUpdated = FALSE
             /\ lp[o].lockOnly = FALSE
  <2>1. lp[o] = NewTuple(o, 1, key[o], FALSE)
    BY <1>1, <1>2
  <2>2. o \in 1..(MaxOff + MaxTuples) /\ key[o] \in Key
    BY <1>4 DEF IdSet
  <2> QED
    BY ONLY <1>3, <2>1, <2>2 DEF NewTuple, Tuple, None
<1>6. \A o \in Off : o \notin O => lp[o] = Unused
  BY <1>1
<1>7. \A o \in Off : Normal(lp, o) <=> o \in O
  BY <1>2, <1>5, <1>6, ItemFacts DEF Normal
<1>8. \A o \in Off : lp[o].st # "redirect" /\ lp[o] # Dead
  BY <1>2, <1>5, <1>6, ItemFacts
<1>9. Edges(lp, clog) = {}
  <2>1. \A a, b \in Off : ~Leads(lp, clog, a, b)
    BY <1>5, <1>7, <1>8 DEF Leads, Hot
  <2> QED
    BY <2>1, EdgesAre
<1>10. \A o \in Off : Root(lp, o) <=> o \in O
  BY <1>2, <1>5, <1>7, <1>8 DEF Root, Normal
<1>11. \A o \in Off : \A m \in Chain(lp, clog, o) : m = o /\ o \in O
  <2>1. ASSUME NEW o \in Off, NEW m \in Chain(lp, clog, o)
        PROVE  m = o /\ o \in O
    <3>1. m \in From(Edges(lp, clog), o) /\ Root(lp, o)
      BY <2>1, ChainIs
    <3>2. m = o
      BY <1>9, <3>1, FromEnds
    <3> QED
      BY <1>10, <3>1, <3>2
  <2> QED
    BY <2>1
<1>12. \A r \in Reader : snap[r] = NoSnap
  BY <1>1
<1>13. \A x \in Xid : clog[x] = IF x = 1 THEN "committed" ELSE "none"
  BY <1>1
<1>14. Types
  <2>1. lp \in [Off -> Item]
    <3>1. \A o \in Off : lp[o] \in Item
      BY <1>5, <1>6, ItemFacts
    <3> QED
      BY <1>1, <3>1
  <2>2. index \subseteq Entry
    BY <1>1, <1>2, <1>4 DEF Entry
  <2>3. rows \subseteq RowVersion
    BY <1>1, <1>4 DEF RowVersion, IdSet
  <2>4. snap \in [Reader -> Snapshot \cup {NoSnap}]
    BY <1>1
  <2>5. vac \in Vacuum
    BY <1>1, NoVacIs DEF NoVacFields
  <2>6. clog \in [Xid -> {"none", "running", "committed", "aborted"}] /\ nextXid \in 2..(MaxXid + 1)
    BY <1>1, <1>3
  <2>7. lastId \in MaxOff..(MaxOff + MaxTuples)
    BY <1>1, Constants
  <2>8. moving \in [Xid -> {None} \cup Off] /\ todo \in [Xid -> Entry \cup {NoTodo}]
        /\ made \in [Xid -> SUBSET RowVersion] /\ gone \in [Xid -> SUBSET RowVersion]
    BY <1>1
  <2>9. pruneXid \in {None} \cup Xid /\ full \in BOOLEAN /\ allVisible \in BOOLEAN
    BY <1>1
  <2> QED
    BY <2>1, <2>2, <2>3, <2>4, <2>5, <2>6, <2>7, <2>8, <2>9 DEF Types
<1>15. XactInv
  <2>1. \A x \in Xid : clog[x] = "none" <=> x >= 2
    BY <1>3, <1>13 DEF Xid
  <2> QED
    BY <1>1, <2>1 DEF XactInv
<1>16. SnapInv
  BY <1>12 DEF SnapInv
<1>17. TupleInv
  <2>1. ASSUME NEW o \in Off, Normal(lp, o)
        PROVE  /\ lp[o].id <= lastId /\ clog[lp[o].xmin] # "none" /\ lp[o].xmax = None /\ lp[o].hotUpdated = FALSE
    <3>1. o \in O
      BY <1>7, <2>1
    <3>2. lp[o].id = o /\ lp[o].xmin = 1 /\ lp[o].xmax = None /\ lp[o].hotUpdated = FALSE
      BY <1>5, <3>1
    <3>3. clog[1] # "none"
      BY <1>3, <1>13
    <3> QED
      BY <1>1, <1>4, <3>1, <3>2, <3>3
  <2> QED
    BY <2>1 DEF TupleInv
<1>18. IdsUnique
  <2>1. ASSUME NEW o \in Off, NEW p \in Off, Normal(lp, o), Normal(lp, p), lp[o].id = lp[p].id
        PROVE  o = p
    <3>1. lp[o].id = o /\ lp[p].id = p
      BY <1>5, <1>7, <2>1
    <3> QED
      BY <2>1, <3>1
  <2> QED
    BY <2>1 DEF IdsUnique
<1>19. EdgeInv
  BY <1>9 DEF EdgeInv, EdgesFine
<1>20. Anchored
  BY <1>5, <1>7 DEF Anchored
<1>21. RowsInv
  <2>1. Current(lp, clog) = O
    <3>1. clog[1] = "committed"
      BY <1>3, <1>13
    <3>2. \A o \in O : Normal(lp, o) /\ lp[o].xmin = 1 /\ lp[o].xmax = None
      BY <1>2, <1>5, <1>7
    <3>3. \A o \in O : o \in Current(lp, clog)
      BY <1>2, <3>1, <3>2 DEF Current
    <3>4. \A o \in Current(lp, clog) : o \in O
      BY <1>7 DEF Current
    <3> QED
      BY <3>3, <3>4
  <2>2. \A o \in O : Version(lp, o) = [id |-> o, key |-> key[o]]
    BY <1>5 DEF Version
  <2>3. rows = {Version(lp, o) : o \in Current(lp, clog)}
    BY <1>1, <2>1, <2>2
  <2>4. Running = {}
    BY <1>13 DEF Running
  <2> QED
    BY <2>3, <2>4 DEF RowsInv
<1>22. PendingInv
  BY <1>1 DEF PendingInv
<1>23. IndexInv
  <2>1. \A e \in index : e.off \in O /\ e.key = key[e.off]
    BY <1>1
  <2>2. \A e \in index : /\ Root(lp, e.off) \/ lp[e.off] = Dead
                         /\ \A m \in Chain(lp, clog, e.off) : lp[m].key = e.key
    <3>1. ASSUME NEW e \in index
          PROVE  /\ Root(lp, e.off)
                 /\ \A m \in Chain(lp, clog, e.off) : lp[m].key = e.key
      <4>1. e.off \in O /\ e.off \in Off /\ e.key = key[e.off]
        BY <1>2, <2>1
      <4>2. lp[e.off].key = e.key
        BY <1>5, <4>1
      <4> QED
        BY <1>10, <1>11, <4>1, <4>2
    <3> QED
      BY <3>1
  <2>3. \A o, m \in Off : m \in Chain(lp, clog, o) => [key |-> lp[m].key, off |-> o] \in index
    <3>1. ASSUME NEW o \in Off, NEW m \in Chain(lp, clog, o)
          PROVE  [key |-> lp[m].key, off |-> o] \in index
      <4>1. m = o /\ o \in O
        BY <1>11, <3>1
      <4>2. lp[m].key = key[o]
        BY <1>5, <4>1
      <4> QED
        BY <1>1, <4>1, <4>2
    <3> QED
      BY <3>1
  <2> QED
    BY <2>2, <2>3 DEF IndexInv
<1>24. SeenInv
  BY <1>12 DEF SeenInv
<1>25. VacInv
  BY <1>1, NoVacIs DEF VacInv, NoVacFields
<1>26. AllVisibleInv
  BY <1>1 DEF AllVisibleInv
<1> QED
  BY <1>14, <1>15, <1>16, <1>17, <1>18, <1>19, <1>20, <1>21, <1>22, <1>23, <1>24, <1>25, <1>26 DEF IInv

\* Every step keeps the invariant.
LEMMA NextKeeps ==
  ASSUME IInv, Next
  PROVE  IInv'
<1>1. ASSUME NEW x \in Xid, NEW k \in Key, pg_tde_insert(x, k)
      PROVE  IInv'
  BY <1>1, InsertKeeps
<1>2. ASSUME NEW x \in Xid, NEW o \in Off, pg_tde_delete(x, o)
      PROVE  IInv'
  BY <1>2, DeleteKeeps
<1>3. ASSUME NEW x \in Xid, NEW o \in Off, UpdateLock(x, o)
      PROVE  IInv'
  BY <1>3, UpdateLockKeeps
<1>4. ASSUME NEW x \in Xid, NEW o \in Off, NEW k \in Key, pg_tde_update(x, o, k)
      PROVE  IInv'
  BY <1>4, UpdateKeeps
<1>5. ASSUME NEW x \in Xid, NEW k \in Key, UpdateHere(x, k)
      PROVE  IInv'
  BY <1>5, UpdateHereKeeps
<1>6. ASSUME NEW x \in Xid, UpdateMove(x) \/ InsertIndexEntry(x) \/ Commit(x) \/ Abort(x)
      PROVE  IInv'
  BY <1>6, UpdateMoveKeeps, InsertIndexEntryKeeps, CommitKeeps, AbortKeeps
<1>7. ASSUME NEW r \in Reader, GetSnapshot(r) \/ EndSnapshot(r)
      PROVE  IInv'
  BY <1>7, GetSnapshotKeeps, EndSnapshotKeeps
<1>8. ASSUME NEW e \in index, KillIndexEntry(e)
      PROVE  IInv'
  BY <1>8, KillIndexEntryKeeps
<1>9. CASE AssignTransactionId
  BY <1>9, AssignKeeps
<1>10. CASE pg_tde_page_prune_opt
  BY <1>10, PruneOptKeeps
<1>11. CASE VacuumStart \/ lazy_scan_skip \/ lazy_scan_prune \/ lazy_scan_noprune
  BY <1>11, VacuumStartKeeps, SkipKeeps, ScanPruneKeeps, NopruneKeeps
<1>12. CASE lazy_vacuum_all_indexes \/ BypassIndexes \/ lazy_vacuum_pg_tde_page
  BY <1>12, VacuumIndexesKeeps, BypassKeeps, VacuumPageKeeps
<1> QED
  BY <1>1, <1>2, <1>3, <1>4, <1>5, <1>6, <1>7, <1>8, <1>9, <1>10, <1>11, <1>12 DEF Next

\* So does a step that changes nothing.
LEMMA StutterKeeps ==
  ASSUME IInv, UNCHANGED vars
  PROVE  IInv'
<1>1. UNCHANGED <<lp, pruneXid, full, allVisible, index, clog, nextXid, moving, todo, snap, vac, lastId,
                  rows, made, gone>>
  BY DEF vars, pageVars, xactVars, history
<1>2. Types'
  BY <1>1 DEF IInv, Types
<1> QED
  BY <1>1, <1>2, Frame DEF IInv

\* The invariant holds of every behaviour: it is what pg_tde_prune.c, the writers of
\* pg_tdeam.c, the index fetches and vacuum rely on each other for.
THEOREM Invariance == Spec => []IInv
<1>1. Init => IInv
  BY InitHolds
<1>2. IInv /\ [Next]_vars => IInv'
  BY NextKeeps, StutterKeeps
<1> QED
  BY <1>1, <1>2, PTL DEF Spec

-----------------------------------------------------------------------------
(* What the invariant says of the properties.                                *)

(* Pruning leaves no dead tuple: whichever of the two horizons a tuple was      *)
(* judged by, the later one knows more.                                       *)
LEMMA NoDeadLeft ==
  ASSUME IInv
  PROVE  PruneLeavesNoDead
<1>1. Types /\ XactInv /\ TupleInv /\ EdgeInv /\ Anchored
  BY DEF IInv
<1>2. Horizon \in 1..(MaxXid + 1) /\ \A i \in Int : i <= Horizon <=> IsHorizon(i)
  BY <1>1, HorizonIs
<1>3. Horizon \in Int /\ IsHorizon(Horizon)
  BY <1>2, Constants
<1>4. ASSUME vac.phase = "scan", NEW k \in Off, NEW P,
             P = pg_tde_page_prune_execute(PrunePlan(Seen(vac.oldest, Horizon, k))),
             NEW o \in Off, Normal(P, o)
      PROVE  HTSV(P[o], vac.oldest) # "DEAD"
  <2>1. vac.oldest \in Int /\ IsHorizon(vac.oldest)
    BY <1>1, <1>4, Constants DEF IInv, VacInv, Types, Vacuum
  <2>2. vac.oldest <= Horizon
    BY <1>2, <2>1
  <2>3. IsView(Seen(vac.oldest, Horizon, k))
    BY <1>1, <1>3, <2>1, SeenIsView
  <2>4. /\ IsLeft(P)
        /\ P[o] = lp[o] /\ Seen(vac.oldest, Horizon, k)[o] # "DEAD"
    BY <1>1, <1>4, <2>3, PruneLeaves
  <2>5. Normal(lp, o)
    BY <1>4, <2>4 DEF IsLeft
  <2>6. lp[o] \in Tuple
    BY <1>1, <2>5, NormalTuple DEF Types
  <2>7. HTSV(lp[o], IF o > k THEN vac.oldest ELSE Horizon) # "DEAD"
    BY <2>4, <2>5 DEF Seen
  <2>8. HTSV(lp[o], vac.oldest) = "DEAD" => HTSV(lp[o], Horizon) = "DEAD"
    BY <1>1, <1>3, <2>1, <2>2, <2>6, DeadLater
  <2> QED
    BY <2>4, <2>7, <2>8
<1> QED
  BY <1>4 DEF PruneLeavesNoDead

\* What vacuum has collected is dead.
LEMMA StillDead ==
  ASSUME IInv
  PROVE  CollectedStayDead
<1>1. ASSUME vac.phase \in {"index", "heap"}
      PROVE  vac.dead \subseteq DeadItems(lp) /\ ~allVisible
  <2>1. vac.dead # {} /\ \A o \in vac.dead : lp[o] = Dead
    BY <1>1 DEF IInv, VacInv
  <2>2. vac.dead \subseteq Off
    BY DEF IInv, Types, Vacuum
  <2>3. ~allVisible
    BY <2>1, <2>2 DEF IInv, AllVisibleInv
  <2> QED
    BY <2>1, <2>2, <2>3 DEF DeadItems
<1> QED
  BY <1>1 DEF CollectedStayDead

\* The all-visible bit is true.
LEMMA VisibleToAll ==
  ASSUME IInv
  PROVE  AllVisibleTrue
<1>1. Types /\ EdgeInv
  BY DEF IInv
<1>2. ASSUME allVisible
      PROVE  /\ \A o \in Off : lp[o] # Dead
             /\ \A o \in Off : Normal(lp, o) =>
                  /\ clog[lp[o].xmin] = "committed" /\ ~Removed(clog, lp[o])
                  /\ \A r \in Reader : snap[r] # NoSnap => Sees(snap[r], lp[o].xmin)
  BY <1>2 DEF IInv, AllVisibleInv
<1>3. ASSUME allVisible, NEW r \in Active, NEW o \in Off, Normal(lp, o)
      PROVE  Visible(lp[o], snap[r])
  <2>1. r \in Reader /\ snap[r] # NoSnap
    BY <1>3 DEF Active
  <2>2. Shows(clog, lp[o], snap[r])
    BY <1>2, <1>3, <2>1 DEF Shows, Removed
  <2> QED
    BY <2>2, ShownIsVisible
<1>4. ASSUME allVisible, NEW e \in index
      PROVE  SearchStart(e.off) # None
  <2>1. e.off \in Off
    BY <1>1 DEF Types, Entry
  <2>2. Root(lp, e.off)
    BY <1>2, <1>4, <2>1 DEF IInv, IndexInv
  <2>3. Normal(lp, SearchStart(e.off))
    BY <1>1, <2>1, <2>2, StartIsRoot
  <2> QED
    BY <2>3, OffNumbers DEF Normal
<1> QED
  BY <1>2, <1>3, <1>4 DEF AllVisibleTrue

(* An index fetch under a snapshot that is held returns what it returned when   *)
(* the snapshot was taken.                                                    *)
LEMMA SearchSame ==
  ASSUME IInv, NEW r \in Reader, snap[r] # NoSnap, NEW o \in Off
  PROVE  /\ HotSearch(o, snap[r]) = snap[r].leads[o]
         /\ \A m \in Chain(lp, clog, o) : Visible(lp[m], snap[r]) => HotSearch(o, snap[r]) = lp[m].id
         /\ HotSearch(o, snap[r]) # None =>
              \E m \in Chain(lp, clog, o) : Visible(lp[m], snap[r]) /\ HotSearch(o, snap[r]) = lp[m].id
<1>1. Types /\ EdgeInv
  BY DEF IInv
<1>2. PICK s : s = snap[r]
  OBVIOUS
<1>3. /\ \A m \in Chain(lp, clog, o) : Visible(lp[m], s) => lp[m].id = s.leads[o]
      /\ s.leads[o] # None => \E m \in Chain(lp, clog, o) : Visible(lp[m], s)
  BY <1>2, ShownIsVisible DEF IInv, SeenInv
<1>4. \/ /\ HotSearch(o, s) = None
         /\ \A m \in Chain(lp, clog, o) : ~Visible(lp[m], s)
      \/ \E m \in Chain(lp, clog, o) : Visible(lp[m], s) /\ HotSearch(o, s) = lp[m].id
  BY <1>1, HotSearchFinds
<1> QED
  BY <1>2, <1>3, <1>4

\* Index fetches are stable.
LEMMA LookupsSame ==
  ASSUME IInv
  PROVE  LookupStable
  BY SearchSame DEF LookupStable, Active

\* Sets with a one-to-one map between them have the same size.
LEMMA SameSize ==
  ASSUME NEW S, NEW T, NEW f \in [S -> T], \A a, b \in S : f[a] = f[b] => a = b,
         \A t \in T : \E a \in S : f[a] = t, IsFiniteSet(S) \/ IsFiniteSet(T)
  PROVE  IsFiniteSet(S) /\ IsFiniteSet(T) /\ Cardinality(S) = Cardinality(T)
<1>1. f \in Bijection(S, T)
  BY Fun_IsBij
<1>2. ExistsBijection(S, T)
  BY <1>1 DEF ExistsBijection
<1>3. ExistsBijection(T, S)
  BY <1>2, Fun_ExistsBijSymmetric
<1> QED
  BY <1>2, <1>3, FS_Bijection

(* A version that a snapshot is shown is in the chain of a root that has an    *)
(* entry in the index.                                                        *)
LEMMA ShownIsIndexed ==
  ASSUME IInv, NEW r \in Reader, snap[r] # NoSnap, NEW m \in Off, Normal(lp, m), Visible(lp[m], snap[r])
  PROVE  \E e \in index : e.key = lp[m].key /\ m \in Chain(lp, clog, e.off)
<1>1. Types /\ EdgeInv /\ Anchored /\ TupleInv
  BY DEF IInv
<1>2. Shows(clog, lp[m], snap[r])
  BY ShownIsVisible
<1>3. clog[lp[m].xmin] = "committed"
  BY <1>2 DEF Shows
<1>4. ~Gone(clog, snap, lp[m])
  BY <1>2, CurrentNotGone
<1>5. lp \in [Off -> Item]
  BY <1>1 DEF Types
<1>6. \E o \in Off : m \in Chain(lp, clog, o)
  <2>1. EdgesFine(lp, clog)
    BY <1>1 DEF EdgeInv
  <2>2. \A o \in Off : Normal(lp, o) /\ lp[o].heapOnly /\ clog[lp[o].xmin] # "aborted" =>
          \E a \in Off : <<a, o>> \in Edges(lp, clog)
    BY <1>1 DEF Anchored
  <2> QED
    BY <1>3, <1>5, <2>1, <2>2, HasRoot
<1>7. PICK o \in Off : m \in Chain(lp, clog, o)
  BY <1>6
<1>8. PICK e : e = [key |-> lp[m].key, off |-> o]
  OBVIOUS
<1>9. e \in index \/ (Normal(lp, o) /\ clog[lp[o].xmin] = "running" /\ todo[lp[o].xmin] = e)
  BY <1>4, <1>7, <1>8 DEF IInv, IndexInv
<1>10. ~(Normal(lp, o) /\ clog[lp[o].xmin] = "running")
  <2>1. SUFFICES ASSUME Normal(lp, o), clog[lp[o].xmin] = "running"
                 PROVE  FALSE
    OBVIOUS
  <2> DEFINE S == {q \in Off : Normal(lp, q) /\ clog[lp[q].xmin] = "running"}
  <2>2. \A b, c \in Off : <<b, c>> \in Edges(lp, clog) /\ b \in S => c \in S
    <3>1. ASSUME NEW b \in Off, NEW c \in Off, <<b, c>> \in Edges(lp, clog), b \in S
          PROVE  c \in S
      <4>1. Leads(lp, clog, b, c) /\ Normal(lp, b) /\ clog[lp[b].xmin] = "running"
        BY <3>1, EdgesAre
      <4>2. Normal(lp, c) /\ Hot(clog, lp[b]) /\ lp[b].xmax = lp[c].xmin
        BY <4>1 DEF Leads, Normal
      <4>3. lp[b].xmax # None
        BY <4>2 DEF Hot, Removed
      <4>4. lp[b].xmax = lp[b].xmin
        BY <1>1, <4>1, <4>3 DEF TupleInv
      <4> QED
        BY <4>1, <4>2, <4>4
    <3> QED
      BY <3>1
  <2>3. o \in S
    BY <2>1
  <2>4. Edges(lp, clog) \subseteq Off \X Off
    BY EdgesAre
  <2> HIDE DEF S
  <2>5. From(Edges(lp, clog), o) \subseteq S
    BY <2>2, <2>3, <2>4, FromInduct
  <2>6. m \in From(Edges(lp, clog), o)
    BY <1>7, ChainIs
  <2> QED
    BY <1>3, <2>5, <2>6 DEF S
<1>11. e \in index /\ e.key = lp[m].key /\ e.off = o
  BY <1>8, <1>9, <1>10
<1> QED
  BY <1>7, <1>11

\* Scans find all the rows a snapshot sees, each once.
LEMMA ScansFindAll ==
  ASSUME IInv
  PROVE  ScansExact
<1>1. Types /\ EdgeInv /\ IdsUnique
  BY DEF IInv
<1>2. ASSUME NEW r \in Active, NEW s, s = snap[r]
      PROVE  /\ {[id |-> lp[o].id, key |-> lp[o].key] : o \in Shown(s)} = s.seen
             /\ Cardinality(Shown(s)) = Cardinality(s.seen)
             /\ \A k \in Key :
                  LET seen == {v.id : v \in {u \in s.seen : u.key = k}} IN
                  /\ {HotSearch(e.off, s) : e \in Found(k, s)} = seen
                  /\ Cardinality(Found(k, s)) = Cardinality(seen)
  <2>1. r \in Reader /\ snap[r] # NoSnap
    BY <1>2 DEF Active
  <2>2. Shown(s) \subseteq Off /\ \A o \in Shown(s) : Normal(lp, o) /\ Visible(lp[o], s)
    BY DEF Shown
  <2>3. \A o \in Off : Normal(lp, o) /\ Visible(lp[o], s) => o \in Shown(s)
    BY DEF Shown
  <2>4. s.seen = {Version(lp, o) : o \in Shown(s)}
    <3>1. {p \in Off : Normal(lp, p) /\ Shows(clog, lp[p], s)} = Shown(s)
      BY ShownIsVisible DEF Shown
    <3>2. s.seen = {Version(lp, o) : o \in {p \in Off : Normal(lp, p) /\ Shows(clog, lp[p], s)}}
      BY <1>2, <2>1 DEF IInv, SeenInv
    <3> QED
      BY <3>1, <3>2
  <2>5. {[id |-> lp[o].id, key |-> lp[o].key] : o \in Shown(s)} = s.seen
    BY <2>4 DEF Version
  <2>6. \A o : Version(lp, o).id = lp[o].id /\ Version(lp, o).key = lp[o].key
    BY DEF Version
  <2>7. \A o, p \in Shown(s) : lp[o].id = lp[p].id => o = p
    BY <1>1, <2>2 DEF IdsUnique
  <2>8. Cardinality(Shown(s)) = Cardinality(s.seen)
    <3>1. PICK f : f = [o \in Shown(s) |-> Version(lp, o)]
      OBVIOUS
    <3>2. f \in [Shown(s) -> s.seen] /\ \A o \in Shown(s) : f[o] = Version(lp, o)
      BY <2>4, <3>1
    <3>3. \A a, b \in Shown(s) : f[a] = f[b] => a = b
      BY <2>6, <2>7, <3>2
    <3>4. \A v \in s.seen : \E o \in Shown(s) : f[o] = v
      BY <2>4, <3>2
    <3>5. IsFiniteSet(Shown(s))
      BY <2>2, OffFinite, FS_Subset
    <3> QED
      BY <3>2, <3>3, <3>4, <3>5, SameSize
  <2>9. ASSUME NEW k \in Key, NEW ids, ids = {v.id : v \in {u \in s.seen : u.key = k}}
        PROVE  /\ {HotSearch(e.off, s) : e \in Found(k, s)} = ids
               /\ Cardinality(Found(k, s)) = Cardinality(ids)
    <3>1. \A i : i \in ids <=> \E m \in Shown(s) : lp[m].key = k /\ i = lp[m].id
      BY <2>4, <2>6, <2>9
    <3>2. \A e \in Found(k, s) : e \in index /\ e.key = k /\ e.off \in Off /\ HotSearch(e.off, s) # None
      BY <1>1 DEF Found, Types, Entry
    <3>3. \A e \in index : e.key = k /\ HotSearch(e.off, s) # None => e \in Found(k, s)
      BY DEF Found
    <3>4. ASSUME NEW e \in Found(k, s)
          PROVE  \E m \in Shown(s) : /\ m \in Chain(lp, clog, e.off) /\ lp[m].key = k
                                     /\ HotSearch(e.off, s) = lp[m].id
      <4>1. e \in index /\ e.key = k /\ e.off \in Off /\ HotSearch(e.off, s) # None
        BY <3>2
      <4>2. PICK m \in Chain(lp, clog, e.off) : Visible(lp[m], s) /\ HotSearch(e.off, s) = lp[m].id
        BY <1>2, <2>1, <4>1, SearchSame
      <4>3. m \in Off /\ Normal(lp, m)
        BY <4>1, <4>2, ChainIs
      <4>4. lp[m].key = k
        BY <4>1, <4>2 DEF IInv, IndexInv
      <4> QED
        BY <2>3, <4>2, <4>3, <4>4
    <3>5. ASSUME NEW i \in ids
          PROVE  \E e \in Found(k, s) : HotSearch(e.off, s) = i
      <4>1. PICK m \in Shown(s) : lp[m].key = k /\ i = lp[m].id
        BY <3>1
      <4>2. m \in Off /\ Normal(lp, m) /\ Visible(lp[m], s)
        BY <2>2
      <4>3. PICK e \in index : e.key = lp[m].key /\ m \in Chain(lp, clog, e.off)
        BY <1>2, <2>1, <4>2, ShownIsIndexed
      <4>4. e.off \in Off
        BY <1>1 DEF Types, Entry
      <4>5. HotSearch(e.off, s) = lp[m].id
        BY <1>2, <2>1, <4>2, <4>3, <4>4, SearchSame
      <4>6. lp[m].id # None
        BY <1>1, <4>2, NormalTuple, TupleFields DEF Types
      <4> QED
        BY <3>3, <4>1, <4>3, <4>5, <4>6
    <3>6. {HotSearch(e.off, s) : e \in Found(k, s)} = ids
      <4>1. \A e \in Found(k, s) : HotSearch(e.off, s) \in ids
        BY <3>1, <3>4
      <4> QED
        BY <3>5, <4>1
    <3>7. ASSUME NEW e \in Found(k, s), NEW g \in Found(k, s), HotSearch(e.off, s) = HotSearch(g.off, s)
          PROVE  e = g
      <4>1. PICK m \in Shown(s) : m \in Chain(lp, clog, e.off) /\ HotSearch(e.off, s) = lp[m].id
        BY <3>4
      <4>2. PICK n \in Shown(s) : n \in Chain(lp, clog, g.off) /\ HotSearch(g.off, s) = lp[n].id
        BY <3>4
      <4>3. m = n
        BY <2>7, <3>7, <4>1, <4>2
      <4>4. e.off = g.off
        BY <1>1, <3>2, <4>1, <4>2, <4>3, ChainsApart DEF EdgeInv
      <4>5. e \in Entry /\ g \in Entry /\ e.key = g.key
        BY <1>1, <3>2 DEF Types
      <4> QED
        BY ONLY <4>4, <4>5 DEF Entry
    <3>8. IsFiniteSet(ids)
      <4>1. ids \subseteq 1..(MaxOff + MaxTuples)
        <5>1. \A m \in Shown(s) : lp[m].id \in IdSet
          BY <1>1, <2>2, NormalTuple, TupleFields DEF Types
        <5> QED
          BY <3>1, <5>1 DEF IdSet
      <4>2. IsFiniteSet(1..(MaxOff + MaxTuples))
        BY Constants, FS_Interval
      <4> QED
        BY <4>1, <4>2, FS_Subset
    <3>9. Cardinality(Found(k, s)) = Cardinality(ids)
      <4>1. PICK f : f = [e \in Found(k, s) |-> HotSearch(e.off, s)]
        OBVIOUS
      <4>2. f \in [Found(k, s) -> ids] /\ \A e \in Found(k, s) : f[e] = HotSearch(e.off, s)
        BY <3>6, <4>1
      <4>3. \A e, g \in Found(k, s) : f[e] = f[g] => e = g
        BY <3>7, <4>2
      <4>4. \A i \in ids : \E e \in Found(k, s) : f[e] = i
        BY <3>5, <4>2
      <4> QED
        BY <3>8, <4>2, <4>3, <4>4, SameSize
    <3> QED
      BY <3>6, <3>9
  <2> QED
    BY <2>5, <2>8, <2>9
<1> QED
  BY <1>2 DEF ScansExact

-----------------------------------------------------------------------------
(* The tuples with storage fit on the page.                                  *)

StoredFits == Stored <= Space

\* A step that stores no tuple.
LEMMA StoredStays ==
  ASSUME StoredFits, \A o \in Off : Normal(lp', o) => Normal(lp, o)
  PROVE  StoredFits'
<1> DEFINE A == {o \in Off : Normal(lp, o)}
           B == {o \in Off : Normal(lp', o)}
<1>1. A \subseteq Off /\ B \subseteq A
  OBVIOUS
<1>2. IsFiniteSet(A) /\ IsFiniteSet(B) /\ Cardinality(B) <= Cardinality(A)
  BY <1>1, OffFinite, FS_Subset
<1>3. Cardinality(A) \in Nat /\ Cardinality(B) \in Nat
  BY <1>2, FS_CardinalityType
<1>4. Cardinality(A) <= Space
  BY DEF StoredFits, Stored
<1>5. Cardinality(B) <= Space
  BY <1>2, <1>3, <1>4, Constants
<1> QED
  BY <1>5 DEF StoredFits, Stored

\* A step that stores a tuple where there was room.
LEMMA StoredGrows ==
  ASSUME Fits, NEW q \in Off, \A o \in Off : Normal(lp', o) => Normal(lp, o) \/ o = q
  PROVE  StoredFits'
<1> DEFINE A == {o \in Off : Normal(lp, o)}
           B == {o \in Off : Normal(lp', o)}
<1>1. A \subseteq Off /\ B \subseteq A \cup {q}
  OBVIOUS
<1>2. IsFiniteSet(A)
  BY <1>1, OffFinite, FS_Subset
<1>3. IsFiniteSet(A \cup {q}) /\ Cardinality(A \cup {q}) <= Cardinality(A) + 1
  <2>1. Cardinality(A) \in Nat
    BY <1>2, FS_CardinalityType
  <2>2. /\ IsFiniteSet(A \cup {q})
        /\ Cardinality(A \cup {q}) = IF q \in A THEN Cardinality(A) ELSE Cardinality(A) + 1
    BY <1>2, FS_AddElement
  <2> QED
    BY <2>1, <2>2
<1>4. IsFiniteSet(B) /\ Cardinality(B) <= Cardinality(A \cup {q})
  BY <1>1, <1>3, FS_Subset
<1>5. Cardinality(A) \in Nat /\ Cardinality(B) \in Nat /\ Cardinality(A \cup {q}) \in Nat
  BY <1>2, <1>3, <1>4, FS_CardinalityType
<1>6. Cardinality(A) < Space
  BY DEF Fits, Stored
<1>7. Cardinality(B) <= Space
  BY <1>3, <1>4, <1>5, <1>6, Constants
<1> QED
  BY <1>7 DEF StoredFits, Stored

\* Pruning stores no tuple.
LEMMA PrunedStays ==
  ASSUME StoredFits, NEW p, pg_tde_page_prune(p)
  PROVE  StoredFits'
<1>1. lp' = pg_tde_page_prune_execute(p)
  BY DEF pg_tde_page_prune
<1>2. ASSUME NEW o \in Off, Normal(lp', o)
      PROVE  Normal(lp, o)
  <2>1. lp'[o] = IF o \in p.nowdead THEN Dead
                 ELSE IF o \in p.nowunused THEN Unused
                 ELSE IF \E r \in p.redirected : r[1] = o
                   THEN Redirect((CHOOSE r \in p.redirected : r[1] = o)[2])
                 ELSE lp[o]
    BY <1>1 DEF pg_tde_page_prune_execute
  <2>2. lp'[o].st = "normal"
    BY <1>2 DEF Normal
  <2>3. Dead.st # "normal" /\ Unused.st # "normal" /\ \A q : Redirect(q).st # "normal"
    BY ItemFacts
  <2>4. lp'[o] = lp[o]
    BY <2>1, <2>2, <2>3
  <2> QED
    BY <2>2, <2>4 DEF Normal
<1> QED
  BY <1>2, StoredStays

\* A change of a header stores no tuple.
LEMMA WrittenStays ==
  ASSUME IInv, StoredFits, NEW x \in Xid, NEW o \in Off, Normal(lp, o),
         \A q \in Off : q # o => lp'[q] = lp[q]
  PROVE  StoredFits'
<1>1. \A q \in Off : Normal(lp', q) => Normal(lp, q)
  BY DEF Normal
<1> QED
  BY <1>1, StoredStays

\* A new version on the page fits.
LEMMA PutVersionFits ==
  ASSUME IInv, NEW x \in Xid, NEW o \in Off, NEW k \in Key, Normal(lp, o), PutVersion(x, o, k)
  PROVE  StoredFits'
<1>1. Types
  BY DEF IInv
<1>2. Fits
  BY DEF PutVersion
<1>3. FreeOff \in Off
  BY <1>1, <1>2, FreeOffIs
<1>4. lp' = [lp EXCEPT ![o].xmax = x, ![o].lockOnly = FALSE, ![o].ctid = FreeOff,
                       ![o].hotUpdated = (k = lp[o].key), ![FreeOff] = NewTuple(lastId', x, k, k = lp[o].key)]
  BY Zenon DEF PutVersion
<1>5. \A q \in Off : q # o /\ q # FreeOff => lp'[q] = lp[q]
  <2>1. lp \in [Off -> Item]
    BY <1>1 DEF Types
  <2> QED
    BY ONLY <1>3, <1>4, <2>1, o \in Off, Zenon
<1>6. \A q \in Off : Normal(lp', q) => Normal(lp, q) \/ q = FreeOff
  BY <1>5 DEF Normal
<1> QED
  BY <1>2, <1>3, <1>6, StoredGrows

\* Every step leaves a page on which the tuples fit.
LEMMA NextFits ==
  ASSUME IInv, StoredFits, Next
  PROVE  StoredFits'
<1>1. Types
  BY DEF IInv
<1>2. ASSUME UNCHANGED lp
      PROVE  StoredFits'
  BY <1>2, StoredStays
<1>3. ASSUME NEW x \in Xid, NEW k \in Key, pg_tde_insert(x, k)
      PROVE  StoredFits'
  <2>1. Fits /\ \E t : lp' = [lp EXCEPT ![FreeOff] = t]
    BY <1>3, Zenon DEF pg_tde_insert
  <2>2. FreeOff \in Off
    BY <1>1, <2>1, FreeOffIs
  <2>3. \A q \in Off : q # FreeOff => lp'[q] = lp[q]
    BY <1>1, <2>1 DEF Types
  <2>4. \A q \in Off : Normal(lp', q) => Normal(lp, q) \/ q = FreeOff
    BY <2>3 DEF Normal
  <2> QED
    BY <2>1, <2>2, <2>4, StoredGrows
<1>4. ASSUME NEW x \in Xid, NEW o \in Off, pg_tde_delete(x, o) \/ UpdateLock(x, o)
      PROVE  StoredFits'
  <2>1. Normal(lp, o)
    BY <1>4 DEF pg_tde_delete, UpdateLock, MayModify
  <2>2. \E t : lp' = [lp EXCEPT ![o] = t]
    BY <1>4, Zenon DEF pg_tde_delete, UpdateLock
  <2>3. \A q \in Off : q # o => lp'[q] = lp[q]
    BY <1>1, <2>2 DEF Types
  <2> QED
    BY <2>1, <2>3, WrittenStays
<1>5. ASSUME NEW x \in Xid, NEW o \in Off, NEW k \in Key, pg_tde_update(x, o, k)
      PROVE  StoredFits'
  BY <1>5, PutVersionFits DEF pg_tde_update, MayModify
<1>6. ASSUME NEW x \in Xid, NEW k \in Key, UpdateHere(x, k)
      PROVE  StoredFits'
  <2>1. clog[x] = "running" /\ moving[x] # None /\ PutVersion(x, moving[x], k)
    BY <1>6 DEF UpdateHere
  <2>2. moving[x] \in Off /\ Normal(lp, moving[x])
    BY <2>1, MovingFacts
  <2> QED
    BY <2>1, <2>2, PutVersionFits
<1>7. ASSUME NEW x \in Xid, UpdateMove(x)
      PROVE  StoredFits'
  <2>1. clog[x] = "running" /\ moving[x] # None
    BY <1>7 DEF UpdateMove
  <2>2. moving[x] \in Off /\ Normal(lp, moving[x])
    BY <2>1, MovingFacts
  <2>3. \E t : lp' = [lp EXCEPT ![moving[x]] = t]
    BY <1>7, Zenon DEF UpdateMove
  <2>4. \A q \in Off : q # moving[x] => lp'[q] = lp[q]
    BY <1>1, <2>3 DEF Types
  <2> QED
    BY <2>2, <2>4, WrittenStays
<1>8. ASSUME NEW x \in Xid, InsertIndexEntry(x) \/ Commit(x) \/ Abort(x)
      PROVE  StoredFits'
  BY <1>2, <1>8 DEF InsertIndexEntry, Commit, Abort, pageVars
<1>9. ASSUME NEW r \in Reader, GetSnapshot(r) \/ EndSnapshot(r)
      PROVE  StoredFits'
  BY <1>2, <1>9 DEF GetSnapshot, EndSnapshot, pageVars
<1>10. ASSUME NEW e \in index, KillIndexEntry(e)
       PROVE  StoredFits'
  BY <1>2, <1>10 DEF KillIndexEntry, pageVars
<1>11. CASE AssignTransactionId
  BY <1>2, <1>11 DEF AssignTransactionId, pageVars
<1>12. CASE pg_tde_page_prune_opt \/ lazy_scan_prune
  BY <1>12, PrunedStays DEF pg_tde_page_prune_opt, lazy_scan_prune
<1>13. CASE VacuumStart \/ lazy_scan_skip \/ lazy_scan_noprune \/ lazy_vacuum_all_indexes \/ BypassIndexes
  BY <1>2, <1>13 DEF VacuumStart, lazy_scan_skip, lazy_scan_noprune, lazy_vacuum_all_indexes,
                     BypassIndexes, pageVars
<1>14. CASE lazy_vacuum_pg_tde_page
  <2>1. lp' = [o \in Off |-> IF o \in vac.dead THEN Unused ELSE lp[o]]
    BY <1>14 DEF lazy_vacuum_pg_tde_page
  <2>2. \A o \in Off : Normal(lp', o) => Normal(lp, o)
    BY <2>1, ItemFacts DEF Normal
  <2> QED
    BY <2>2, StoredStays
<1> QED
  BY <1>3, <1>4, <1>5, <1>6, <1>7, <1>8, <1>9, <1>10, <1>11, <1>12, <1>13, <1>14 DEF Next

\* The first page is one.
LEMMA InitFits ==
  ASSUME Init
  PROVE  StoredFits
<1>1. PICK O \in Loaded : \E key \in [O -> Key] :
        lp = [o \in Off |-> IF o \in O THEN NewTuple(o, 1, key[o], FALSE) ELSE Unused]
  BY DEF Init
<1>2. PICK key \in [O -> Key] :
        lp = [o \in Off |-> IF o \in O THEN NewTuple(o, 1, key[o], FALSE) ELSE Unused]
  BY <1>1
<1>3. O \subseteq Off /\ Cardinality(O) <= Space
  BY HeapPageAssumption DEF Off
<1>4. {o \in Off : Normal(lp, o)} = O
  BY <1>2, <1>3, ItemFacts DEF Normal, NewTuple
<1> QED
  BY <1>3, <1>4 DEF StoredFits, Stored

\* What the invariant says of types.
LEMMA TypesHold ==
  ASSUME IInv, StoredFits
  PROVE  TypeOK
<1>1. Types
  BY DEF IInv
<1>2. Cardinality({o \in Off : lp[o].st = "normal"}) <= Space
  <2>1. {o \in Off : lp[o].st = "normal"} = {o \in Off : Normal(lp, o)}
    BY DEF Normal
  <2> QED
    BY <2>1 DEF StoredFits, Stored
<1>3. \A r \in Reader : snap[r].xmax \in 0..(MaxXid + 1)
  <2>1. ASSUME NEW r \in Reader
        PROVE  snap[r].xmax \in 0..(MaxXid + 1)
    <3>1. CASE snap[r] = NoSnap
      BY <3>1, Constants DEF NoSnap
    <3>2. CASE snap[r] # NoSnap
      BY <1>1, <3>2, SnapFields, Constants
    <3> QED
      BY <3>1, <3>2
  <2> QED
    BY <2>1
<1>4. vac.phase \in {"idle", "skip", "scan", "index", "heap"} /\ vac.oldest \in -Lag..(MaxXid + 1)
      /\ vac.vm \in BOOLEAN /\ vac.dead \subseteq Off
  BY <1>1 DEF Types, Vacuum
<1>5. nextXid \in 1..(MaxXid + 1)
  BY <1>1, Constants DEF Types
<1> QED
  BY <1>1, <1>2, <1>3, <1>4, <1>5 DEF Types, TypeOK

-----------------------------------------------------------------------------
(* Theorems.                                                                 *)

\* Type correctness; the tuples with storage fit on the page (PageGetHeapFreeSpace).
THEOREM TypeCorrect == Spec => []TypeOK
<1>1. Init => IInv /\ StoredFits
  BY InitHolds, InitFits
<1>2. IInv /\ StoredFits /\ [Next]_vars => IInv' /\ StoredFits'
  <2>1. IInv /\ StoredFits /\ Next => IInv' /\ StoredFits'
    BY NextKeeps, NextFits
  <2>2. IInv /\ StoredFits /\ UNCHANGED vars => IInv' /\ StoredFits'
    BY StutterKeeps, StoredStays DEF vars, pageVars
  <2> QED
    BY <2>1, <2>2
<1>3. IInv /\ StoredFits => TypeOK
  BY TypesHold
<1> QED
  BY <1>1, <1>2, <1>3, PTL DEF Spec

(* Whatever writers, readers, pruning and vacuum do, and in whatever order: a   *)
(* sequential scan and the index scans of a snapshot (pg_tde_hot_search_buffer) *)
(* find the row versions the snapshot sees, all of them and each once.        *)
THEOREM Scans == Spec => []ScansExact
  BY Invariance, ScansFindAll, PTL

(* An index entry read before leads a snapshot to the same version, or to none, *)
(* after any pruning (pg_tde_prune.c) and vacuum in between.                  *)
THEOREM Lookups == Spec => []LookupStable
  BY Invariance, LookupsSame, PTL

(* Pruning with the vacuum's horizon leaves no dead tuple with storage, even    *)
(* when the horizon moves while heap_prune_satisfies_vacuum looks at the page: *)
(* the retry loop of lazy_scan_prune ends.                                    *)
THEOREM NoRetry == Spec => []PruneLeavesNoDead
  BY Invariance, NoDeadLeft, PTL

(* What lazy_vacuum_pg_tde_page frees is what the scan collected, dead line     *)
(* pointers of a page that is not all-visible.                                *)
THEOREM Collected == Spec => []CollectedStayDead
  BY Invariance, StillDead, PTL

(* A page with the all-visible bit holds nothing that a snapshot does not see. *)
THEOREM AllVisible == Spec => []AllVisibleTrue
  BY Invariance, VisibleToAll, PTL

=============================================================================
