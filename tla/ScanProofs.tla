----------------------------- MODULE ScanProofs -----------------------------
(***************************************************************************)
(* Proofs about Scan: the participants of a parallel scan return each row to *)
(* one of them and together all of them, for any table, any number of        *)
(* participants and any changes by other transactions.                      *)
(***************************************************************************)
EXTENDS Scan, FiniteSetTheorems, FunctionTheorems, SequenceTheorems,
        WellFoundedInduction, TLAPS

-----------------------------------------------------------------------------
(* Offsets in order                                                         *)

Rank(S, o) == Cardinality({p \in S : p <= o})

(* Ranks number the members of a finite set from 1 on, in their order.       *)
LEMMA Ranks ==
  ASSUME NEW S, IsFiniteSet(S), S \subseteq Int
  PROVE  /\ Cardinality(S) \in Nat
         /\ \A a \in S : Rank(S, a) \in 1..Cardinality(S)
         /\ \A a, b \in S : a < b => Rank(S, a) < Rank(S, b)
         /\ \A a, b \in S : Rank(S, a) < Rank(S, b) => a < b
         /\ \A i \in 1..Cardinality(S) : \E a \in S : Rank(S, a) = i
<1> DEFINE Upto(a) == {p \in S : p <= a}
           n == Cardinality(S)
<1>1. n \in Nat
  BY FS_CardinalityType
<1>2. ASSUME NEW a \in S
      PROVE  IsFiniteSet(Upto(a)) /\ Cardinality(Upto(a)) \in 1..n
  <2>1. Upto(a) \in SUBSET S /\ a \in Upto(a)
    OBVIOUS
  <2>2. IsFiniteSet(Upto(a)) /\ Cardinality(Upto(a)) <= n
    BY <2>1, FS_Subset
  <2>3. Cardinality(Upto(a)) \in Nat /\ Cardinality(Upto(a)) # 0
    BY <2>1, <2>2, FS_CardinalityType, FS_EmptySet
  <2> QED
    BY <1>1, <2>2, <2>3
<1>3. ASSUME NEW a \in S, NEW b \in S, a < b
      PROVE  Cardinality(Upto(a)) < Cardinality(Upto(b))
  <2>1. a \in Int /\ b \in Int /\ \A c \in S : c \in Int
    OBVIOUS
  <2>2. \A c \in S : c <= a => c <= b
    BY <1>3, <2>1
  <2>3. b <= b /\ ~(b <= a)
    BY <1>3, <2>1
  <2>4. Upto(a) \in SUBSET Upto(b) /\ b \in Upto(b) /\ b \notin Upto(a)
    BY <2>2, <2>3
  <2>5. Cardinality(Upto(a)) <= Cardinality(Upto(b)) /\ Cardinality(Upto(a)) # Cardinality(Upto(b))
    BY <1>2, <2>4, FS_Subset
  <2>6. Cardinality(Upto(a)) \in Nat /\ Cardinality(Upto(b)) \in Nat
    BY <1>2
  <2> QED
    BY <2>5, <2>6
<1>4. \A a, b \in S : Rank(S, a) < Rank(S, b) => a < b
  <2> SUFFICES ASSUME NEW a \in S, NEW b \in S, Rank(S, a) < Rank(S, b), ~(a < b)
               PROVE  FALSE
    OBVIOUS
  <2>1. a = b \/ b < a
    OBVIOUS
  <2>2. Rank(S, a) \in Nat /\ Rank(S, b) \in Nat
    BY <1>2 DEF Rank
  <2>3. CASE a = b
    BY <2>2, <2>3
  <2>4. CASE b < a
    <3>1. Rank(S, b) < Rank(S, a)
      BY <1>3, <2>4 DEF Rank
    <3> QED
      BY <2>2, <3>1
  <2> QED
    BY <2>1, <2>3, <2>4
<1>5. \A i \in 1..n : \E a \in S : Rank(S, a) = i
  <2> DEFINE f == [a \in S |-> Rank(S, a)]
  <2>1. f \in [S -> 1..n]
    BY <1>2 DEF Rank
  <2>2. \A a, b \in S : f[a] = f[b] => a = b
    <3> SUFFICES ASSUME NEW a \in S, NEW b \in S, Rank(S, a) = Rank(S, b), a # b
                 PROVE  FALSE
      OBVIOUS
    <3>1. a < b \/ b < a
      OBVIOUS
    <3>2. Rank(S, a) \in Nat /\ Rank(S, b) \in Nat
      BY <1>2 DEF Rank
    <3>3. Rank(S, a) < Rank(S, b) \/ Rank(S, b) < Rank(S, a)
      BY <1>3, <3>1 DEF Rank
    <3> QED
      BY <3>2, <3>3
  <2>3. f \in Injection(S, 1..n)
    BY <2>1, <2>2 DEF Injection, IsInjective
  <2>4. IsFiniteSet(1..n) /\ Cardinality(1..n) = n
    <3>1. 1 \in Int /\ n \in Int
      BY <1>1
    <3>2. Cardinality(1..n) = IF 1 > n THEN 0 ELSE n - 1 + 1
      BY <3>1, FS_Interval
    <3> QED
      BY <1>1, <3>1, <3>2, FS_Interval
  <2>5. f \in Surjection(S, 1..n)
    BY <2>3, <2>4, FS_Injection
  <2> QED
    BY <2>5 DEF Surjection
<1> QED
  BY <1>1, <1>2, <1>3, <1>4, <1>5 DEF Rank

(* A set of natural numbers that is not empty has a least one.               *)
LEMMA LeastNatural ==
  ASSUME NEW T, T \subseteq Nat, T # {}
  PROVE  \E x \in T : \A y \in T : x <= y
<1> DEFINE R == OpToRel(<, Nat)
<1>1. IsWellFoundedOn(R, Nat)
  BY NatLessThanWellFounded
<1>2. \A x, y \in Nat : y < x => <<y, x>> \in R
  BY DEF OpToRel
<1> HIDE DEF R
<1>3. PICK x \in T : \A y \in T : ~ (<<y, x>> \in R)
  BY <1>1, WFMin, Zenon
<1>4. \A y \in T : ~(y < x)
  BY <1>2, <1>3, Zenon
<1> QED
  BY <1>4

(* The lines of a page in order.                                             *)
LEMMA OrderedLines ==
  ASSUME NEW S, IsFiniteSet(S), S \subseteq Nat
  PROVE  /\ Cardinality(S) \in Nat
         /\ Ordered(S) \in [1..Cardinality(S) -> S]
         /\ Len(Ordered(S)) = Cardinality(S)
         /\ \A i, j \in 1..Cardinality(S) : i < j => Ordered(S)[i] < Ordered(S)[j]
         /\ \A o \in S : \E i \in 1..Cardinality(S) : Ordered(S)[i] = o
<1> DEFINE n == Cardinality(S)
           v == Ordered(S)
<1>1. S \subseteq Int
  OBVIOUS
<1>2. /\ n \in Nat /\ \A a \in S : Rank(S, a) \in 1..n
      /\ \A a, b \in S : a < b => Rank(S, a) < Rank(S, b)
      /\ \A a, b \in S : Rank(S, a) < Rank(S, b) => a < b
      /\ \A i \in 1..n : \E a \in S : Rank(S, a) = i
  BY <1>1, Ranks
<1>3. v = [i \in 1..n |-> CHOOSE o \in S : Rank(S, o) = i]
  BY DEF Ordered, Rank
<1> HIDE DEF v
<1>4. \A i \in 1..n : v[i] \in S /\ Rank(S, v[i]) = i
  BY <1>2, <1>3
<1>5. v \in [1..n -> S]
  BY <1>3, <1>4
<1>6. Len(v) = n
  BY <1>2, <1>5
<1>7. \A i, j \in 1..n : i < j => v[i] < v[j]
  BY <1>2, <1>4
<1>8. \A o \in S : \E i \in 1..n : v[i] = o
  <2> SUFFICES ASSUME NEW o \in S PROVE \E i \in 1..n : v[i] = o
    OBVIOUS
  <2> DEFINE i == Rank(S, o)
  <2>1. i \in 1..n /\ v[i] \in S /\ Rank(S, v[i]) = i
    BY <1>2, <1>4
  <2>2. Rank(S, o) \in Nat /\ v[i] \in Int /\ o \in Int
    <3>1. Rank(S, o) \in Nat
      BY <1>2
    <3>2. v[i] \in Int
      BY <1>1, <2>1
    <3>3. o \in Int
      BY <1>1
    <3> QED
      BY <3>1, <3>2, <3>3
  <2>3. v[i] < o \/ v[i] = o \/ o < v[i]
    BY <2>2
  <2>4. ~(v[i] < o) /\ ~(o < v[i])
    BY <1>2, <2>1, <2>2
  <2> QED
    BY <2>1, <2>3, <2>4
<1> QED
  BY <1>2, <1>5, <1>6, <1>7, <1>8 DEF v

-----------------------------------------------------------------------------
(* The invariant                                                            *)

Line == {"unused", "lasting", "passing"}
PagesOK == \E n \in Nat : DOMAIN pages = 0..(n - 1) /\ \A b \in 0..(n - 1) : pages[b] \in Seq(Line)

Fields ==
  {"pc", "rs_nblocks", "rs_startblock", "rs_numblocks", "rs_inited", "rs_cblock", "rs_coffset",
   "rs_cindex", "rs_vistuples", "rs_mintid", "rs_maxtid", "block", "dir", "tid", "limit",
   "over", "turned", "fetches"}
ScansOK == DOMAIN sc = Worker /\ \A w \in Worker : DOMAIN sc[w] = Fields
PrmOK ==
  /\ prm \in [mode : {"none", "seq", "range", "tid", "parallel"}, mvcc : BOOLEAN,
              range : {prm.range}, nblocks : Nat]

(* Outside of parallel scans no block is given out.                          *)
SerialOK ==
  prm.mode # "parallel" =>
    /\ taken = {} /\ got = <<>>
    /\ \A w \in Worker : sc[w].pc \in {"closed", "idle", "gettup", "page"}

Lasting(P, b) == {o \in 1..Len(P[b]) : P[b][o] = "lasting"}
Given == {got[i] : i \in DOMAIN got}

(* A participant is on its way to a block, or on it.                         *)
Coming(s, b) == s.pc = "page" /\ s.block = b
On(s, b) == s.rs_inited /\ s.pc \in {"idle", "gettup"} /\ s.rs_cblock = b
Holds(s, b) == Coming(s, b) \/ On(s, b)

(* How far it is on its block: offsets up to Pos are done with.              *)
Pos(m, s) == IF m THEN s.rs_vistuples[s.rs_cindex] ELSE s.rs_coffset
Upto(P, G, b, k) ==
  /\ \A t \in G : t[1] = b => t[2] <= k
  /\ \A o \in Lasting(P, b) : o <= k => <<b, o>> \in G
Place2(m, P, s, b) ==
  IF m THEN /\ s.rs_vistuples = Ordered(Lasting(P, b))
            /\ s.rs_cindex \in 1..Cardinality(Lasting(P, b))
  ELSE s.rs_coffset \in Nat \ {0}
Done(P, G, b) == \A o \in Lasting(P, b) : <<b, o>> \in G

Participant(s, B, T) ==
  /\ s.rs_nblocks = B /\ s.rs_numblocks = All /\ s.rs_startblock = 0
  /\ s.pc \in {"idle", "gettup", "nextpage", "page"} /\ s.rs_inited \in BOOLEAN /\ s.over \in BOOLEAN
  /\ s.pc # "idle" => s.dir = 1
  /\ s.pc \in {"nextpage", "page"} => s.rs_inited
  /\ s.over => s.pc = "idle" /\ ~s.rs_inited /\ 0..(B - 1) \subseteq T
Local(m, P, G, B, T, s) ==
  /\ Participant(s, B, T)
  /\ \A b : Holds(s, b) => b \in T
  /\ \A b : Coming(s, b) => \A t \in G : t[1] # b
  /\ \A b : On(s, b) => Place2(m, P, s, b) /\ Upto(P, G, b, Pos(m, s))

GotOK(G, T) == \A t \in G : t \in Int \X Nat /\ t[1] \in T
ParallelOK ==
  prm.mode = "parallel" =>
    /\ 0..(prm.nblocks - 1) \subseteq DOMAIN pages /\ taken \subseteq 0..(prm.nblocks - 1)
    /\ got \in Seq(Int \X Nat) /\ GotOK(Given, taken)
    /\ \A i, j \in DOMAIN got : got[i] = got[j] => i = j
    /\ \A w \in Worker : Local(prm.mvcc, pages, Given, prm.nblocks, taken, sc[w])
    /\ \A v, w \in Worker, b \in taken : Holds(sc[v], b) /\ Holds(sc[w], b) => v = w
    /\ \A b \in taken : (\E w \in Worker : Holds(sc[w], b)) \/ Done(pages, Given, b)

ScanInv == PagesOK /\ ScansOK /\ PrmOK /\ SerialOK /\ ParallelOK

(* The lasting tuples of a page are finitely many.                           *)
LEMMA LastingFinite ==
  ASSUME NEW P, NEW b, P[b] \in Seq(Line)
  PROVE  IsFiniteSet(Lasting(P, b)) /\ Lasting(P, b) \subseteq Nat
<1>1. Len(P[b]) \in Nat
  BY LenProperties
<1>2. IsFiniteSet(1..Len(P[b])) /\ Lasting(P, b) \in SUBSET (1..Len(P[b]))
  BY <1>1, FS_Interval DEF Lasting
<1>3. IsFiniteSet(Lasting(P, b))
  BY <1>2, FS_Subset
<1> QED
  BY <1>2, <1>3

-----------------------------------------------------------------------------
(* A participant looks at the lines of its block from cur + 1 on, having     *)
(* been done with those up to cur: it finds the next tuple the snapshot      *)
(* sees, or leaves the block, with no lasting tuple left.                    *)

Before(m, s, cur) == IF cur = 0 THEN 0 ELSE IF m THEN s.rs_vistuples[cur] ELSE cur

Lines(s, b) == IF prm.mvcc THEN Len(s.rs_vistuples) ELSE Len(pages[b])
Looking(G, s, b, cur, lines) ==
  /\ DOMAIN s = Fields /\ s.rs_cblock = b
  /\ prm.mvcc => s.rs_vistuples = Ordered(Lasting(pages, b)) /\ cur <= Lines(s, b)
  /\ cur \in Nat /\ Upto(pages, G, b, Before(prm.mvcc, s, cur))
  /\ lines.from = cur + 1 /\ lines.left = Lines(s, b) - cur
Ahead(G, s, b, cur, line, o) ==
  /\ OffsetAt(s, line) = o /\ o > Before(prm.mvcc, s, cur) /\ o > 0
  /\ Before(prm.mvcc, s, cur) \in Nat
  /\ line > 0 /\ (prm.mvcc => line <= Lines(s, b))
  /\ \A p \in Lasting(pages, b) : p < o => <<b, p>> \in G

LEMMA Lookup ==
  ASSUME PrmOK, prm.mode = "parallel", NEW b \in DOMAIN pages, pages[b] \in Seq(Line),
         NEW G, NEW s, NEW cur, NEW lines, Looking(G, s, b, cur, lines)
  PROVE  \/ Look(s, lines, 1) = [s EXCEPT !.pc = "nextpage"] /\ Done(pages, G, b)
         \/ \E line, o \in Nat : Look(s, lines, 1) = Found(s, line, 1) /\ Ahead(G, s, b, cur, line, o)
<1> DEFINE n == Lines(s, b)
           hits == Hits(s, lines, 1)
           L == Lasting(pages, b)
           off(k) == OffsetAt(s, cur + 1 + k)
<1>0. /\ DOMAIN s = Fields /\ s.rs_cblock = b
      /\ n = IF prm.mvcc THEN Len(s.rs_vistuples) ELSE Len(pages[b])
      /\ prm.mvcc => s.rs_vistuples = Ordered(L) /\ cur <= n
      /\ cur \in Nat /\ Upto(pages, G, b, Before(prm.mvcc, s, cur))
      /\ lines.from = cur + 1 /\ lines.left = n - cur
  BY DEF Looking, Lines
<1> HIDE DEF n
<1> USE <1>0
<1>1. /\ Len(pages[b]) \in Nat /\ IsFiniteSet(L) /\ L \subseteq Nat /\ Cardinality(L) \in Nat
      /\ L \subseteq 1..Len(pages[b]) /\ IsFiniteSet(1..Len(pages[b]))
  <2>1. Len(pages[b]) \in Nat
    BY LenProperties
  <2>2. IsFiniteSet(1..Len(pages[b]))
    BY <2>1, FS_Interval
  <2>3. L \in SUBSET (1..Len(pages[b]))
    BY DEF Lasting
  <2>4. IsFiniteSet(L)
    BY <2>2, <2>3, FS_Subset
  <2> QED
    BY <2>1, <2>2, <2>3, <2>4, FS_CardinalityType
<1>2. /\ n \in Nat
      /\ prm.mvcc => /\ n = Cardinality(L) /\ s.rs_vistuples \in [1..n -> L]
                     /\ \A i, j \in 1..n : i < j => s.rs_vistuples[i] < s.rs_vistuples[j]
                     /\ \A o \in L : \E i \in 1..n : s.rs_vistuples[i] = o
  <2> HIDE DEF L
  <2>1. /\ Ordered(L) \in [1..Cardinality(L) -> L] /\ Len(Ordered(L)) = Cardinality(L)
        /\ \A i, j \in 1..Cardinality(L) : i < j => Ordered(L)[i] < Ordered(L)[j]
        /\ \A o \in L : \E i \in 1..Cardinality(L) : Ordered(L)[i] = o
    BY <1>1, OrderedLines
  <2>2. prm.mvcc => s.rs_vistuples = Ordered(L) /\ n = Cardinality(L)
    BY <2>1 DEF L
  <2>3. ~prm.mvcc => n = Len(pages[b])
    OBVIOUS
  <2> QED
    BY <1>1, <2>1, <2>2, <2>3
<1>3. prm.mvcc \in BOOLEAN
  BY DEF PrmOK
<1>4. hits = {k \in 0..(n - cur - 1) : Visible(b, off(k))}
  BY <1>2 DEF Hits
<1>5. n - cur - 1 \in Int /\ \A k \in 0..(n - cur - 1) : k \in Nat /\ cur + 1 + k \in 1..n
  BY <1>2
<1>6. ASSUME NEW k \in 0..(n - cur - 1)
      PROVE  off(k) \in Nat /\ off(k) > 0 /\ off(k) > Before(prm.mvcc, s, cur)
  <2>1. cur + 1 + k \in 1..n /\ cur < cur + 1 + k
    BY <1>5
  <2>2. CASE prm.mvcc
    <3>1. off(k) = s.rs_vistuples[cur + 1 + k] /\ off(k) \in L
      BY <1>2, <2>1, <2>2 DEF OffsetAt
    <3>2. off(k) \in Nat /\ off(k) > 0
      BY <1>1, <3>1
    <3>3. cur # 0 => s.rs_vistuples[cur] < off(k)
      BY <1>2, <2>1, <2>2, <3>1
    <3> QED
      BY <2>2, <3>2, <3>3 DEF Before
  <2>3. CASE ~prm.mvcc
    BY <2>1, <2>3 DEF OffsetAt, Before
  <2> QED
    BY <2>2, <2>3
<1>7. ASSUME NEW p \in L, ~(p <= Before(prm.mvcc, s, cur))
      PROVE  \E k \in 0..(n - cur - 1) : off(k) = p /\ Visible(b, off(k))
  <2>1. p \in Nat /\ p \in 1..Len(pages[b]) /\ pages[b][p] = "lasting"
    BY <1>1 DEF Lasting
  <2>2. CASE prm.mvcc
    <3>1. PICK i \in 1..n : s.rs_vistuples[i] = p
      BY <1>2, <2>2
    <3>2. i > cur
      <4> SUFFICES ASSUME ~(i > cur) PROVE FALSE
        OBVIOUS
      <4>1. cur \in 1..n /\ (i = cur \/ i < cur)
        BY <1>2, <2>2, <3>1
      <4>2. s.rs_vistuples[cur] \in Nat
        BY <1>1, <1>2, <2>2, <4>1
      <4>3. p <= s.rs_vistuples[cur]
        BY <1>2, <2>1, <2>2, <3>1, <4>1, <4>2
      <4> QED
        BY <1>7, <2>2, <4>1, <4>3 DEF Before
    <3>3. i - cur - 1 \in 0..(n - cur - 1) /\ cur + 1 + (i - cur - 1) = i
      BY <1>2, <3>1, <3>2
    <3>4. off(i - cur - 1) = p
      BY <2>2, <3>1, <3>3 DEF OffsetAt
    <3> QED
      BY <2>1, <3>3, <3>4 DEF Visible
  <2>3. CASE ~prm.mvcc
    <3>1. p > cur /\ n = Len(pages[b])
      BY <1>7, <2>1, <2>3 DEF Before
    <3>2. p - cur - 1 \in 0..(n - cur - 1) /\ cur + 1 + (p - cur - 1) = p
      BY <2>1, <3>1
    <3>3. off(p - cur - 1) = p
      BY <2>3, <3>2 DEF OffsetAt
    <3> QED
      BY <2>1, <3>2, <3>3 DEF Visible
  <2> QED
    BY <2>2, <2>3
<1>8. CASE hits = {}
  <2>1. Look(s, lines, 1) = [s EXCEPT !.pc = "nextpage"]
    BY <1>8 DEF Look, Onwards
  <2>2. \A p \in L : p <= Before(prm.mvcc, s, cur)
    BY <1>4, <1>7, <1>8
  <2> QED
    BY <2>1, <2>2 DEF Done, Upto
<1>9. CASE hits # {}
  <2> DEFINE k == Min(hits)
  <2>1. k \in hits /\ \A j \in hits : k <= j
    <3>1. hits \subseteq Nat
      BY <1>4, <1>5
    <3>2. \E j \in hits : \A i \in hits : j <= i
      BY <1>9, <3>1, LeastNatural
    <3> HIDE DEF hits
    <3> QED
      BY <3>2 DEF Min
  <2> HIDE DEF k
  <2>2. k \in 0..(n - cur - 1) /\ k \in Nat
    BY <1>4, <1>5, <2>1
  <2> DEFINE line == cur + 1 + k
             o == off(k)
  <2>3. line \in Nat /\ line > 0 /\ line <= n
    BY <1>2, <1>5, <2>2
  <2>4. o \in Nat /\ o > 0 /\ o > Before(prm.mvcc, s, cur)
    BY <1>6, <2>2
  <2>5. Look(s, lines, 1) = Found(s, line, 1)
    BY <1>9, <2>2 DEF Look, k
  <2>6. ASSUME NEW p \in L, p < o, ~(p <= Before(prm.mvcc, s, cur))
        PROVE  FALSE
    <3>1. PICK j \in 0..(n - cur - 1) : off(j) = p /\ Visible(b, off(j))
      BY <1>7, <2>6
    <3>2. j \in hits /\ k <= j
      BY <1>4, <2>1, <3>1
    <3>3. off(k) <= off(j)
      <4>1. k = j \/ k < j
        BY <2>2, <3>2
      <4>2. CASE prm.mvcc /\ k < j
        <5>1. cur + 1 + k \in 1..n /\ cur + 1 + j \in 1..n /\ cur + 1 + k < cur + 1 + j
          BY <1>5, <2>2, <4>2
        <5>2. /\ off(k) = s.rs_vistuples[cur + 1 + k] /\ off(j) = s.rs_vistuples[cur + 1 + j]
          BY <4>2 DEF OffsetAt
        <5> QED
          <6>1. off(k) < off(j)
            BY <1>2, <4>2, <5>1, <5>2
          <6>2. off(k) \in Nat /\ off(j) \in Nat
            BY <1>6, <2>2
          <6> QED
            BY <6>1, <6>2
      <4>3. CASE ~prm.mvcc /\ k < j
        BY <2>2, <4>3 DEF OffsetAt
      <4>4. CASE k = j
        <5>1. off(k) \in Nat
          BY <1>6, <2>2
        <5> QED
          BY <4>4, <5>1
      <4> QED
        BY <4>1, <4>2, <4>3, <4>4
    <3>4. p \in Nat
      BY <1>1
    <3> QED
      BY <2>4, <2>6, <3>1, <3>3, <3>4
  <2>7. \A p \in L : p < o => <<b, p>> \in G
    BY <2>6 DEF Upto
  <2>8. OffsetAt(s, line) = o
    OBVIOUS
  <2>9. Before(prm.mvcc, s, cur) \in Nat
    <3>1. prm.mvcc /\ cur # 0 => s.rs_vistuples[cur] \in L
      BY <1>2
    <3> QED
      BY <1>1, <3>1 DEF Before
  <2>10. Ahead(G, s, b, cur, line, o)
    BY <2>3, <2>4, <2>7, <2>8, <2>9 DEF n, L, Ahead
  <2> HIDE DEF line, o
  <2> QED
    BY <2>3, <2>4, <2>5, <2>10
<1> QED
  BY <1>8, <1>9

-----------------------------------------------------------------------------
(* What a step leaves alone                                                 *)

(* More blocks given out do not touch a participant.                         *)
LEMMA LocalGrows ==
  ASSUME NEW m, NEW P, NEW G, NEW B, NEW T, NEW U, NEW s, T \subseteq U, Local(m, P, G, B, T, s)
  PROVE  Local(m, P, G, B, U, s)
<1>1. Participant(s, B, U)
  BY DEF Local, Participant
<1>2. \A b : Holds(s, b) => b \in U
  BY DEF Local
<1> QED
  BY <1>1, <1>2 DEF Local

(* Nor does a tuple returned from a block of another one.                    *)
LEMMA LocalReturned ==
  ASSUME NEW m, NEW P, NEW G, NEW B, NEW T, NEW s, NEW t, Local(m, P, G, B, T, s), ~Holds(s, t[1])
  PROVE  Local(m, P, G \cup {t}, B, T, s)
<1>1. \A b : Coming(s, b) => \A u \in G \cup {t} : u[1] # b
  BY DEF Local, Holds
<1>2. ASSUME NEW b, On(s, b) PROVE Place2(m, P, s, b) /\ Upto(P, G \cup {t}, b, Pos(m, s))
  <2>1. Place2(m, P, s, b) /\ Upto(P, G, b, Pos(m, s)) /\ t[1] # b
    BY <1>2 DEF Local, Holds
  <2> QED
    BY <2>1 DEF Upto
<1> QED
  BY <1>1, <1>2 DEF Local

(* Nor do changes of pages that keep the lasting tuples.                     *)
LEMMA LocalKept ==
  ASSUME NEW m, NEW P, NEW Q, NEW G, NEW B, NEW T, NEW s, Local(m, P, G, B, T, s),
         \A b \in T : Lasting(Q, b) = Lasting(P, b)
  PROVE  Local(m, Q, G, B, T, s)
<1>1. ASSUME NEW b, On(s, b) PROVE Place2(m, Q, s, b) /\ Upto(Q, G, b, Pos(m, s))
  <2>1. Place2(m, P, s, b) /\ Upto(P, G, b, Pos(m, s)) /\ b \in T
    BY <1>1 DEF Local, Holds
  <2> QED
    BY <2>1 DEF Upto, Place2
<1> QED
  BY <1>1 DEF Local

-----------------------------------------------------------------------------
(* Steps of a participant                                                   *)

(* A step of w that returns nothing.                                        *)
LEMMA Silent ==
  ASSUME ScanInv, prm.mode = "parallel", NEW w \in Worker, NEW s, DOMAIN s = Fields,
         Returned(w, s), s.pc = "idle" => s.tid = NoTid,
         taken \subseteq taken', taken' \subseteq 0..(prm.nblocks - 1),
         Local(prm.mvcc, pages, Given, prm.nblocks, taken', s),
         \A b \in taken', v \in Worker : Holds(s, b) /\ Holds(sc[v], b) => v = w,
         \A b \in taken' : \/ Holds(s, b) \/ Done(pages, Given, b)
                           \/ b \in taken /\ ~Holds(sc[w], b)
  PROVE  ScanInv'
<1>1. /\ pages' = pages /\ prm' = prm /\ got' = got /\ sc' = [sc EXCEPT ![w] = s]
      /\ DOMAIN sc = Worker
  BY DEF Returned, ScanInv, ScansOK
<1>2. /\ DOMAIN sc' = Worker /\ sc'[w] = s
      /\ \A v \in Worker : v # w => sc'[v] = sc[v]
  BY <1>1
<1>3. PagesOK' /\ PrmOK' /\ SerialOK'
  BY <1>1 DEF ScanInv, PagesOK, PrmOK, SerialOK
<1>4. ScansOK'
  BY <1>1, <1>2 DEF ScanInv, ScansOK
<1>5. /\ 0..(prm.nblocks - 1) \subseteq DOMAIN pages
      /\ got \in Seq(Int \X Nat) /\ GotOK(Given, taken)
      /\ \A i, j \in DOMAIN got : got[i] = got[j] => i = j
      /\ \A v \in Worker : Local(prm.mvcc, pages, Given, prm.nblocks, taken, sc[v])
      /\ \A u, v \in Worker, b \in taken : Holds(sc[u], b) /\ Holds(sc[v], b) => u = v
      /\ \A b \in taken : (\E v \in Worker : Holds(sc[v], b)) \/ Done(pages, Given, b)
  BY DEF ScanInv, ParallelOK
<1>6. Given' = Given /\ GotOK(Given, taken')
  BY <1>1, <1>5 DEF Given, GotOK
<1>7. \A v \in Worker : Local(prm.mvcc, pages, Given, prm.nblocks, taken', sc'[v])
  BY <1>2, <1>5, LocalGrows
<1>8. ASSUME NEW u \in Worker, NEW v \in Worker, NEW b \in taken', Holds(sc'[u], b), Holds(sc'[v], b)
      PROVE  u = v
  <2>1. CASE u # w /\ v # w
    <3>1. Holds(sc[u], b) /\ Holds(sc[v], b)
      BY <1>2, <1>8, <2>1
    <3>2. b \in taken
      BY <1>5, <3>1 DEF Local
    <3> QED
      BY <1>5, <3>1, <3>2
  <2> QED
    BY <1>2, <1>8, <2>1
<1>9. ASSUME NEW b \in taken', ~Done(pages, Given, b)
      PROVE  \E v \in Worker : Holds(sc'[v], b)
  <2>1. CASE Holds(s, b)
    BY <1>2, <2>1
  <2>2. CASE b \in taken /\ ~Holds(sc[w], b)
    <3>1. PICK v \in Worker : Holds(sc[v], b)
      BY <1>5, <1>9, <2>2
    <3> QED
      BY <1>2, <2>2, <3>1
  <2> QED
    BY <1>9, <2>1, <2>2
<1>10. ParallelOK'
  <2>1. \A u, v \in Worker, b \in taken' : Holds(sc'[u], b) /\ Holds(sc'[v], b) => u = v
    BY <1>8
  <2>2. \A b \in taken' : (\E v \in Worker : Holds(sc'[v], b)) \/ Done(pages, Given, b)
    BY <1>9
  <2> QED
    BY <1>1, <1>5, <1>6, <1>7, <2>1, <2>2 DEF ParallelOK
<1> QED
  BY <1>3, <1>4, <1>10 DEF ScanInv

(* A step of w that returns the tuple at line o of its block b.              *)
LEMMA Return ==
  ASSUME ScanInv, prm.mode = "parallel", NEW w \in Worker, NEW s, DOMAIN s = Fields,
         NEW b \in taken, NEW o \in Nat, o > 0,
         Returned(w, s), s.pc = "idle", s.tid = <<b, o>>, taken' = taken,
         \A c : Holds(sc[w], c) <=> c = b,
         Holds(s, b), Local(prm.mvcc, pages, Given \cup {<<b, o>>}, prm.nblocks, taken, s),
         <<b, o>> \notin Given
  PROVE  ScanInv'
<1> DEFINE t == <<b, o>>
<1>1. /\ pages' = pages /\ prm' = prm /\ sc' = [sc EXCEPT ![w] = s]
      /\ DOMAIN sc = Worker /\ got' = Append(got, t)
  <2>1. t # NoTid
    BY DEF NoTid
  <2> QED
    BY <2>1 DEF Returned, ScanInv, ScansOK
<1>2. /\ DOMAIN sc' = Worker /\ sc'[w] = s
      /\ \A v \in Worker : v # w => sc'[v] = sc[v]
  BY <1>1
<1>3. PagesOK' /\ PrmOK' /\ SerialOK'
  BY <1>1 DEF ScanInv, PagesOK, PrmOK, SerialOK
<1>4. ScansOK'
  BY <1>1, <1>2 DEF ScanInv, ScansOK
<1>5. /\ 0..(prm.nblocks - 1) \subseteq DOMAIN pages /\ taken \subseteq 0..(prm.nblocks - 1)
      /\ got \in Seq(Int \X Nat) /\ GotOK(Given, taken)
      /\ \A i, j \in DOMAIN got : got[i] = got[j] => i = j
      /\ \A v \in Worker : Local(prm.mvcc, pages, Given, prm.nblocks, taken, sc[v])
      /\ \A u, v \in Worker, c \in taken : Holds(sc[u], c) /\ Holds(sc[v], c) => u = v
      /\ \A c \in taken : (\E v \in Worker : Holds(sc[v], c)) \/ Done(pages, Given, c)
  BY DEF ScanInv, ParallelOK
<1>6. t \in Int \X Nat /\ prm.nblocks \in Nat
  BY <1>5 DEF ScanInv, PrmOK
<1>7. /\ got' \in Seq(Int \X Nat) /\ DOMAIN got' = DOMAIN got \cup {Len(got) + 1}
      /\ \A i \in DOMAIN got : got'[i] = got[i] /\ i # Len(got) + 1
      /\ got'[Len(got) + 1] = t
  BY <1>1, <1>5, <1>6
<1>8. Given' = Given \cup {t}
  BY <1>7 DEF Given
<1>9. \A i, j \in DOMAIN got' : got'[i] = got'[j] => i = j
  <2>1. \A i \in DOMAIN got : got[i] # t
    BY DEF Given
  <2> HIDE DEF t
  <2> QED
    BY <1>5, <1>7, <2>1
<1>10. GotOK(Given', taken)
  BY <1>5, <1>6, <1>8 DEF GotOK
<1>11. ASSUME NEW v \in Worker
       PROVE  Local(prm.mvcc, pages, Given', prm.nblocks, taken, sc'[v])
  <2>1. CASE v = w
    BY <1>2, <1>8, <2>1
  <2>2. CASE v # w
    <3>1. ~Holds(sc[v], t[1]) /\ Local(prm.mvcc, pages, Given, prm.nblocks, taken, sc[v])
      BY <1>5, <2>2
    <3> HIDE DEF t
    <3>2. Local(prm.mvcc, pages, Given \cup {t}, prm.nblocks, taken, sc[v])
      BY <3>1, LocalReturned
    <3> QED
      BY <1>2, <1>8, <2>2, <3>2
  <2> QED
    BY <2>1, <2>2
<1>12. \A c : Holds(s, c) => c = b
  BY DEF Holds, Coming, On
<1>13. ASSUME NEW v \in Worker, NEW c PROVE Holds(sc'[v], c) <=> Holds(sc[v], c)
  BY <1>2, <1>12
<1>14. \A c \in taken : Done(pages, Given, c) => Done(pages, Given', c)
  BY <1>8 DEF Done
<1>15. ParallelOK'
  <2>1. \A u, v \in Worker, c \in taken : Holds(sc'[u], c) /\ Holds(sc'[v], c) => u = v
    BY <1>5, <1>13
  <2>2. \A c \in taken : (\E v \in Worker : Holds(sc'[v], c)) \/ Done(pages, Given', c)
    BY <1>5, <1>13, <1>14
  <2> QED
    BY <1>1, <1>5, <1>7, <1>9, <1>10, <1>11, <2>1, <2>2 DEF ParallelOK
<1> QED
  BY <1>3, <1>4, <1>15 DEF ScanInv

(* A participant that looks at the lines of its block, done with those up to *)
(* cur: s is its descriptor, with the page read.                             *)
LEMMA Looks ==
  ASSUME ScanInv, prm.mode = "parallel", NEW w \in Worker, NEW s, DOMAIN s = Fields,
         NEW b \in taken, s.rs_cblock = b, s.rs_inited, s.dir = 1,
         Participant(s, prm.nblocks, taken), s.pc # "idle", ~s.over,
         NEW cur, NEW lines, Looking(Given, s, b, cur, lines),
         \A c : Holds(sc[w], c) <=> c = b,
         Returned(w, Look(s, lines, 1)), taken' = taken
  PROVE  ScanInv'
<1>1. /\ 0..(prm.nblocks - 1) \subseteq DOMAIN pages /\ taken \subseteq 0..(prm.nblocks - 1)
      /\ GotOK(Given, taken) /\ PrmOK /\ PagesOK /\ prm.mvcc \in BOOLEAN
      /\ \A u, v \in Worker, c \in taken : Holds(sc[u], c) /\ Holds(sc[v], c) => u = v
  BY DEF ScanInv, ParallelOK, PrmOK
<1>2. b \in DOMAIN pages /\ pages[b] \in Seq(Line)
  BY <1>1 DEF PagesOK
<1>3. \/ Look(s, lines, 1) = [s EXCEPT !.pc = "nextpage"] /\ Done(pages, Given, b)
      \/ \E line, o \in Nat : Look(s, lines, 1) = Found(s, line, 1) /\ Ahead(Given, s, b, cur, line, o)
  BY <1>1, <1>2, Lookup
<1>4. CASE Look(s, lines, 1) = [s EXCEPT !.pc = "nextpage"] /\ Done(pages, Given, b)
  <2> DEFINE r == [s EXCEPT !.pc = "nextpage"]
  <2>1. DOMAIN r = Fields /\ r.pc = "nextpage" /\ \A c : ~Holds(r, c) /\ ~On(r, c) /\ ~Coming(r, c)
    BY DEF Fields, Holds, On, Coming
  <2>2. Participant(r, prm.nblocks, taken)
    BY DEF Participant, Fields
  <2>3. Local(prm.mvcc, pages, Given, prm.nblocks, taken, r)
    BY <2>1, <2>2 DEF Local
  <2>4. \A c \in taken : Done(pages, Given, c) \/ ~Holds(sc[w], c)
    BY <1>4
  <2>5. Returned(w, r)
    BY <1>4
  <2> HIDE DEF r
  <2> QED
    BY <1>1, <2>1, <2>3, <2>4, <2>5, Silent
<1>5. ASSUME NEW line \in Nat, NEW o \in Nat,
             Look(s, lines, 1) = Found(s, line, 1),
             Ahead(Given, s, b, cur, line, o)
      PROVE  ScanInv'
  <2> DEFINE r == Found(s, line, 1)
             H == Given \cup {<<b, o>>}
  <2>0. /\ OffsetAt(s, line) = o /\ o > Before(prm.mvcc, s, cur) /\ o > 0
        /\ Before(prm.mvcc, s, cur) \in Nat
        /\ line > 0 /\ (prm.mvcc => line <= Lines(s, b))
        /\ \A p \in Lasting(pages, b) : p < o => <<b, p>> \in Given
        /\ s.rs_cblock = b
        /\ prm.mvcc => s.rs_vistuples = Ordered(Lasting(pages, b))
        /\ Upto(pages, Given, b, Before(prm.mvcc, s, cur))
    BY <1>5 DEF Ahead, Looking
  <2>1. r = [s EXCEPT !.rs_coffset = IF prm.mvcc THEN @ ELSE line,
                      !.rs_cindex = IF prm.mvcc THEN line ELSE @,
                      !.pc = "idle", !.tid = <<b, o>>, !.over = FALSE, !.fetches = 1 - @]
    BY <2>0 DEF Found, Filter
  <2> HIDE DEF r
  <2>2. DOMAIN r = Fields /\ r.pc = "idle" /\ r.tid = <<b, o>>
    BY <2>1 DEF Fields
  <2>3. /\ r.rs_inited /\ r.rs_cblock = b /\ r.rs_vistuples = s.rs_vistuples
        /\ prm.mvcc => r.rs_cindex = line
        /\ ~prm.mvcc => r.rs_coffset = line
    BY <2>1 DEF Fields
  <2>4. Pos(prm.mvcc, r) = o
    BY <2>0, <2>3 DEF Pos, OffsetAt
  <2>5. Participant(r, prm.nblocks, taken)
    BY <2>1 DEF Participant, Fields
  <2>6. \A c : ~Coming(r, c) /\ (On(r, c) <=> c = b)
    BY <2>2, <2>3 DEF Coming, On
  <2>7. Place2(prm.mvcc, pages, r, b)
    <3>1. CASE prm.mvcc
      <4>1. IsFiniteSet(Lasting(pages, b)) /\ Lasting(pages, b) \subseteq Nat
        BY <1>2, LastingFinite
      <4>2. Cardinality(Lasting(pages, b)) = Lines(s, b) /\ Lines(s, b) \in Nat
        BY <2>0, <3>1, <4>1, OrderedLines DEF Lines
      <4> QED
        BY <2>0, <2>3, <3>1, <4>2 DEF Place2
    <3>2. CASE ~prm.mvcc
      BY <2>0, <2>3, <3>2 DEF Place2
    <3> QED
      BY <3>1, <3>2
  <2>8. \A t \in Given : t[1] = b => t[2] <= Before(prm.mvcc, s, cur) /\ t[2] \in Nat
    BY <1>1, <2>0 DEF Upto, GotOK
  <2>9. Upto(pages, H, b, o)
    <3>1. \A t \in H : t[1] = b => t[2] <= o
      BY <2>0, <2>8
    <3>2. \A p \in Lasting(pages, b) : p <= o => <<b, p>> \in H
      <4>1. Lasting(pages, b) \subseteq Int
        BY DEF Lasting
      <4>2. \A p \in Lasting(pages, b) : p <= o => p < o \/ p = o
        BY <2>0, <4>1
      <4> QED
        BY <2>0, <4>2
    <3> QED
      BY <3>1, <3>2 DEF Upto
  <2>10. Local(prm.mvcc, pages, H, prm.nblocks, taken, r)
    BY <2>4, <2>5, <2>6, <2>7, <2>9 DEF Local, Holds
  <2>11. <<b, o>> \notin Given
    <3> SUFFICES ASSUME <<b, o>> \in Given PROVE FALSE
      OBVIOUS
    <3>1. o <= Before(prm.mvcc, s, cur)
      BY <2>8
    <3> QED
      BY <2>0, <3>1
  <2>12. Holds(r, b)
    BY <2>6 DEF Holds
  <2>13. Returned(w, r)
    BY <1>5 DEF r
  <2> HIDE DEF H
  <2> QED
    BY <2>0, <2>2, <2>10, <2>11, <2>12, <2>13, Return DEF H
<1> QED
  BY <1>3, <1>4, <1>5

-----------------------------------------------------------------------------
(* The steps of a fetch in a parallel scan                                  *)

(* What the invariant says of a participant.                                 *)
LEMMA OfParticipant ==
  ASSUME ScanInv, prm.mode = "parallel", NEW w \in Worker
  PROVE  /\ 0..(prm.nblocks - 1) \subseteq DOMAIN pages /\ taken \subseteq 0..(prm.nblocks - 1)
         /\ prm.nblocks \in Nat /\ prm.mvcc \in BOOLEAN /\ PagesOK
         /\ GotOK(Given, taken) /\ DOMAIN sc[w] = Fields
         /\ Local(prm.mvcc, pages, Given, prm.nblocks, taken, sc[w])
         /\ Participant(sc[w], prm.nblocks, taken)
         /\ \A b : Holds(sc[w], b) => b \in taken
         /\ \A b \in taken, v \in Worker : Holds(sc[w], b) /\ Holds(sc[v], b) => v = w
         /\ \A v \in Worker : \A b : Holds(sc[v], b) => b \in taken
  BY DEF ScanInv, ParallelOK, PrmOK, ScansOK, Local

(* The end of the scan for a participant.                                    *)
LEMMA Ends ==
  ASSUME ScanInv, prm.mode = "parallel", NEW w \in Worker,
         \A b : ~Holds(sc[w], b), 0..(prm.nblocks - 1) \subseteq taken,
         Returned(w, EndOfScan(sc[w])), taken' = taken
  PROVE  ScanInv'
<1> DEFINE s == EndOfScan(sc[w])
<1>1. /\ DOMAIN sc[w] = Fields /\ Participant(sc[w], prm.nblocks, taken)
      /\ taken \subseteq 0..(prm.nblocks - 1)
  BY OfParticipant
<1>2. DOMAIN s = Fields /\ s.pc = "idle" /\ s.tid = NoTid /\ ~s.rs_inited
  BY <1>1 DEF EndOfScan, Fields
<1>3. \A b : ~Holds(s, b) /\ ~On(s, b) /\ ~Coming(s, b)
  BY <1>2 DEF Holds, On, Coming
<1>4. Participant(s, prm.nblocks, taken)
  BY <1>1 DEF EndOfScan, Fields, Participant
<1>5. Local(prm.mvcc, pages, Given, prm.nblocks, taken, s)
  BY <1>3, <1>4 DEF Local
<1>6. Returned(w, s)
  OBVIOUS
<1> HIDE DEF s
<1> QED
  BY <1>1, <1>2, <1>3, <1>5, <1>6, Silent

(* pg_tde_getnextslot: the participant stays where it is.                    *)
LEMMA GetNextSlotStep ==
  ASSUME ScanInv, prm.mode = "parallel", NEW w \in Worker, NEW dir, pg_tde_getnextslot(w, dir)
  PROVE  ScanInv'
<1> DEFINE s == [sc[w] EXCEPT !.pc = "gettup", !.dir = dir, !.over = FALSE,
           !.turned = @ \/ (sc[w].rs_inited /\ dir # sc[w].dir /\ sc[w].rs_numblocks # sc[w].limit)]
<1>1. /\ DOMAIN sc[w] = Fields /\ Participant(sc[w], prm.nblocks, taken)
      /\ taken \subseteq 0..(prm.nblocks - 1)
      /\ Local(prm.mvcc, pages, Given, prm.nblocks, taken, sc[w])
      /\ \A b \in taken, v \in Worker : Holds(sc[w], b) /\ Holds(sc[v], b) => v = w
  BY OfParticipant
<1>2. /\ sc[w].pc = "idle" /\ dir = 1 /\ taken' = taken /\ Returned(w, s)
  BY DEF pg_tde_getnextslot, Restarted
<1>3. /\ DOMAIN s = Fields /\ s.pc = "gettup" /\ s.rs_inited = sc[w].rs_inited
      /\ s.rs_cblock = sc[w].rs_cblock /\ s.rs_vistuples = sc[w].rs_vistuples
      /\ s.rs_cindex = sc[w].rs_cindex /\ s.rs_coffset = sc[w].rs_coffset
  BY <1>1 DEF Fields
<1>4. Participant(s, prm.nblocks, taken)
  BY <1>1, <1>2 DEF Fields, Participant
<1> HIDE DEF s
<1>5. \A b : ~Coming(s, b) /\ (On(s, b) <=> On(sc[w], b)) /\ (Holds(s, b) <=> Holds(sc[w], b))
  BY <1>2, <1>3 DEF Holds, On, Coming
<1>6. Local(prm.mvcc, pages, Given, prm.nblocks, taken, s)
  BY <1>1, <1>3, <1>4, <1>5 DEF Local, Place2, Pos
<1>7. \A b \in taken, v \in Worker : Holds(s, b) /\ Holds(sc[v], b) => v = w
  BY <1>1, <1>5
<1>8. \A b \in taken : Holds(s, b) \/ ~Holds(sc[w], b)
  <2> SUFFICES ASSUME NEW b \in taken, ~Holds(s, b) PROVE ~Holds(sc[w], b)
    OBVIOUS
  <2> QED
    BY <1>5
<1> QED
  BY <1>1, <1>2, <1>3, <1>6, <1>7, <1>8, Silent

(* pg_tde_gettup: on from the tuple the participant was at, or to its first  *)
(* block.                                                                   *)
LEMMA GetTupStep ==
  ASSUME ScanInv, prm.mode = "parallel", NEW w \in Worker, pg_tde_gettup(w)
  PROVE  ScanInv'
<1> DEFINE s == sc[w]
           b == s.rs_cblock
<1>1. /\ DOMAIN s = Fields /\ Participant(s, prm.nblocks, taken)
      /\ taken \subseteq 0..(prm.nblocks - 1) /\ prm.nblocks \in Nat /\ prm.mvcc \in BOOLEAN
      /\ 0..(prm.nblocks - 1) \subseteq DOMAIN pages /\ PagesOK
      /\ Local(prm.mvcc, pages, Given, prm.nblocks, taken, s)
      /\ \A c : Holds(s, c) => c \in taken
  BY OfParticipant
<1>2. s.pc = "gettup" /\ s.dir = 1 /\ ~s.over /\ taken' = taken /\ s.rs_inited \in BOOLEAN
  BY <1>1 DEF pg_tde_gettup, Participant
<1>3. CASE s.rs_inited
  <2> DEFINE cur == IF prm.mvcc THEN s.rs_cindex ELSE s.rs_coffset
             lines == ContinueLines(s, 1)
  <2>1. On(s, b) /\ b \in taken /\ \A c : Holds(s, c) <=> c = b
    BY <1>1, <1>2, <1>3 DEF On, Holds, Coming
  <2>2. Place2(prm.mvcc, pages, s, b) /\ Upto(pages, Given, b, Pos(prm.mvcc, s))
    BY <1>1, <2>1 DEF Local
  <2>3. b \in DOMAIN pages /\ pages[b] \in Seq(Line)
    BY <1>1, <2>1 DEF PagesOK
  <2>4. prm.mvcc => Lines(s, b) = Cardinality(Lasting(pages, b)) /\ Lines(s, b) \in Nat
    <3>1. IsFiniteSet(Lasting(pages, b)) /\ Lasting(pages, b) \subseteq Nat
      BY <2>3, LastingFinite
    <3> QED
      BY <2>2, <3>1, OrderedLines DEF Place2, Lines
  <2>5. cur \in Nat /\ cur # 0 /\ (prm.mvcc => cur <= Lines(s, b))
    BY <2>2, <2>4 DEF Place2
  <2>6. Before(prm.mvcc, s, cur) = Pos(prm.mvcc, s)
    BY <2>5 DEF Before, Pos
  <2>7. lines.from = cur + 1 /\ lines.left = Lines(s, b) - cur
    BY DEF ContinueLines, Lines
  <2>8. Looking(Given, s, b, cur, lines)
    <3>1. prm.mvcc => s.rs_vistuples = Ordered(Lasting(pages, b)) /\ cur <= Lines(s, b)
      BY <2>2, <2>5 DEF Place2
    <3> HIDE DEF cur, lines
    <3> QED
      BY <1>1, <2>2, <2>5, <2>6, <2>7, <3>1 DEF Looking
  <2>9. Returned(w, Look(s, lines, 1))
    BY <1>2, <1>3 DEF pg_tde_gettup
  <2> HIDE DEF cur, lines
  <2> QED
    BY <1>1, <1>2, <1>3, <2>1, <2>8, <2>9, Looks
<1>4. CASE ~s.rs_inited
  <2>1. \A c : ~Holds(s, c) /\ ~On(s, c) /\ ~Coming(s, c)
    BY <1>2, <1>4 DEF Holds, On, Coming
  <2>2. CASE pg_tde_gettup_initial_block(s, s.dir) = None
    <3>1. prm.nblocks = 0
      BY <1>1, <1>2, <2>2 DEF pg_tde_gettup_initial_block, None, All, Participant
    <3>2. Returned(w, EndOfScan(sc[w]))
      BY <1>4, <2>2 DEF pg_tde_gettup
    <3>3. 0..(prm.nblocks - 1) \subseteq taken
      BY <3>1
    <3> QED
      BY <1>2, <2>1, <3>2, <3>3, Ends
  <2>3. CASE pg_tde_gettup_initial_block(s, s.dir) # None
    <3> DEFINE r == [s EXCEPT !.pc = "nextpage", !.rs_inited = TRUE]
    <3>1. Returned(w, r)
      BY <1>4, <2>3 DEF pg_tde_gettup
    <3>2. DOMAIN r = Fields /\ r.pc = "nextpage"
      BY <1>1 DEF Fields
    <3>3. \A c : ~Holds(r, c) /\ ~On(r, c) /\ ~Coming(r, c)
      BY <3>2 DEF Holds, On, Coming
    <3>4. Participant(r, prm.nblocks, taken)
      BY <1>1, <1>2 DEF Participant, Fields
    <3>5. Local(prm.mvcc, pages, Given, prm.nblocks, taken, r)
      BY <3>3, <3>4 DEF Local
    <3> HIDE DEF r
    <3> QED
      BY <1>1, <1>2, <2>1, <3>1, <3>2, <3>3, <3>5, Silent
  <2> QED
    BY <2>2, <2>3
<1> QED
  BY <1>2, <1>3, <1>4

(* NextPage: the shared counter hands out a block nobody had before.         *)
LEMMA NextPageStep ==
  ASSUME ScanInv, prm.mode = "parallel", NEW w \in Worker, NextPage(w)
  PROVE  ScanInv'
<1> DEFINE free == table_block_parallelscan_nextpage
<1>1. /\ DOMAIN sc[w] = Fields /\ Participant(sc[w], prm.nblocks, taken)
      /\ taken \subseteq 0..(prm.nblocks - 1) /\ GotOK(Given, taken)
      /\ \A v \in Worker : \A b : Holds(sc[v], b) => b \in taken
  BY OfParticipant
<1>2. sc[w].pc = "nextpage" /\ free = (0..(prm.nblocks - 1)) \ taken
  BY DEF NextPage, table_block_parallelscan_nextpage
<1>3. \A c : ~Holds(sc[w], c)
  BY <1>2 DEF Holds, On, Coming
<1>4. CASE free = {} /\ Returned(w, EndOfScan(sc[w])) /\ UNCHANGED taken
  <2>1. 0..(prm.nblocks - 1) \subseteq taken
    BY <1>2, <1>4
  <2> QED
    BY <1>3, <1>4, <2>1, Ends
<1>5. ASSUME NEW b \in free, Returned(w, [sc[w] EXCEPT !.pc = "page", !.block = b]),
             taken' = taken \cup {b}
      PROVE  ScanInv'
  <2> DEFINE s == [sc[w] EXCEPT !.pc = "page", !.block = b]
  <2>1. b \notin taken /\ b \in 0..(prm.nblocks - 1)
    BY <1>2
  <2>2. DOMAIN s = Fields /\ s.pc = "page" /\ s.block = b
    BY <1>1 DEF Fields
  <2>3. Participant(s, prm.nblocks, taken')
    BY <1>1, <1>2, <1>5 DEF Fields, Participant
  <2>4. Returned(w, s)
    BY <1>5
  <2> HIDE DEF s
  <2>5. \A c : (Coming(s, c) <=> c = b) /\ ~On(s, c) /\ (Holds(s, c) <=> c = b)
    BY <2>2 DEF Holds, On, Coming
  <2>6. \A t \in Given : t[1] # b
    BY <1>1, <2>1 DEF GotOK
  <2>7. Local(prm.mvcc, pages, Given, prm.nblocks, taken', s)
    BY <1>5, <2>3, <2>5, <2>6 DEF Local
  <2>8. \A c \in taken', v \in Worker : Holds(s, c) /\ Holds(sc[v], c) => v = w
    BY <1>1, <2>1, <2>5
  <2>9. \A c \in taken' : Holds(s, c) \/ (c \in taken /\ ~Holds(sc[w], c))
    BY <1>3, <1>5, <2>5
  <2>10. taken \subseteq taken' /\ taken' \subseteq 0..(prm.nblocks - 1)
    BY <1>1, <1>5, <2>1
  <2> QED
    BY <2>2, <2>4, <2>7, <2>8, <2>9, <2>10, Silent
<1> QED
  BY <1>4, <1>5 DEF NextPage

(* ReadPage: the participant reads the block it was given.                   *)
LEMMA ReadPageStep ==
  ASSUME ScanInv, prm.mode = "parallel", NEW w \in Worker, ReadPage(w)
  PROVE  ScanInv'
<1>0. PICK b : b = sc[w].block
  OBVIOUS
<1> DEFINE s == pg_tde_getpage(sc[w], b)
           lines == StartLines(s, 1)
<1>1. /\ DOMAIN sc[w] = Fields /\ Participant(sc[w], prm.nblocks, taken)
      /\ taken \subseteq 0..(prm.nblocks - 1) /\ prm.nblocks \in Nat /\ prm.mvcc \in BOOLEAN
      /\ 0..(prm.nblocks - 1) \subseteq DOMAIN pages /\ PagesOK
      /\ GotOK(Given, taken)
      /\ Local(prm.mvcc, pages, Given, prm.nblocks, taken, sc[w])
      /\ \A c : Holds(sc[w], c) => c \in taken
  BY OfParticipant
<1>2. /\ sc[w].pc = "page" /\ sc[w].dir = 1 /\ sc[w].rs_inited /\ ~sc[w].over /\ taken' = taken
  BY <1>1 DEF ReadPage, Participant
<1>3. \A c : (Holds(sc[w], c) <=> c = b) /\ (Coming(sc[w], c) <=> c = b)
  BY <1>0, <1>2 DEF Holds, On, Coming
<1>4. b \in taken /\ b \in DOMAIN pages /\ pages[b] \in Seq(Line) /\ \A t \in Given : t[1] # b
  BY <1>1, <1>3 DEF Local, PagesOK
<1>5. prm.mvcc => {o \in 1..Len(pages[b]) : Visible(b, o)} = Lasting(pages, b)
  BY DEF Visible, Lasting
<1>6. /\ DOMAIN s = Fields /\ s.pc = "page" /\ s.dir = 1 /\ s.rs_inited /\ ~s.over
      /\ s.rs_cblock = b
      /\ prm.mvcc => s.rs_vistuples = Ordered(Lasting(pages, b))
  BY <1>1, <1>2, <1>5 DEF pg_tde_getpage, Fields
<1>7. Participant(s, prm.nblocks, taken)
  BY <1>1 DEF pg_tde_getpage, Fields, Participant
<1>8. Returned(w, Look(s, lines, 1))
  BY <1>0, <1>6 DEF ReadPage
<1> HIDE DEF s
<1>9. Lines(s, b) \in Nat
  <2>1. Len(pages[b]) \in Nat
    BY <1>4, LenProperties
  <2>2. IsFiniteSet(Lasting(pages, b)) /\ Lasting(pages, b) \subseteq Nat
    BY <1>4, LastingFinite
  <2> QED
    BY <1>6, <2>1, <2>2, OrderedLines DEF Lines
<1>10. lines.from = 1 /\ lines.left = Lines(s, b)
  BY <1>6 DEF StartLines, Lines
<1>11. Upto(pages, Given, b, 0)
  BY <1>4 DEF Upto, Lasting
<1>12. Looking(Given, s, b, 0, lines)
  <2> HIDE DEF lines
  <2> QED
    BY <1>6, <1>9, <1>10, <1>11 DEF Looking, Before
<1> HIDE DEF lines
<1> QED
  BY <1>2, <1>3, <1>4, <1>6, <1>7, <1>8, <1>12, Looks

-----------------------------------------------------------------------------
(* Scans that are not parallel, and the beginning and end of a scan          *)

(* A scan that is not parallel gives no block out.                           *)
LEMMA SerialStep ==
  ASSUME ScanInv, prm.mode # "parallel", NEW w \in Worker, NEW s, DOMAIN s = Fields,
         s.pc \in {"closed", "idle", "gettup", "page"}, Returned(w, s), UNCHANGED taken
  PROVE  ScanInv'
<1>1. /\ pages' = pages /\ prm' = prm /\ got' = got /\ sc' = [sc EXCEPT ![w] = s]
      /\ DOMAIN sc = Worker
  BY DEF Returned, ScanInv, ScansOK
<1>2. DOMAIN sc' = Worker /\ \A v \in Worker : sc'[v] = IF v = w THEN s ELSE sc[v]
  BY <1>1
<1>3. PagesOK' /\ PrmOK' /\ ParallelOK'
  BY <1>1 DEF ScanInv, PagesOK, PrmOK, ParallelOK
<1>4. ScansOK' /\ SerialOK'
  BY <1>1, <1>2 DEF ScanInv, ScansOK, SerialOK
<1> QED
  BY <1>3, <1>4 DEF ScanInv

(* The next place of such a scan.                                           *)
LEMMA LookSerial ==
  ASSUME prm.mode # "parallel", NEW s, DOMAIN s = Fields, NEW lines, NEW dir
  PROVE  DOMAIN Look(s, lines, dir) = Fields /\ Look(s, lines, dir).pc \in {"idle", "gettup", "page"}
<1>1. \A line : DOMAIN Found(s, line, dir) = Fields /\ Found(s, line, dir).pc \in {"idle", "gettup"}
  BY DEF Found, Fields
<1>2. DOMAIN Onwards(s, dir) = Fields /\ Onwards(s, dir).pc \in {"idle", "page"}
  <2> DEFINE r == pg_tde_gettup_advance_block(s, s.rs_cblock, dir)
  <2>1. DOMAIN r = Fields
    BY DEF pg_tde_gettup_advance_block
  <2>2. Onwards(s, dir) = IF r.block = None THEN EndOfScan(r) ELSE [r EXCEPT !.pc = "page"]
    BY DEF Onwards
  <2> HIDE DEF r
  <2> QED
    BY <2>1, <2>2 DEF EndOfScan, Fields
<1> QED
  BY <1>1, <1>2 DEF Look

(* Restricting a scan to a range keeps it idle.                              *)
LEMMA Limited ==
  ASSUME NEW s, DOMAIN s = Fields
  PROVE  /\ \A a, c : /\ DOMAIN pg_tde_setscanlimits(s, a, c) = Fields
                      /\ pg_tde_setscanlimits(s, a, c).pc = s.pc
         /\ \A a, c : /\ DOMAIN pg_tde_set_tidrange(s, a, c) = Fields
                      /\ pg_tde_set_tidrange(s, a, c).pc = s.pc
         /\ \A n, a : DOMAIN initscan(s, n, a) = Fields /\ initscan(s, n, a).pc = "idle"
<1>1. \A a, c : /\ DOMAIN pg_tde_setscanlimits(s, a, c) = Fields
                /\ pg_tde_setscanlimits(s, a, c).pc = s.pc
  BY DEF pg_tde_setscanlimits, Fields
<1>2. ASSUME NEW a, NEW c
      PROVE  /\ DOMAIN pg_tde_set_tidrange(s, a, c) = Fields
             /\ pg_tde_set_tidrange(s, a, c).pc = s.pc
  <2> DEFINE last == <<s.rs_nblocks - 1, MaxOffsetNumber>>
             highest == IF Less(c, last) THEN c ELSE last
             lowest == IF Less(<<0, 1>>, a) THEN a ELSE <<0, 1>>
  <2>1. pg_tde_set_tidrange(s, a, c) =
          IF s.rs_nblocks = 0 THEN s
          ELSE IF Less(highest, lowest) THEN pg_tde_setscanlimits(s, 0, 0)
          ELSE [pg_tde_setscanlimits(s, lowest[1], highest[1] - lowest[1] + 1)
                  EXCEPT !.rs_mintid = lowest, !.rs_maxtid = highest]
    BY DEF pg_tde_set_tidrange
  <2> HIDE DEF highest, lowest
  <2>2. \A r : DOMAIN r = Fields /\ r.pc = s.pc =>
          /\ DOMAIN [r EXCEPT !.rs_mintid = lowest, !.rs_maxtid = highest] = Fields
          /\ [r EXCEPT !.rs_mintid = lowest, !.rs_maxtid = highest].pc = s.pc
    BY DEF Fields
  <2> QED
    BY <1>1, <2>1, <2>2
<1>3. \A n, a : DOMAIN initscan(s, n, a) = Fields /\ initscan(s, n, a).pc = "idle"
  BY DEF initscan, Fields
<1> QED
  BY <1>1, <1>2, <1>3

(* A scan of the leader alone begins.                                        *)
LEMMA BeginAlone ==
  ASSUME ScanInv, prm = NoScan, NEW s, DOMAIN s = Fields, s.pc = "idle",
         prm'.mode \in {"seq", "range", "tid"}, PrmOK',
         sc' = [sc EXCEPT ![1] = s], UNCHANGED <<pages, changes, taken, got>>
  PROVE  ScanInv'
<1>1. /\ DOMAIN sc = Worker /\ 1 \in Worker /\ \A v \in Worker : DOMAIN sc[v] = Fields
      /\ taken = {} /\ got = <<>>
      /\ \A v \in Worker : sc[v].pc \in {"closed", "idle", "gettup", "page"}
  BY ScanAssumption DEF ScanInv, ScansOK, SerialOK, NoScan
<1>2. DOMAIN sc' = Worker /\ \A v \in Worker : sc'[v] = IF v = 1 THEN s ELSE sc[v]
  BY <1>1
<1>3. PagesOK' /\ ParallelOK'
  BY DEF ScanInv, PagesOK, ParallelOK
<1>4. ScansOK' /\ SerialOK'
  BY <1>1, <1>2 DEF ScansOK, SerialOK
<1> QED
  BY <1>3, <1>4 DEF ScanInv

(* The number of blocks.                                                    *)
LEMMA Blocks ==
  ASSUME PagesOK
  PROVE  /\ RelationGetNumberOfBlocks \in Nat
         /\ DOMAIN pages = 0..(RelationGetNumberOfBlocks - 1)
         /\ \A b \in DOMAIN pages : pages[b] \in Seq(Line)
<1>1. PICK n \in Nat : DOMAIN pages = 0..(n - 1) /\ \A b \in 0..(n - 1) : pages[b] \in Seq(Line)
  BY DEF PagesOK
<1>2. Cardinality(0..(n - 1)) = IF 0 > n - 1 THEN 0 ELSE n - 1 - 0 + 1
  BY FS_Interval
<1>3. RelationGetNumberOfBlocks = n
  BY <1>1, <1>2 DEF RelationGetNumberOfBlocks
<1> QED
  BY <1>1, <1>3

(* A parallel scan begins.                                                  *)
LEMMA BeginParallelStep ==
  ASSUME ScanInv, NEW mvcc \in BOOLEAN, BeginParallelScan(mvcc)
  PROVE  ScanInv'
<1> DEFINE n == RelationGetNumberOfBlocks
<1>1. /\ DOMAIN sc = Worker /\ \A v \in Worker : DOMAIN sc[v] = Fields
      /\ taken = {} /\ got = <<>> /\ n \in Nat /\ DOMAIN pages = 0..(n - 1)
  BY Blocks DEF ScanInv, ScansOK, SerialOK, NoScan, BeginParallelScan
<1>2. /\ prm' = [mode |-> "parallel", mvcc |-> mvcc, range |-> NoScan.range, nblocks |-> n]
      /\ pages' = pages /\ taken' = {} /\ got' = <<>>
      /\ sc' = [w \in Worker |-> Fresh(w, n, 0)]
  BY <1>1 DEF BeginParallelScan, NoScan
<1> HIDE DEF n
<1>3. /\ PrmOK' /\ prm'.mode = "parallel" /\ prm'.mvcc = mvcc /\ prm'.nblocks = n
  BY <1>1, <1>2 DEF PrmOK
<1>4. ASSUME NEW w \in Worker
      PROVE  /\ DOMAIN sc'[w] = Fields /\ Participant(sc'[w], n, {})
             /\ \A b : ~Holds(sc'[w], b) /\ ~On(sc'[w], b) /\ ~Coming(sc'[w], b)
  <2>1. sc'[w] = initscan(sc[w], n, 0)
    BY <1>2 DEF Fresh
  <2>2. /\ DOMAIN sc'[w] = Fields /\ sc'[w].pc = "idle" /\ sc'[w].rs_inited = FALSE
        /\ sc'[w].over = FALSE
        /\ sc'[w].rs_nblocks = n /\ sc'[w].rs_numblocks = All /\ sc'[w].rs_startblock = 0
    BY <1>1, <2>1 DEF initscan, Fields
  <2> QED
    BY <2>2 DEF Participant, Holds, On, Coming
<1>5. Given' = {}
  BY <1>2 DEF Given
<1>6. \A w \in Worker : Local(mvcc, pages, {}, n, {}, sc'[w])
  BY <1>4 DEF Local
<1>7. ParallelOK'
  BY <1>1, <1>2, <1>3, <1>4, <1>5, <1>6 DEF ParallelOK, GotOK
<1>8. PagesOK' /\ ScansOK' /\ SerialOK'
  BY <1>2, <1>3, <1>4 DEF ScanInv, PagesOK, ScansOK, SerialOK
<1> QED
  BY <1>3, <1>7, <1>8 DEF ScanInv

(* A scan ends.                                                             *)
LEMMA EndStep ==
  ASSUME ScanInv, pg_tde_endscan
  PROVE  ScanInv'
<1>1. /\ pages' = pages /\ prm' = NoScan /\ taken' = {} /\ got' = <<>>
      /\ sc' = [w \in Worker |-> [Closed EXCEPT !.fetches = sc[w].fetches]]
  BY DEF pg_tde_endscan
<1>2. \A w \in Worker : DOMAIN sc'[w] = Fields /\ sc'[w].pc = "closed"
  BY <1>1 DEF Closed, Fields
<1>3. PagesOK' /\ PrmOK' /\ ScansOK'
  BY <1>1, <1>2 DEF ScanInv, PagesOK, PrmOK, ScansOK, NoScan
<1>4. SerialOK' /\ ParallelOK'
  BY <1>1, <1>2 DEF SerialOK, ParallelOK, NoScan
<1> QED
  BY <1>3, <1>4 DEF ScanInv

-----------------------------------------------------------------------------
(* Other transactions                                                       *)

(* Changes that keep the lasting tuples where they are.                      *)
LEMMA PagesChange ==
  ASSUME ScanInv, NEW new, Change(new), NEW n \in Nat, DOMAIN new = 0..(n - 1),
         \A b \in 0..(n - 1) : new[b] \in Seq(Line),
         DOMAIN pages \subseteq DOMAIN new,
         \A b \in DOMAIN pages : Lasting(new, b) = Lasting(pages, b)
  PROVE  ScanInv'
<1>1. pages' = new /\ prm' = prm /\ sc' = sc /\ taken' = taken /\ got' = got
  BY DEF Change
<1>2. PagesOK' /\ ScansOK' /\ PrmOK' /\ SerialOK'
  BY <1>1 DEF ScanInv, PagesOK, ScansOK, PrmOK, SerialOK
<1>3. ASSUME prm.mode = "parallel" PROVE ParallelOK'
  <2>1. /\ 0..(prm.nblocks - 1) \subseteq DOMAIN pages /\ taken \subseteq 0..(prm.nblocks - 1)
        /\ got \in Seq(Int \X Nat) /\ GotOK(Given, taken)
        /\ \A i, j \in DOMAIN got : got[i] = got[j] => i = j
        /\ \A v \in Worker : Local(prm.mvcc, pages, Given, prm.nblocks, taken, sc[v])
        /\ \A u, v \in Worker, b \in taken : Holds(sc[u], b) /\ Holds(sc[v], b) => u = v
        /\ \A b \in taken : (\E v \in Worker : Holds(sc[v], b)) \/ Done(pages, Given, b)
    BY <1>3 DEF ScanInv, ParallelOK
  <2>2. Given' = Given /\ \A b \in taken : Lasting(new, b) = Lasting(pages, b)
    BY <1>1, <2>1 DEF Given
  <2>3. \A v \in Worker : Local(prm.mvcc, new, Given, prm.nblocks, taken, sc[v])
    BY <2>1, <2>2, LocalKept
  <2>4. \A b \in taken : Done(pages, Given, b) => Done(new, Given, b)
    BY <2>2 DEF Done
  <2> QED
    BY <1>1, <2>1, <2>2, <2>3, <2>4 DEF ParallelOK
<1>4. ParallelOK'
  BY <1>1, <1>3 DEF ParallelOK
<1> QED
  BY <1>2, <1>4 DEF ScanInv

(* One page is changed.                                                     *)
LEMMA PageChange ==
  ASSUME ScanInv, NEW b \in DOMAIN pages, NEW p \in Seq(Line), Change([pages EXCEPT ![b] = p]),
         {o \in 1..Len(p) : p[o] = "lasting"} = Lasting(pages, b)
  PROVE  ScanInv'
<1> DEFINE n == RelationGetNumberOfBlocks
           new == [pages EXCEPT ![b] = p]
<1>1. n \in Nat /\ DOMAIN pages = 0..(n - 1) /\ \A c \in DOMAIN pages : pages[c] \in Seq(Line)
  BY Blocks DEF ScanInv
<1> HIDE DEF n
<1>2. DOMAIN new = 0..(n - 1) /\ \A c \in 0..(n - 1) : new[c] = IF c = b THEN p ELSE pages[c]
  BY <1>1
<1> HIDE DEF new
<1>3. \A c \in DOMAIN pages : Lasting(new, c) = Lasting(pages, c)
  BY <1>1, <1>2 DEF Lasting
<1>4. Change(new)
  BY DEF new
<1> QED
  BY <1>1, <1>2, <1>3, <1>4, PagesChange

(* Insert puts a passing tuple on a new or an unused line.                   *)
LEMMA InsertStep ==
  ASSUME ScanInv, NEW b, Insert(b)
  PROVE  ScanInv'
<1>1. b \in DOMAIN pages /\ pages[b] \in Seq(Line)
  BY Blocks DEF ScanInv, Insert
<1>2. CASE Change([pages EXCEPT ![b] = Append(@, "passing")])
  <2> DEFINE p == Append(pages[b], "passing")
  <2>1. Len(pages[b]) \in Nat /\ p \in Seq(Line) /\ Len(p) = Len(pages[b]) + 1
    BY <1>1 DEF Line
  <2>2. /\ \A o \in 1..Len(pages[b]) : p[o] = pages[b][o]
        /\ p[Len(pages[b]) + 1] = "passing"
    BY <1>1
  <2>3. Change([pages EXCEPT ![b] = p])
    BY <1>2
  <2> HIDE DEF p
  <2>4. {o \in 1..Len(p) : p[o] = "lasting"} = Lasting(pages, b)
    BY <2>1, <2>2 DEF Lasting
  <2> QED
    BY <1>1, <2>1, <2>3, <2>4, PageChange
<1>3. ASSUME NEW o \in 1..Len(pages[b]), pages[b][o] = "unused",
             Change([pages EXCEPT ![b][o] = "passing"])
      PROVE  ScanInv'
  <2> DEFINE p == [pages[b] EXCEPT ![o] = "passing"]
  <2>1. p \in Seq(Line) /\ Len(p) = Len(pages[b])
    BY <1>1, ExceptSeq DEF Line
  <2>2. {q \in 1..Len(p) : p[q] = "lasting"} = Lasting(pages, b)
    BY <1>1, <1>3, <2>1 DEF Lasting
  <2>3. Change([pages EXCEPT ![b] = p])
    BY <1>3
  <2> HIDE DEF p
  <2> QED
    BY <1>1, <2>1, <2>2, <2>3, PageChange
<1> QED
  BY <1>2, <1>3 DEF Insert

(* Remove frees the line of a passing tuple.                                *)
LEMMA RemoveStep ==
  ASSUME ScanInv, NEW b, Remove(b)
  PROVE  ScanInv'
<1>1. b \in DOMAIN pages /\ pages[b] \in Seq(Line)
  BY Blocks DEF ScanInv, Remove
<1>2. PICK o \in 1..Len(pages[b]) :
        pages[b][o] = "passing" /\ Change([pages EXCEPT ![b][o] = "unused"])
  BY DEF Remove
<1> DEFINE p == [pages[b] EXCEPT ![o] = "unused"]
<1>3. p \in Seq(Line) /\ Len(p) = Len(pages[b])
  BY <1>1, ExceptSeq DEF Line
<1>4. {q \in 1..Len(p) : p[q] = "lasting"} = Lasting(pages, b)
  BY <1>1, <1>2, <1>3 DEF Lasting
<1>5. Change([pages EXCEPT ![b] = p])
  BY <1>2
<1> HIDE DEF p
<1> QED
  BY <1>1, <1>3, <1>4, <1>5, PageChange

(* TruncateLinePointers cuts an unused line off.                             *)
LEMMA TruncateStep ==
  ASSUME ScanInv, NEW b, TruncateLinePointers(b)
  PROVE  ScanInv'
<1>1. b \in DOMAIN pages /\ pages[b] \in Seq(Line)
  BY Blocks DEF ScanInv, TruncateLinePointers
<1> DEFINE n == Len(pages[b])
           p == SubSeq(pages[b], 1, n - 1)
<1>2. n \in Nat /\ n > 1 /\ pages[b][n] = "unused" /\ Change([pages EXCEPT ![b] = p])
  BY <1>1 DEF TruncateLinePointers
<1>3. p \in Seq(Line) /\ Len(p) = n - 1 /\ \A q \in 1..(n - 1) : p[q] = pages[b][q]
  <2>1. 1 \in 1..(n + 1) /\ n - 1 \in 0..n
    BY <1>2
  <2>2. /\ p \in Seq(Line)
        /\ Len(p) = IF 1 <= n - 1 THEN n - 1 - 1 + 1 ELSE 0
        /\ \A q \in 1..(n - 1 - 1 + 1) : p[q] = pages[b][1 + q - 1]
    BY <1>1, <2>1, SubSeqProperties
  <2> HIDE DEF p
  <2> QED
    BY <1>2, <2>2
<1> HIDE DEF p
<1>4. {q \in 1..Len(p) : p[q] = "lasting"} = Lasting(pages, b)
  BY <1>2, <1>3 DEF Lasting
<1> QED
  BY <1>1, <1>2, <1>3, <1>4, PageChange

(* Extend adds a page with a passing tuple.                                  *)
LEMMA ExtendStep ==
  ASSUME ScanInv, Extend
  PROVE  ScanInv'
<1> DEFINE n == RelationGetNumberOfBlocks
           new == [b \in 0..n |-> IF b = n THEN <<"passing">> ELSE pages[b]]
<1>1. n \in Nat /\ DOMAIN pages = 0..(n - 1) /\ \A c \in DOMAIN pages : pages[c] \in Seq(Line)
  BY Blocks DEF ScanInv
<1>2. Change(new)
  BY DEF Extend
<1>3. <<"passing">> \in Seq(Line)
  BY DEF Line
<1> HIDE DEF n
<1>0. PICK k \in Nat : k = n + 1
  BY <1>1
<1>4. /\ DOMAIN new = 0..(k - 1) /\ DOMAIN pages \subseteq DOMAIN new
      /\ \A b \in 0..(k - 1) : new[b] \in Seq(Line)
      /\ \A b \in DOMAIN pages : new[b] = pages[b]
  BY <1>0, <1>1, <1>3
<1> HIDE DEF new
<1>5. \A b \in DOMAIN pages : Lasting(new, b) = Lasting(pages, b)
  BY <1>4 DEF Lasting
<1> QED
  BY <1>2, <1>4, <1>5, PagesChange

-----------------------------------------------------------------------------
(* The theorem                                                              *)

(* The fetches of a scan that is not parallel.                               *)
LEMMA SerialFetch ==
  ASSUME ScanInv, prm.mode # "parallel", NEW w \in Worker,
         (\E dir \in {1, -1} : pg_tde_getnextslot(w, dir)) \/ pg_tde_gettup(w) \/ NextPage(w) \/ ReadPage(w)
  PROVE  ScanInv'
<1>1. DOMAIN sc[w] = Fields /\ sc[w].pc \in {"closed", "idle", "gettup", "page"}
  BY DEF ScanInv, ScansOK, SerialOK
<1>2. ASSUME NEW dir \in {1, -1}, pg_tde_getnextslot(w, dir) PROVE ScanInv'
  <2> DEFINE s == Restarted(sc[w])
             r == [s EXCEPT !.pc = "gettup", !.dir = dir, !.over = FALSE,
                     !.turned = @ \/ (s.rs_inited /\ dir # s.dir /\ s.rs_numblocks # s.limit)]
  <2>1. DOMAIN s = Fields
    BY <1>1, Limited DEF Restarted
  <2>2. Returned(w, r) /\ UNCHANGED taken
    BY <1>2 DEF pg_tde_getnextslot
  <2> HIDE DEF s
  <2>3. DOMAIN r = Fields /\ r.pc = "gettup"
    BY <2>1 DEF Fields
  <2> HIDE DEF r
  <2> QED
    BY <2>2, <2>3, SerialStep
<1>3. CASE pg_tde_gettup(w)
  <2> DEFINE s == sc[w]
             first == pg_tde_gettup_initial_block(s, s.dir)
             r == IF s.rs_inited THEN Look(s, ContinueLines(s, s.dir), s.dir)
                  ELSE IF first = None THEN EndOfScan(s)
                  ELSE [s EXCEPT !.pc = "page", !.block = first, !.rs_inited = TRUE]
  <2>1. Returned(w, r) /\ UNCHANGED taken
    BY <1>3 DEF pg_tde_gettup
  <2> HIDE DEF first
  <2>2. CASE s.rs_inited
    <3>1. DOMAIN r = Fields /\ r.pc \in {"idle", "gettup", "page"}
      BY <1>1, <2>2, LookSerial
    <3> HIDE DEF r
    <3> QED
      BY <2>1, <3>1, SerialStep
  <2>3. CASE ~s.rs_inited
    <3>1. DOMAIN r = Fields /\ r.pc \in {"idle", "gettup", "page"}
      BY <1>1, <2>3 DEF EndOfScan, Fields
    <3> HIDE DEF r
    <3> QED
      BY <2>1, <3>1, SerialStep
  <2> QED
    BY <2>2, <2>3
<1>4. CASE NextPage(w)
  BY <1>1, <1>4 DEF NextPage
<1>5. CASE ReadPage(w)
  <2> DEFINE s == pg_tde_getpage(sc[w], sc[w].block)
             r == Look(s, StartLines(s, s.dir), s.dir)
  <2>1. Returned(w, r) /\ UNCHANGED taken
    BY <1>5 DEF ReadPage
  <2>2. DOMAIN s = Fields
    BY <1>1 DEF pg_tde_getpage
  <2> HIDE DEF s
  <2>3. DOMAIN r = Fields /\ r.pc \in {"idle", "gettup", "page"}
    BY <2>2, LookSerial
  <2> HIDE DEF r
  <2> QED
    BY <2>1, <2>3, SerialStep
<1> QED
  BY <1>2, <1>3, <1>4, <1>5

(* Scans of the leader alone begin and are rewound.                          *)
LEMMA SerialBegin ==
  ASSUME ScanInv, NEW mvcc \in BOOLEAN,
         \/ \E start : BeginSeqScan(mvcc, start)
         \/ \E start, num : BeginRangeScan(mvcc, start, num)
         \/ \E r : BeginTidRangeScan(r)
         \/ pg_tde_rescan
  PROVE  ScanInv'
<1>1. DOMAIN sc[1] = Fields /\ 1 \in Worker
  BY ScanAssumption DEF ScanInv, ScansOK
<1> DEFINE n == RelationGetNumberOfBlocks
<1>2. \A k, start : DOMAIN Fresh(1, k, start) = Fields /\ Fresh(1, k, start).pc = "idle"
  BY <1>1, Limited DEF Fresh
<1>3. ASSUME NEW start, BeginSeqScan(mvcc, start) PROVE ScanInv'
  <2>1. /\ prm = NoScan /\ sc' = [sc EXCEPT ![1] = Fresh(1, n, start)]
        /\ UNCHANGED <<pages, changes, taken, got>>
        /\ prm'.mode = "seq" /\ PrmOK'
    BY <1>3 DEF BeginSeqScan, NoScan, PrmOK
  <2> QED
    BY <1>2, <2>1, BeginAlone
<1>4. ASSUME NEW start, NEW num, BeginRangeScan(mvcc, start, num) PROVE ScanInv'
  <2> DEFINE s == pg_tde_setscanlimits(Fresh(1, n, 0), start, num)
  <2>1. /\ prm = NoScan /\ sc' = [sc EXCEPT ![1] = s]
        /\ UNCHANGED <<pages, changes, taken, got>>
        /\ prm'.mode = "range" /\ PrmOK'
    BY <1>4 DEF BeginRangeScan, NoScan, PrmOK
  <2>2. DOMAIN s = Fields /\ s.pc = "idle"
    BY <1>2, Limited
  <2> HIDE DEF s
  <2> QED
    BY <2>1, <2>2, BeginAlone
<1>5. ASSUME NEW r, BeginTidRangeScan(r) PROVE ScanInv'
  <2> DEFINE s == pg_tde_set_tidrange(Fresh(1, n, 0), r[1], r[2])
  <2>1. /\ prm = NoScan /\ sc' = [sc EXCEPT ![1] = s]
        /\ UNCHANGED <<pages, changes, taken, got>>
        /\ prm'.mode = "tid" /\ PrmOK'
    BY <1>5 DEF BeginTidRangeScan, NoScan, PrmOK
  <2>2. DOMAIN s = Fields /\ s.pc = "idle"
    BY <1>2, Limited
  <2> HIDE DEF s
  <2> QED
    BY <2>1, <2>2, BeginAlone
<1>6. CASE pg_tde_rescan
  <2> DEFINE s == initscan(sc[1], n, sc[1].rs_startblock)
  <2>1. DOMAIN s = Fields /\ s.pc = "idle" /\ s.tid = NoTid
    BY <1>1 DEF initscan, Fields
  <2>2. Returned(1, s) /\ UNCHANGED taken /\ prm.mode # "parallel"
    BY <1>6 DEF pg_tde_rescan, Returned
  <2> HIDE DEF s
  <2> QED
    BY <1>1, <2>1, <2>2, SerialStep
<1> QED
  BY <1>3, <1>4, <1>5, <1>6

(* Every step keeps the invariant.                                           *)
LEMMA ScanStep ==
  ASSUME ScanInv, [ScanNext]_scanVars
  PROVE  ScanInv'
<1>1. CASE UNCHANGED scanVars
  <2>1. pages' = pages /\ prm' = prm /\ sc' = sc /\ taken' = taken /\ got' = got
    BY <1>1 DEF scanVars
  <2>2. PagesOK' /\ ScansOK' /\ PrmOK' /\ SerialOK'
    BY <2>1 DEF ScanInv, PagesOK, ScansOK, PrmOK, SerialOK
  <2>3. Given' = Given
    BY <2>1 DEF Given
  <2>4. ParallelOK'
    BY <2>1, <2>3 DEF ScanInv, ParallelOK
  <2> QED
    BY <2>2, <2>4 DEF ScanInv
<1>2. ASSUME NEW mvcc \in BOOLEAN,
             \/ \E start \in 0..(MaxBlocks - 1) : BeginSeqScan(mvcc, start)
             \/ \E start \in 0..(MaxBlocks - 1), num \in {All} \cup 0..MaxBlocks :
                  BeginRangeScan(mvcc, start, num)
             \/ BeginParallelScan(mvcc)
      PROVE  ScanInv'
  BY <1>2, SerialBegin, BeginParallelStep
<1>3. CASE (\E r \in Ranges : BeginTidRangeScan(r)) \/ pg_tde_rescan
  <2>1. TRUE \in BOOLEAN
    OBVIOUS
  <2> QED
    BY <1>3, <2>1, SerialBegin
<1>4. CASE pg_tde_endscan
  BY <1>4, EndStep
<1>5. ASSUME NEW w \in Worker, NEW dir \in {1, -1}, pg_tde_getnextslot(w, dir)
      PROVE  ScanInv'
  BY <1>5, SerialFetch, GetNextSlotStep
<1>6. ASSUME NEW w \in Worker, pg_tde_gettup(w) \/ NextPage(w) \/ ReadPage(w)
      PROVE  ScanInv'
  BY <1>6, SerialFetch, GetTupStep, NextPageStep, ReadPageStep
<1>7. ASSUME NEW b, Insert(b) \/ Remove(b) \/ TruncateLinePointers(b)
      PROVE  ScanInv'
  BY <1>7, InsertStep, RemoveStep, TruncateStep
<1>8. CASE Extend
  BY <1>8, ExtendStep
<1> QED
  BY <1>1, <1>2, <1>3, <1>4, <1>5, <1>6, <1>7, <1>8 DEF ScanNext

(* The invariant holds at the start.                                        *)
LEMMA ScanStart ==
  ASSUME ScanInit
  PROVE  ScanInv
<1>1. PICK t \in Tables : pages = [b \in 0..(Len(t) - 1) |-> t[b + 1]]
  BY DEF ScanInit
<1>2. t \in Seq(Seq(Line)) /\ Len(t) \in Nat
  BY ScanAssumption DEF Line
<1>3. PagesOK
  <2>1. \A b \in 0..(Len(t) - 1) : pages[b] = t[b + 1] /\ t[b + 1] \in Seq(Line)
    BY <1>1, <1>2
  <2> QED
    BY <1>1, <1>2, <2>1 DEF PagesOK
<1>4. ScansOK /\ PrmOK /\ SerialOK /\ ParallelOK
  BY DEF ScanInit, ScansOK, PrmOK, SerialOK, ParallelOK, NoScan, Closed, Fields
<1> QED
  BY <1>3, <1>4 DEF ScanInv

(* The invariant of scans: what is returned of each block is what its        *)
(* participant has passed, and nobody works on a block of another one.       *)
THEOREM ScanInvariance == ScanSpec => []ScanInv
<1>1. ScanInit => ScanInv
  BY ScanStart
<1>2. ScanInv /\ [ScanNext]_scanVars => ScanInv'
  BY ScanStep
<1> QED
  BY <1>1, <1>2, PTL DEF ScanSpec

(* Parallel scans return each row to one participant and, when all are done, *)
(* every row that was there all the time.                                   *)
THEOREM EveryRowOnce == ScanSpec => []ParallelExact
<1>1. ScanInv => ParallelExact
  <2> SUFFICES ASSUME ScanInv, prm.mode = "parallel", \A w \in Worker : sc[w].over
               PROVE  Tids("lasting") \subseteq {got[i] : i \in DOMAIN got}
    BY DEF ScanInv, ParallelOK, ParallelExact
  <2>1. /\ 1 \in Worker /\ \A w \in Worker : Participant(sc[w], prm.nblocks, taken)
        /\ \A b \in taken : (\E w \in Worker : Holds(sc[w], b)) \/ Done(pages, Given, b)
    BY ScanAssumption DEF ScanInv, ParallelOK, Local
  <2>2. \A w \in Worker : \A b : ~Holds(sc[w], b)
    BY <2>1 DEF Participant, Holds, On, Coming
  <2>3. \A b \in 0..(sc[1].rs_nblocks - 1) : Done(pages, Given, b)
    BY <2>1, <2>2 DEF Participant
  <2>4. ASSUME NEW t \in Tids("lasting") PROVE t \in Given
    <3>1. /\ t[1] \in 0..(sc[1].rs_nblocks - 1) /\ t = <<t[1], t[2]>>
          /\ t[2] \in 1..MaxOffsetNumber /\ t[2] <= Len(pages[t[1]])
          /\ pages[t[1]][t[2]] = "lasting"
      BY DEF Tids
    <3>2. Len(pages[t[1]]) \in Nat
      BY <2>1, <3>1, LenProperties DEF Participant, ScanInv, ParallelOK, PagesOK
    <3>3. t[2] \in Lasting(pages, t[1])
      BY <3>1, <3>2, ScanAssumption DEF Lasting
    <3> QED
      BY <2>3, <3>1, <3>3 DEF Done
  <2> QED
    BY <2>4 DEF Given
<1> QED
  BY <1>1, ScanInvariance, PTL
=============================================================================
