-------------------------------- MODULE Scan --------------------------------
(***************************************************************************)
(* Scans of a table (initscan to pg_tde_getnextslot_tidrange in              *)
(* src/access/pg_tdeam.c): sequential scans that start anywhere and turn     *)
(* around, scans of a range of blocks (index builds), scans of a range of    *)
(* TIDs, and parallel scans, while other transactions put tuples on the      *)
(* pages, remove them and extend the table.                                 *)
(*                                                                          *)
(* A line pointer is "unused", leads to a "lasting" tuple, which the         *)
(* snapshot sees as long as the scan is open, or to a "passing" one, which   *)
(* comes and goes and is seen by other snapshots than MVCC ones only.        *)
(***************************************************************************)
EXTENDS Integers, Sequences, FiniteSets, FiniteSetsExt

CONSTANTS
  Tables,     \* the tables at the start: sequences of pages
  Ranges,     \* the TID ranges asked for: pairs of TIDs
  MaxOffsetNumber,  \* also a bound: line pointers on a page
  MaxBlocks,  \* bound: blocks
  MaxChange,  \* bound: changes by other transactions
  Worker      \* participants of a parallel scan; the leader is 1

ASSUME ScanAssumption ==
  /\ Tables \subseteq Seq(Seq({"unused", "lasting", "passing"}))
  /\ MaxOffsetNumber \in Nat /\ MaxBlocks \in Nat
  /\ 1 \in Worker

All == -1     \* InvalidBlockNumber: as a limit, and as no block
None == -1

VARIABLES
  pages,     \* block -> sequence of line pointers
  changes,
  prm,       \* what the scan was begun with
  sc,        \* worker -> scan descriptor and the fetch under way
  taken,     \* blocks the parallel scan has given out
  got        \* history: TIDs a parallel scan returned, in order

scanVars == <<pages, changes, prm, sc, taken, got>>

RelationGetNumberOfBlocks == Cardinality(DOMAIN pages)
Less(s, t) == s[1] < t[1] \/ (s[1] = t[1] /\ s[2] < t[2])
NoTid == <<None, 0>>

Closed ==
  [pc |-> "closed", rs_nblocks |-> 0, rs_startblock |-> 0, rs_numblocks |-> All,
   rs_inited |-> FALSE, rs_cblock |-> None, rs_coffset |-> 0, rs_cindex |-> 0,
   rs_vistuples |-> <<>>, rs_mintid |-> NoTid, rs_maxtid |-> NoTid,
   block |-> None, dir |-> 1, tid |-> NoTid, limit |-> All,
   over |-> FALSE, turned |-> FALSE, fetches |-> 0]

NoScan == [mode |-> "none", mvcc |-> TRUE, range |-> <<NoTid, NoTid>>, nblocks |-> 0]

ScanInit ==
  /\ \E t \in Tables : pages = [b \in 0..(Len(t) - 1) |-> t[b + 1]]
  /\ changes = 0 /\ taken = {} /\ got = <<>>
  /\ prm = NoScan /\ sc = [w \in Worker |-> Closed]

----------------------------------------------------------------------------
(* Beginning a scan *)

(* The start block of a synchronized scan is wherever another scan is. *)
initscan(s, n, start) ==
  [s EXCEPT !.rs_nblocks = n, !.rs_startblock = start, !.rs_numblocks = All,
            !.rs_inited = FALSE, !.rs_cblock = None, !.tid = NoTid, !.limit = All,
            !.over = FALSE, !.turned = FALSE, !.pc = "idle"]

pg_tde_setscanlimits(s, startBlk, numBlks) ==
  [s EXCEPT !.rs_startblock = startBlk, !.rs_numblocks = numBlks, !.limit = numBlks]

pg_tde_set_tidrange(s, mintid, maxtid) ==
  LET last == <<s.rs_nblocks - 1, MaxOffsetNumber>>
      highest == IF Less(maxtid, last) THEN maxtid ELSE last
      lowest == IF Less(<<0, 1>>, mintid) THEN mintid ELSE <<0, 1>>
  IN  IF s.rs_nblocks = 0 THEN s
      ELSE IF Less(highest, lowest) THEN pg_tde_setscanlimits(s, 0, 0)
      ELSE [pg_tde_setscanlimits(s, lowest[1], highest[1] - lowest[1] + 1)
              EXCEPT !.rs_mintid = lowest, !.rs_maxtid = highest]

Fresh(w, n, start) == initscan(sc[w], n, start)

(* pg_tde_beginscan by the executor for a plain, a block range and a TID     *)
(* range scan.  Only plain scans may be synchronized.                        *)
BeginSeqScan(mvcc, start) ==
  LET n == RelationGetNumberOfBlocks
  IN  /\ prm = NoScan
      /\ start = 0 \/ start < n
      /\ prm' = [NoScan EXCEPT !.mode = "seq", !.mvcc = mvcc]
      /\ sc' = [sc EXCEPT ![1] = Fresh(1, n, start)]
      /\ UNCHANGED <<pages, changes, taken, got>>

BeginRangeScan(mvcc, startBlk, num) ==
  LET n == RelationGetNumberOfBlocks
  IN  /\ prm = NoScan
      /\ startBlk = 0 \/ startBlk < n
      /\ num = All \/ startBlk + num <= n
      /\ prm' = [NoScan EXCEPT !.mode = "range", !.mvcc = mvcc]
      /\ sc' = [sc EXCEPT ![1] = pg_tde_setscanlimits(Fresh(1, n, 0), startBlk, num)]
      /\ UNCHANGED <<pages, changes, taken, got>>

BeginTidRangeScan(r) ==
  /\ prm = NoScan
  /\ prm' = [NoScan EXCEPT !.mode = "tid", !.range = r]
  /\ sc' = [sc EXCEPT ![1] =
              pg_tde_set_tidrange(Fresh(1, RelationGetNumberOfBlocks, 0), r[1], r[2])]
  /\ UNCHANGED <<pages, changes, taken, got>>

(* The leader fixes the number of blocks for all participants. *)
BeginParallelScan(mvcc) ==
  /\ prm = NoScan
  /\ prm' = [NoScan EXCEPT !.mode = "parallel", !.mvcc = mvcc,
                           !.nblocks = RelationGetNumberOfBlocks]
  /\ sc' = [w \in Worker |-> Fresh(w, RelationGetNumberOfBlocks, 0)]
  /\ UNCHANGED <<pages, changes, taken, got>>

(* A cursor is rewound: the start block stays. *)
pg_tde_rescan ==
  /\ prm.mode = "seq" /\ sc[1].pc = "idle"
  /\ sc' = [sc EXCEPT ![1] = initscan(@, RelationGetNumberOfBlocks, @.rs_startblock)]
  /\ UNCHANGED <<pages, changes, prm, taken, got>>

pg_tde_endscan ==
  /\ prm # NoScan /\ \A w \in Worker : sc[w].pc \in {"idle", "closed"}
  /\ prm' = NoScan /\ sc' = [w \in Worker |-> [Closed EXCEPT !.fetches = sc[w].fetches]]
  /\ taken' = {} /\ got' = <<>>
  /\ UNCHANGED <<pages, changes>>

----------------------------------------------------------------------------
(* One fetch: pg_tde_gettup and pg_tde_gettup_pagemode *)

Visible(b, o) == pages[b][o] = "lasting" \/ (~prm.mvcc /\ pages[b][o] = "passing")

(* Offsets in the order of the page; elements are counted from 1. *)
Ordered(S) == [i \in 1..Cardinality(S) |-> CHOOSE o \in S : Cardinality({p \in S : p <= o}) = i]

(* pg_tde_getpage.  Page-at-a-time mode, for MVCC snapshots, notes the        *)
(* visible tuples once.                                                      *)
pg_tde_getpage(s, b) ==
  [s EXCEPT !.rs_cblock = b,
            !.rs_vistuples = IF ~prm.mvcc THEN @
                             ELSE Ordered({o \in 1..Len(pages[b]) : Visible(b, o)})]

(* Blocks a participant may be given next, {} when there are no more. *)
table_block_parallelscan_nextpage == (0..(prm.nblocks - 1)) \ taken

pg_tde_gettup_initial_block(s, dir) ==
  IF s.rs_nblocks = 0 \/ s.rs_numblocks = 0 THEN None
  ELSE IF dir = 1 THEN s.rs_startblock
  ELSE IF s.rs_numblocks # All
       THEN (s.rs_startblock + s.rs_numblocks - 1) % s.rs_nblocks
  ELSE IF s.rs_startblock > 0 THEN s.rs_startblock - 1
  ELSE s.rs_nblocks - 1

(* The next block in the scan's order, whether or not it is still scanned. *)
NextInOrder(s, block, dir) ==
  IF dir = 1 THEN (IF block + 1 >= s.rs_nblocks THEN 0 ELSE block + 1)
             ELSE (IF block = 0 THEN s.rs_nblocks ELSE block) - 1

(* Forward, the scan is over when it would start again; backward, when it    *)
(* has read the start block.                                                *)
AtStartBlockEither(s, block, dir) == s.rs_startblock = NextInOrder(s, block, dir)
AtStartBlock(s, block, dir) ==
  s.rs_startblock = IF dir = 1 THEN NextInOrder(s, block, dir) ELSE block

pg_tde_gettup_advance_block(s, block, dir) ==
  LET limited == s.rs_numblocks # All
      left == IF limited /\ ~AtStartBlock(s, block, dir) THEN s.rs_numblocks - 1 ELSE s.rs_numblocks
      ends == AtStartBlock(s, block, dir) \/ (limited /\ left = 0)
  IN  [s EXCEPT !.rs_numblocks = left,
                !.block = IF ends THEN None ELSE NextInOrder(s, block, dir)]

(* The lines to look at on a page the scan comes to (start_page) or comes    *)
(* back to (continue_page): the first one and how many.                      *)
StartLines(s, dir) ==
  LET n == IF prm.mvcc THEN Len(s.rs_vistuples) ELSE Len(pages[s.rs_cblock])
  IN  [from |-> IF dir = 1 THEN 1 ELSE n, left |-> n]
ContinueLines(s, dir) ==
  LET n == IF prm.mvcc THEN Len(s.rs_vistuples) ELSE Len(pages[s.rs_cblock])
      cur == IF prm.mvcc THEN s.rs_cindex ELSE s.rs_coffset
      prev == IF prm.mvcc THEN cur - 1 ELSE Min({n, cur - 1})
  IN  IF dir = 1 THEN [from |-> cur + 1, left |-> n - cur]
      ELSE [from |-> prev, left |-> prev]

OffsetAt(s, line) == IF prm.mvcc THEN s.rs_vistuples[line] ELSE line

Hits(s, lines, dir) ==
  {k \in 0..(lines.left - 1) : Visible(s.rs_cblock, OffsetAt(s, lines.from + dir * k))}

EndOfScan(s) ==
  [s EXCEPT !.rs_cblock = None, !.rs_inited = FALSE, !.block = None, !.pc = "idle",
            !.tid = NoTid, !.over = TRUE, !.fetches = 1 - @]

(* The TID range filter of pg_tde_getnextslot_tidrange: the tuple is         *)
(* returned, skipped, or ends the scan.                                      *)
Filter(s, t, dir) ==
  IF prm.mode # "tid" THEN "return"
  ELSE IF Less(t, s.rs_mintid) THEN (IF dir = -1 THEN "end" ELSE "skip")
  ELSE IF Less(s.rs_maxtid, t) THEN (IF dir = 1 THEN "end" ELSE "skip")
  ELSE "return"

Found(s, line, dir) ==
  LET t == <<s.rs_cblock, OffsetAt(s, line)>>
      f == Filter(s, t, dir)
  IN  [s EXCEPT !.rs_coffset = IF prm.mvcc THEN @ ELSE line,
                !.rs_cindex = IF prm.mvcc THEN line ELSE @,
                !.pc = IF f = "skip" THEN "gettup" ELSE "idle",
                !.tid = IF f = "return" THEN t ELSE IF f = "end" THEN NoTid ELSE @,
                !.over = (f = "end"),
                !.fetches = IF f = "skip" THEN @ ELSE 1 - @]

(* The next page of a serial scan; a participant of a parallel one asks for  *)
(* its next block in a step of its own.                                      *)
OnwardsAlone(s, dir) ==
  LET next == pg_tde_gettup_advance_block(s, s.rs_cblock, dir)
  IN  IF next.block = None THEN EndOfScan(next) ELSE [next EXCEPT !.pc = "page"]
Onwards(s, dir) ==
  LET next == pg_tde_gettup_advance_block(s, s.rs_cblock, dir)
  IN  IF prm.mode = "parallel" THEN [s EXCEPT !.pc = "nextpage"]
      ELSE IF next.block = None THEN EndOfScan(next) ELSE [next EXCEPT !.pc = "page"]

Look(s, lines, dir) ==
  LET hits == Hits(s, lines, dir)
  IN  IF hits = {} THEN Onwards(s, dir) ELSE Found(s, lines.from + dir * Min(hits), dir)

Returned(w, s) ==
  /\ sc' = [sc EXCEPT ![w] = s]
  /\ got' = IF prm.mode = "parallel" /\ s.pc = "idle" /\ s.tid # NoTid THEN Append(got, s.tid) ELSE got
  /\ UNCHANGED <<pages, changes, prm>>

(* After the end of a TID range the executor starts it again. *)
Restarted(s) ==
  IF prm.mode = "tid" /\ s.over
  THEN pg_tde_set_tidrange(initscan(s, RelationGetNumberOfBlocks, s.rs_startblock),
                           prm.range[1], prm.range[2])
  ELSE s

(* A fetch is asked for.  Cursors move both ways; index builds and parallel   *)
(* scans only forward and once.                                              *)
pg_tde_getnextslot(w, dir) ==
  /\ sc[w].pc = "idle"
  /\ prm.mode \in {"range", "parallel"} => dir = 1 /\ ~sc[w].over
  /\ LET s == Restarted(sc[w])
     IN  Returned(w, [s EXCEPT !.pc = "gettup", !.dir = dir, !.over = FALSE,
           !.turned = @ \/ (s.rs_inited /\ dir # s.dir /\ s.rs_numblocks # s.limit)])
  /\ UNCHANGED taken

(* The scan goes to its first page, or on from the tuple it was at; also     *)
(* after a tuple outside the TID range.                                      *)
pg_tde_gettup(w) ==
  LET s == sc[w]
      first == pg_tde_gettup_initial_block(s, s.dir)
  IN  /\ s.pc = "gettup"
      /\ Returned(w, IF s.rs_inited THEN Look(s, ContinueLines(s, s.dir), s.dir)
                     ELSE IF first = None THEN EndOfScan(s)
                     ELSE IF prm.mode = "parallel"
                          THEN [s EXCEPT !.pc = "nextpage", !.rs_inited = TRUE]
                     ELSE [s EXCEPT !.pc = "page", !.block = first, !.rs_inited = TRUE])
      /\ UNCHANGED taken

NextPage(w) ==
  /\ sc[w].pc = "nextpage"
  /\ \/ /\ table_block_parallelscan_nextpage = {}
        /\ Returned(w, EndOfScan(sc[w])) /\ UNCHANGED taken
     \/ \E b \in table_block_parallelscan_nextpage :
          /\ Returned(w, [sc[w] EXCEPT !.pc = "page", !.block = b])
          /\ taken' = taken \cup {b}

ReadPage(w) ==
  /\ sc[w].pc = "page"
  /\ LET s == pg_tde_getpage(sc[w], sc[w].block)
     IN  Returned(w, Look(s, StartLines(s, s.dir), s.dir))
  /\ UNCHANGED taken

----------------------------------------------------------------------------
(* Other transactions *)

Change(new) ==
  /\ changes < MaxChange /\ changes' = changes + 1 /\ pages' = new
  /\ UNCHANGED <<prm, sc, taken, got>>

Pinned(b) == \E w \in Worker : sc[w].rs_cblock = b

Insert(b) ==
  /\ b \in DOMAIN pages
  /\ \/ Len(pages[b]) < MaxOffsetNumber /\ Change([pages EXCEPT ![b] = Append(@, "passing")])
     \/ \E o \in 1..Len(pages[b]) :
          pages[b][o] = "unused" /\ Change([pages EXCEPT ![b][o] = "passing"])

Extend ==
  LET n == RelationGetNumberOfBlocks
  IN  n < MaxBlocks /\ Change([b \in 0..n |-> IF b = n THEN <<"passing">> ELSE pages[b]])

(* Pruning and vacuum need the page to themselves. *)
Remove(b) ==
  /\ b \in DOMAIN pages /\ ~Pinned(b)
  /\ \E o \in 1..Len(pages[b]) :
       pages[b][o] = "passing" /\ Change([pages EXCEPT ![b][o] = "unused"])

(* Vacuum's second pass cuts unused line pointers off, pinned or not. *)
TruncateLinePointers(b) ==
  /\ b \in DOMAIN pages /\ Len(pages[b]) > 1 /\ pages[b][Len(pages[b])] = "unused"
  /\ Change([pages EXCEPT ![b] = SubSeq(@, 1, Len(@) - 1)])

----------------------------------------------------------------------------
ScanNext ==
  \/ \E mvcc \in BOOLEAN :
       \/ \E start \in 0..(MaxBlocks - 1) : BeginSeqScan(mvcc, start)
       \/ \E start \in 0..(MaxBlocks - 1), num \in {All} \cup 0..MaxBlocks :
            BeginRangeScan(mvcc, start, num)
       \/ BeginParallelScan(mvcc)
  \/ \E r \in Ranges : BeginTidRangeScan(r)
  \/ pg_tde_rescan \/ pg_tde_endscan
  \/ \E w \in Worker, dir \in {1, -1} : pg_tde_getnextslot(w, dir)
  \/ \E w \in Worker : pg_tde_gettup(w) \/ NextPage(w) \/ ReadPage(w)
  \/ \E b \in 0..(MaxBlocks - 1) : Insert(b) \/ Remove(b) \/ TruncateLinePointers(b)
  \/ Extend

ScanSpec == ScanInit /\ [][ScanNext]_scanVars

----------------------------------------------------------------------------
(* Properties *)

(* TIDs of tuples the scan is asked for. *)
InRange(t) ==
  CASE prm.mode = "tid" -> ~Less(t, prm.range[1]) /\ ~Less(prm.range[2], t)
    [] prm.mode = "range" /\ sc[1].limit # All ->
         t[1] \in sc[1].rs_startblock..(sc[1].rs_startblock + sc[1].limit - 1)
    [] OTHER -> TRUE
Tids(kind) ==
  {t \in (0..(sc[1].rs_nblocks - 1)) \X (1..MaxOffsetNumber) :
     t[2] <= Len(pages[t[1]]) /\ pages[t[1]][t[2]] = kind /\ InRange(t)}

(* Places in the order of the scan: it starts at its start block and wraps. *)
Place(t) ==
  IF t = NoTid THEN 0
  ELSE ((t[1] - sc[1].rs_startblock) % sc[1].rs_nblocks) * MaxOffsetNumber + t[2]
Serial == prm.mode \in {"seq", "range", "tid"}
Places(kind) == IF Serial THEN {Place(t) : t \in Tids(kind)} ELSE {}

Cur == INSTANCE Cursor WITH
  MaxPos <- MaxBlocks * MaxOffsetNumber,
  lasting <- Places("lasting"),
  passing <- IF prm.mvcc THEN {} ELSE Places("passing"),
  at <- IF Serial THEN Place(sc[1].tid) ELSE 0,
  dir <- sc[1].dir,
  fetches <- sc[1].fetches

(* Whatever block a scan starts at, whatever its limits and whichever way     *)
(* its fetches go, it is a cursor over its rows (module Cursor): no row is    *)
(* skipped or returned twice where the scan wraps around, turns, starts again *)
(* or is limited, while others insert, remove and extend.  Left out: a TID    *)
(* range scan that turns after it has left its first page, as rs_numblocks    *)
(* is counted down in both directions.                                      *)
ScanIsCursor == [][sc[1].turned' \/ Cur!Next]_Cur!vars

(* Participants of a parallel scan return each row to one of them, and        *)
(* together all of them.                                                    *)
ParallelExact ==
  prm.mode = "parallel" =>
    /\ \A i, j \in DOMAIN got : got[i] = got[j] => i = j
    /\ (\A w \in Worker : sc[w].over) => Tids("lasting") \subseteq {got[i] : i \in DOMAIN got}
=============================================================================
