---------------------------- MODULE MCVisibility ----------------------------
(* Visibility with interchangeable backends and four workloads: deletions    *)
(* and row locks by four transactions; MVCC readers beside deleters, with    *)
(* command ids; readers with dirty snapshots; and asynchronous commits with  *)
(* a crash, looked at by readers of committed data and by vacuum.            *)
EXTENDS Visibility, TLC

MCWorkloads ==
  {[xids |-> 4, cids |-> 0, wal |-> 5, crashes |-> 0, async |-> FALSE,
    observe |-> {}, modify |-> {"delete", "lock"}],
   [xids |-> 3, cids |-> 1, wal |-> 4, crashes |-> 0, async |-> FALSE,
    observe |-> {"mvcc"}, modify |-> {"delete"}],
   [xids |-> 3, cids |-> 0, wal |-> 4, crashes |-> 0, async |-> FALSE,
    observe |-> {"dirty"}, modify |-> {"delete"}],
   [xids |-> 2, cids |-> 0, wal |-> 4, crashes |-> 1, async |-> TRUE,
    observe |-> {"self", "vacuum"}, modify |-> {"delete", "lock"}]}

Symmetry == Permutations(Backend)

\* Where no crash reads the log and every commit is flushed, the log's records,
\* the disk and the LSNs are never looked at; of the transactions that ended,
\* only those the tuple or a lasting deletion names are.
View ==
  LET named == {d.xid : d \in deletes} \cup
               IF tuple = NoTuple THEN {} ELSE {tuple.xmin} \cup tuple.xmax
      Seen(s) == IF s = NoSnap THEN s ELSE [s EXCEPT !.seen = @ \cap named] IN
  IF load.crashes = 0 /\ ~load.async
    THEN <<tuple, Len(wal), {x \in named : clog[x] = "committed"}, running, nextXid,
           mine, ended, cid, [b \in Backend |-> Seen(snap[b])], call,
           {d \in deletes : Live(d.xid)}, locks \cap running, load>>
    ELSE vars
=============================================================================
