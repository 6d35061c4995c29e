------------------------------- MODULE Cursor -------------------------------
(***************************************************************************)
(* What a scan promises whoever fetches from it.  The rows lie in one order, *)
(* and a fetch moves to the next one in its direction.  Past either end      *)
(* nothing is returned, and the next fetch starts afresh from the end its    *)
(* direction comes from.  Rows that come and go while the scan is open are   *)
(* returned or not, in their place of the order.                            *)
(***************************************************************************)
EXTENDS Integers

CONSTANT MaxPos       \* places are 1..MaxPos; at 0 the cursor is on no row

VARIABLES
  lasting,   \* places of the rows that stay while the scan is open
  passing,   \* places of other rows the scan may meet
  at,        \* place of the row returned last, or 0
  dir,       \* direction of the fetch under way: 1 or -1
  fetches    \* number of fetches, modulo 2

vars == <<lasting, passing, at, dir, fetches>>

Init == at = 0

(* The scan starts, or starts again, over rows that may have other places. *)
Begin == at' = 0 /\ UNCHANGED fetches

(* A fetch is asked for; other transactions change rows meanwhile. *)
Ask == UNCHANGED <<lasting, at, fetches>>

(* Where a fetch in direction dir comes from when it is on no row. *)
From == IF at # 0 THEN at ELSE IF dir = 1 THEN 0 ELSE MaxPos + 1
Ahead(p) == dir * (p - From) > 0
Skipped(p) == {r \in lasting : Ahead(r) /\ dir * (p - r) > 0}

Fetch ==
  /\ fetches' = 1 - fetches
  /\ \/ at' \in lasting \cup passing /\ Ahead(at') /\ Skipped(at') = {}
     \/ at' = 0 /\ {r \in lasting : Ahead(r)} = {}
  /\ UNCHANGED <<lasting, passing, dir>>

Next == Begin \/ Ask \/ Fetch

Spec == Init /\ [][Next]_vars
=============================================================================
