--------------------------- MODULE MCTransactions ---------------------------
(***************************************************************************)
(* What transactions leave behind when they end: key files to unlink         *)
(* (XactHandler) and their ids in tuple headers (Freeze).  A small instance  *)
(* of each for one run of TLC: a behaviour exercises one of them (task), the *)
(* other stays in an initial state.                                         *)
(***************************************************************************)
EXTENDS XactHandler, Freeze

VARIABLE task

(* Two vacuums of two pages, and one of rows that two and three transactions *)
(* update and lock.                                                         *)
TwoVacuums ==
  [pages |-> <<<<"row">>, <<"free">>>>, xids |-> 3, touches |-> 2, vacuums |-> 2]
MCLoads ==
  {TwoVacuums,
   [pages |-> <<<<"row">>>>, xids |-> 4, touches |-> 3, vacuums |-> 1],
   [pages |-> <<<<"row", "row">>>>, xids |-> 3, touches |-> 3, vacuums |-> 1]}

ASSUME HeadersAssumption == FreezeAssumption

MCInit ==
  /\ task \in {"files", "headers"}
  /\ task # "headers" => load = TwoVacuums
  /\ Init /\ FreezeInit

MCNext ==
  \/ task = "files" /\ Next /\ UNCHANGED <<task, freezeVars>>
  \/ task = "headers" /\ FreezeNext /\ UNCHANGED <<task, vars>>

MCSpec == MCInit /\ [][MCNext]_<<task, vars, freezeVars>>
=============================================================================
