------------------------------ MODULE MCParts ------------------------------
(***************************************************************************)
(* Small instances of five parts of the table access method that are         *)
(* independent of each other, for one run of TLC: every behaviour exercises  *)
(* one of them (task), the others stay in an initial state.                 *)
(***************************************************************************)
EXTENDS Crypt, Toast, ToastRow, Scan

VARIABLES
  task,
  kind, len, hoff, lpOff, live, unused, nline, hasFree, pd_upper, page, scratch, upper,
  copy_tail, copy_head, i, compactpc

compactVars == <<kind, len, hoff, lpOff, live, unused, nline, hasFree, pd_upper, page,
                 scratch, upper, copy_tail, copy_head, i, compactpc>>

P == INSTANCE Compactify WITH
  Special <- 24, Align <- 2, HeaderSize <- 2, HOff <- {2}, TupleLen <- {5, 8},
  NItems <- 3, MaxLines <- 6, Fraction <- 2, Kinds <- {"table"}, pc <- compactpc

(* One text can be compressed, the other cannot. *)
MCText == {"random", "regular"}
MCCompressible == {"regular"}

Full == {<<"lasting", "unused">>, <<"passing", "lasting">>}
MCTables == {<<>>} \cup [1..2 -> Full \cup {<<>>}] \cup [1..3 -> Full]
              \cup {<<p, <<>>, q>> : p, q \in Full}
MCRanges == {<<0, 2>>, <<1, 1>>, <<1, 2>>} \X {<<0, 1>>, <<1, 1>>, <<2, 1>>, <<9, 9>>}

ASSUME PartsAssumption == P!CompactifyAssumption

----------------------------------------------------------------------------
(* The initial states of the parts that do not take part. *)
CryptIdle == start_offset = 0 /\ data_len = 0
ToastIdle ==
  compressed = FALSE /\ attrsize = 1 /\ sliceoffset = 0 /\ slicelength = 1 /\ present = {0}
CompactIdle ==
  /\ kind = "table" /\ len = <<5, 5, 5>> /\ hoff = <<2, 2, 2>> /\ lpOff = <<>> /\ live = {} /\ unused = {}
  /\ nline = 0 /\ hasFree = FALSE /\ pd_upper = 0 /\ page = <<>> /\ scratch = <<>>
  /\ upper = 0 /\ copy_tail = 0 /\ copy_head = 0 /\ i = 0 /\ compactpc = "collect"
ScanIdle == pages = [b \in 0..-1 |-> <<>>]

MCInit ==
  /\ task \in {"crypt", "toast", "compact", "rows", "scan"}
  /\ task # "crypt" => CryptIdle
  /\ task # "toast" => ToastIdle
  /\ task # "scan" => ScanIdle
  /\ IF task = "compact" THEN P!Init ELSE CompactIdle
  /\ Init /\ ToastInit /\ RowInit /\ ScanInit

Only(t) ==
  /\ task = t /\ UNCHANGED task
  /\ IF t = "crypt" THEN TRUE ELSE UNCHANGED vars
  /\ IF t = "toast" THEN TRUE ELSE UNCHANGED toastVars
  /\ IF t = "compact" THEN TRUE ELSE UNCHANGED compactVars
  /\ IF t = "rows" THEN TRUE ELSE UNCHANGED rowVars
  /\ IF t = "scan" THEN TRUE ELSE UNCHANGED scanVars

MCNext ==
  \/ Only("crypt") /\ Next
  \/ Only("toast") /\ ToastNext
  \/ Only("compact") /\ P!Next
  \/ Only("rows") /\ PlainNext
  \/ Only("scan") /\ ScanNext

MCSpec == MCInit /\ [][MCNext]_<<task, vars, toastVars, compactVars, rowVars, scanVars>>

----------------------------------------------------------------------------
(* Properties of Compactify; that module explains them. *)

(* Defragmentation loses no byte of a tuple. *)
LayoutKept == P!LayoutKept
(* Defragmentation leaves tuples of one length readable. *)
UniformTuplesReadable == P!UniformTuplesReadable
=============================================================================
