------------------------------ MODULE ToastRow ------------------------------
(***************************************************************************)
(* A table with long values through its statements: what the toaster of     *)
(* pg_tde (src/access/pg_tdetoast.c) does when rows are inserted, updated,  *)
(* deleted and inserted speculatively (src/access/pg_tdeam.c), in one       *)
(* session, with transactions that commit or abort.                         *)
(*                                                                          *)
(* A long value that leaves the row is encrypted as a whole with the        *)
(* keystream of the TOAST table from offset 0, so that crypting it twice    *)
(* gives it back: enc says whether bytes are crypted.  Rows on a page are   *)
(* encrypted too, all but their headers.  The tuple a statement is about to *)
(* store lies in the executor's slot and is used again after the table      *)
(* access method returns: when a speculative insertion has failed, for      *)
(* EXCLUDED, for RETURNING and by triggers.                                 *)
(***************************************************************************)
EXTENDS Integers, Sequences, FiniteSets, FiniteSetsExt

CONSTANTS
  Attr,          \* attributes, all of them long texts (attstorage EXTENDED)
  Text,          \* contents of long values
  Compressible,  \* those that shrink when compressed
  MaxDataLen,    \* toast_tuple_target, in the units of Width
  MaxStmt        \* bound: statements

ASSUME ToastRowAssumption == IsFiniteSet(Attr) /\ Attr \subseteq Int

VARIABLES
  rows,      \* row versions: their values, what was asked for, their state
  toast,     \* TOAST entries: bytes and state
  stmt,      \* the statement under way and the tuple in its slot
  nstmt

rowVars == <<rows, toast, stmt, nstmt>>

(* States of a row version or an entry: put there by the running transaction *)
(* ("mine"), there for everybody ("live"), deleted by the running            *)
(* transaction ("dying"), and gone.                                         *)
OnCommit(s) == CASE s = "mine" -> "live" [] s = "dying" -> "gone" [] OTHER -> s
OnAbort(s) == CASE s = "mine" -> "gone" [] s = "dying" -> "live" [] OTHER -> s
OnDelete(s) == IF s = "mine" THEN "gone" ELSE "dying"
Seen(s) == s \in {"mine", "live"}

Empty == [text |-> "", enc |-> FALSE]
Value(kind, bytes, id) == [kind |-> kind, bytes |-> bytes, id |-> id]
Null == Value("null", Empty, 0)
Inline(bytes) == Value("inline", bytes, 0)
Compressed(bytes) == Value("compressed", bytes, 0)
External(id) == Value("external", Empty, id)

Plain(text) == [text |-> text, enc |-> FALSE]
New == {Null} \cup {Inline(Plain(t)) : t \in Text}       \* values a statement may bring

Idle == [pc |-> "idle", row |-> 0, slot |-> [a \in Attr |-> Null],
         want |-> [a \in Attr |-> Null]]

RowInit == rows = <<>> /\ toast = <<>> /\ stmt = Idle /\ nstmt = 0

----------------------------------------------------------------------------
(* pg_tde_toast_insert_or_update *)

Width(v) == CASE v.kind = "null" -> 0 [] v.kind = "inline" -> 4
              [] v.kind = "compressed" -> 2 [] v.kind = "external" -> 1
Size(vals) == MapThenSumSet(LAMBDA a : Width(vals[a]), Attr)

(* PG_TDE_ENCRYPT_DATA with a keystream: done twice it undoes itself. *)
EncryptNothing(bytes) == bytes
PG_TDE_ENCRYPT_DATA(bytes) == [bytes EXCEPT !.enc = ~@]

(* The whole value back from its entry, compressed if it was stored so. *)
Fetched(v) ==
  IF v.kind = "external"
  THEN Value(toast[v.id].kind, [toast[v.id].bytes EXCEPT !.enc = ~@], 0) ELSE v

(* The old tuple is deformed where it lies on the page: its header and its   *)
(* nulls are right, its values are ciphertext and look like no pointer.      *)
DeformOnPage(vals) == [a \in Attr |-> IF vals[a].kind = "null" THEN Null ELSE Inline(Empty)]

(* toast_tuple_init: a value that stays keeps its entry, another one of an   *)
(* old tuple is done with, and the rest is fetched to be stored again.       *)
Kept(old, new) == {a \in Attr : old[a].kind = "external" /\ new[a] = old[a]}
Unneeded(old, new) == {old[a].id : a \in {b \in Attr : old[b].kind = "external" /\ new[b] # old[b]}}

(* Attributes are compressed (zip) and pushed out (out) until the row fits.  *)
(* The result without the new pointers.                                      *)
Shrunk(vals, zip) ==
  [a \in Attr |-> IF a \in zip THEN Compressed(vals[a].bytes) ELSE vals[a]]
Pushed(vals, out) == [a \in Attr |-> IF a \in out THEN External(0) ELSE vals[a]]

CanShrink(v) == v.kind = "inline" /\ ~v.bytes.enc /\ v.bytes.text \in Compressible
MayToast(vals, zip, out) ==
  /\ zip \subseteq {a \in Attr : CanShrink(vals[a])}
  /\ out \subseteq {a \in Attr : vals[a].kind \in {"inline", "compressed"}}
  /\ Size(Pushed(Shrunk(vals, zip), out)) <= MaxDataLen
  /\ \A a \in zip : Size(vals) > MaxDataLen
  /\ \A a \in out : /\ Size(Pushed(Shrunk(vals, zip), out \ {a})) > MaxDataLen
                    /\ CanShrink(vals[a]) => a \in zip

(* Entries are numbered in the order of the attributes. *)
NewId(out, a) == Len(toast) + Cardinality({b \in out : b <= a})

(* pg_tde_toast_tuple_externalize: the bytes are encrypted where they lie,   *)
(* in the tuple of the slot unless the value is a copy, then stored.         *)
Entries(vals, out) ==
  [i \in 1..Cardinality(out) |->
     LET v == vals[CHOOSE a \in out : NewId(out, a) = Len(toast) + i]
     IN  [kind |-> v.kind, bytes |-> PG_TDE_ENCRYPT_DATA(v.bytes), state |-> "mine"]]
InPlace(slot, zip, out) ==
  [a \in Attr |-> IF a \in out \ zip /\ slot[a].kind # "external"
                  THEN [slot[a] EXCEPT !.bytes = PG_TDE_ENCRYPT_DATA(@)] ELSE slot[a]]

Deleted(ids) ==
  [i \in DOMAIN toast |-> IF i \in ids THEN [toast[i] EXCEPT !.state = OnDelete(@)] ELSE toast[i]]

(* The toaster: the row's values, and what becomes of the entries and the slot. *)
pg_tde_toast_insert_or_update(vals, old, zip, out) ==
  LET small == Shrunk(vals, zip)
  IN  [vals |-> [a \in Attr |-> IF a \in out THEN External(NewId(out, a)) ELSE small[a]],
       toast |-> Deleted(Unneeded(old, stmt.slot)) \o Entries(small, out),
       slot |-> InPlace(stmt.slot, zip, out)]

(* The values the toaster starts from. *)
ToToast(old) == [a \in Attr |-> IF a \in Kept(old, stmt.slot) THEN stmt.slot[a]
                                ELSE Fetched(stmt.slot[a])]

RowVersion(vals) == [vals |-> vals, want |-> stmt.want, state |-> "mine"]

----------------------------------------------------------------------------
(* Statements *)

Begin(pc, r, slot, want) ==
  /\ stmt.pc = "idle" /\ nstmt < MaxStmt /\ nstmt' = nstmt + 1
  /\ stmt' = [pc |-> pc, row |-> r, slot |-> slot, want |-> want]
  /\ UNCHANGED <<rows, toast>>

InsertStmt(vals) == Begin("insert", 0, vals, vals)

(* Attributes that are not set come from the old row version, as they are there. *)
UpdateStmt(r, set, vals) ==
  /\ r \in DOMAIN rows /\ Seen(rows[r].state)
  /\ Begin("update", r,
           [a \in Attr |-> IF a \in set THEN vals[a] ELSE rows[r].vals[a]],
           [a \in Attr |-> IF a \in set THEN vals[a] ELSE rows[r].want[a]])

(* pg_tde_insert.  A speculative row waits for its index entries. *)
pg_tde_insert(spec, zip, out) ==
  LET none == [a \in Attr |-> Null]
      new == pg_tde_toast_insert_or_update(ToToast(none), none, zip, out)
  IN  /\ stmt.pc = "insert" /\ MayToast(ToToast(none), zip, out)
      /\ rows' = Append(rows, RowVersion(new.vals))
      /\ toast' = new.toast
      /\ stmt' = IF spec THEN [stmt EXCEPT !.pc = "index", !.row = Len(rows) + 1,
                                           !.slot = new.slot]
                 ELSE Idle
      /\ UNCHANGED nstmt

pg_tde_finish_speculative ==
  /\ stmt.pc = "index" /\ stmt' = Idle
  /\ UNCHANGED <<rows, toast, nstmt>>

(* An index entry conflicts: the row is killed, pg_tde_toast_delete looks at *)
(* it on the page, and the executor tries again with the tuple in the slot.  *)
pg_tde_abort_speculative ==
  LET r == stmt.row
      old == DeformOnPage(rows[r].vals)
  IN  /\ stmt.pc = "index"
      /\ rows' = [rows EXCEPT ![r].state = "gone"]
      /\ toast' = Deleted({old[a].id : a \in {b \in Attr : old[b].kind = "external"}})
      /\ stmt' = [stmt EXCEPT !.pc = "insert", !.row = 0]
      /\ UNCHANGED nstmt

(* ON CONFLICT DO UPDATE: the row in the way gets the values of EXCLUDED. *)
OnConflictUpdate(r) ==
  /\ stmt.pc = "insert"
  /\ r \in DOMAIN rows /\ rows[r].state = "live"
  /\ stmt' = [stmt EXCEPT !.pc = "update", !.row = r]
  /\ UNCHANGED <<rows, toast, nstmt>>

pg_tde_update(zip, out) ==
  LET r == stmt.row
      old == DeformOnPage(rows[r].vals)
      new == pg_tde_toast_insert_or_update(ToToast(old), old, zip, out)
  IN  /\ stmt.pc = "update" /\ MayToast(ToToast(old), zip, out)
      /\ rows' = Append([rows EXCEPT ![r].state = OnDelete(@)], RowVersion(new.vals))
      /\ toast' = new.toast
      /\ stmt' = Idle
      /\ UNCHANGED nstmt

pg_tde_delete(r) ==
  LET old == DeformOnPage(rows[r].vals)
  IN  /\ stmt.pc = "idle" /\ nstmt < MaxStmt /\ nstmt' = nstmt + 1
      /\ r \in DOMAIN rows /\ Seen(rows[r].state)
      /\ rows' = [rows EXCEPT ![r].state = OnDelete(@)]
      /\ toast' = Deleted({old[a].id : a \in {b \in Attr : old[b].kind = "external"}})
      /\ UNCHANGED stmt

----------------------------------------------------------------------------
(* Transactions *)

Ended(s, On(_)) == [i \in DOMAIN s |-> [s[i] EXCEPT !.state = On(@)]]

Commit ==
  /\ stmt.pc = "idle"
  /\ rows' = Ended(rows, OnCommit) /\ toast' = Ended(toast, OnCommit)
  /\ UNCHANGED <<stmt, nstmt>>

(* Also in the middle of a statement: ciphertext that was taken for a toast  *)
(* pointer is one of the errors.                                            *)
Abort ==
  /\ stmt' = Idle
  /\ rows' = Ended(rows, OnAbort) /\ toast' = Ended(toast, OnAbort)
  /\ UNCHANGED nstmt

(* INSERT, UPDATE and DELETE *)
PlainNext ==
  \/ \E vals \in [Attr -> New] : InsertStmt(vals)
  \/ \E r \in DOMAIN rows, set \in SUBSET Attr \ {{}}, vals \in [Attr -> New] :
       UpdateStmt(r, set, vals)
  \/ \E zip, out \in SUBSET Attr : pg_tde_insert(FALSE, zip, out) \/ pg_tde_update(zip, out)
  \/ \E r \in DOMAIN rows : pg_tde_delete(r)
  \/ Commit \/ Abort

(* INSERT ... ON CONFLICT *)
SpeculativeNext ==
  \/ \E zip, out \in SUBSET Attr : pg_tde_insert(TRUE, zip, out)
  \/ pg_tde_finish_speculative \/ pg_tde_abort_speculative
  \/ \E r \in DOMAIN rows : OnConflictUpdate(r)

PlainSpec == RowInit /\ [][PlainNext]_rowVars
RowSpec == RowInit /\ [][PlainNext \/ SpeculativeNext]_rowVars

----------------------------------------------------------------------------
(* A row reads back as the statement that wrote it meant it, whatever way    *)
(* its long values went: compressed, pushed out, kept or fetched and pushed  *)
(* out again by later updates.  The toaster promises that "neither newtup    *)
(* nor oldtup will be modified".                                            *)
RowsExact ==
  \A i \in DOMAIN rows : Seen(rows[i].state) =>
    \A a \in Attr :
      LET v == rows[i].vals[a]
      IN  /\ v.kind = "external" => Seen(toast[v.id].state)
          /\ Fetched(v).bytes = rows[i].want[a].bytes
=============================================================================
