---------------------------- MODULE RelationKeys ----------------------------
(***************************************************************************)
(* What the key files promise: every relation in the catalogs has an        *)
(* internal key that no other relation has, and keeps it until the relation *)
(* is dropped.  Nothing else, and no crash, ever shows.                     *)
(***************************************************************************)
EXTENDS Naturals

CONSTANTS Relation, Key, NoRelation

VARIABLE keyOf   \* per relation: its key; NoRelation: the relation does not exist

Exists(r) == keyOf[r] # NoRelation

Init == keyOf = [r \in Relation |-> NoRelation]

\* A transaction commits: it creates and drops any number of relations.
CommitDDL ==
  /\ keyOf' \in [Relation -> Key \cup {NoRelation}]
  /\ \A r \in Relation : Exists(r) /\ keyOf'[r] # NoRelation => keyOf'[r] = keyOf[r]
  /\ \A r, s \in Relation : keyOf'[r] = keyOf'[s] /\ r # s => keyOf'[r] = NoRelation

Spec == Init /\ [][CommitDDL]_keyOf

=============================================================================
