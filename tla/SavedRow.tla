------------------------------ MODULE SavedRow ------------------------------
(***************************************************************************)
(* TypeORM's Repository.save, as the broker uses it (external): an entity  *)
(* is compared with the row as it is now, and the columns that differ are  *)
(* written by a statement of their own.  Not the row the entity was loaded *)
(* from: a column that somebody else has changed meanwhile differs too.    *)
(***************************************************************************)
CONSTANT NoRow          \* a row that does not exist

Changed(entity, row) == {c \in DOMAIN entity : entity[c] # row[c]}

\* The columns to write: the whole entity when there is no row.
Difference(entity, row) ==
  IF row = NoRow THEN entity
  ELSE [c \in Changed(entity, row) |-> entity[c]]

\* A row with the columns that patch names as patch has them.
Over(patch, row) ==
  [c \in DOMAIN patch \cup DOMAIN row |-> IF c \in DOMAIN patch THEN patch[c] ELSE row[c]]

\* Variant for checking: the other columns are lost.
PatchedAlone(patch, row) == patch

Patched(patch, row) == IF row = NoRow THEN patch ELSE Over(patch, row)
=============================================================================
