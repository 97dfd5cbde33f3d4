--------------------------- MODULE MCSchemaMigration ---------------------------
(* Two users of every released table layout.                                *)
EXTENDS SchemaMigration

CONSTANTS u1, u2

Symmetry == Permutations({u1, u2})
=============================================================================
