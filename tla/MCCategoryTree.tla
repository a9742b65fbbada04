---------------------------- MODULE MCCategoryTree ----------------------------
(* Instances of CategoryTree for TLC. *)
EXTENDS CategoryTree, TLC

CONSTANTS a, b, c, d

\* Category ids are only ever compared for equality.
Ids == Permutations(Categories)

\* Bound: no more than one category inactive at a time, deleted ones included.
OneInactive == Cardinality({x \in Categories : row[x] # NoCategory /\ ~row[x].active}) <= 1
=============================================================================
