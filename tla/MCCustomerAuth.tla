---------------------------- MODULE MCCustomerAuth ----------------------------
(* Instances of AdminAuth, with CustomerAuth in it, for TLC. *)
EXTENDS AdminAuth, TLC

\* Requests of one kind are only ever compared for equality.
SameKind == Permutations(Verifies) \cup Permutations(Logins)
=============================================================================
