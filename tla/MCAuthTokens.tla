----------------------------- MODULE MCAuthTokens -----------------------------
(* Instances of AuthTokens for TLC. *)
EXTENDS AuthTokens, TLC

\* Client device ids are only ever compared for equality.
ClientIds == Permutations(Clients)
=============================================================================
