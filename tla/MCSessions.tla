------------------------------ MODULE MCSessions ------------------------------
(* Instances of Sessions for TLC. *)
EXTENDS Sessions, TLC

\* Client device ids are only ever compared for equality.
ClientIds == Permutations(Clients)

\* Once the account is being operated on, one token less is issued.
FewerTokensUnderOperations == left = MaxOperations \/ Cardinality(Issued) < MaxTokens
=============================================================================
