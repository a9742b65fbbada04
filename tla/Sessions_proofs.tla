-------------------------- MODULE Sessions_proofs --------------------------
(***************************************************************************)
(* Tokens, rotations and what shuts an account out, for any clients,       *)
(* requests and number of tokens and operations: IInv is inductive.        *)
(***************************************************************************)
EXTENDS Sessions, FiniteSetTheorems, TLAPS

-----------------------------------------------------------------------------
(* Types of AuthTokens. *)

LEMMA TokensType ==
  /\ \A x \in TokenRow, s \in TokenState : [x EXCEPT !.state = s] \in TokenRow
  /\ \A x \in TokenRow : [x EXCEPT !.aged = TRUE] \in TokenRow
  /\ NoJob \in Job
<1>1. \A x \in TokenRow, s \in TokenState : [x EXCEPT !.state = s] \in TokenRow
  BY DEF TokenRow
<1>2. \A x \in TokenRow : [x EXCEPT !.aged = TRUE] \in TokenRow
  BY DEF TokenRow
<1>3. NoJob \in Job
  BY DEF NoJob, Job
<1> QED
  BY <1>1, <1>2, <1>3

LEMMA GoToType ==
  ASSUME TypeOK, NEW r \in Requests, NEW s \in PC, GoTo(r, s) PROVE pc' \in [Requests -> PC]
BY DEF TypeOK, GoTo

LEMMA AnswerType ==
  ASSUME TypeOK, NEW r \in Requests, Answer(r)
  PROVE  pc' \in [Requests -> PC] /\ job' \in [Requests -> Job]
BY TokensType, GoToType DEF TypeOK, Answer, PC

LEMMA OffType ==
  ASSUME TypeOK, NEW cs, Off(cs) PROVE device' \in [Clients -> Device]
<1>1. \A x \in Device : [x EXCEPT !.active = FALSE] \in Device
  BY DEF Device
<1> QED
  BY <1>1 DEF TypeOK, Off

LEMMA RevokeType ==
  ASSUME TypeOK, NEW ts, RevokeThose(ts) PROVE token' \in [Tokens -> TokenRow]
BY TokensType DEF TypeOK, RevokeThose, TokenState

LEMMA TokensFinite == IsFiniteSet(Issued) /\ Cardinality(Issued) \in Nat
<1>1. IsFiniteSet(Tokens)
  BY MaxTokensType, FS_Interval DEF Tokens
<1> QED
  BY <1>1, FS_Subset, FS_CardinalityType DEF Issued

LEMMA InsertType ==
  ASSUME TypeOK, NEW c \in Clients \cup {NoClient}, NEW family \in Nat, Insert(c, family)
  PROVE  token' \in [Tokens -> TokenRow]
<1> DEFINE t == Cardinality(Issued) + 1
           row == [state |-> "live", client |-> c, aged |-> FALSE,
                   family |-> IF family = 0 THEN t ELSE family]
<1>1. t \in Nat
  BY TokensFinite
<1> HIDE DEF t
<1>2. row \in TokenRow
  BY <1>1 DEF TokenRow, TokenState
<1>3. token' = [token EXCEPT ![t] = row]
  BY DEF Insert, t
<1> QED
  BY <1>2, <1>3 DEF TypeOK

LEMMA LoginType ==
  ASSUME TypeOK, NEW r \in Logins, Login(r) PROVE TypeOK'
<1> r \in Requests
  BY DEF Requests
<1>1. ASSUME NEW c \in Clients, NEW changed \in BOOLEAN, FindDevice(r, c, changed) PROVE TypeOK'
  <2>1. pc' \in [Requests -> PC]
    BY <1>1, GoToType DEF FindDevice, PC
  <2>2. [NoJob EXCEPT !.client = c] \in Job
    BY DEF NoJob, Job
  <2> QED
    BY <1>1, <2>1, <2>2 DEF TypeOK, FindDevice
<1>2. CASE CreateDevice(r)
  <2>1. pc' \in [Requests -> PC]
    BY <1>2, GoToType DEF CreateDevice, PC
  <2>2. device' \in [Clients -> Device]
    <3>1. [known |-> TRUE, active |-> TRUE] \in Device
      BY DEF Device
    <3> QED
      BY <1>2, <3>1 DEF CreateDevice, TypeOK
  <2> QED
    BY <1>2, <2>1, <2>2 DEF TypeOK, CreateDevice
<1>3. CASE ReplaceDevice(r)
  <2>1. pc' \in [Requests -> PC]
    BY <1>3, GoToType DEF ReplaceDevice, PC
  <2> QED
    BY <1>3, <2>1, OffType DEF TypeOK, ReplaceDevice
<1>4. CASE TouchDevice(r)
  <2>1. pc' \in [Requests -> PC]
    BY <1>4, GoToType DEF TouchDevice, PC
  <2>2. device' \in [Clients -> Device]
    <3>1. \A x \in Device : [x EXCEPT !.active = TRUE] \in Device
      BY DEF Device
    <3> QED
      BY <1>4, <3>1 DEF TouchDevice, TypeOK
  <2> QED
    BY <1>4, <2>1, <2>2 DEF TypeOK, TouchDevice
<1>5. CASE IssueAtLogin(r)
  <2>1. job[r].client \in Clients \cup {NoClient}
    BY DEF TypeOK, Job
  <2> QED
    BY <1>5, <2>1, AnswerType, InsertType DEF TypeOK, IssueAtLogin
<1>6. CASE LoginFails(r)
  BY <1>6, AnswerType DEF TypeOK, LoginFails
<1> QED
  BY <1>1, <1>2, <1>3, <1>4, <1>5, <1>6 DEF Login

LEMMA RefreshType ==
  ASSUME TypeOK, TokensOK, RotationsOK, NEW r \in Refreshes, Refresh(r) PROVE TypeOK'
<1> r \in Requests
  BY DEF Requests
<1>1. ASSUME NEW t \in Tokens, ReadToken(r, t) PROVE TypeOK'
  <2>1. pc' \in [Requests -> PC]
    BY <1>1, GoToType DEF ReadToken, PC
  <2>2. [client |-> token[t].client, token |-> t, family |-> token[t].family] \in Job
    BY MaxTokensType DEF TypeOK, TokenRow, Job, Tokens
  <2> QED
    BY <1>1, <2>1, <2>2 DEF TypeOK, ReadToken
<1>2. CASE BurnFamily(r)
  <2>1. pc' \in [Requests -> PC]
    BY <1>2, GoToType DEF BurnFamily, PC
  <2>2. job[r].family \in Tokens
    BY <1>2 DEF BurnFamily, RotationsOK, TokensOK, Issued
  <2> QED
    BY <1>2, <2>1, <2>2, RevokeType DEF TypeOK, BurnFamily
<1>3. CASE TurnOffDevice(r)
  BY <1>3, AnswerType, OffType DEF TypeOK, TurnOffDevice
<1>4. CASE RevokeRotated(r)
  <2>1. pc' \in [Requests -> PC] /\ job' \in [Requests -> Job]
    BY <1>4, AnswerType, GoToType DEF RevokeRotated, PC, TypeOK
  <2>2. token' \in [Tokens -> TokenRow]
    <3>1. job[r].token \in Tokens => Rotated(job[r].token) \in TokenRow
      BY TokensType DEF TypeOK, Rotated, TokenState
    <3> QED
      BY <1>4, <3>1 DEF TypeOK, RevokeRotated
  <2> QED
    BY <1>4, <2>1, <2>2 DEF TypeOK, RevokeRotated
<1>5. CASE IssueAtRotation(r)
  <2>1. job[r].client \in Clients \cup {NoClient} /\ job[r].family \in Nat
    BY DEF TypeOK, Job
  <2> QED
    BY <1>5, <2>1, AnswerType, InsertType DEF TypeOK, IssueAtRotation
<1> QED
  BY <1>1, <1>2, <1>3, <1>4, <1>5 DEF Refresh

LEMMA LogoutType ==
  ASSUME TypeOK, NEW r \in Logouts, Logout(r) PROVE TypeOK'
<1> r \in Requests
  BY DEF Requests
<1>1. CASE BeginLogout(r)
  <2>1. pc' \in [Requests -> PC]
    BY <1>1, GoToType DEF BeginLogout, PC
  <2>2. ASSUME NEW t \in Tokens PROVE [NoJob EXCEPT !.client = token[t].client, !.token = t] \in Job
    <3>1. token[t].client \in Clients \cup {NoClient} /\ t \in Nat
      BY DEF TypeOK, TokenRow, Tokens
    <3> QED
      BY <3>1 DEF NoJob, Job
  <2>3. ASSUME NEW c \in Clients PROVE [NoJob EXCEPT !.client = c] \in Job
    BY DEF Job, NoJob
  <2>4. job' \in [Requests -> Job]
    BY <1>1, <2>2, <2>3 DEF TypeOK, BeginLogout, Issued
  <2> QED
    BY <1>1, <2>1, <2>4 DEF TypeOK, BeginLogout
<1>2. CASE RevokeToken(r) \/ RevokeDeviceTokens(r) \/ RevokeAllTokens(r)
  <2>1. pc' \in [Requests -> PC]
    BY <1>2, GoToType DEF RevokeToken, RevokeDeviceTokens, RevokeAllTokens, PC
  <2> QED
    BY <1>2, <2>1, RevokeType DEF TypeOK, RevokeToken, RevokeDeviceTokens, RevokeAllTokens
<1>3. CASE RevokeDevice(r) \/ RevokeAllDevices(r)
  BY <1>3, AnswerType, OffType DEF TypeOK, RevokeDevice, RevokeAllDevices
<1> QED
  BY <1>1, <1>2, <1>3 DEF Logout

LEMMA TokensAgeType ==
  ASSUME TypeOK, (\E t \in Tokens : Age(t)) \/ CleanupExpiredTokens PROVE TypeOK'
<1>1. ASSUME NEW t \in Tokens, Age(t) PROVE TypeOK'
  BY <1>1, TokensType DEF TypeOK, Age
<1>2. CASE CleanupExpiredTokens
  BY <1>2, TokensType DEF TypeOK, CleanupExpiredTokens, TokenState
<1> QED
  BY <1>1, <1>2

-----------------------------------------------------------------------------
(* Types of Sessions. *)

Places == SigningIn \cup Operations(kind) \cup {"idle", "revoke", "remove"}

LEMMA VisitType ==
  ASSUME SessionsTypeOK, NEW r \in Logins \cup Logouts, NEW p \in Places, VisitGoes(r, p)
  PROVE  visit' \in [Logins \cup Logouts -> Places]
BY DEF SessionsTypeOK, VisitGoes, Places

\* The tables and requests of AuthTokens, in every action of Sessions.
LEMMA TablesType ==
  ASSUME SessionsTypeOK, TokensOK, RotationsOK, [SessionsNext]_allVars PROVE TypeOK'
<1> TypeOK
  BY DEF SessionsTypeOK
<1>1. UNCHANGED vars => TypeOK'
  BY DEF vars, TypeOK
<1>2. ASSUME NEW r \in Logins, SignIn(r) PROVE TypeOK'
  <2>1. ReadAccount(r) => UNCHANGED vars
    BY DEF ReadAccount
  <2>2. SignIn(r) => ReadAccount(r) \/ Login(r)
    BY DEF SignIn, EnterDevice, StoreDevice, SignedIn, NotSignedIn, Login
  <2> QED
    BY <1>1, <1>2, <2>1, <2>2, LoginType
<1>3. ASSUME NEW r \in Refreshes, Rotate(r) PROVE TypeOK'
  BY <1>3, RefreshType DEF Rotate
<1>4. ASSUME NEW d \in Logouts, OnAccount(d) PROVE TypeOK'
  <2> d \in Requests
    BY DEF Requests
  <2>1. ASSUME NEW op \in Operations(kind), FindAccount(d, op) PROVE TypeOK'
    BY <2>1 DEF FindAccount, TypeOK, PC
  <2>2. CASE WritePassword(d) \/ Disable(d)
    <3>1. GoTo(d, "all_tokens") /\ UNCHANGED <<device, token, job, burned>>
      BY <2>2 DEF WritePassword, Disable, ThenRevoke
    <3>2. pc' \in [Requests -> PC]
      BY <3>1, GoToType DEF PC
    <3> QED
      BY <3>1, <3>2 DEF TypeOK
  <2>3. CASE Enable(d) \/ SoftDelete(d)
    BY <1>1, <2>3 DEF Enable, SoftDelete
  <2>4. CASE RevokeAllOfAccount(d) \/ TurnOffAllDevices(d)
    BY <2>4, LogoutType DEF RevokeAllOfAccount, TurnOffAllDevices, Logout
  <2> QED
    BY <1>4, <2>1, <2>2, <2>3, <2>4 DEF OnAccount
<1>5. UNCHANGED allVars => TypeOK'
  BY <1>1 DEF allVars
<1> QED
  BY <1>2, <1>3, <1>4, <1>5, LogoutType, TokensAgeType DEF SessionsNext

\* The account and the visits to it.
LEMMA SessionsType ==
  ASSUME SessionsTypeOK, TokensOK, RotationsOK, [SessionsNext]_allVars PROVE SessionsTypeOK'
<1> DEFINE Rest == /\ kind' = kind
                   /\ account' \in [active: BOOLEAN, deleted: BOOLEAN]
                   /\ visit' \in [Logins \cup Logouts -> Places]
                   /\ left' \in 0 .. MaxOperations
                   /\ late' \subseteq Logins \cup Refreshes
                   /\ spared' \subseteq Tokens /\ ended' \subseteq Tokens
<1>1. UNCHANGED sessionVars => Rest
  BY DEF sessionVars, SessionsTypeOK, Places
<1>2. ASSUME NEW r \in Logins, SignIn(r) PROVE Rest
  <2>1. CASE ReadAccount(r)
    BY <2>1, VisitType DEF ReadAccount, SessionsTypeOK, Places, SigningIn
  <2>2. CASE EnterDevice(r)
    BY <2>2, VisitType DEF EnterDevice, SessionsTypeOK, Places, SigningIn
  <2>3. CASE SignedIn(r)
    <3>1. visit' \in [Logins \cup Logouts -> Places]
      BY <2>3, VisitType DEF SignedIn, Leave, Places
    <3>2. Cardinality(Issued) + 1 \in Tokens
      BY <2>3, MaxTokensType, TokensFinite DEF SignedIn, IssueAtLogin, Room, Tokens
    <3> QED
      BY <2>3, <3>1, <3>2 DEF SignedIn, SessionsTypeOK
  <2>4. CASE NotSignedIn(r)
    <3>1. visit' \in [Logins \cup Logouts -> Places]
      BY <2>4, VisitType DEF NotSignedIn, Leave, Places
    <3> QED
      BY <2>4, <3>1 DEF NotSignedIn, SessionsTypeOK
  <2> QED
    BY <1>1, <1>2, <2>1, <2>2, <2>3, <2>4 DEF SignIn, StoreDevice
<1>3. ASSUME NEW f \in Refreshes, Rotate(f) PROVE Rest
  <2>1. pc[f] = "reissue" => job[f].family \in Tokens
    BY DEF RotationsOK, TokensOK, Issued
  <2> QED
    BY <1>3, <2>1 DEF Rotate, SessionsTypeOK, Places
<1>4. ASSUME NEW d \in Logouts, OnAccount(d) PROVE Rest
  <2>1. ASSUME NEW op \in Operations(kind), FindAccount(d, op) PROVE Rest
    <3>1. visit' \in [Logins \cup Logouts -> Places]
      BY <2>1, VisitType DEF FindAccount, Places
    <3> QED
      BY <2>1, <3>1, MaxOperationsType DEF FindAccount, SessionsTypeOK
  <2>2. CASE WritePassword(d) \/ Disable(d)
    <3>1. visit' \in [Logins \cup Logouts -> Places]
      BY <2>2, VisitType DEF WritePassword, Disable, ThenRevoke, Places
    <3>2. account' \in [active: BOOLEAN, deleted: BOOLEAN]
      BY <2>2 DEF WritePassword, Disable, SessionsTypeOK
    <3>3. Families \subseteq Tokens
      BY DEF Families, TokensOK, Issued
    <3> QED
      BY <2>2, <3>1, <3>2, <3>3 DEF WritePassword, Disable, Shut, SessionsTypeOK
  <2>3. CASE Enable(d) \/ SoftDelete(d)
    <3>1. visit' \in [Logins \cup Logouts -> Places]
      BY <2>3, VisitType DEF Enable, SoftDelete, Leave, Places
    <3>2. account' \in [active: BOOLEAN, deleted: BOOLEAN]
      BY <2>3 DEF Enable, SoftDelete, SessionsTypeOK
    <3> QED
      BY <2>3, <3>1, <3>2 DEF Enable, SoftDelete, SessionsTypeOK
  <2>4. CASE RevokeAllOfAccount(d)
    BY <2>4 DEF RevokeAllOfAccount, SessionsTypeOK, Places
  <2>5. CASE TurnOffAllDevices(d)
    <3>1. visit' \in [Logins \cup Logouts -> Places]
      BY <2>5, VisitType DEF TurnOffAllDevices, Leave, Places
    <3> QED
      BY <2>5, <3>1 DEF TurnOffAllDevices, SessionsTypeOK
  <2> QED
    BY <1>4, <2>1, <2>2, <2>3, <2>4, <2>5 DEF OnAccount
<1>5. Rest
  BY <1>1, <1>2, <1>3, <1>4 DEF SessionsNext, allVars
<1> QED
  BY <1>5, TablesType DEF SessionsTypeOK, Places

-----------------------------------------------------------------------------
(* Which actions write tokens, and what every action leaves of them.       *)

RevokesOnly == \E ts : RevokeThose(ts)
Ages == (\E t \in Tokens : Age(t)) \/ CleanupExpiredTokens

LEMMA TokenSteps ==
  ASSUME [SessionsNext]_allVars
  PROVE  \/ \E r \in Logins : SignedIn(r)
         \/ \E f \in Refreshes : Rotate(f) /\ (BurnFamily(f) \/ RevokeRotated(f) \/ IssueAtRotation(f))
         \/ RevokesOnly /\ UNCHANGED burned
         \/ Ages
         \/ UNCHANGED <<token, burned>>
<1>1. ASSUME NEW r \in Logins, SignIn(r), ~SignedIn(r) PROVE UNCHANGED <<token, burned>>
  BY <1>1 DEF SignIn, ReadAccount, EnterDevice, FindDevice, StoreDevice, CreateDevice,
     ReplaceDevice, TouchDevice, NotSignedIn, LoginFails, vars
<1>2. ASSUME NEW f \in Refreshes, Rotate(f),
             ~(BurnFamily(f) \/ RevokeRotated(f) \/ IssueAtRotation(f))
      PROVE  UNCHANGED <<token, burned>>
  BY <1>2 DEF Rotate, Refresh, ReadToken, TurnOffDevice
<1>3. ASSUME NEW d \in Logouts, OnAccount(d)
      PROVE  UNCHANGED burned /\ (RevokesOnly \/ UNCHANGED token)
  BY <1>3 DEF OnAccount, FindAccount, WritePassword, Disable, Enable, RevokeAllOfAccount,
     TurnOffAllDevices, SoftDelete, RevokeAllTokens, RevokeAllDevices, RevokesOnly, vars
<1>4. ASSUME NEW d \in Logouts, Logout(d)
      PROVE  UNCHANGED burned /\ (RevokesOnly \/ UNCHANGED token)
  BY <1>4 DEF Logout, BeginLogout, RevokeToken, RevokeDeviceTokens, RevokeDevice,
     RevokeAllTokens, RevokeAllDevices, RevokesOnly
<1>5. UNCHANGED allVars => UNCHANGED <<token, burned>>
  BY DEF allVars, vars
<1> QED
  BY <1>1, <1>2, <1>3, <1>4, <1>5 DEF SessionsNext, Ages

\* A token that was issued stays so, in its family; none comes back to life; and a token
\* beyond the last one has not been issued.
LEMMA NextIsFree ==
  ASSUME TypeOK, TokensOK
  PROVE  /\ Cardinality(Issued) + 1 \notin Issued
         /\ \A t \in Issued : t \in Tokens /\ t <= Cardinality(Issued)
<1>1. /\ Cardinality(Issued) + 1 \notin Issued
      /\ \A t \in Issued : t <= Cardinality(Issued)
  BY TokensFinite DEF TokensOK
<1> QED
  BY <1>1 DEF Issued

LEMMA TokenKept ==
  ASSUME TypeOK, TokensOK, RotationsOK, [SessionsNext]_allVars, NEW t \in Issued
  PROVE  /\ t \in Issued'
         /\ token'[t].family = token[t].family
         /\ t \in LiveTokens' => t \in LiveTokens
<1> DEFINE Kept == /\ token'[t].state # "none"
                   /\ token'[t].family = token[t].family
                   /\ token'[t].state = "live" => token[t].state = "live"
<1>1. t \in Tokens /\ token[t] \in TokenRow /\ token[t].state # "none"
  BY DEF TypeOK, Issued
<1>2. token'[t] = token[t] => Kept
  BY <1>1
<1>3. ASSUME NEW s \in {"revoked", "deleted"}, token'[t] = [token[t] EXCEPT !.state = s] PROVE Kept
  BY <1>1, <1>3 DEF TokenRow
<1>4. ASSUME token'[t] = [token[t] EXCEPT !.aged = TRUE] PROVE Kept
  BY <1>1, <1>4 DEF TokenRow
<1>5. ASSUME NEW ts, RevokeThose(ts) PROVE Kept
  BY <1>1, <1>2, <1>3, <1>5 DEF RevokeThose
<1>6. ASSUME NEW c, NEW family, Insert(c, family) PROVE Kept
  <2>1. token'[t] = token[t]
    BY <1>1, <1>6, NextIsFree DEF Insert, TypeOK
  <2> QED
    BY <1>2, <2>1
<1>7. ASSUME NEW f \in Refreshes, RevokeRotated(f) PROVE Kept
  <2>1. token'[t] = token[t] \/ token'[t] = [token[t] EXCEPT !.state = "revoked"]
    BY <1>1, <1>7 DEF RevokeRotated, Rotated, TypeOK
  <2> QED
    BY <1>2, <1>3, <2>1
<1>8. ASSUME NEW u \in Tokens, Age(u) PROVE Kept
  <2>1. token'[t] = token[t] \/ token'[t] = [token[t] EXCEPT !.aged = TRUE]
    BY <1>1, <1>8 DEF Age, TypeOK
  <2> QED
    BY <1>2, <1>4, <2>1
<1>9. ASSUME CleanupExpiredTokens PROVE Kept
  <2>1. token'[t] = token[t] \/ token'[t] = [token[t] EXCEPT !.state = "deleted"]
    BY <1>1, <1>9 DEF CleanupExpiredTokens
  <2> QED
    BY <1>2, <1>3, <2>1
<1>10. Kept
  <2> HIDE DEF Kept
  <2>1. ASSUME NEW r \in Logins, SignedIn(r) PROVE Kept
    BY <1>6, <2>1 DEF SignedIn, IssueAtLogin
  <2>2. ASSUME NEW f \in Refreshes, BurnFamily(f) PROVE Kept
    BY <1>5, <2>2 DEF BurnFamily
  <2>3. ASSUME NEW f \in Refreshes, IssueAtRotation(f) PROVE Kept
    BY <1>6, <2>3 DEF IssueAtRotation
  <2>4. Ages => Kept
    BY <1>8, <1>9 DEF Ages
  <2>5. RevokesOnly => Kept
    BY <1>5 DEF RevokesOnly
  <2>6. UNCHANGED token => Kept
    BY <1>2
  <2> QED
    BY <1>7, <2>1, <2>2, <2>3, <2>4, <2>5, <2>6, TokenSteps
<1> QED
  BY <1>1, <1>10 DEF Issued, LiveTokens

\* A token is issued by a sign-in, as the first of its family, or by a rotation.
LEMMA TokenIssued ==
  ASSUME TypeOK, TokensOK, RotationsOK, [SessionsNext]_allVars,
         NEW t \in Issued', t \notin Issued
  PROVE  /\ t = Cardinality(Issued) + 1
         /\ \/ \E r \in Logins : SignedIn(r) /\ token'[t].family = t
            \/ \E f \in Refreshes : /\ Rotate(f) /\ IssueAtRotation(f) /\ pc[f] = "reissue"
                                    /\ token'[t].family = job[f].family
<1>1. t \in Tokens /\ token[t].state = "none" /\ token'[t].state # "none"
  BY DEF Issued
<1>2. ASSUME NEW ts, RevokeThose(ts) PROVE FALSE
  BY <1>1, <1>2 DEF RevokeThose, LiveTokens
<1>3. ASSUME NEW f \in Refreshes, RevokeRotated(f) PROVE FALSE
  BY <1>1, <1>3 DEF RevokeRotated, RotationsOK, Issued, TypeOK
<1>4. ASSUME Ages PROVE FALSE
  BY <1>1, <1>4 DEF Ages, Age, CleanupExpiredTokens, Issued, TypeOK
<1>5. ASSUME NEW c, NEW family, Insert(c, family)
      PROVE  /\ t = Cardinality(Issued) + 1
             /\ token'[t].family = IF family = 0 THEN t ELSE family
  BY <1>1, <1>5 DEF Insert, TypeOK
<1>6. ASSUME NEW r \in Logins, SignedIn(r)
      PROVE  t = Cardinality(Issued) + 1 /\ token'[t].family = t
  BY <1>5, <1>6 DEF SignedIn, IssueAtLogin
<1>7. ASSUME NEW f \in Refreshes, IssueAtRotation(f)
      PROVE  /\ t = Cardinality(Issued) + 1 /\ pc[f] = "reissue"
             /\ token'[t].family = job[f].family
  <2>1. pc[f] = "reissue" /\ job[f].family \in Issued
    BY <1>7 DEF IssueAtRotation, RotationsOK, TokensOK
  <2>2. job[f].family # 0
    BY <2>1 DEF Issued, Tokens
  <2> QED
    BY <1>5, <1>7, <2>1, <2>2 DEF IssueAtRotation
<1> QED
  BY <1>1, <1>2, <1>3, <1>4, <1>6, <1>7, TokenSteps DEF RevokesOnly, BurnFamily

LEMMA TokensInv ==
  ASSUME TypeOK, TokensOK, RotationsOK, [SessionsNext]_allVars PROVE TokensOK'
<1> DEFINE n == Cardinality(Issued)
<1>1. n \in Nat /\ Issued = 1 .. n
  BY TokensFinite DEF TokensOK
<1>2. Issued' = Issued \/ Issued' = Issued \cup {n + 1}
  BY TokenKept, TokenIssued
<1>3. ASSUME NEW m \in Nat PROVE Cardinality(1 .. m) = m
  BY <1>3, FS_Interval
<1>4. Issued' = 1 .. Cardinality(Issued')
  <2>1. CASE Issued' = Issued
    BY <1>1, <2>1 DEF TokensOK
  <2>2. CASE Issued' = Issued \cup {n + 1}
    <3>1. Issued' = 1 .. (n + 1)
      BY <1>1, <2>2
    <3> QED
      BY <1>1, <1>3, <3>1
  <2> QED
    BY <1>2, <2>1, <2>2
<1>5. ASSUME NEW t \in Issued' PROVE token'[t].family \in Issued'
  <2>1. CASE t \in Issued
    BY <2>1, TokenKept DEF TokensOK
  <2>2. CASE t \notin Issued
    <3>1. ASSUME NEW f \in Refreshes, pc[f] = "reissue" PROVE job[f].family \in Issued
      BY <3>1 DEF RotationsOK, TokensOK
    <3> QED
      BY <2>2, <3>1, TokenIssued, TokenKept
  <2> QED
    BY <2>1, <2>2
<1>6. burned' \subseteq Issued'
  <2>1. ASSUME NEW f \in Refreshes, BurnFamily(f) PROVE burned' \subseteq Issued
    BY <2>1 DEF BurnFamily, RotationsOK, TokensOK
  <2>2. UNCHANGED burned => burned' \subseteq Issued
    BY DEF TokensOK
  <2>3. burned' \subseteq Issued
    BY <2>1, <2>2, TokenSteps DEF SignedIn, IssueAtLogin, RevokeRotated, IssueAtRotation, Ages,
       Age, CleanupExpiredTokens, TokensOK
  <2> QED
    BY <2>3, TokenKept
<1> QED
  BY <1>4, <1>5, <1>6 DEF TokensOK

-----------------------------------------------------------------------------
(* A request is where it was unless it took the step itself.               *)

Own(r) ==
  \/ r \in Logins /\ SignIn(r)
  \/ r \in Refreshes /\ Rotate(r)
  \/ r \in Logouts /\ (OnAccount(r) \/ (~Busy(r) /\ Logout(r) /\ UNCHANGED sessionVars))

LEMMA OwnSteps ==
  ASSUME SessionsTypeOK, [SessionsNext]_allVars, NEW r \in Requests, ~Own(r)
  PROVE  /\ pc'[r] = pc[r] /\ job'[r] = job[r]
         /\ r \in Logins \cup Logouts => visit'[r] = visit[r]
<1> DEFINE Same == /\ pc'[r] = pc[r] /\ job'[r] = job[r]
                   /\ r \in Logins \cup Logouts => visit'[r] = visit[r]
           Tables == pc'[r] = pc[r] /\ job'[r] = job[r]
<1> TypeOK /\ visit \in [Logins \cup Logouts -> Places]
  BY DEF SessionsTypeOK, Places
<1>1. ASSUME NEW x \in Requests, NEW s, GoTo(x, s), x # r PROVE pc'[r] = pc[r]
  BY <1>1 DEF GoTo, TypeOK
<1>2. ASSUME NEW x \in Requests, Answer(x), x # r PROVE Tables
  BY <1>1, <1>2 DEF Answer, TypeOK
<1>3. ASSUME NEW x \in Logins \cup Logouts, NEW s, VisitGoes(x, s), x # r
      PROVE  r \in Logins \cup Logouts => visit'[r] = visit[r]
  BY <1>3 DEF VisitGoes
<1>4. ASSUME NEW x \in Logins, x # r, SignIn(x) PROVE Same
  <2>1. Tables
    BY <1>1, <1>2, <1>4 DEF SignIn, ReadAccount, EnterDevice, FindDevice, StoreDevice, CreateDevice,
       ReplaceDevice, TouchDevice, SignedIn, IssueAtLogin, NotSignedIn, LoginFails, vars, Requests,
       TypeOK
  <2>2. r \in Logins \cup Logouts => visit'[r] = visit[r]
    BY <1>3, <1>4 DEF SignIn, ReadAccount, EnterDevice, StoreDevice, SignedIn, NotSignedIn, Leave,
       sessionVars
  <2> QED
    BY <2>1, <2>2
<1>5. ASSUME NEW f \in Refreshes, f # r, Rotate(f) PROVE Same
  <2>1. Tables
    BY <1>1, <1>2, <1>5 DEF Rotate, Refresh, ReadToken, BurnFamily, TurnOffDevice, RevokeRotated,
       IssueAtRotation, Requests, TypeOK
  <2> QED
    BY <1>5, <2>1 DEF Rotate
<1>6. ASSUME NEW d \in Logouts, d # r, OnAccount(d) PROVE Same
  <2>1. Tables
    BY <1>1, <1>2, <1>6 DEF OnAccount, FindAccount, WritePassword, Disable, ThenRevoke, Enable,
       RevokeAllOfAccount, RevokeAllTokens, TurnOffAllDevices, RevokeAllDevices, SoftDelete, vars,
       Requests, TypeOK
  <2>2. r \in Logins \cup Logouts => visit'[r] = visit[r]
    BY <1>3, <1>6 DEF OnAccount, FindAccount, WritePassword, Disable, ThenRevoke, Enable,
       RevokeAllOfAccount, TurnOffAllDevices, SoftDelete, Leave
  <2> QED
    BY <2>1, <2>2
<1>7. ASSUME NEW d \in Logouts, d # r, Logout(d), UNCHANGED sessionVars PROVE Same
  <2>1. Tables
    BY <1>1, <1>2, <1>7 DEF Logout, BeginLogout, RevokeToken, RevokeDeviceTokens, RevokeDevice,
       RevokeAllTokens, RevokeAllDevices, Requests, TypeOK
  <2> QED
    BY <1>7, <2>1 DEF sessionVars
<1>8. ASSUME Ages, UNCHANGED sessionVars PROVE Same
  BY <1>8 DEF Ages, Age, CleanupExpiredTokens, sessionVars
<1>9. UNCHANGED allVars => Same
  BY DEF allVars, vars, sessionVars
<1> HIDE DEF Same
<1>10. ASSUME NEW x \in Logins, SignIn(x) PROVE Same
  BY <1>4, <1>10 DEF Own
<1>11. ASSUME NEW f \in Refreshes, Rotate(f) PROVE Same
  BY <1>5, <1>11 DEF Own
<1>12. ASSUME NEW d \in Logouts, OnAccount(d) PROVE Same
  BY <1>6, <1>12 DEF Own
<1>13. ASSUME NEW d \in Logouts, ~Busy(d), Logout(d), UNCHANGED sessionVars PROVE Same
  BY <1>7, <1>13 DEF Own
<1>14. Same
  BY <1>8, <1>9, <1>10, <1>11, <1>12, <1>13 DEF SessionsNext, Ages
<1> QED
  BY <1>14 DEF Same

-----------------------------------------------------------------------------
(* Rotations. *)

\* What a step of a rotation may be, if the rotation then is on its way.
LEMMA RotationSteps ==
  ASSUME SessionsTypeOK, [SessionsNext]_allVars, NEW f \in Refreshes,
         pc'[f] \in {"burn", "rotate", "reissue"}
  PROVE  \/ pc'[f] = pc[f] /\ job'[f] = job[f]
         \/ /\ Rotate(f) /\ UNCHANGED <<token, burned>>
            /\ \E t \in Issued : /\ job'[f].token = t /\ job'[f].family = token[t].family
                                 /\ \/ pc'[f] = "burn"
                                    \/ pc'[f] = "rotate" /\ t \in LiveTokens
         \/ /\ Rotate(f) /\ RevokeRotated(f)
            /\ pc[f] = "rotate" /\ pc'[f] = "reissue" /\ job'[f] = job[f]
            /\ token' = [token EXCEPT ![job[f].token] = Rotated(job[f].token)]
<1> f \in Requests /\ f \notin Logins /\ f \notin Logouts
  BY RequestsDisjoint DEF Requests
<1> TypeOK
  BY DEF SessionsTypeOK
<1>1. CASE ~Own(f)
  BY <1>1, OwnSteps
<1>2. CASE Rotate(f)
  <2>1. ASSUME NEW t \in Tokens, ReadToken(f, t)
        PROVE  /\ t \in Issued /\ job'[f].token = t /\ job'[f].family = token[t].family
               /\ pc'[f] = "burn" \/ (pc'[f] = "rotate" /\ t \in LiveTokens)
               /\ UNCHANGED <<token, burned>>
    BY <2>1 DEF ReadToken, GoTo, TypeOK, LiveTokens
  <2>2. BurnFamily(f) => pc'[f] = "turn_off"
    BY DEF BurnFamily, GoTo, TypeOK
  <2>3. TurnOffDevice(f) \/ IssueAtRotation(f) => pc'[f] = "idle"
    BY DEF TurnOffDevice, IssueAtRotation, Answer, GoTo, TypeOK
  <2>4. RevokeRotated(f) =>
          \/ pc'[f] = "idle"
          \/ /\ pc[f] = "rotate" /\ pc'[f] = "reissue" /\ job'[f] = job[f]
             /\ token' = [token EXCEPT ![job[f].token] = Rotated(job[f].token)]
    BY DEF RevokeRotated, Answer, GoTo, TypeOK
  <2> QED
    BY <1>2, <2>1, <2>2, <2>3, <2>4 DEF Rotate, Refresh
<1> QED
  BY <1>1, <1>2 DEF Own

LEMMA RotationsInv ==
  ASSUME SessionsTypeOK, TokensOK, RotationsOK, [SessionsNext]_allVars PROVE RotationsOK'
<1> SUFFICES ASSUME NEW f \in Refreshes, pc'[f] \in {"burn", "rotate", "reissue"}
             PROVE  /\ job'[f].token \in Issued'
                    /\ job'[f].family = token'[job'[f].token].family
  BY DEF RotationsOK
<1> TypeOK
  BY DEF SessionsTypeOK
<1>1. CASE pc[f] \in {"burn", "rotate", "reissue"} /\ job'[f] = job[f]
  <2>1. job[f].token \in Issued /\ job[f].family = token[job[f].token].family
    BY <1>1 DEF RotationsOK
  <2> QED
    BY <1>1, <2>1, TokenKept
<1>2. CASE \E t \in Issued : job'[f].token = t /\ job'[f].family = token[t].family
  BY <1>2, TokenKept
<1> QED
  BY <1>1, <1>2, RotationSteps

-----------------------------------------------------------------------------
(* One rotation at a time. *)

\* What a live token of the next state was before.
LEMMA LiveTokenFrom ==
  ASSUME TypeOK, TokensOK, RotationsOK, [SessionsNext]_allVars, NEW t \in LiveTokens'
  PROVE  \/ t \in LiveTokens /\ t \in Issued /\ token'[t].family = token[t].family
         \/ t = Cardinality(Issued) + 1 /\ t \notin Issued /\ token'[t].family = t
         \/ /\ t = Cardinality(Issued) + 1 /\ t \notin Issued
            /\ \E f \in Refreshes : /\ IssueAtRotation(f) /\ pc[f] = "reissue"
                                   /\ token'[t].family = job[f].family
<1>1. t \in Issued'
  BY DEF LiveTokens, Issued
<1>2. CASE t \in Issued
  BY <1>2, TokenKept
<1>3. CASE t \notin Issued
  BY <1>1, <1>3, TokenIssued
<1> QED
  BY <1>2, <1>3

LEMMA BurnedSteps ==
  ASSUME [SessionsNext]_allVars
  PROVE  UNCHANGED burned \/ \E f \in Refreshes : BurnFamily(f)
BY TokenSteps DEF SignedIn, IssueAtLogin, RevokeRotated, IssueAtRotation, Ages, Age,
   CleanupExpiredTokens

LEMMA OneLiveInv ==
  ASSUME SessionsTypeOK, TokensOK, RotationsOK, RotatesAlone, OneLiveTokenPerFamily,
         [SessionsNext]_allVars
  PROVE  OneLiveTokenPerFamily'
<1> TypeOK
  BY DEF SessionsTypeOK
<1>1. ASSUME NEW t \in LiveTokens', NEW u \in LiveTokens', t \notin Issued, u \in Issued
      PROVE  token'[t].family # token'[u].family
  <2>1. u \in LiveTokens /\ token'[u].family = token[u].family /\ token[u].family \in Issued
    BY <1>1, LiveTokenFrom DEF TokensOK
  <2>2. CASE token'[t].family = t
    BY <1>1, <2>1, <2>2
  <2>3. ASSUME NEW f \in Refreshes, pc[f] = "reissue", token'[t].family = job[f].family
        PROVE  token'[t].family # token'[u].family
    BY <2>1, <2>3 DEF RotatesAlone
  <2> QED
    BY <1>1, <2>2, <2>3, LiveTokenFrom
<1>2. ASSUME NEW t \in LiveTokens', NEW u \in LiveTokens', token'[t].family = token'[u].family
      PROVE  t = u
  <2>1. CASE t \in Issued /\ u \in Issued
    BY <1>2, <2>1, LiveTokenFrom DEF OneLiveTokenPerFamily
  <2>2. CASE t \notin Issued /\ u \notin Issued
    BY <2>2, LiveTokenFrom
  <2> QED
    BY <1>1, <1>2, <2>1, <2>2
<1> QED
  BY <1>2 DEF OneLiveTokenPerFamily

LEMMA BurnedInv ==
  ASSUME SessionsTypeOK, TokensOK, RotationsOK, RotatesAlone, BurnedFamilyStaysDead,
         [SessionsNext]_allVars
  PROVE  BurnedFamilyStaysDead'
<1> TypeOK
  BY DEF SessionsTypeOK
<1> SUFFICES ASSUME NEW t \in LiveTokens' PROVE token'[t].family \notin burned'
  BY DEF BurnedFamilyStaysDead
<1>1. ASSUME NEW f \in Refreshes, BurnFamily(f) PROVE token'[t].family \notin burned'
  <2>1. t \in LiveTokens /\ token'[t] = token[t] /\ t \notin Burned(f)
    <3>1. t \in Tokens /\ token'[t].state = "live"
      BY DEF LiveTokens
    <3>2. token'[t] = IF t \in Burned(f) \cap LiveTokens
                      THEN [token[t] EXCEPT !.state = "revoked"] ELSE token[t]
      BY <1>1, <3>1 DEF BurnFamily, RevokeThose
    <3>3. [token[t] EXCEPT !.state = "revoked"].state = "revoked"
      BY <3>1 DEF TypeOK, TokenRow
    <3> QED
      BY <3>1, <3>2, <3>3 DEF LiveTokens
  <2>2. token[t].family # job[f].family
    BY <2>1 DEF Burned, LiveTokens
  <2> QED
    BY <1>1, <2>1, <2>2 DEF BurnFamily, BurnedFamilyStaysDead
<1>2. CASE UNCHANGED burned
  <2>1. t \in LiveTokens /\ token'[t].family = token[t].family => token'[t].family \notin burned
    BY DEF BurnedFamilyStaysDead
  <2>2. token'[t].family = t /\ t \notin Issued => token'[t].family \notin burned
    BY DEF TokensOK
  <2>3. ASSUME NEW f \in Refreshes, pc[f] = "reissue", token'[t].family = job[f].family
        PROVE  token'[t].family \notin burned
    BY <2>3 DEF RotatesAlone
  <2> QED
    BY <1>2, <2>1, <2>2, <2>3, LiveTokenFrom
<1> QED
  BY <1>1, <1>2, BurnedSteps

LEMMA RotatesAloneInv ==
  ASSUME SessionsTypeOK, TokensOK, RotationsOK, OneRefresher, RotatesAlone,
         OneLiveTokenPerFamily, BurnedFamilyStaysDead, [SessionsNext]_allVars
  PROVE  RotatesAlone'
<1> TypeOK
  BY DEF SessionsTypeOK
<1> SUFFICES ASSUME NEW f \in Refreshes, pc'[f] \in {"rotate", "reissue"}
             PROVE  /\ pc'[f] = "rotate" =>
                         \A t \in LiveTokens' :
                           token'[t].family = job'[f].family => t = job'[f].token
                    /\ pc'[f] = "reissue" =>
                         \A t \in LiveTokens' : token'[t].family # job'[f].family
                    /\ job'[f].family \notin burned'
  BY DEF RotatesAlone
<1> f \in Requests
  BY DEF Requests
<1>1. CASE pc'[f] = pc[f] /\ job'[f] = job[f]
  <2>1. UNCHANGED burned
    <3>1. ASSUME NEW g \in Refreshes, BurnFamily(g) PROVE FALSE
      BY <1>1, <3>1 DEF OneRefresher, BurnFamily
    <3> QED
      BY <3>1, BurnedSteps
  <2>2. job[f].family \in Issued
    BY <1>1 DEF RotationsOK, TokensOK
  <2>3. ASSUME NEW t \in LiveTokens', token'[t].family = job[f].family
        PROVE  t \in LiveTokens /\ token[t].family = job[f].family
    <3>1. ASSUME NEW g \in Refreshes, IssueAtRotation(g) PROVE FALSE
      <4>1. g = f /\ pc[f] = "reissue" /\ pc'[f] = "idle"
        BY <3>1 DEF OneRefresher, IssueAtRotation, Answer, GoTo, TypeOK
      <4> QED
        BY <1>1, <4>1
    <3> QED
      BY <2>2, <2>3, <3>1, LiveTokenFrom
  <2> QED
    BY <1>1, <2>1, <2>3 DEF RotatesAlone
<1>2. CASE /\ UNCHANGED <<token, burned>> /\ pc'[f] = "rotate"
           /\ \E t \in Issued : /\ job'[f].token = t /\ job'[f].family = token[t].family
                                /\ t \in LiveTokens
  <2>1. LiveTokens' = LiveTokens
    BY <1>2 DEF LiveTokens
  <2> QED
    BY <1>2, <2>1 DEF OneLiveTokenPerFamily, BurnedFamilyStaysDead
<1>3. CASE /\ RevokeRotated(f) /\ pc[f] = "rotate" /\ pc'[f] = "reissue" /\ job'[f] = job[f]
           /\ token' = [token EXCEPT ![job[f].token] = Rotated(job[f].token)]
  <2>1. UNCHANGED burned
    BY <1>3 DEF RevokeRotated
  <2>2. job[f].token \in Tokens
    BY <1>3 DEF RotationsOK, Issued
  <2>3. ASSUME NEW t \in LiveTokens', token'[t].family = job[f].family PROVE FALSE
    <3>1. t \in Tokens /\ token'[t].state = "live"
      BY DEF LiveTokens
    <3>2. t # job[f].token
      BY <1>3, <2>2, <3>1 DEF Rotated, TypeOK, TokenRow
    <3>3. token'[t] = token[t]
      BY <1>3, <3>1, <3>2 DEF TypeOK
    <3> QED
      BY <1>3, <2>3, <3>1, <3>2, <3>3 DEF RotatesAlone, LiveTokens
  <2> QED
    BY <1>3, <2>1, <2>3 DEF RotatesAlone
<1> QED
  BY <1>1, <1>2, <1>3, RotationSteps

-----------------------------------------------------------------------------
(* Visits to the account. *)

LEMMA PlacesInv ==
  ASSUME SessionsTypeOK, PlacesOK, [SessionsNext]_allVars PROVE PlacesOK'
<1> TypeOK /\ visit \in [Logins \cup Logouts -> Places]
  BY DEF SessionsTypeOK, Places
<1>1. ASSUME NEW r \in Logins, pc'[r] # "idle" PROVE visit'[r] = "token"
  <2> r \in Requests /\ r \notin Refreshes /\ r \notin Logouts
    BY RequestsDisjoint DEF Requests
  <2>1. CASE ~Own(r)
    BY <1>1, <2>1, OwnSteps DEF PlacesOK, At
  <2>2. CASE EnterDevice(r)
    BY <2>2 DEF EnterDevice, VisitGoes
  <2>3. CASE ReadAccount(r)
    BY <1>1, <2>3 DEF ReadAccount, vars
  <2>4. CASE StoreDevice(r)
    <3>1. pc[r] # "idle" /\ UNCHANGED visit
      BY <2>4 DEF StoreDevice, CreateDevice, ReplaceDevice, TouchDevice, sessionVars
    <3> QED
      BY <3>1 DEF PlacesOK, At
  <2>5. CASE SignedIn(r) \/ NotSignedIn(r)
    BY <1>1, <2>5 DEF SignedIn, NotSignedIn, IssueAtLogin, LoginFails, Answer, GoTo, TypeOK
  <2> QED
    BY <2>1, <2>2, <2>3, <2>4, <2>5 DEF Own, SignIn
<1>2. ASSUME NEW d \in Logouts
      PROVE  /\ visit'[d] \in {"password", "disable", "enable", "remove"} => pc'[d] = "idle"
             /\ visit'[d] \in {"delete", "revoke"} => pc'[d] \in {"all_tokens", "all_devices"}
  <2> DEFINE Fits ==
        /\ visit'[d] \in {"password", "disable", "enable", "remove"} => pc'[d] = "idle"
        /\ visit'[d] \in {"delete", "revoke"} => pc'[d] \in {"all_tokens", "all_devices"}
  <2> d \in Requests /\ d \notin Refreshes /\ d \notin Logins
    BY RequestsDisjoint DEF Requests
  <2>1. CASE ~Own(d)
    BY <2>1, OwnSteps DEF PlacesOK
  <2>2. ASSUME NEW op \in Operations(kind), FindAccount(d, op) PROVE Fits
    <3>1. visit'[d] = op /\ pc'[d] = IF op = "delete" THEN "all_tokens" ELSE "idle"
      BY <2>2 DEF FindAccount, VisitGoes, TypeOK
    <3>2. op \in {"password", "disable", "enable", "delete"}
      BY DEF Operations
    <3> QED
      BY <3>1, <3>2
  <2>3. CASE WritePassword(d) \/ Disable(d)
    BY <2>3 DEF WritePassword, Disable, ThenRevoke, GoTo, VisitGoes, TypeOK
  <2>4. CASE Enable(d) \/ SoftDelete(d)
    BY <2>4 DEF Enable, SoftDelete, Leave, VisitGoes
  <2>5. CASE RevokeAllOfAccount(d)
    <3>1. pc[d] = "all_tokens" /\ pc'[d] = "all_devices" /\ visit' = visit
      BY <2>5 DEF RevokeAllOfAccount, RevokeAllTokens, GoTo, TypeOK
    <3> QED
      BY <3>1 DEF PlacesOK
  <2>6. CASE TurnOffAllDevices(d)
    BY <2>6 DEF TurnOffAllDevices, RevokeAllDevices, Answer, GoTo, Leave, VisitGoes, TypeOK
  <2>7. CASE ~Busy(d) /\ UNCHANGED sessionVars
    BY <2>7 DEF Busy, At, sessionVars
  <2> QED
    BY <2>1, <2>2, <2>3, <2>4, <2>5, <2>6, <2>7 DEF Own, OnAccount
<1> QED
  BY <1>1, <1>2 DEF PlacesOK, At

LEMMA EarlyInv ==
  ASSUME SessionsTypeOK, TokensOK, RotationsOK, EarlyOK, [SessionsNext]_allVars
  PROVE  EarlyOK'
<1> TypeOK /\ visit \in [Logins \cup Logouts -> Places]
  BY DEF SessionsTypeOK, Places
<1>1. ASSUME NEW r \in Logins, visit'[r] # "idle", r \notin late'
      PROVE  account'.active /\ ~account'.deleted
  <2> DEFINE Good == account'.active /\ ~account'.deleted
             Was == visit[r] # "idle" /\ r \notin late
  <2> r \notin Refreshes /\ r \notin Logouts
    BY RequestsDisjoint
  <2>1. Was => account.active /\ ~account.deleted
    BY DEF EarlyOK, At
  <2>2. Was /\ UNCHANGED account => Good
    BY <2>1
  <2>3. ASSUME NEW x \in Logins \cup Logouts, NEW p, VisitGoes(x, p), x # r
        PROVE  visit[r] # "idle"
    BY <1>1, <2>3 DEF VisitGoes
  <2>4. ASSUME NEW x \in Logins, SignIn(x) PROVE Good
    <3>1. CASE ReadAccount(x) /\ x = r
      BY <3>1 DEF ReadAccount, MaySignIn
    <3>2. CASE ReadAccount(x) /\ x # r
      BY <1>1, <2>2, <2>3, <3>2 DEF ReadAccount
    <3>3. CASE EnterDevice(x)
      BY <1>1, <2>2, <2>3, <3>3 DEF EnterDevice, At
    <3>4. CASE StoreDevice(x)
      BY <1>1, <2>2, <3>4 DEF StoreDevice, sessionVars
    <3>5. CASE SignedIn(x) \/ NotSignedIn(x)
      <4>1. x # r
        BY <1>1, <3>5 DEF SignedIn, NotSignedIn, Leave, VisitGoes
      <4>2. UNCHANGED account /\ r \notin late
        BY <1>1, <3>5, <4>1 DEF SignedIn, NotSignedIn
      <4> QED
        BY <2>2, <2>3, <3>5, <4>1, <4>2 DEF SignedIn, NotSignedIn, Leave
    <3> QED
      BY <2>4, <3>1, <3>2, <3>3, <3>4, <3>5 DEF SignIn
  <2>5. ASSUME NEW f \in Refreshes, Rotate(f) PROVE Good
    BY <1>1, <2>2, <2>5 DEF Rotate
  <2>6. ASSUME NEW d \in Logouts, OnAccount(d) PROVE Good
    <3>1. ASSUME NEW op \in Operations(kind), FindAccount(d, op) PROVE Good
      BY <1>1, <2>2, <2>3, <3>1 DEF FindAccount
    <3>2. CASE WritePassword(d)
      BY <1>1, <2>2, <2>3, <3>2 DEF WritePassword, Shut, ThenRevoke
    <3>3. CASE Disable(d)
      BY <1>1, <2>3, <3>3 DEF Disable, Shut, ThenRevoke, At
    <3>4. CASE Enable(d)
      <4>1. account' = [account EXCEPT !.active = TRUE] /\ Was
        BY <1>1, <2>3, <3>4 DEF Enable, Leave
      <4> QED
        BY <2>1, <4>1 DEF SessionsTypeOK
    <3>5. CASE RevokeAllOfAccount(d)
      BY <1>1, <2>2, <3>5 DEF RevokeAllOfAccount
    <3>6. CASE TurnOffAllDevices(d)
      BY <1>1, <2>2, <2>3, <3>6 DEF TurnOffAllDevices, Leave
    <3>7. CASE SoftDelete(d)
      BY <1>1, <2>3, <3>7 DEF SoftDelete, Leave, At
    <3> QED
      BY <2>6, <3>1, <3>2, <3>3, <3>4, <3>5, <3>6, <3>7 DEF OnAccount
  <2>7. UNCHANGED sessionVars => Good
    BY <1>1, <2>2 DEF sessionVars
  <2> QED
    BY <2>4, <2>5, <2>6, <2>7 DEF SessionsNext, allVars
<1>2. ended' \subseteq Issued'
  <2>1. ended' \subseteq ended \cup Families
    BY DEF SessionsNext, SignIn, ReadAccount, EnterDevice, StoreDevice, SignedIn, NotSignedIn,
       Rotate, OnAccount, FindAccount, WritePassword, Disable, Shut, Enable, RevokeAllOfAccount,
       TurnOffAllDevices, SoftDelete, sessionVars, allVars
  <2>2. ended \cup Families \subseteq Issued
    BY DEF EarlyOK, Families, TokensOK
  <2> QED
    BY <2>1, <2>2, TokenKept
<1> QED
  BY <1>1, <1>2 DEF EarlyOK, At

-----------------------------------------------------------------------------
(* What is live when no revocation is outstanding. *)

\* A step after which no revocation is outstanding, with none outstanding before, keeps the live
\* families sound if it makes no sound family unsound, no missed rotation a noticed one, and no
\* unsound token.
LEMMA SoundStep ==
  ASSUME SessionsTypeOK, TokensOK, RotationsOK, FamiliesSound, [SessionsNext]_allVars,
         ~Revoking,
         spared \subseteq spared',
         account.active /\ ~account.deleted /\ ~BeingRemoved =>
           account'.active /\ ~account'.deleted /\ ~BeingRemoved',
         ended' = ended,
         \A f \in Refreshes : pc'[f] \in {"rotate", "reissue"} /\ f \notin late' => f \notin late,
         \A t \in LiveTokens' : t \notin Issued => Sound(token[t].family)'
  PROVE  FamiliesSound'
<1> TypeOK
  BY DEF SessionsTypeOK
<1>1. ASSUME NEW x, Sound(x)
      PROVE  \/ x \in spared'
             \/ x \notin ended' /\ account'.active /\ ~account'.deleted /\ ~BeingRemoved'
  BY <1>1 DEF Sound
<1>2. ASSUME NEW t \in LiveTokens' PROVE Sound(token[t].family)'
  <2>1. CASE t \in Issued
    <3>1. token'[t].family = token[t].family /\ Sound(token[t].family)
      BY <2>1, LiveTokenFrom DEF FamiliesSound, Revoking
    <3> QED
      BY <1>1, <3>1 DEF Sound
  <2> QED
    BY <2>1
<1>3. ASSUME NEW f \in Refreshes, pc'[f] \in {"rotate", "reissue"}, f \notin late'
      PROVE  Sound(job[f].family)'
  <2>1. CASE pc[f] \in {"rotate", "reissue"} /\ job'[f] = job[f]
    <3>1. Sound(job[f].family)
      BY <1>3, <2>1 DEF FamiliesSound
    <3> QED
      BY <1>1, <2>1, <3>1 DEF Sound
  <2>2. ASSUME NEW t \in LiveTokens, job'[f].family = token[t].family
        PROVE  Sound(job[f].family)'
    <3>1. Sound(token[t].family)
      BY DEF FamiliesSound
    <3> QED
      BY <1>1, <2>2, <3>1 DEF Sound
  <2> QED
    BY <1>3, <2>1, <2>2, RotationSteps
<1> QED
  BY <1>2, <1>3 DEF FamiliesSound

LEMMA SoundInv ==
  ASSUME SessionsTypeOK, TokensOK, RotationsOK, PlacesOK, EarlyOK, FamiliesSound,
         [SessionsNext]_allVars
  PROVE  FamiliesSound'
<1> TypeOK /\ visit \in [Logins \cup Logouts -> Places]
  BY DEF SessionsTypeOK, Places
<1> SUFFICES ASSUME ~Revoking' PROVE FamiliesSound'
  BY DEF FamiliesSound
<1> DEFINE Allowed == account.active /\ ~account.deleted /\ ~BeingRemoved
           Wider == /\ spared \subseteq spared' /\ ended' = ended
                    /\ Allowed => Allowed'
           Noticed == \A f \in Refreshes :
                        pc'[f] \in {"rotate", "reissue"} /\ f \notin late' => f \notin late
           Fresh == \A t \in LiveTokens' : t \notin Issued => Sound(token[t].family)'
<1>1. ASSUME ~Revoking, Wider, Noticed, Fresh PROVE FamiliesSound'
  BY <1>1, SoundStep
\* What keeps Fresh: a token is issued by a sign-in or by a rotation.
<1>2. ASSUME NEW d \in Logouts, OnAccount(d) \/ Logout(d) PROVE Fresh
  <2>1. UNCHANGED token \/ \E ts : RevokeThose(ts)
    BY <1>2 DEF OnAccount, FindAccount, WritePassword, Disable, Enable, RevokeAllOfAccount,
       TurnOffAllDevices, SoftDelete, Logout, BeginLogout, RevokeToken, RevokeDeviceTokens,
       RevokeDevice, RevokeAllTokens, RevokeAllDevices, vars
  <2>2. LiveTokens' \subseteq Issued
    BY <2>1 DEF LiveTokens, Issued, RevokeThose
  <2> QED
    BY <2>2
<1>3. ASSUME NEW d \in Logouts, NEW p, VisitGoes(d, p), UNCHANGED pc, p # "idle" \/ pc[d] = "idle"
      PROVE  ~Revoking
  BY <1>3 DEF Revoking, Busy, At, VisitGoes
<1>4. ASSUME NEW r \in Logins, SignIn(r) PROVE FamiliesSound'
  <2> r \in Requests /\ r \notin Logouts /\ r \notin Refreshes
    BY RequestsDisjoint DEF Requests
  <2>1. \A d \in Logouts : visit'[d] = visit[d] /\ pc'[d] = pc[d]
    <3> SUFFICES ASSUME NEW d \in Logouts PROVE visit'[d] = visit[d] /\ pc'[d] = pc[d]
      OBVIOUS
    <3>1. d \in Requests /\ d # r
      BY DEF Requests
    <3>2. pc'[d] = pc[d]
      BY <1>4, <3>1 DEF SignIn, ReadAccount, EnterDevice, StoreDevice, SignedIn, NotSignedIn,
         FindDevice, CreateDevice, ReplaceDevice, TouchDevice, IssueAtLogin, LoginFails, Answer,
         GoTo, vars, TypeOK
    <3>3. visit'[d] = visit[d]
      BY <1>4, <3>1 DEF SignIn, ReadAccount, EnterDevice, StoreDevice, SignedIn, NotSignedIn,
         VisitGoes, Leave, sessionVars
    <3> QED
      BY <3>2, <3>3
  <2>2. ~Revoking /\ (BeingRemoved' <=> BeingRemoved)
    BY <2>1 DEF Revoking, BeingRemoved, Busy, At
  <2>3. Wider
    BY <1>4, <2>2 DEF SignIn, ReadAccount, EnterDevice, StoreDevice, SignedIn, NotSignedIn,
       sessionVars
  <2>4. Noticed
    BY <1>4 DEF SignIn, ReadAccount, EnterDevice, StoreDevice, SignedIn, NotSignedIn, sessionVars
  <2>5. Fresh
    <3> SUFFICES ASSUME NEW t \in LiveTokens', t \notin Issued PROVE Sound(token[t].family)'
      OBVIOUS
    <3>1. SignedIn(r) /\ t = Cardinality(Issued) + 1 /\ token'[t].family = t
      <4>1. t \in Issued'
        BY DEF LiveTokens, Issued
      <4>2. ~UNCHANGED token
        BY <4>1 DEF Issued
      <4>3. SignedIn(r)
        BY <1>4, <4>2 DEF SignIn, ReadAccount, EnterDevice, FindDevice, StoreDevice, CreateDevice,
           ReplaceDevice, TouchDevice, NotSignedIn, LoginFails, vars
      <4>4. ASSUME NEW f \in Refreshes, IssueAtRotation(f), pc[f] = "reissue" PROVE FALSE
        <5>1. f \in Requests /\ f # r
          BY DEF Requests
        <5>2. pc'[f] = "idle" /\ pc'[f] = pc[f]
          BY <4>3, <4>4, <5>1 DEF IssueAtRotation, SignedIn, IssueAtLogin, Answer, GoTo, TypeOK
        <5> QED
          BY <4>4, <5>2
      <4> QED
        BY <4>3, <4>4, LiveTokenFrom
    <3>2. CASE r \in late \/ BeingRemoved
      BY <3>1, <3>2 DEF SignedIn, Sound
    <3>3. CASE r \notin late /\ ~BeingRemoved
      <4>1. account.active /\ ~account.deleted
        <5>1. visit[r] = "token"
          BY <3>1 DEF SignedIn, IssueAtLogin, PlacesOK, At
        <5> QED
          BY <3>3, <5>1 DEF EarlyOK, At
      <4>2. t \notin ended
        BY DEF EarlyOK
      <4> QED
        BY <2>2, <3>1, <3>3, <4>1, <4>2 DEF SignedIn, Sound
    <3> QED
      BY <3>2, <3>3
  <2> QED
    BY <1>1, <2>2, <2>3, <2>4, <2>5
<1>5. ASSUME NEW f \in Refreshes, Rotate(f) PROVE FamiliesSound'
  <2> f \in Requests /\ f \notin Logins /\ f \notin Logouts
    BY RequestsDisjoint DEF Requests
  <2>1. \A d \in Logouts : visit'[d] = visit[d] /\ pc'[d] = pc[d]
    <3> SUFFICES ASSUME NEW d \in Logouts PROVE visit'[d] = visit[d] /\ pc'[d] = pc[d]
      OBVIOUS
    <3>1. d \in Requests /\ d # f
      BY DEF Requests
    <3> QED
      BY <1>5, <3>1 DEF Rotate, Refresh, ReadToken, BurnFamily, TurnOffDevice, RevokeRotated,
         IssueAtRotation, Answer, GoTo, TypeOK
  <2>2. ~Revoking /\ (BeingRemoved' <=> BeingRemoved)
    BY <2>1 DEF Revoking, BeingRemoved, Busy, At
  <2>3. Wider
    BY <1>5, <2>2 DEF Rotate
  <2>4. Noticed
    BY <1>5 DEF Rotate
  <2>5. Fresh
    <3> SUFFICES ASSUME NEW t \in LiveTokens', t \notin Issued PROVE Sound(token[t].family)'
      OBVIOUS
    <3>1. IssueAtRotation(f) /\ pc[f] = "reissue" /\ token'[t].family = job[f].family
      <4>1. t \in Issued'
        BY DEF LiveTokens, Issued
      <4>2. ASSUME NEW r \in Logins, SignedIn(r) PROVE FALSE
        <5>1. r \in Requests /\ r # f /\ pc[r] = "issue" /\ pc'[r] = "idle"
          BY <4>2 DEF SignedIn, IssueAtLogin, Answer, GoTo, Requests, TypeOK
        <5>2. pc'[r] = pc[r]
          BY <1>5, <5>1 DEF Rotate, Refresh, ReadToken, BurnFamily, TurnOffDevice, RevokeRotated,
             IssueAtRotation, Answer, GoTo, TypeOK
        <5> QED
          BY <5>1, <5>2
      <4>3. ASSUME NEW g \in Refreshes, IssueAtRotation(g), pc[g] = "reissue" PROVE g = f
        <5>1. g \in Requests /\ pc'[g] = "idle"
          BY <4>3 DEF IssueAtRotation, Answer, GoTo, Requests, TypeOK
        <5>2. g # f => pc'[g] = pc[g]
          BY <1>5, <5>1 DEF Rotate, Refresh, ReadToken, BurnFamily, TurnOffDevice, RevokeRotated,
             IssueAtRotation, Answer, GoTo, TypeOK
        <5> QED
          BY <4>3, <5>1, <5>2
      <4> QED
        BY <4>1, <4>2, <4>3, TokenIssued
    <3>2. CASE f \in late
      BY <1>5, <3>1, <3>2 DEF Rotate, Sound
    <3>3. CASE f \notin late
      <4>1. Sound(job[f].family)
        BY <2>2, <3>1, <3>3 DEF FamiliesSound
      <4> QED
        BY <2>2, <2>3, <3>1, <4>1 DEF Sound
    <3> QED
      BY <3>2, <3>3
  <2> QED
    BY <1>1, <2>2, <2>3, <2>4, <2>5
<1>6. ASSUME NEW d \in Logouts, OnAccount(d) PROVE FamiliesSound'
  <2> d \in Requests
    BY DEF Requests
  <2>0. Fresh
    BY <1>2, <1>6
  <2>1. ASSUME NEW op \in Operations(kind), FindAccount(d, op) PROVE FamiliesSound'
    <3>1. visit' = [visit EXCEPT ![d] = op] /\ visit[d] = "idle"
      BY <2>1 DEF FindAccount, VisitGoes, Busy, At
    <3>2. op # "idle"
      BY DEF Operations
    <3>3. CASE op = "delete"
      <4>1. visit'[d] = "delete" /\ pc'[d] = "all_tokens"
        BY <2>1, <3>1, <3>3 DEF FindAccount, TypeOK
      <4> QED
        BY <4>1 DEF Revoking, Busy, At
    <3>4. CASE op # "delete"
      <4>1. UNCHANGED <<pc, spared, ended, late, account>>
        BY <2>1, <3>4 DEF FindAccount
      <4>2. ~Revoking
        BY <1>3, <2>1, <3>2, <4>1 DEF FindAccount
      <4>3. BeingRemoved' => BeingRemoved
        <5>1. op # "remove"
          BY DEF Operations
        <5> QED
          BY <3>1, <3>4, <5>1 DEF BeingRemoved
      <4> QED
        BY <1>1, <2>0, <4>1, <4>2, <4>3
    <3> QED
      BY <3>3, <3>4
  <2>2. CASE WritePassword(d) \/ Disable(d)
    <3>1. visit'[d] = "revoke" /\ pc'[d] = "all_tokens"
      BY <2>2 DEF WritePassword, Disable, ThenRevoke, GoTo, VisitGoes, TypeOK
    <3> QED
      BY <3>1 DEF Revoking, Busy, At
  <2>3. CASE Enable(d)
    <3>1. /\ VisitGoes(d, "idle") /\ UNCHANGED <<pc, spared, ended, late>> /\ visit[d] = "enable"
          /\ account' = [account EXCEPT !.active = TRUE]
      BY <2>3 DEF Enable, Leave, At, vars
    <3>2. ~Revoking
      BY <1>3, <3>1 DEF PlacesOK
    <3>3. BeingRemoved' => BeingRemoved
      BY <3>1 DEF BeingRemoved, VisitGoes
    <3>4. account'.active /\ account'.deleted = account.deleted
      BY <3>1 DEF SessionsTypeOK
    <3> QED
      BY <1>1, <2>0, <3>1, <3>2, <3>3, <3>4
  <2>4. CASE RevokeAllOfAccount(d)
    <3>1. LiveTokens' = {}
      <4>1. RevokeThose(Tokens)
        BY <2>4 DEF RevokeAllOfAccount, RevokeAllTokens
      <4>2. ASSUME NEW t \in Tokens, token[t].state = "live" PROVE token'[t].state # "live"
        BY <4>1, <4>2 DEF RevokeThose, LiveTokens, TypeOK, TokenRow
      <4>3. ASSUME NEW t \in Tokens, token[t].state # "live" PROVE token'[t].state # "live"
        BY <4>1, <4>3 DEF RevokeThose, LiveTokens
      <4> QED
        BY <4>2, <4>3 DEF LiveTokens
    <3>2. ASSUME NEW f \in Refreshes, pc'[f] \in {"rotate", "reissue"} PROVE f \in late'
      <4>1. f # d /\ f \in Requests
        BY RequestsDisjoint DEF Requests
      <4>2. pc'[f] = pc[f]
        BY <2>4, <4>1 DEF RevokeAllOfAccount, RevokeAllTokens, GoTo, TypeOK
      <4> QED
        BY <2>4, <3>2, <4>2 DEF RevokeAllOfAccount
    <3> QED
      BY <3>1, <3>2 DEF FamiliesSound
  <2>5. CASE TurnOffAllDevices(d)
    <3>1. UNCHANGED <<spared, ended, late, account>> /\ pc[d] = "all_devices"
      BY <2>5 DEF TurnOffAllDevices, RevokeAllDevices
    <3>2. visit' = [visit EXCEPT ![d] = IF visit[d] = "delete" THEN "remove" ELSE "idle"]
      BY <2>5 DEF TurnOffAllDevices, At, VisitGoes, Leave
    <3>3. pc' = [pc EXCEPT ![d] = "idle"]
      BY <2>5 DEF TurnOffAllDevices, RevokeAllDevices, Answer, GoTo
    <3>4. ~Revoking
      <4>1. ASSUME NEW x \in Logouts, visit[x] # "idle", pc[x] = "all_tokens"
            PROVE  visit'[x] # "idle" /\ pc'[x] = "all_tokens"
        <5>1. x # d /\ x \in Requests
          BY <3>1, <4>1 DEF Requests
        <5> QED
          BY <3>2, <3>3, <4>1, <5>1 DEF TypeOK
      <4> QED
        BY <4>1 DEF Revoking, Busy, At
    <3>5. BeingRemoved' => BeingRemoved
      BY <3>2 DEF BeingRemoved
    <3> QED
      BY <1>1, <2>0, <3>1, <3>4, <3>5
  <2>6. CASE SoftDelete(d)
    <3>1. /\ VisitGoes(d, "idle") /\ UNCHANGED <<pc, spared, ended>> /\ visit[d] = "remove"
          /\ late \subseteq late'
      BY <2>6 DEF SoftDelete, Leave, At, vars
    <3>2. ~Revoking
      BY <1>3, <3>1 DEF PlacesOK
    <3>3. BeingRemoved
      BY <3>1 DEF BeingRemoved
    <3> QED
      BY <1>1, <2>0, <3>1, <3>2, <3>3
  <2> QED
    BY <1>6, <2>1, <2>2, <2>3, <2>4, <2>5, <2>6 DEF OnAccount
<1>7. ASSUME NEW d \in Logouts, ~Busy(d), Logout(d), UNCHANGED sessionVars PROVE FamiliesSound'
  <2>1. ASSUME NEW x \in Logouts, x # d PROVE pc'[x] = pc[x]
    BY <1>7, <2>1 DEF Logout, BeginLogout, RevokeToken, RevokeDeviceTokens, RevokeDevice,
       RevokeAllTokens, RevokeAllDevices, Answer, GoTo, Requests, TypeOK
  <2>2. ~Revoking
    BY <1>7, <2>1 DEF Revoking, Busy, At, sessionVars
  <2>3. Wider /\ Noticed
    BY <1>7 DEF sessionVars, BeingRemoved
  <2>4. Fresh
    BY <1>2, <1>7
  <2> QED
    BY <1>1, <2>2, <2>3, <2>4
<1>8. ASSUME Ages, UNCHANGED sessionVars PROVE FamiliesSound'
  <2>1. UNCHANGED pc
    BY <1>8 DEF Ages, Age, CleanupExpiredTokens
  <2>2. ~Revoking /\ Wider /\ Noticed
    BY <1>8, <2>1 DEF sessionVars, BeingRemoved, Revoking, Busy, At
  <2>3. Fresh
    <3>1. ASSUME NEW t \in LiveTokens' PROVE t \in Issued
      <4>1. t \in Tokens /\ token'[t].state = "live"
        BY DEF LiveTokens
      <4>2. CASE CleanupExpiredTokens
        BY <4>1, <4>2 DEF CleanupExpiredTokens, Issued
      <4>3. ASSUME NEW u \in Tokens, Age(u) PROVE t \in Issued
        BY <4>1, <4>3 DEF Age, Issued, TypeOK
      <4> QED
        BY <1>8, <4>2, <4>3 DEF Ages
    <3> QED
      BY <3>1
  <2> QED
    BY <1>1, <2>2, <2>3
<1>9. ASSUME UNCHANGED allVars PROVE FamiliesSound'
  <2>1. ~Revoking /\ Wider /\ Noticed /\ LiveTokens' = LiveTokens
    BY <1>9 DEF allVars, vars, sessionVars, BeingRemoved, Revoking, Busy, At, LiveTokens
  <2>2. LiveTokens \subseteq Issued
    BY DEF LiveTokens, Issued
  <2> QED
    BY <1>1, <2>1, <2>2
<1> QED
  BY <1>4, <1>5, <1>6, <1>7, <1>8, <1>9 DEF SessionsNext, Ages

-----------------------------------------------------------------------------
(* The invariant, and what it means. *)

LEMMA InitInv == SessionsInit => IInv
<1> SUFFICES ASSUME SessionsInit PROVE IInv
  OBVIOUS
<1>1. TypeOK
  BY TokensType DEF SessionsInit, Init, TypeOK, Device, TokenRow, NoToken, TokenState, PC
<1>2. SessionsTypeOK
  BY <1>1, MaxOperationsType DEF SessionsInit, SessionsTypeOK
<1>3. Issued = {} /\ LiveTokens = {}
  BY DEF SessionsInit, Init, Issued, LiveTokens, NoToken
<1>4. TokensOK
  <2>1. Cardinality(Issued) = 0 /\ 1 .. 0 = {}
    BY <1>3, FS_EmptySet
  <2> QED
    BY <1>3, <2>1 DEF TokensOK, SessionsInit, Init
<1>5. \A r \in Requests : pc[r] = "idle"
  BY DEF SessionsInit, Init
<1>6. RotationsOK /\ RotatesAlone /\ OneLiveTokenPerFamily /\ BurnedFamilyStaysDead
  BY <1>3, <1>5 DEF RotationsOK, RotatesAlone, OneLiveTokenPerFamily, BurnedFamilyStaysDead, Requests
<1>7. PlacesOK /\ EarlyOK
  BY <1>5 DEF PlacesOK, EarlyOK, SessionsInit, At, Requests
<1>8. FamiliesSound
  BY <1>3, <1>5 DEF FamiliesSound, Requests
<1> QED
  BY <1>2, <1>4, <1>6, <1>7, <1>8 DEF IInv

LEMMA NextInv == IInv /\ [SessionsNext]_allVars => IInv'
<1> SUFFICES ASSUME IInv, [SessionsNext]_allVars PROVE IInv'
  OBVIOUS
<1> TypeOK
  BY DEF IInv, SessionsTypeOK
<1>1. SessionsTypeOK' /\ TokensOK' /\ RotationsOK'
  BY SessionsType, TokensInv, RotationsInv DEF IInv
<1>2. OneRefresher' => OneRefresher
  BY DEF OneRefresher
<1>3. OneRefresher => RotatesAlone' /\ OneLiveTokenPerFamily' /\ BurnedFamilyStaysDead'
  BY RotatesAloneInv, OneLiveInv, BurnedInv DEF IInv
<1>4. PlacesOK' /\ EarlyOK' /\ FamiliesSound'
  BY PlacesInv, EarlyInv, SoundInv DEF IInv
<1> QED
  BY <1>1, <1>2, <1>3, <1>4 DEF IInv

LEMMA Invariance == SessionsSpec => []IInv
BY InitInv, NextInv, PTL DEF SessionsSpec

\* Every row, request and history variable keeps its type, whatever the requests are.
THEOREM TypeCorrect == SessionsSpec => []SessionsTypeOK
<1>1. IInv => SessionsTypeOK
  BY DEF IInv
<1> QED
  BY Invariance, <1>1, PTL

\* While one refresh runs at a time, no family has two live tokens, however many sign-ins,
\* logouts, operations on the account and cleanups fall between its statements.
THEOREM OneLivePerFamily ==
  ASSUME OneRefresher PROVE SessionsSpec => []OneLiveTokenPerFamily
<1>1. IInv => OneLiveTokenPerFamily
  BY DEF IInv
<1> QED
  BY Invariance, <1>1, PTL

\* While one refresh runs at a time, a family whose reuse was detected has no live token again.
THEOREM BurnedStaysDead ==
  ASSUME OneRefresher PROVE SessionsSpec => []BurnedFamilyStaysDead
<1>1. IInv => BurnedFamilyStaysDead
  BY DEF IInv
<1> QED
  BY Invariance, <1>1, PTL

\* However many sign-ins, refreshes and operations overlap: once every operation on the account has
\* been answered, a token is live only if its sign-in read the account after the last new password
\* and the last disabling, or if it is one of the named exceptions.
THEOREM ShutOut == SessionsSpec => []ShutAccountsHaveNoSessions
<1>1. IInv => ShutAccountsHaveNoSessions
  BY DEF IInv, FamiliesSound, Revoking, Sound, ShutAccountsHaveNoSessions
<1> QED
  BY Invariance, <1>1, PTL

=============================================================================
