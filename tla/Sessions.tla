------------------------------- MODULE Sessions -------------------------------
(***************************************************************************)
(* The account that owns the devices and tokens of AuthTokens, an          *)
(* administrator's or a customer's: signing in, and what shuts the account *)
(* out again, a new password, disabling, deactivating or deleting it.  No  *)
(* service uses a transaction here and comparing or hashing a password     *)
(* takes long, so every statement may fall between two of another request. *)
(*                                                                         *)
(* Failed sign-ins, their counter and the lock they may lead to are        *)
(* CustomerAuth's and AdminAuth's matter: here a sign-in without success   *)
(* is one that does not happen.  Callers of an administrator's operations  *)
(* passed requireSuperAdmin, and the account is neither theirs nor a       *)
(* super-administrator's.                                                  *)
(***************************************************************************)
EXTENDS AuthTokens

CONSTANT MaxOperations  \* bound on the operations on the account

ASSUME MaxOperationsType == MaxOperations \in Nat

VARIABLES
  kind,      \* whose account it is
  account,   \* the admins or customers row
  visit,     \* what a sign-in or an operation on the account does next
  left,      \* operations on the account still to come
  late,      \* requests that had read their row before the account was shut (history)
  spared,    \* families such a request issued a token of (history)
  ended      \* families older than the last new password or disabling (history)

sessionVars == <<kind, account, visit, left, late, spared, ended>>
allVars == <<vars, sessionVars>>

Operations(k) == IF k = "ADMIN" THEN {"password", "disable", "enable", "delete"}
                 ELSE {"password", "disable"}
SigningIn == {"compare", "token"}

SessionsTypeOK ==
  /\ TypeOK
  /\ kind \in {"ADMIN", "CUSTOMER"}
  /\ account \in [active: BOOLEAN, deleted: BOOLEAN]
  /\ visit \in [Logins \cup Logouts -> SigningIn \cup Operations(kind) \cup {"idle", "revoke", "remove"}]
  /\ left \in 0 .. MaxOperations
  /\ late \subseteq Logins \cup Refreshes
  /\ spared \subseteq Tokens /\ ended \subseteq Tokens

SessionsInit ==
  /\ Init
  /\ kind \in {"ADMIN", "CUSTOMER"}
  /\ account = [active |-> TRUE, deleted |-> FALSE]
  /\ visit = [r \in Logins \cup Logouts |-> "idle"]
  /\ left = MaxOperations
  /\ late = {} /\ spared = {} /\ ended = {}

At(r, place) == visit[r] = place
VisitGoes(r, place) == visit' = [visit EXCEPT ![r] = place]
Leave(r) == VisitGoes(r, "idle")
Families == {token[t].family : t \in Issued}

-----------------------------------------------------------------------------
(* adminLogin, loginWithPassword and loginWithOtp, up to loginAndIssueTokens *)

MaySignInUnlessDeleted == ~account.deleted
MaySignIn == ~account.deleted /\ account.active

ReadAccount(r) ==
  /\ pc[r] = "idle" /\ At(r, "idle")
  /\ MaySignIn
  /\ VisitGoes(r, "compare")
  /\ UNCHANGED <<vars, kind, account, left, late, spared, ended>>

\* The password or the code is right: the counter and lock are reset by id, whatever became of
\* the account, and loginAndIssueTokens begins.
EnterDevice(r) ==
  /\ At(r, "compare")
  /\ \E c \in Clients, changed \in BOOLEAN : FindDevice(r, c, changed)
  /\ VisitGoes(r, "token")
  /\ UNCHANGED <<kind, account, left, late, spared, ended>>

StoreDevice(r) ==
  /\ CreateDevice(r) \/ ReplaceDevice(r) \/ TouchDevice(r)
  /\ UNCHANGED sessionVars

\* deleteAdmin revokes before it deletes: what is issued in between is spared as well.
BeingRemoved == \E d \in Logouts : visit[d] \in {"delete", "remove"}

SignedIn(r) ==
  /\ IssueAtLogin(r)
  /\ spared' = IF r \in late \/ BeingRemoved THEN spared \cup {Cardinality(Issued) + 1} ELSE spared
  /\ late' = late \ {r}
  /\ Leave(r)
  /\ UNCHANGED <<kind, account, left, ended>>

NotSignedIn(r) ==
  /\ LoginFails(r)
  /\ late' = late \ {r}
  /\ Leave(r)
  /\ UNCHANGED <<kind, account, left, spared, ended>>

SignIn(r) ==
  \/ ReadAccount(r) \/ EnterDevice(r) \/ StoreDevice(r)
  \/ SignedIn(r) \/ NotSignedIn(r)

\* A rotation never looks at the account.
Rotate(r) ==
  /\ Refresh(r)
  /\ spared' = IF pc[r] = "reissue" /\ r \in late THEN spared \cup {job[r].family} ELSE spared
  /\ late' = IF pc'[r] = "idle" THEN late \ {r} ELSE late
  /\ UNCHANGED <<kind, account, visit, left, ended>>

-----------------------------------------------------------------------------
(* changePassword, resetPassword and resetAdminPassword; disableAdmin and   *)
(* deactivateAccount; enableAdmin and deleteAdmin                           *)

Busy(d) == ~At(d, "idle")

\* The account is found; hashing a new password takes long.
FindAccount(d, op) ==
  /\ pc[d] = "idle" /\ ~Busy(d) /\ left > 0
  /\ ~account.deleted
  /\ left' = left - 1
  /\ VisitGoes(d, op)
  /\ pc' = IF op = "delete" THEN [pc EXCEPT ![d] = "all_tokens"] ELSE pc
  /\ spared' = IF op = "delete" THEN {} ELSE spared
  /\ UNCHANGED <<device, token, job, burned, kind, account, late, ended>>

\* The families and sign-ins there are when a new password or the disabling is written.
Shut ==
  /\ ended' = ended \cup Families
  /\ spared' = {}
  /\ late' = late \cup {r \in Logins : ~At(r, "idle")}

\* revokeAllOwnerTokens comes next.
ThenRevoke(d) == GoTo(d, "all_tokens") /\ VisitGoes(d, "revoke")

WritePassword(d) ==
  /\ At(d, "password")
  /\ Shut /\ ThenRevoke(d)
  /\ UNCHANGED <<device, token, job, burned, kind, left, account>>

Disable(d) ==
  /\ At(d, "disable")
  /\ account' = [account EXCEPT !.active = FALSE]
  /\ Shut /\ ThenRevoke(d)
  /\ UNCHANGED <<device, token, job, burned, kind, left>>

Enable(d) ==
  /\ At(d, "enable")
  /\ account' = [account EXCEPT !.active = TRUE]
  /\ Leave(d)
  /\ UNCHANGED <<vars, kind, left, late, spared, ended>>

\* A rotation between its two statements is missed.
RevokeAllOfAccount(d) ==
  /\ Busy(d)
  /\ RevokeAllTokens(d)
  /\ late' = late \cup {f \in Refreshes : pc[f] \in {"rotate", "reissue"}}
  /\ UNCHANGED <<kind, account, visit, left, spared, ended>>

TurnOffAllDevices(d) ==
  /\ Busy(d)
  /\ RevokeAllDevices(d)
  /\ IF At(d, "delete") THEN VisitGoes(d, "remove") ELSE Leave(d)
  /\ UNCHANGED <<kind, account, left, late, spared, ended>>

SoftDelete(d) ==
  /\ At(d, "remove")
  /\ account' = [account EXCEPT !.deleted = TRUE]
  /\ late' = late \cup {r \in Logins : ~At(r, "idle")}
  /\ Leave(d)
  /\ UNCHANGED <<vars, kind, left, spared, ended>>

OnAccount(d) ==
  \/ \E op \in Operations(kind) : FindAccount(d, op)
  \/ WritePassword(d) \/ Disable(d) \/ Enable(d)
  \/ RevokeAllOfAccount(d) \/ TurnOffAllDevices(d) \/ SoftDelete(d)

-----------------------------------------------------------------------------
SessionsNext ==
  \/ \E r \in Logins : SignIn(r)
  \/ \E r \in Refreshes : Rotate(r)
  \/ \E d \in Logouts : OnAccount(d)
  \/ \E d \in Logouts : ~Busy(d) /\ Logout(d) /\ UNCHANGED sessionVars
  \/ ((\E t \in Tokens : Age(t)) \/ CleanupExpiredTokens) /\ UNCHANGED sessionVars

SessionsSpec == SessionsInit /\ [][SessionsNext]_allVars

-----------------------------------------------------------------------------
\* Once a new password, a disabling or a deletion has been answered, every live token is of a
\* sign-in that read the account afterwards, and a disabled or deleted account has none:
\* excepted are only the sign-ins and the rotation that had read their row before, and what
\* deleteAdmin misses by revoking first (admin.service.ts:222-233, 266-273, 289-296;
\* customer-auth.service.ts:560-573; customer.service.ts:215-225).
ShutAccountsHaveNoSessions ==
  (\A d \in Logouts : ~Busy(d)) =>
    \A t \in LiveTokens :
      \/ token[t].family \in spared
      \/ token[t].family \notin ended /\ account.active /\ ~account.deleted

-----------------------------------------------------------------------------
(* The inductive invariant. *)

\* The statement a request sends next agrees with its visit to the account.
PlacesOK ==
  /\ \A r \in Logins : pc[r] # "idle" => At(r, "token")
  /\ \A d \in Logouts :
       /\ visit[d] \in {"password", "disable", "enable", "remove"} => pc[d] = "idle"
       /\ visit[d] \in {"delete", "revoke"} => pc[d] \in {"all_tokens", "all_devices"}

\* A sign-in under way that did not read the account too early read what is still true.
EarlyOK ==
  /\ \A r \in Logins : ~At(r, "idle") /\ r \notin late => account.active /\ ~account.deleted
  /\ ended \subseteq Issued

\* Once no revocation is outstanding, every family that is live or about to be was spared, or
\* is one that the account still allows; while the account is being removed, they were spared.
Revoking == \E d \in Logouts : Busy(d) /\ pc[d] = "all_tokens"
Sound(family) ==
  \/ family \in spared
  \/ family \notin ended /\ account.active /\ ~account.deleted /\ ~BeingRemoved

FamiliesSound ==
  ~Revoking =>
    /\ \A t \in LiveTokens : Sound(token[t].family)
    /\ \A f \in Refreshes : pc[f] \in {"rotate", "reissue"} /\ f \notin late =>
         Sound(job[f].family)

IInv ==
  /\ SessionsTypeOK
  /\ TokensOK /\ RotationsOK
  /\ OneRefresher => RotatesAlone /\ OneLiveTokenPerFamily /\ BurnedFamilyStaysDead
  /\ PlacesOK /\ EarlyOK /\ FamiliesSound
=============================================================================
