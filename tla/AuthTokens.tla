------------------------------ MODULE AuthTokens ------------------------------
(***************************************************************************)
(* Devices and refresh tokens of one account: logging in, rotating a       *)
(* refresh token, logging out of a device or of all of them, and the       *)
(* nightly cleanup.  An action is one SQL statement; token.service.ts uses *)
(* no transaction, so statements of different requests interleave freely.  *)
(*                                                                         *)
(* An access token is accepted while its device is active, so the model    *)
(* needs no access tokens.  The unique index on owner and client device id *)
(* leaves one row per client device.                                       *)
(***************************************************************************)
EXTENDS Integers, FiniteSets

CONSTANTS
  Clients,      \* client device ids
  NoClient,     \* no client device
  MaxTokens,    \* bound on the refresh tokens ever issued
  Logins, Refreshes, Logouts   \* requests; each serves one call after the other

ASSUME NoClientIsNone == NoClient \notin Clients
ASSUME MaxTokensType == MaxTokens \in Nat
ASSUME RequestsDisjoint ==
  Logins \cap Refreshes = {} /\ Logins \cap Logouts = {} /\ Refreshes \cap Logouts = {}

Requests == Logins \cup Refreshes \cup Logouts
Tokens == 1 .. MaxTokens

VARIABLES
  device,   \* devices row of a client device
  token,    \* auth_tokens rows, in the order they are issued
  pc,       \* the statement a request sends next
  job,      \* client, token and family a request works on
  burned    \* families whose reuse was detected (history)

vars == <<device, token, pc, job, burned>>

TokenState == {"none", "live", "revoked", "deleted"}
NoToken == [state |-> "none", client |-> NoClient, family |-> 0, aged |-> FALSE]
NoJob == [client |-> NoClient, token |-> 0, family |-> 0]
PC == {"idle", "touch", "create", "replace", "issue", "rotate", "reissue", "burn", "turn_off",
       "token", "device_tokens", "device", "all_tokens", "all_devices", "failed"}

Device == [known: BOOLEAN, active: BOOLEAN]
TokenRow == [state: TokenState, client: Clients \cup {NoClient}, family: Nat, aged: BOOLEAN]
Job == [client: Clients \cup {NoClient}, token: Nat, family: Nat]

TypeOK ==
  /\ device \in [Clients -> Device]
  /\ token \in [Tokens -> TokenRow]
  /\ pc \in [Requests -> PC]
  /\ job \in [Requests -> Job]
  /\ burned \subseteq Tokens

Init ==
  /\ device = [c \in Clients |-> [known |-> FALSE, active |-> FALSE]]
  /\ token = [t \in Tokens |-> NoToken]
  /\ pc = [r \in Requests |-> "idle"]
  /\ job = [r \in Requests |-> NoJob]
  /\ burned = {}

Issued == {t \in Tokens : token[t].state # "none"}
LiveTokens == {t \in Tokens : token[t].state = "live"}
GoTo(r, s) == pc' = [pc EXCEPT ![r] = s]
Answer(r) == GoTo(r, "idle") /\ job' = [job EXCEPT ![r] = NoJob]
Off(cs) == device' = [c \in Clients |-> IF c \in cs THEN [device[c] EXCEPT !.active = FALSE]
                                        ELSE device[c]]

\* issuesTokenPair: the new row; a login's token starts a family of its own.
Insert(client, family) ==
  LET t == Cardinality(Issued) + 1 IN
  token' = [token EXCEPT ![t] = [state |-> "live", client |-> client, aged |-> FALSE,
                                 family |-> IF family = 0 THEN t ELSE family]]
Room == Cardinality(Issued) < MaxTokens

\* UPDATE auth_tokens SET revoked WHERE revoked = false AND ...
RevokeThose(ts) ==
  token' = [t \in Tokens |-> IF t \in ts \cap LiveTokens
                             THEN [token[t] EXCEPT !.state = "revoked"] ELSE token[t]]

-----------------------------------------------------------------------------
(* loginAndIssueTokens: upsertDevice, then issuesTokenPair *)

FindDevice(r, c, changed) ==
  /\ pc[r] = "idle" /\ Room
  /\ job' = [job EXCEPT ![r] = [NoJob EXCEPT !.client = c]]
  /\ GoTo(r, IF ~device[c].known THEN "create" ELSE IF changed THEN "replace" ELSE "touch")
  /\ UNCHANGED <<device, token, burned>>

\* A second row for the same owner and client device violates the unique index.
CreateDevice(r) ==
  /\ pc[r] = "create"
  /\ IF device[job[r].client].known
     THEN GoTo(r, "failed") /\ UNCHANGED device
     ELSE /\ device' = [device EXCEPT ![job[r].client] = [known |-> TRUE, active |-> TRUE]]
          /\ GoTo(r, "issue")
  /\ UNCHANGED <<token, job, burned>>

\* The fingerprint changed: the known row is turned off and a new row inserted.
ReplaceDevice(r) ==
  /\ pc[r] = "replace"
  /\ Off({job[r].client})
  /\ GoTo(r, "create")
  /\ UNCHANGED <<token, job, burned>>

TouchDevice(r) ==
  /\ pc[r] = "touch"
  /\ device' = [device EXCEPT ![job[r].client].active = TRUE]
  /\ GoTo(r, "issue")
  /\ UNCHANGED <<token, job, burned>>

IssueAtLogin(r) ==
  /\ pc[r] = "issue" /\ Room
  /\ Insert(job[r].client, 0)
  /\ Answer(r)
  /\ UNCHANGED <<device, burned>>

LoginFails(r) ==
  /\ r \in Logins /\ pc[r] = "failed"
  /\ Answer(r)
  /\ UNCHANGED <<device, token, burned>>

Login(r) ==
  \/ \E c \in Clients, changed \in BOOLEAN : FindDevice(r, c, changed)
  \/ CreateDevice(r) \/ ReplaceDevice(r) \/ TouchDevice(r) \/ IssueAtLogin(r) \/ LoginFails(r)

-----------------------------------------------------------------------------
(* rotateRefreshToken *)

\* What the token presented is good for; expiry and an inactive device refuse a live one.
Rotatable(t) == ~token[t].aged /\ device[token[t].client].active

ReadToken(r, t) ==
  /\ pc[r] = "idle" /\ t \in Issued
  /\ job' = [job EXCEPT ![r] = [client |-> token[t].client, token |-> t,
                                family |-> token[t].family]]
  /\ \/ token[t].state = "revoked" /\ GoTo(r, "burn")
     \/ token[t].state = "live" /\ Rotatable(t) /\ Room /\ GoTo(r, "rotate")
  /\ UNCHANGED <<device, token, burned>>

BurnTokenOnly(r) == {job[r].token}
Burned(r) == {t \in Tokens : token[t].family = job[r].family}

BurnFamily(r) ==
  /\ pc[r] = "burn"
  /\ RevokeThose(Burned(r))
  /\ burned' = burned \cup {job[r].family}
  /\ GoTo(r, "turn_off")
  /\ UNCHANGED <<device, job>>

TurnOffDevice(r) ==
  /\ pc[r] = "turn_off"
  /\ Off({job[r].client})
  /\ Answer(r)
  /\ UNCHANGED <<token, burned>>

RotatedByReason(t) == [token[t] EXCEPT !.state = "ROTATED"]
RotatedUnrevoked(t) == token[t]
Rotated(t) == [token[t] EXCEPT !.state = "revoked"]

\* update fails when the cleanup has deleted the row meanwhile.
RevokeRotated(r) ==
  /\ pc[r] = "rotate"
  /\ IF token[job[r].token].state = "deleted"
     THEN Answer(r) /\ UNCHANGED token
     ELSE /\ token' = [token EXCEPT ![job[r].token] = Rotated(job[r].token)]
          /\ GoTo(r, "reissue")
          /\ UNCHANGED job
  /\ UNCHANGED <<device, burned>>

IssueAtRotation(r) ==
  /\ pc[r] = "reissue" /\ Room
  /\ Insert(job[r].client, job[r].family)
  /\ Answer(r)
  /\ UNCHANGED <<device, burned>>

Refresh(r) ==
  \/ \E t \in Tokens : ReadToken(r, t)
  \/ BurnFamily(r) \/ TurnOffDevice(r) \/ RevokeRotated(r) \/ IssueAtRotation(r)

-----------------------------------------------------------------------------
(* logout, DELETE devices/:id, and revokeAllOwnerTokens with its callers: *)
(* logout-all, a changed or reset password, a disabled account            *)

BeginLogout(r) ==
  /\ pc[r] = "idle"
  /\ \/ \E t \in Issued :
          /\ job' = [job EXCEPT ![r] = [NoJob EXCEPT !.client = token[t].client, !.token = t]]
          /\ GoTo(r, "token")
     \/ \E c \in Clients :
          /\ device[c].known
          /\ job' = [job EXCEPT ![r] = [NoJob EXCEPT !.client = c]]
          /\ GoTo(r, "device_tokens")
     \/ GoTo(r, "all_tokens") /\ UNCHANGED job
  /\ UNCHANGED <<device, token, burned>>

RevokeToken(r) ==
  /\ pc[r] = "token"
  /\ RevokeThose({job[r].token})
  /\ GoTo(r, "device_tokens")
  /\ UNCHANGED <<device, job, burned>>

RevokeDeviceTokens(r) ==
  /\ pc[r] = "device_tokens"
  /\ RevokeThose({t \in Tokens : token[t].client = job[r].client})
  /\ GoTo(r, "device")
  /\ UNCHANGED <<device, job, burned>>

RevokeDevice(r) ==
  /\ pc[r] = "device"
  /\ Off({job[r].client})
  /\ Answer(r)
  /\ UNCHANGED <<token, burned>>

RevokeAllTokens(r) ==
  /\ pc[r] = "all_tokens"
  /\ RevokeThose(Tokens)
  /\ GoTo(r, "all_devices")
  /\ UNCHANGED <<device, job, burned>>

RevokeAllDevices(r) ==
  /\ pc[r] = "all_devices"
  /\ Off(Clients)
  /\ Answer(r)
  /\ UNCHANGED <<token, burned>>

Logout(r) ==
  \/ BeginLogout(r) \/ RevokeToken(r) \/ RevokeDeviceTokens(r) \/ RevokeDevice(r)
  \/ RevokeAllTokens(r) \/ RevokeAllDevices(r)

-----------------------------------------------------------------------------
\* Time passes: a token expires, or its revocation becomes a week old.
Age(t) ==
  /\ t \in Issued /\ ~token[t].aged /\ token[t].state # "deleted"
  /\ token' = [token EXCEPT ![t].aged = TRUE]
  /\ UNCHANGED <<device, pc, job, burned>>

CleanupExpiredTokens ==
  /\ \E t \in Issued : token[t].aged /\ token[t].state # "deleted"
  /\ token' = [t \in Tokens |-> IF t \in Issued /\ token[t].aged
                                THEN [token[t] EXCEPT !.state = "deleted"] ELSE token[t]]
  /\ UNCHANGED <<device, pc, job, burned>>

Next ==
  \/ \E r \in Logins : Login(r)
  \/ \E r \in Refreshes : Refresh(r)
  \/ \E r \in Logouts : Logout(r)
  \/ \E t \in Tokens : Age(t)
  \/ CleanupExpiredTokens

Spec == Init /\ [][Next]_vars

-----------------------------------------------------------------------------
\* While a client refreshes one token at a time, a family never has two live tokens,
\* whatever logins, logouts and the cleanup do meanwhile (token.service.ts:387-403).
OneLiveTokenPerFamily ==
  \A t, u \in LiveTokens : token[t].family = token[u].family => t = u

\* Once the reuse of a token was detected, no token of its family is ever live again
\* (token.service.ts:350-360), not even when a later login turns the device on again; here
\* too the client refreshes one token at a time.
BurnedFamilyStaysDead == \A t \in LiveTokens : token[t].family \notin burned

\* What the comment on the changed fingerprint says (token.service.ts:189): the client device
\* gets a new row, so its login goes through.
ChangedDeviceLogsIn == \A r \in Logins : pc[r] # "failed"

-----------------------------------------------------------------------------
(* Parts of the inductive invariant of Sessions that are about tokens.     *)

\* A family is named after its first token, and tokens are issued in the order of their
\* numbers: a login's family is a new one.
TokensOK ==
  /\ Issued = 1 .. Cardinality(Issued)
  /\ \A t \in Issued : token[t].family \in Issued
  /\ burned \subseteq Issued

\* What a rotation remembers of the token presented stays true of it.
RotationsOK ==
  \A f \in Refreshes : pc[f] \in {"burn", "rotate", "reissue"} =>
    job[f].token \in Issued /\ job[f].family = token[job[f].token].family

OneRefresher == \A f, g \in Refreshes : f = g

\* On its way to a new token of the family, a rotation knows that no other one is live, and
\* that no reuse was detected.
RotatesAlone ==
  \A f \in Refreshes :
    /\ pc[f] = "rotate" =>
         \A t \in LiveTokens : token[t].family = job[f].family => t = job[f].token
    /\ pc[f] = "reissue" => \A t \in LiveTokens : token[t].family # job[f].family
    /\ pc[f] \in {"rotate", "reissue"} => job[f].family \notin burned
=============================================================================
