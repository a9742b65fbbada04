----------------------------- MODULE CustomerAuth -----------------------------
(***************************************************************************)
(* One customer with a password and a phone: the codes sent to the phone,  *)
(* logging in with a code or with the password, resetting the password,    *)
(* and the lock that follows failed passwords.  An action is one SQL       *)
(* statement; none of these services uses a transaction, and comparing a   *)
(* code or a password takes long, so requests interleave.                  *)
(*                                                                         *)
(* Whether a password is right is the customer's choice.  Tokens, issued   *)
(* or revoked at the end of a request, are AuthTokens' matter.             *)
(***************************************************************************)
EXTENDS Integers, FiniteSets

CONSTANTS
  Sends, Verifies, Logins,   \* requests: send a code, use a code, use the password
  Cooldown, Expiry, Window,  \* of codes, in ticks of the clock
  MaxPerWindow, MaxAttempts, \* codes sent in a window, wrong tries of a code
  MaxLoginAttempts, LockFor, \* failures that lock the account, and for how long
  Horizon, MaxCodes, MaxFailures   \* bounds: the clock, codes stored, failures counted

ASSUME TimesType == {Cooldown, Expiry, Window, Horizon} \subseteq Nat
ASSUME LimitsType ==
  {MaxPerWindow, MaxAttempts, MaxLoginAttempts, LockFor, MaxCodes, MaxFailures}
    \subseteq Nat \ {0}
ASSUME FailuresReachTheLimit == MaxLoginAttempts <= MaxFailures
ASSUME RequestsFinite == IsFiniteSet(Verifies) /\ IsFiniteSet(Logins)
ASSUME KindsDisjoint ==
  Sends \cap Verifies = {} /\ Sends \cap Logins = {} /\ Verifies \cap Logins = {}

Requests == Sends \cup Verifies \cup Logins
Purposes == {"LOGIN_OTP", "RESET_PASSWORD"}
Codes == 1 .. MaxCodes   \* in the order of createdAt
Time == 0 .. Horizon
None == 0

VARIABLES
  now,       \* the clock
  code,      \* verification_otps rows
  customer,  \* the customers row
  pc,        \* the statement a request sends next
  job        \* what a request was asked and what it read

vars == <<now, code, customer, pc, job>>

NoCode == [state |-> "absent", purpose |-> "LOGIN_OTP", at |-> 0, expires |-> 0,
           attempts |-> 0, guesses |-> 0, verified |-> FALSE, late |-> FALSE]
NoJob == [purpose |-> "LOGIN_OTP", code |-> None, at |-> 0, attempts |-> 0, known |-> {}]

CodeRow == [state: {"absent", "stored", "deleted"}, purpose: Purposes, at: Time, expires: Nat,
            attempts: Nat, guesses: Nat, verified: BOOLEAN, late: BOOLEAN]
Account == [isActive: BOOLEAN, loginAttempts: Nat, lockedUntil: Nat \cup {None}]
\* "known" remembers which codes had been sent when a verification read its own.
Job == [purpose: Purposes, code: Codes \cup {None}, at: Time, attempts: Nat, known: SUBSET Codes]
PC == {"idle", "cooldown", "expire", "create", "compare", "account", "read_attempts",
       "write_attempts", "reset"}

TypeOK ==
  /\ now \in Time
  /\ code \in [Codes -> CodeRow]
  /\ customer \in Account
  /\ pc \in [Requests -> PC]
  /\ job \in [Requests -> Job]

Init ==
  /\ now = 0
  /\ code = [c \in Codes |-> NoCode]
  /\ customer = [isActive |-> TRUE, loginAttempts |-> 0, lockedUntil |-> None]
  /\ pc = [r \in Requests |-> "idle"]
  /\ job = [r \in Requests |-> NoJob]

Tick ==
  /\ now < Horizon
  /\ now' = now + 1
  /\ UNCHANGED <<code, customer, pc, job>>

GoTo(r, s) == pc' = [pc EXCEPT ![r] = s]
Answer(r) == GoTo(r, "idle") /\ job' = [job EXCEPT ![r] = NoJob]

Stored(p) == {c \in Codes : code[c].state = "stored" /\ code[c].purpose = p}
Usable(c) == code[c].state = "stored" /\ ~code[c].verified /\ code[c].expires > now
Created == {c \in Codes : code[c].state # "absent"}

-----------------------------------------------------------------------------
(* requestLoginOtp, requestPasswordReset, and sendOtp with storeOtp *)

\* The customer is found, and checkRateLimit counts the codes of the window.
RequestCode(s, p) ==
  /\ pc[s] = "idle" /\ Cardinality(Created) < MaxCodes
  /\ p = "LOGIN_OTP" => customer.isActive
  /\ Cardinality({c \in Stored(p) : code[c].at >= now - Window}) < MaxPerWindow
  /\ job' = [job EXCEPT ![s] = [NoJob EXCEPT !.purpose = p]]
  /\ GoTo(s, "cooldown")
  /\ UNCHANGED <<now, code, customer>>

Cooling(p) == \E c \in Stored(p) : code[c].at >= now - Cooldown

CheckResendCooldown(s) ==
  /\ pc[s] = "cooldown"
  /\ IF Cooling(job[s].purpose) THEN Answer(s) ELSE GoTo(s, "expire") /\ UNCHANGED job
  /\ UNCHANGED <<now, code, customer>>

InvalidatedExpired(p) == {c \in Stored(p) : ~code[c].verified /\ code[c].expires < now}
Invalidated(p) == {c \in Stored(p) : Usable(c)}

\* storeOtp: older codes expire now; the new one's expiry is already computed.
ExpirePrevious(s) ==
  /\ pc[s] = "expire"
  /\ code' = [c \in Codes |-> IF c \in Invalidated(job[s].purpose)
                              THEN [code[c] EXCEPT !.expires = now] ELSE code[c]]
  /\ job' = [job EXCEPT ![s].at = now]
  /\ GoTo(s, "create")
  /\ UNCHANGED <<now, customer>>

\* "late" remembers that the code was inserted with no more than the cooldown to live.
CreateCode(s) ==
  /\ pc[s] = "create"
  /\ code' = [code EXCEPT ![Cardinality(Created) + 1] =
       [NoCode EXCEPT !.state = "stored", !.purpose = job[s].purpose, !.at = now,
                      !.expires = job[s].at + Expiry,
                      !.late = job[s].at + Expiry <= now + Cooldown]]
  /\ Answer(s)
  /\ UNCHANGED <<now, customer>>

Send(s) ==
  \/ \E p \in Purposes : RequestCode(s, p)
  \/ CheckResendCooldown(s) \/ ExpirePrevious(s) \/ CreateCode(s)

-----------------------------------------------------------------------------
(* verifyOtp with consume, for loginWithOtp and resetPassword *)

ExhaustedLater(c) == code[c].attempts > MaxAttempts
Exhausted(c) == code[c].attempts >= MaxAttempts

\* The newest usable code of the purpose is read, unless it is exhausted.
ReadCode(v, p) ==
  /\ pc[v] = "idle"
  /\ \E c \in Stored(p) :
       /\ Usable(c) /\ \A d \in Stored(p) : Usable(d) => d <= c
       /\ ~Exhausted(c)
       /\ job' = [job EXCEPT ![v] = [NoJob EXCEPT !.purpose = p, !.code = c, !.known = Created]]
  /\ GoTo(v, "compare")
  /\ UNCHANGED <<now, code, customer>>

\* The code given is wrong; the database adds one to the attempts.
Missed(c) == [code[c] EXCEPT !.attempts = @ + 1, !.guesses = @ + 1]

CountMiss(v) ==
  /\ pc[v] = "compare"
  /\ code[job[v].code].state = "stored"
  /\ code' = [code EXCEPT ![job[v].code] = Missed(job[v].code)]
  /\ Answer(v)
  /\ UNCHANGED <<now, customer>>

\* The code given is right; the row is marked, whatever happened to it meanwhile.
ConsumeCode(v) ==
  /\ pc[v] = "compare"
  /\ code[job[v].code].state = "stored"
  /\ code' = [code EXCEPT ![job[v].code].verified = TRUE]
  \* resetPassword goes on to write the password only
  /\ GoTo(v, IF job[v].purpose = "LOGIN_OTP" THEN "account" ELSE "idle")
  /\ job' = [job EXCEPT ![v] = NoJob]
  /\ UNCHANGED <<now, customer>>

\* Either update throws when the cleanup has deleted the row.
CodeGone(v) ==
  /\ pc[v] = "compare"
  /\ code[job[v].code].state = "deleted"
  /\ Answer(v)
  /\ UNCHANGED <<now, code, customer>>

\* loginWithOtp looks at the account, not at its lock.
FindAccount(v) ==
  /\ pc[v] = "account"
  /\ GoTo(v, IF customer.isActive THEN "reset" ELSE "idle")
  /\ UNCHANGED <<now, code, customer, job>>

Verify(v) ==
  \/ \E p \in Purposes : ReadCode(v, p)
  \/ CountMiss(v) \/ ConsumeCode(v) \/ CodeGone(v) \/ FindAccount(v)

-----------------------------------------------------------------------------
(* loginWithPassword and incrementLoginAttempts *)

Locked == customer.lockedUntil > now

\* The account is neither locked nor off; comparing the password read touches no table.
ReadAccount(r) ==
  /\ pc[r] = "idle" /\ ~Locked /\ customer.isActive
  /\ \E right \in BOOLEAN : GoTo(r, IF right THEN "reset" ELSE "read_attempts")
  /\ UNCHANGED <<now, code, customer, job>>

ReadAttempts(r) ==
  /\ pc[r] = "read_attempts" /\ customer.loginAttempts < MaxFailures
  /\ job' = [job EXCEPT ![r].attempts = customer.loginAttempts]
  /\ GoTo(r, "write_attempts")
  /\ UNCHANGED <<now, code, customer>>

FailureCountedDown(attempts) == [customer EXCEPT !.loginAttempts = 0 - attempts]
FailureLockedLate(attempts) ==
  [customer EXCEPT !.loginAttempts = attempts,
                   !.lockedUntil = IF attempts > MaxLoginAttempts THEN now + LockFor ELSE @]
FailureClearingLock(attempts) ==
  [customer EXCEPT !.loginAttempts = attempts,
                   !.lockedUntil = IF attempts >= MaxLoginAttempts THEN now + LockFor ELSE None]
Failure(attempts) ==
  [customer EXCEPT !.loginAttempts = attempts,
                   !.lockedUntil = IF attempts >= MaxLoginAttempts THEN now + LockFor ELSE @]

WriteAttempts(r) ==
  /\ pc[r] = "write_attempts"
  /\ customer' = Failure(job[r].attempts + 1)
  /\ Answer(r)
  /\ UNCHANGED <<now, code>>

\* Both logins end by clearing the counter and the lock.
Reset(r) ==
  /\ pc[r] = "reset"
  /\ customer' = [customer EXCEPT !.loginAttempts = 0, !.lockedUntil = None]
  /\ Answer(r)
  /\ UNCHANGED <<now, code>>

Login(r) == ReadAccount(r) \/ ReadAttempts(r) \/ WriteAttempts(r)

-----------------------------------------------------------------------------
\* customer.service.ts, deactivateAccount: nothing turns an account on again but a registration.
DeactivateAccount ==
  /\ customer.isActive
  /\ customer' = [customer EXCEPT !.isActive = FALSE]
  /\ UNCHANGED <<now, code, pc, job>>

RemovableOnceVerified(c) == code[c].expires < now \/ code[c].verified
\* A verified code is also removed a day later, when it has long expired.
Removable(c) == code[c].expires < now

CleanupExpiredOtps ==
  /\ \E p \in Purposes, c \in Codes : c \in Stored(p) /\ Removable(c)
  /\ code' = [c \in Codes |-> IF c \in Created /\ Removable(c)
                              THEN [code[c] EXCEPT !.state = "deleted"] ELSE code[c]]
  /\ UNCHANGED <<now, customer, pc, job>>

Next ==
  \/ Tick
  \/ \E s \in Sends : Send(s)
  \/ \E v \in Verifies : Verify(v)
  \/ \E r \in Logins : Login(r)
  \/ \E r \in Verifies \cup Logins : Reset(r)
  \/ DeactivateAccount
  \/ CleanupExpiredOtps

Spec == Init /\ [][Next]_vars

-----------------------------------------------------------------------------
\* While codes are sent one at a time, a request that begins to verify after a newer code of
\* the purpose was stored never tries, and so never accepts, an older one, not even once the
\* newer one is used, exhausted or removed (otp.service.ts:140-150, 174-183).  A request that
\* had read its row before may still be let in with it (197-221).
NewestCodeTried ==
  \A v \in Verifies : pc[v] = "compare" =>
    \A c \in job[v].known : code[c].purpose = job[v].purpose => c <= job[v].code

\* The attempts are checked before the slow comparison and counted after it, so overlapping
\* requests can overshoot the limit, but only by one each (otp.service.ts:193-209).
GuessesBounded ==
  \A c \in Codes : code[c].guesses <= MaxAttempts + Cardinality(Verifies) - 1

\* Two codes of a purpose are more than the cooldown apart, although the cooldown is looked
\* up in rows that the next code expires and the cleanup removes (otp.service.ts:106-123,
\* 232-251); a code stored so late that it hardly lives is the exception.
SendsAreSpaced ==
  \A c, d \in Created :
    c < d /\ code[c].purpose = code[d].purpose /\ ~code[c].late =>
      code[d].at - code[c].at > Cooldown

\* A failure counter at its limit always comes with a lock, however failures and logins by
\* code overlap (customer-auth.service.ts:578-597).
LimitBringsLock ==
  customer.loginAttempts >= MaxLoginAttempts => customer.lockedUntil # None

\* A running lock is only ever lifted by a login that proved itself; a failure that was under
\* way, whatever it had read, never shortens it (customer-auth.service.ts:588-596).
LockHolds ==
  customer.lockedUntil > now /\ customer'.lockedUntil < customer.lockedUntil =>
    \E r \in Requests : pc[r] = "reset" /\ pc'[r] = "idle"

LockIsNotShortened == [][LockHolds]_vars

-----------------------------------------------------------------------------
(* The inductive invariant of these properties, part by part.              *)

OneSender == \A s, t \in Sends : s = t

\* Codes are stored in the order of their numbers, and removed only once expired.
CodesOK ==
  /\ Created = 1 .. Cardinality(Created)
  /\ \A c \in Created : code[c].state = "deleted" => code[c].expires < now

\* A request to send that has passed the cooldown knows that every earlier code of its
\* purpose is older than the cooldown, also the codes that were removed; and one that goes
\* on to store its code knows that none of them is usable.
PassedCooldown(s) ==
  \A c \in Created : code[c].purpose = job[s].purpose /\ ~code[c].late =>
    code[c].at + Cooldown < now
NoneUsable(s) == \A c \in Created : code[c].purpose = job[s].purpose => ~Usable(c)

SendingOK ==
  /\ \A c \in Created : ~code[c].late => code[c].at + Cooldown < code[c].expires
  /\ \A s \in Sends :
       /\ pc[s] \in {"expire", "create"} => PassedCooldown(s)
       /\ pc[s] = "create" => NoneUsable(s)

Comparing(c) == {v \in Verifies : pc[v] = "compare" /\ job[v].code = c}

\* A code that a newer one of its purpose has followed is never read again.
SupersededCodesDead ==
  \A c, d \in Created : c < d /\ code[c].purpose = code[d].purpose => ~Usable(c)

KnownSent == \A v \in Verifies : job[v].known \subseteq Created

\* A code has been tried as often as it counts, and every request that compares it now may
\* add one.
GuessesOK ==
  \A c \in Codes :
    /\ code[c].guesses = code[c].attempts
    /\ code[c].guesses + Cardinality(Comparing(c)) <= MaxAttempts + Cardinality(Verifies) - 1

LockOK == LimitBringsLock /\ customer.lockedUntil <= now + LockFor
=============================================================================
