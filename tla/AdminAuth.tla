------------------------------- MODULE AdminAuth ------------------------------
(***************************************************************************)
(* The lock on an administrator's account.  adminLogin keeps the same      *)
(* counter and lock as the customer's login, in the row that the variable  *)
(* customer holds here, but writes a failure from what it read before the  *)
(* slow comparison of the password, and writes null for no lock.           *)
(*                                                                         *)
(* A behaviour is one customer's (CustomerAuth) or one administrator's.    *)
(***************************************************************************)
EXTENDS CustomerAuth

VARIABLES
  kind,    \* whose account it is
  wrong    \* failures answered since the clock moved, a reset or an unlock (history)

adminVars == <<kind, wrong>>

AdminAuthTypeOK == TypeOK /\ kind \in {"ADMIN", "CUSTOMER"} /\ wrong \in Nat

AdminAuthInit == Init /\ kind \in {"ADMIN", "CUSTOMER"} /\ wrong = 0

-----------------------------------------------------------------------------
\* The row is read once; a password that is right leads to the reset, a wrong one to the count.
AdminLogin(r) ==
  /\ pc[r] = "idle" /\ ~Locked /\ customer.isActive
  /\ job' = [job EXCEPT ![r].attempts = customer.loginAttempts]
  /\ \E right \in BOOLEAN : GoTo(r, IF right THEN "reset" ELSE "write_attempts")
  /\ UNCHANGED <<now, code, customer, adminVars>>

\* The counter stops at MaxFailures, which is no less than the limit.
AdminFailureLockedLate(attempts) ==
  [customer EXCEPT !.loginAttempts = IF attempts <= MaxFailures THEN attempts ELSE MaxFailures,
                   !.lockedUntil = IF attempts > MaxLoginAttempts THEN now + LockFor ELSE None]
AdminFailure(attempts) ==
  [customer EXCEPT !.loginAttempts = IF attempts <= MaxFailures THEN attempts ELSE MaxFailures,
                   !.lockedUntil = IF attempts >= MaxLoginAttempts THEN now + LockFor ELSE None]

AdminMiss(r) ==
  /\ pc[r] = "write_attempts"
  /\ customer' = AdminFailure(job[r].attempts + 1)
  /\ wrong' = wrong + 1
  /\ Answer(r)
  /\ UNCHANGED <<now, code, kind>>

AdminReset(r) == Reset(r) /\ wrong' = 0 /\ UNCHANGED kind

UnlockAdmin ==
  /\ customer' = [customer EXCEPT !.loginAttempts = 0, !.lockedUntil = None]
  /\ wrong' = 0
  /\ UNCHANGED <<now, code, pc, job, kind>>

\* disableAdmin is like deactivateAccount; only an administrator is enabled again.
EnableAdmin ==
  /\ customer' = [customer EXCEPT !.isActive = TRUE]
  /\ UNCHANGED <<now, code, pc, job, adminVars>>

AdminNext ==
  \/ \E r \in Logins : AdminLogin(r) \/ AdminMiss(r) \/ AdminReset(r)
  \/ UnlockAdmin \/ EnableAdmin
  \/ DeactivateAccount /\ UNCHANGED adminVars
  \/ Tick /\ wrong' = 0 /\ UNCHANGED kind

AdminAuthNext ==
  \/ kind = "CUSTOMER" /\ Next /\ UNCHANGED adminVars
  \/ kind = "ADMIN" /\ AdminNext

AdminAuthSpec == AdminAuthInit /\ [][AdminAuthNext]_<<vars, adminVars>>

-----------------------------------------------------------------------------
\* As in CustomerAuth, a failure that was under way never lifts or shortens a customer's lock
\* (customer-auth.service.ts:588-596).  An administrator's lock has no such property.
CustomerLockHolds == [][kind = "CUSTOMER" => LockHolds]_<<vars, adminVars>>

\* A failure that read the row before the lock was set lifts an administrator's lock, but it
\* writes one more than it read: two overlapping sign-ins are refused no more often than the
\* counter has steps to its limit from each of its values, and one each
\* (admin-auth.service.ts:56-65).
AdminGuessesBounded ==
  Cardinality(Logins) = 2 => wrong <= (MaxLoginAttempts * (MaxLoginAttempts + 3)) \div 2

-----------------------------------------------------------------------------
(* The inductive invariant: CustomerAuth's, and how often two sign-ins can *)
(* still be refused.                                                       *)

\* A sign-in is refused only if its row was read, or can be read now.
CanMiss(r) == pc[r] = "write_attempts" \/ (pc[r] = "idle" /\ ~Locked)
Base(r) == IF pc[r] = "write_attempts" THEN job[r].attempts ELSE customer.loginAttempts

\* How often one sign-in alone is refused before the limit, and how often two are that start
\* from the counter k: the one that waits sets the counter back to one more than k.
Alone(k) == IF k < MaxLoginAttempts THEN MaxLoginAttempts - k ELSE 1
Both(k) ==
  IF k < MaxLoginAttempts
    THEN ((MaxLoginAttempts - k) * (MaxLoginAttempts - k + 3)) \div 2
    ELSE 0

WrongOK ==
  /\ wrong <= Both(0)
  /\ \A r \in Logins : CanMiss(r) => wrong + 1 + Both(Base(r) + 1) <= Both(0)
  /\ \A q, r \in Logins :
       q # r /\ CanMiss(q) /\ CanMiss(r) /\ Base(q) <= Base(r) =>
         wrong + Alone(Base(r)) + 1 + Both(Base(q) + 1) <= Both(0)

IInv ==
  /\ AdminAuthTypeOK
  /\ CodesOK
  /\ KnownSent
  /\ OneSender => SendingOK /\ SupersededCodesDead /\ SendsAreSpaced /\ NewestCodeTried
  /\ GuessesOK
  /\ LockOK
  /\ kind = "CUSTOMER" => wrong = 0
  /\ kind = "ADMIN" /\ Cardinality(Logins) = 2 => WrongOK
=============================================================================
