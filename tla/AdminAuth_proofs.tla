-------------------------- MODULE AdminAuth_proofs --------------------------
(***************************************************************************)
(* Codes, password logins and the lock, a customer's and an                *)
(* administrator's: IInv is inductive, for any requests and limits.  The   *)
(* invariant is a conjunction of parts that read few variables each, so    *)
(* one lemma shows that every action keeps one part.                       *)
(***************************************************************************)
EXTENDS AdminAuth, FiniteSetTheorems, TLAPS

allVars == <<vars, adminVars>>

-----------------------------------------------------------------------------
(* Types. *)

LEMMA CodeRowSet ==
  /\ \A x \in CodeRow, n \in Nat : [x EXCEPT !.expires = n] \in CodeRow
  /\ \A x \in CodeRow : [x EXCEPT !.state = "deleted"] \in CodeRow
  /\ \A x \in CodeRow : [x EXCEPT !.verified = TRUE] \in CodeRow
  /\ \A x \in CodeRow : [x EXCEPT !.attempts = @ + 1, !.guesses = @ + 1] \in CodeRow
<1>1. \A x \in CodeRow, n \in Nat : [x EXCEPT !.expires = n] \in CodeRow
  BY DEF CodeRow
<1>2. \A x \in CodeRow : [x EXCEPT !.state = "deleted"] \in CodeRow
  BY DEF CodeRow
<1>3. \A x \in CodeRow : [x EXCEPT !.verified = TRUE] \in CodeRow
  BY DEF CodeRow
<1>4. ASSUME NEW x \in CodeRow
      PROVE  [x EXCEPT !.attempts = @ + 1, !.guesses = @ + 1] \in CodeRow
  <2>1. ASSUME NEW m \in Nat, NEW n \in Nat
        PROVE  [x EXCEPT !.attempts = m, !.guesses = n] \in CodeRow
    BY DEF CodeRow
  <2>2. x.attempts + 1 \in Nat /\ x.guesses + 1 \in Nat
    BY DEF CodeRow
  <2> QED
    BY <2>1, <2>2
<1> QED
  BY <1>1, <1>2, <1>3, <1>4

LEMMA JobSet ==
  /\ NoJob \in Job
  /\ \A p \in Purposes : [NoJob EXCEPT !.purpose = p] \in Job
  /\ \A p \in Purposes, c \in Codes, K \in SUBSET Codes :
       [NoJob EXCEPT !.purpose = p, !.code = c, !.known = K] \in Job
  /\ \A x \in Job, t \in Time : [x EXCEPT !.at = t] \in Job
  /\ \A x \in Job, n \in Nat : [x EXCEPT !.attempts = n] \in Job
<1>1. NoJob \in Job
  BY TimesType DEF Job, NoJob, Purposes, None, Time
<1>2. \A p \in Purposes : [NoJob EXCEPT !.purpose = p] \in Job
  BY <1>1 DEF Job
<1>3. \A p \in Purposes, c \in Codes, K \in SUBSET Codes :
        [NoJob EXCEPT !.purpose = p, !.code = c, !.known = K] \in Job
  BY <1>1 DEF Job
<1>4. \A x \in Job, t \in Time : [x EXCEPT !.at = t] \in Job
  BY DEF Job
<1>5. \A x \in Job, n \in Nat : [x EXCEPT !.attempts = n] \in Job
  BY DEF Job
<1> QED
  BY <1>1, <1>2, <1>3, <1>4, <1>5

LEMMA InitType == AdminAuthInit => AdminAuthTypeOK
<1> SUFFICES ASSUME AdminAuthInit PROVE AdminAuthTypeOK
  OBVIOUS
<1> USE DEF AdminAuthInit, Init
<1>1. now \in Time
  BY TimesType DEF Time
<1>2. NoCode \in CodeRow
  BY <1>1 DEF NoCode, CodeRow, Purposes
<1>3. customer \in Account
  BY DEF Account, None
<1>4. pc \in [Requests -> PC] /\ job \in [Requests -> Job]
  BY JobSet DEF PC
<1> QED
  BY <1>1, <1>2, <1>3, <1>4 DEF AdminAuthTypeOK, TypeOK

LEMMA GoToType ==
  ASSUME TypeOK, NEW r \in Requests, NEW s \in PC, GoTo(r, s) PROVE pc' \in [Requests -> PC]
BY DEF TypeOK, GoTo

LEMMA AnswerType ==
  ASSUME TypeOK, NEW r \in Requests, Answer(r)
  PROVE  pc' \in [Requests -> PC] /\ job' \in [Requests -> Job]
BY JobSet, GoToType DEF TypeOK, Answer, PC

LEMMA TickType == ASSUME TypeOK, Tick PROVE TypeOK'
<1>1. now' \in Time
  BY TimesType DEF TypeOK, Tick, Time
<1> QED
  BY <1>1 DEF TypeOK, Tick

LEMMA SendType ==
  ASSUME TypeOK, NEW s \in Sends, Send(s) PROVE TypeOK'
<1> s \in Requests
  BY DEF Requests
<1>1. ASSUME NEW p \in Purposes, RequestCode(s, p) PROVE TypeOK'
  BY <1>1, JobSet, GoToType DEF TypeOK, RequestCode, PC
<1>2. CASE CheckResendCooldown(s)
  <2>1. CASE Answer(s)
    BY <1>2, <2>1, AnswerType DEF TypeOK, CheckResendCooldown
  <2>2. CASE GoTo(s, "expire") /\ UNCHANGED job
    BY <1>2, <2>2, GoToType DEF TypeOK, CheckResendCooldown, PC
  <2> QED
    BY <1>2, <2>1, <2>2 DEF CheckResendCooldown
<1>3. CASE ExpirePrevious(s)
  <2>1. code' \in [Codes -> CodeRow]
    <3>1. now \in Nat
      BY DEF TypeOK, Time
    <3> QED
      BY <1>3, <3>1, CodeRowSet DEF TypeOK, ExpirePrevious
  <2>2. job' \in [Requests -> Job]
    BY <1>3, JobSet DEF TypeOK, ExpirePrevious
  <2> QED
    BY <1>3, <2>1, <2>2, GoToType DEF TypeOK, ExpirePrevious, PC
<1>4. CASE CreateCode(s)
  <2>1. job[s].purpose \in Purposes /\ job[s].at + Expiry \in Nat /\ now \in Time
    BY TimesType DEF TypeOK, Time, Job
  <2>2. ASSUME NEW p \in Purposes, NEW t \in Time, NEW e \in Nat, NEW l \in BOOLEAN
        PROVE  [NoCode EXCEPT !.state = "stored", !.purpose = p, !.at = t, !.expires = e,
                              !.late = l] \in CodeRow
    BY DEF NoCode, CodeRow
  <2>3. code' \in [Codes -> CodeRow]
    <3> DEFINE late == job[s].at + Expiry <= now + Cooldown
               row == [NoCode EXCEPT !.state = "stored", !.purpose = job[s].purpose, !.at = now,
                                     !.expires = job[s].at + Expiry, !.late = late]
    <3>1. late \in BOOLEAN
      OBVIOUS
    <3>2. row \in CodeRow
      <4> HIDE DEF late
      <4> QED
        BY <2>1, <2>2, <3>1
    <3>3. code' = [code EXCEPT ![Cardinality(Created) + 1] = row]
      BY <1>4, Zenon DEF CreateCode
    <3> HIDE DEF row
    <3> QED
      BY <3>2, <3>3 DEF TypeOK
  <2> QED
    BY <1>4, <2>3, AnswerType DEF TypeOK, CreateCode
<1> QED
  BY <1>1, <1>2, <1>3, <1>4 DEF Send

LEMMA VerifyType ==
  ASSUME TypeOK, NEW v \in Verifies, Verify(v) PROVE TypeOK'
<1> v \in Requests
  BY DEF Requests
<1>1. ASSUME NEW p \in Purposes, ReadCode(v, p) PROVE TypeOK'
  <2>1. PICK c \in Stored(p) :
          job' = [job EXCEPT ![v] = [NoJob EXCEPT !.purpose = p, !.code = c, !.known = Created]]
    BY <1>1 DEF ReadCode
  <2>2. [NoJob EXCEPT !.purpose = p, !.code = c, !.known = Created] \in Job
    BY JobSet DEF Created, Stored
  <2>3. job' \in [Requests -> Job]
    BY <2>1, <2>2 DEF TypeOK
  <2> QED
    BY <1>1, <2>3, GoToType DEF TypeOK, ReadCode, PC
<1>2. CASE CountMiss(v)
  <2>1. code' \in [Codes -> CodeRow]
    <3>1. job[v].code \in Codes => Missed(job[v].code) \in CodeRow
      BY CodeRowSet DEF TypeOK, Missed
    <3> QED
      BY <1>2, <3>1 DEF TypeOK, CountMiss
  <2> QED
    BY <1>2, <2>1, AnswerType DEF TypeOK, CountMiss
<1>3. CASE ConsumeCode(v)
  <2>1. pc' \in [Requests -> PC]
    BY <1>3, GoToType DEF ConsumeCode, PC
  <2> QED
    BY <1>3, <2>1, JobSet, CodeRowSet DEF TypeOK, ConsumeCode
<1>4. CASE CodeGone(v)
  BY <1>4, AnswerType DEF TypeOK, CodeGone
<1>5. CASE FindAccount(v)
  BY <1>5, GoToType DEF TypeOK, FindAccount, PC
<1> QED
  BY <1>1, <1>2, <1>3, <1>4, <1>5 DEF Verify

LEMMA FailureType ==
  ASSUME customer \in Account, now \in Nat, NEW n \in Nat
  PROVE  Failure(n) \in Account /\ AdminFailure(n) \in Account
<1>1. ASSUME NEW k \in Nat, NEW lock \in Nat
      PROVE  [customer EXCEPT !.loginAttempts = k, !.lockedUntil = lock] \in Account
  BY DEF Account
<1>2. now + LockFor \in Nat /\ customer.lockedUntil \in Nat
  BY LimitsType DEF Account, None
<1>3. Failure(n) \in Account
  BY <1>1, <1>2 DEF Failure
<1>4. AdminFailure(n) \in Account
  BY <1>1, <1>2, LimitsType DEF AdminFailure, None
<1> QED
  BY <1>3, <1>4

LEMMA LoginType ==
  ASSUME TypeOK, NEW r \in Logins, Login(r) PROVE TypeOK'
<1> r \in Requests
  BY DEF Requests
<1>1. CASE ReadAccount(r)
  BY <1>1, GoToType DEF TypeOK, ReadAccount, PC
<1>2. CASE ReadAttempts(r)
  BY <1>2, GoToType, JobSet DEF TypeOK, ReadAttempts, PC, Account
<1>3. CASE WriteAttempts(r)
  <2>1. job[r].attempts + 1 \in Nat /\ now \in Nat
    BY DEF TypeOK, Job, Time
  <2>2. customer' \in Account
    BY <1>3, <2>1, FailureType DEF TypeOK, WriteAttempts
  <2> QED
    BY <1>3, <2>2, AnswerType DEF TypeOK, WriteAttempts
<1> QED
  BY <1>1, <1>2, <1>3 DEF Login

LEMMA AccountSet ==
  ASSUME TypeOK
  PROVE  /\ [customer EXCEPT !.loginAttempts = 0, !.lockedUntil = None] \in Account
         /\ \A b \in BOOLEAN : [customer EXCEPT !.isActive = b] \in Account
BY DEF TypeOK, Account

LEMMA ResetType ==
  ASSUME TypeOK, NEW r \in Verifies \cup Logins, Reset(r) PROVE TypeOK'
<1> r \in Requests
  BY DEF Requests
<1> QED
  BY AnswerType, AccountSet DEF TypeOK, Reset

LEMMA AccountType ==
  ASSUME TypeOK, DeactivateAccount \/ CleanupExpiredOtps PROVE TypeOK'
<1>1. CASE DeactivateAccount
  BY <1>1, AccountSet DEF TypeOK, DeactivateAccount
<1>2. CASE CleanupExpiredOtps
  BY <1>2, CodeRowSet DEF TypeOK, CleanupExpiredOtps
<1> QED
  BY <1>1, <1>2

LEMMA AdminType ==
  ASSUME TypeOK, AdminNext PROVE TypeOK'
<1> USE DEF Requests
<1>1. ASSUME NEW r \in Logins, AdminLogin(r) PROVE TypeOK'
  <2>1. pc' \in [Requests -> PC]
    BY <1>1, GoToType DEF AdminLogin, PC
  <2> QED
    BY <1>1, <2>1, JobSet DEF TypeOK, AdminLogin, Account
<1>2. ASSUME NEW r \in Logins, AdminMiss(r) PROVE TypeOK'
  <2>1. job[r].attempts + 1 \in Nat /\ now \in Nat
    BY DEF TypeOK, Job, Time
  <2>2. customer' \in Account
    BY <1>2, <2>1, FailureType DEF TypeOK, AdminMiss
  <2> QED
    BY <1>2, <2>2, AnswerType DEF TypeOK, AdminMiss
<1>3. ASSUME NEW r \in Logins, AdminReset(r) PROVE TypeOK'
  BY <1>3, ResetType DEF AdminReset
<1>4. CASE UnlockAdmin
  BY <1>4, AccountSet DEF TypeOK, UnlockAdmin
<1>5. CASE EnableAdmin
  BY <1>5, AccountSet DEF TypeOK, EnableAdmin
<1> QED
  BY <1>1, <1>2, <1>3, <1>4, <1>5, TickType, AccountType DEF AdminNext

LEMMA TypeInv ==
  ASSUME AdminAuthTypeOK, [AdminAuthNext]_allVars PROVE AdminAuthTypeOK'
<1> USE DEF AdminAuthTypeOK
<1>1. CASE kind = "CUSTOMER" /\ Next /\ UNCHANGED adminVars
  BY <1>1, TickType, SendType, VerifyType, LoginType, ResetType, AccountType
  DEF Next, adminVars
<1>2. CASE AdminNext
  <2>1. TypeOK'
    BY <1>2, AdminType
  <2>2. kind' = kind /\ wrong' \in Nat
    BY <1>2 DEF AdminNext, AdminLogin, AdminMiss, AdminReset, UnlockAdmin, EnableAdmin, adminVars
  <2> QED
    BY <2>1, <2>2
<1>3. CASE UNCHANGED allVars
  BY <1>3 DEF allVars, vars, adminVars, TypeOK
<1> QED
  BY <1>1, <1>2, <1>3 DEF AdminAuthNext

-----------------------------------------------------------------------------
(* Which actions write the codes, and what every action leaves of them.    *)

CodeStep ==
  \/ \E s \in Sends : ExpirePrevious(s) \/ CreateCode(s)
  \/ \E v \in Verifies : CountMiss(v) \/ ConsumeCode(v)
  \/ CleanupExpiredOtps

LEMMA CodeSteps ==
  ASSUME [AdminAuthNext]_allVars
  PROVE  \/ CodeStep
         \/ Tick
         \/ UNCHANGED <<now, code>>
<1>1. CASE Next
  BY <1>1 DEF Next, Send, RequestCode, CheckResendCooldown, Verify, ReadCode, CodeGone,
              FindAccount, Login, ReadAccount, ReadAttempts, WriteAttempts, Reset,
              DeactivateAccount, CodeStep
<1>2. CASE AdminNext
  BY <1>2 DEF AdminNext, AdminLogin, AdminMiss, AdminReset, Reset, UnlockAdmin, EnableAdmin,
              DeactivateAccount
<1>3. CASE UNCHANGED allVars
  BY <1>3 DEF allVars, vars
<1> QED
  BY <1>1, <1>2, <1>3 DEF AdminAuthNext

\* Time only grows.
LEMMA TimeGrows ==
  ASSUME TypeOK, [AdminAuthNext]_allVars PROVE now \in Nat /\ now' \in Nat /\ now <= now'
<1>1. now \in Nat
  BY DEF TypeOK, Time
<1>2. CodeStep => now' = now
  BY DEF CodeStep, ExpirePrevious, CreateCode, CountMiss, ConsumeCode, CleanupExpiredOtps
<1> QED
  BY <1>1, <1>2, CodeSteps DEF Tick

LEMMA CodesFinite == IsFiniteSet(Created) /\ Cardinality(Created) \in Nat
<1>1. IsFiniteSet(Codes)
  BY LimitsType, FS_Interval DEF Codes
<1> QED
  BY <1>1, FS_Subset, FS_CardinalityType DEF Created

\* What an action leaves of a code that exists: its purpose, its time, whether it is late;
\* a code that is used or has expired is never usable again; only storing the next one
\* shortens a code's life, and only the cleanup removes a code, once it has expired.
LEMMA CodeKept ==
  ASSUME TypeOK, CodesOK, [AdminAuthNext]_allVars, NEW c \in Created
  PROVE  /\ c \in Created'
         /\ code'[c].purpose = code[c].purpose
         /\ code'[c].at = code[c].at
         /\ code'[c].late = code[c].late
         /\ ~Usable(c) => ~Usable(c)'
         /\ code'[c].expires # code[c].expires =>
              /\ code'[c].expires = now /\ now' = now
              /\ \E s \in Sends : ExpirePrevious(s) /\ c \in Stored(job[s].purpose)
         /\ code'[c].state = "deleted" => code'[c].expires < now'
<1> USE DEF Created, Usable
<1>1. c \in Codes /\ code[c] \in CodeRow /\ code[c].expires \in Nat
  BY DEF TypeOK, CodeRow
<1>2. now \in Nat /\ now' \in Nat /\ now <= now'
  BY TimeGrows
<1>3. ASSUME NEW s \in Sends, ExpirePrevious(s)
      PROVE  /\ now' = now
             /\ \/ code'[c] = code[c]
                \/ code'[c] = [code[c] EXCEPT !.expires = now] /\ c \in Stored(job[s].purpose)
  BY <1>1, <1>3 DEF ExpirePrevious, Invalidated
<1>4. ASSUME NEW s \in Sends, CreateCode(s) PROVE now' = now /\ code'[c] = code[c]
  <2>1. Cardinality(Created) + 1 # c
    <3> HIDE DEF Created
    <3> QED
      BY CodesFinite DEF CodesOK
  <2> QED
    BY <1>1, <1>4, <2>1 DEF CreateCode, TypeOK
<1>5. ASSUME NEW v \in Verifies, CountMiss(v)
      PROVE  now' = now /\ (code'[c] = code[c] \/ code'[c] = Missed(c))
  BY <1>1, <1>5 DEF CountMiss, TypeOK
<1>6. ASSUME NEW v \in Verifies, ConsumeCode(v)
      PROVE  now' = now /\ (code'[c] = code[c] \/ code'[c] = [code[c] EXCEPT !.verified = TRUE])
  BY <1>1, <1>6 DEF ConsumeCode, TypeOK
<1>7. ASSUME CleanupExpiredOtps
      PROVE  /\ now' = now
             /\ \/ code'[c] = code[c]
                \/ code'[c] = [code[c] EXCEPT !.state = "deleted"] /\ code[c].expires < now
  BY <1>1, <1>7 DEF CleanupExpiredOtps, Removable
<1>8. CASE code'[c] = code[c]
  BY <1>1, <1>2, <1>8 DEF CodesOK, TypeOK
<1>9. ASSUME \/ code'[c] = Missed(c)
             \/ code'[c] = [code[c] EXCEPT !.verified = TRUE]
      PROVE  /\ code'[c].state = code[c].state /\ code'[c].purpose = code[c].purpose
             /\ code'[c].at = code[c].at /\ code'[c].late = code[c].late
             /\ code'[c].expires = code[c].expires
             /\ code[c].verified => code'[c].verified
  BY <1>1, <1>9 DEF Missed, CodeRow
<1>10. CASE code'[c] = [code[c] EXCEPT !.state = "deleted"] /\ code[c].expires < now
  BY <1>1, <1>2, <1>10 DEF CodeRow
<1>11. ASSUME NEW s \in Sends, ExpirePrevious(s), now' = now,
              code'[c] = [code[c] EXCEPT !.expires = now], c \in Stored(job[s].purpose)
       PROVE  /\ code'[c].state = code[c].state /\ code[c].state = "stored"
              /\ code'[c].purpose = code[c].purpose
              /\ code'[c].at = code[c].at
              /\ code'[c].late = code[c].late
              /\ ~Usable(c)'
              /\ code'[c].expires = now
  BY <1>1, <1>2, <1>11 DEF CodeRow, Stored
<1>12. CASE \E s \in Sends : ExpirePrevious(s) \/ CreateCode(s)
  <2>1. ASSUME NEW s \in Sends, ExpirePrevious(s), code'[c] # code[c]
        PROVE  code'[c] = [code[c] EXCEPT !.expires = now] /\ c \in Stored(job[s].purpose)
    BY <1>3, <2>1
  <2>2. ASSUME NEW s \in Sends, CreateCode(s) PROVE code'[c] = code[c] /\ now' = now
    BY <1>4, <2>2
  <2> QED
    BY <1>1, <1>3, <1>8, <1>11, <1>12, <2>1, <2>2
<1>13. CASE \E v \in Verifies : CountMiss(v) \/ ConsumeCode(v)
  BY <1>1, <1>2, <1>5, <1>6, <1>8, <1>9, <1>13 DEF CodesOK
<1>14. CASE CleanupExpiredOtps
  BY <1>7, <1>8, <1>10, <1>14
<1>15. CASE Tick \/ UNCHANGED <<now, code>>
  BY <1>8, <1>15 DEF Tick
<1> QED
  BY <1>12, <1>13, <1>14, <1>15, CodeSteps DEF CodeStep

\* A code is only created by a request to send, behind every code there is.
LEMMA CodeCreated ==
  ASSUME TypeOK, CodesOK, [AdminAuthNext]_allVars, NEW c \in Created', c \notin Created
  PROVE  \E s \in Sends :
           /\ CreateCode(s)
           /\ c = Cardinality(Created) + 1
           /\ code'[c].state = "stored" /\ code'[c].purpose = job[s].purpose
           /\ code'[c].at = now
           /\ ~code'[c].late => now + Cooldown < code'[c].expires
<1>1. c \in Codes /\ code[c].state = "absent" /\ code'[c] # code[c]
  BY DEF Created, TypeOK, CodeRow
<1>2. ASSUME NEW s \in Sends, ExpirePrevious(s) PROVE FALSE
  BY <1>1, <1>2 DEF ExpirePrevious, Invalidated, Stored
<1>3. ASSUME NEW v \in Verifies, CountMiss(v) \/ ConsumeCode(v) PROVE FALSE
  BY <1>1, <1>3 DEF CountMiss, ConsumeCode, TypeOK
<1>4. ~CleanupExpiredOtps
  BY <1>1 DEF CleanupExpiredOtps, Created
<1>5. PICK s \in Sends : CreateCode(s)
  BY <1>1, <1>2, <1>3, <1>4, CodeSteps DEF CodeStep, Tick
<1>6. c = Cardinality(Created) + 1
  BY <1>1, <1>5 DEF CreateCode, TypeOK
<1>7. /\ code'[c].state = "stored" /\ code'[c].purpose = job[s].purpose
      /\ code'[c].at = now /\ code'[c].expires = job[s].at + Expiry
      /\ code'[c].late <=> job[s].at + Expiry <= now + Cooldown
  BY <1>1, <1>5, <1>6 DEF CreateCode, TypeOK, NoCode
<1>8. job[s].at + Expiry \in Nat /\ now + Cooldown \in Nat
  BY TimesType DEF TypeOK, Job, Time, Requests
<1> QED
  BY <1>5, <1>6, <1>7, <1>8

LEMMA CodesInv ==
  ASSUME TypeOK, CodesOK, [AdminAuthNext]_allVars PROVE CodesOK'
<1> DEFINE n == Cardinality(Created)
<1>1. n \in Nat /\ Created = 1 .. n
  BY CodesFinite DEF CodesOK
<1>2. Created' = Created \/ Created' = Created \cup {n + 1}
  BY CodeKept, CodeCreated
<1>3. ASSUME NEW m \in Nat PROVE Cardinality(1 .. m) = m
  BY <1>3, FS_Interval
<1>4. Created' = 1 .. Cardinality(Created')
  <2>1. CASE Created' = Created
    BY <1>1, <2>1
  <2>2. CASE Created' = Created \cup {n + 1}
    <3>1. Created' = 1 .. (n + 1)
      BY <1>1, <2>2
    <3> QED
      BY <1>1, <1>3, <3>1
  <2> QED
    BY <1>2, <2>1, <2>2
<1>5. ASSUME NEW c \in Created', code'[c].state = "deleted" PROVE code'[c].expires < now'
  BY <1>5, CodeKept, CodeCreated
<1> QED
  BY <1>4, <1>5 DEF CodesOK

-----------------------------------------------------------------------------
(* A request is where it was unless it took the step itself.               *)

Own(r) ==
  \/ r \in Sends /\ Send(r)
  \/ r \in Verifies /\ (Verify(r) \/ Reset(r))
  \/ r \in Logins /\ (Login(r) \/ Reset(r) \/ AdminLogin(r) \/ AdminMiss(r))

LEMMA OwnSteps ==
  ASSUME TypeOK, [AdminAuthNext]_allVars, NEW r \in Requests, ~Own(r)
  PROVE  pc'[r] = pc[r] /\ job'[r] = job[r]
<1>1. ASSUME NEW x \in Requests, NEW s, GoTo(x, s), x # r PROVE pc'[r] = pc[r]
  BY <1>1 DEF GoTo, TypeOK
<1>2. ASSUME NEW x \in Requests, Answer(x), x # r PROVE pc'[r] = pc[r] /\ job'[r] = job[r]
  BY <1>1, <1>2 DEF Answer, TypeOK
<1>3. ASSUME NEW s \in Sends, Send(s), s # r PROVE pc'[r] = pc[r] /\ job'[r] = job[r]
  BY <1>1, <1>2, <1>3 DEF Send, RequestCode, CheckResendCooldown, ExpirePrevious, CreateCode,
     Requests, TypeOK
<1>4. ASSUME NEW v \in Verifies, Verify(v), v # r PROVE pc'[r] = pc[r] /\ job'[r] = job[r]
  BY <1>1, <1>2, <1>4 DEF Verify, ReadCode, CountMiss, ConsumeCode, CodeGone, FindAccount,
     Requests, TypeOK
<1>5. ASSUME NEW x \in Logins, Login(x) \/ AdminLogin(x) \/ AdminMiss(x), x # r
      PROVE  pc'[r] = pc[r] /\ job'[r] = job[r]
  BY <1>1, <1>2, <1>5 DEF Login, ReadAccount, ReadAttempts, WriteAttempts, AdminLogin, AdminMiss,
     Requests, TypeOK
<1>6. ASSUME NEW x \in Verifies \cup Logins, Reset(x), x # r
      PROVE  pc'[r] = pc[r] /\ job'[r] = job[r]
  BY <1>2, <1>6 DEF Reset, Requests
<1>7. CASE Next
  <2>1. CASE Tick \/ DeactivateAccount \/ CleanupExpiredOtps
    BY <2>1 DEF Tick, DeactivateAccount, CleanupExpiredOtps
  <2> QED
    BY <1>3, <1>4, <1>5, <1>6, <1>7, <2>1 DEF Next, Own
<1>8. CASE AdminNext
  <2>1. CASE Tick \/ DeactivateAccount \/ UnlockAdmin \/ EnableAdmin
    BY <2>1 DEF Tick, DeactivateAccount, UnlockAdmin, EnableAdmin
  <2> QED
    BY <1>5, <1>6, <1>8, <2>1 DEF AdminNext, Own, AdminReset
<1>9. CASE UNCHANGED allVars
  BY <1>9 DEF allVars, vars
<1> QED
  BY <1>7, <1>8, <1>9 DEF AdminAuthNext

-----------------------------------------------------------------------------
(* Codes sent one at a time. *)

SentOneByOne == SendingOK /\ SupersededCodesDead /\ SendsAreSpaced

\* What a step of a request to send may be, if the request then has passed the cooldown.
LEMMA SenderSteps ==
  ASSUME TypeOK, [AdminAuthNext]_allVars, NEW s \in Sends, pc'[s] \in {"expire", "create"}
  PROVE  \/ pc'[s] = pc[s] /\ job'[s] = job[s]
         \/ /\ CheckResendCooldown(s)
            /\ pc'[s] = "expire" /\ job' = job /\ ~Cooling(job[s].purpose)
         \/ ExpirePrevious(s) /\ pc'[s] = "create" /\ job'[s].purpose = job[s].purpose
<1> s \in Requests /\ s \notin Verifies /\ s \notin Logins
  BY KindsDisjoint DEF Requests
<1>1. CASE ~Own(s)
  BY <1>1, OwnSteps
<1>2. CASE Send(s)
  <2>1. ASSUME NEW p \in Purposes, RequestCode(s, p) PROVE pc'[s] = "cooldown"
    BY <2>1 DEF RequestCode, GoTo, TypeOK
  <2>2. CreateCode(s) \/ Answer(s) => pc'[s] = "idle"
    BY DEF CreateCode, Answer, GoTo, TypeOK
  <2>3. CheckResendCooldown(s) =>
          Answer(s) \/ (pc'[s] = "expire" /\ job' = job /\ ~Cooling(job[s].purpose))
    BY DEF CheckResendCooldown, GoTo, TypeOK
  <2>4. ExpirePrevious(s) => pc'[s] = "create" /\ job'[s].purpose = job[s].purpose
    BY DEF ExpirePrevious, GoTo, TypeOK, Job
  <2> QED
    BY <1>2, <2>1, <2>2, <2>3, <2>4 DEF Send
<1> QED
  BY <1>1, <1>2 DEF Own

LEMMA SendingInv ==
  ASSUME TypeOK, CodesOK, OneSender, SentOneByOne, [AdminAuthNext]_allVars
  PROVE  SentOneByOne'
<1> USE DEF SentOneByOne
<1> DEFINE n == Cardinality(Created)
<1>1. now \in Nat /\ now' \in Nat /\ now <= now' /\ Cooldown \in Nat
  BY TimeGrows, TimesType
<1>2. ASSUME NEW c \in Created
      PROVE  c \in Nat /\ c <= n /\ code[c].at \in Nat /\ code[c].expires \in Nat
  <2>1. c \in Codes /\ c \in 1 .. n /\ n \in Nat
    BY CodesFinite DEF CodesOK, Created
  <2>2. code[c] \in CodeRow /\ Time \subseteq Nat
    BY <2>1 DEF TypeOK, Time
  <2>3. code[c].at \in Nat /\ code[c].expires \in Nat
    BY <2>2 DEF CodeRow
  <2> HIDE DEF n
  <2>4. c \in Nat /\ c <= n
    BY <2>1
  <2> QED
    BY <2>3, <2>4
\* The request that creates a code has passed the cooldown, and is then done.
<1>3. ASSUME NEW s \in Sends, CreateCode(s)
      PROVE  pc[s] = "create" /\ PassedCooldown(s) /\ NoneUsable(s) /\ pc'[s] = "idle"
  BY <1>3 DEF CreateCode, Answer, GoTo, TypeOK, Requests, SendingOK
<1>4. ASSUME NEW c \in Created', ~code'[c].late
      PROVE  code'[c].at + Cooldown < code'[c].expires
  <2>1. CASE c \in Created
    <3>1. CASE code'[c].expires = code[c].expires
      BY <1>4, <2>1, <3>1, CodeKept DEF SendingOK
    <3>2. CASE code'[c].expires # code[c].expires
      <4>1. PICK s \in Sends : ExpirePrevious(s) /\ c \in Stored(job[s].purpose)
        BY <2>1, <3>2, CodeKept
      <4>2. PassedCooldown(s) /\ code[c].purpose = job[s].purpose
        BY <4>1 DEF ExpirePrevious, SendingOK, Stored
      <4> QED
        BY <1>4, <2>1, <3>2, <4>2, CodeKept DEF PassedCooldown
    <3> QED
      BY <3>1, <3>2
  <2>2. CASE c \notin Created
    BY <1>4, <2>2, CodeCreated
  <2> QED
    BY <2>1, <2>2
\* Nothing is created while another request is on its way.
<1>5. ASSUME NEW s \in Sends, pc'[s] \in {"expire", "create"} PROVE Created' = Created
  BY <1>3, <1>5, CodeCreated, CodeKept DEF OneSender
<1>6. ASSUME NEW s \in Sends, pc'[s] \in {"expire", "create"} PROVE PassedCooldown(s)'
  <2>1. CASE pc[s] \in {"expire", "create"} /\ job'[s].purpose = job[s].purpose
    <3>1. PassedCooldown(s)
      BY <2>1 DEF SendingOK
    <3> QED
      BY <1>1, <1>2, <1>5, <1>6, <2>1, <3>1, CodeKept DEF PassedCooldown
  <2>2. CASE CheckResendCooldown(s) /\ job' = job /\ ~Cooling(job[s].purpose)
    <3>1. ASSUME NEW c \in Created, code[c].purpose = job[s].purpose, ~code[c].late
          PROVE  code[c].at + Cooldown < now
      <4>1. CASE code[c].state = "stored"
        <5>1. c \in Stored(job[s].purpose)
          BY <3>1, <4>1 DEF Stored, Created
        <5>2. ~(code[c].at >= now - Cooldown)
          BY <2>2, <5>1 DEF Cooling
        <5> QED
          BY <1>1, <1>2, <5>2
      <4>2. CASE code[c].state = "deleted"
        BY <1>1, <1>2, <3>1, <4>2 DEF CodesOK, SendingOK
      <4> QED
        BY <4>1, <4>2 DEF Created, TypeOK, CodeRow
    <3> QED
      BY <2>2, <3>1 DEF PassedCooldown, CheckResendCooldown, Created
  <2> QED
    BY <1>6, <2>1, <2>2, SenderSteps DEF ExpirePrevious
<1>7. ASSUME NEW s \in Sends, pc'[s] = "create" PROVE NoneUsable(s)'
  <2>1. ASSUME NEW c \in Created', code'[c].purpose = job'[s].purpose PROVE ~Usable(c)'
    <3>1. c \in Created /\ code[c].purpose = code'[c].purpose /\ (~Usable(c) => ~Usable(c)')
      BY <1>5, <1>7, CodeKept
    <3>2. CASE pc[s] = "create" /\ job'[s] = job[s]
      BY <2>1, <3>1, <3>2 DEF SendingOK, NoneUsable
    <3>3. CASE ExpirePrevious(s) /\ job'[s].purpose = job[s].purpose
      <4>1. CASE Usable(c)
        <5>1. code'[c].expires = now /\ now' = now
          BY <2>1, <3>1, <3>3, <4>1 DEF ExpirePrevious, Invalidated, Stored, Usable, Created,
                                        TypeOK, CodeRow
        <5> QED
          BY <1>1, <5>1 DEF Usable
      <4> QED
        BY <3>1, <4>1
    <3> QED
      BY <1>7, <3>2, <3>3, SenderSteps
  <2> QED
    BY <2>1 DEF NoneUsable
<1>8. SendingOK'
  BY <1>4, <1>6, <1>7 DEF SendingOK
\* Two codes: either both were there, or the second was created now.
<1>9. ASSUME NEW c \in Created', NEW d \in Created', c < d,
             code'[c].purpose = code'[d].purpose
      PROVE  ~Usable(c)' /\ (~code'[c].late => code'[d].at - code'[c].at > Cooldown)
  <2>1. CASE c \in Created /\ d \in Created
    BY <1>9, <2>1, CodeKept DEF SupersededCodesDead, SendsAreSpaced
  <2>2. CASE c \in Created /\ d \notin Created
    <3>1. PICK s \in Sends : /\ CreateCode(s)
                             /\ code'[d].purpose = job[s].purpose /\ code'[d].at = now
      BY <2>2, CodeCreated
    <3>2. code[c].purpose = job[s].purpose
      BY <1>9, <2>2, <3>1, CodeKept
    <3>3. ~Usable(c) /\ (~code[c].late => code[c].at + Cooldown < now)
      BY <1>3, <2>2, <3>1, <3>2 DEF NoneUsable, PassedCooldown
    <3> QED
      BY <1>1, <1>2, <2>2, <3>1, <3>3, CodeKept
  <2>3. CASE c \notin Created
    BY <1>2, <1>9, <2>3, CodeCreated, CodesFinite
  <2> QED
    BY <2>1, <2>2, <2>3
<1>10. SupersededCodesDead' /\ SendsAreSpaced'
  BY <1>9 DEF SupersededCodesDead, SendsAreSpaced
<1> QED
  BY <1>8, <1>10

-----------------------------------------------------------------------------
(* The code a verification tries. *)

\* What a step makes of a verification's job: its own reading of a code; none that compares;
\* or nothing.
LEMMA ReadSteps ==
  ASSUME TypeOK, [AdminAuthNext]_allVars, NEW v \in Verifies
  PROVE  \/ pc'[v] = pc[v] /\ job'[v] = job[v]
         \/ pc'[v] # "compare" /\ job'[v].known \in {{}, job[v].known}
         \/ /\ job'[v].known = Created /\ UNCHANGED code
            /\ job'[v].code \in Stored(job'[v].purpose) /\ Usable(job'[v].code)
<1> v \in Requests /\ v \notin Sends /\ v \notin Logins
  BY KindsDisjoint DEF Requests
<1>0. ASSUME Answer(v) PROVE pc'[v] = "idle" /\ job'[v].known = {}
  BY <1>0 DEF Answer, GoTo, TypeOK, NoJob
<1>1. CASE ~Own(v)
  BY <1>1, OwnSteps
<1>2. CASE Reset(v)
  BY <1>0, <1>2 DEF Reset
<1>3. CASE Verify(v)
  <2>1. ASSUME NEW p \in Purposes, ReadCode(v, p)
        PROVE  /\ job'[v].known = Created /\ UNCHANGED code
               /\ job'[v].code \in Stored(job'[v].purpose) /\ Usable(job'[v].code)
    <3>1. PICK d \in Stored(p) :
            /\ Usable(d)
            /\ job' = [job EXCEPT ![v] =
                 [NoJob EXCEPT !.purpose = p, !.code = d, !.known = Created]]
      BY <2>1 DEF ReadCode
    <3>2. job'[v].known = Created /\ job'[v].code = d /\ job'[v].purpose = p
      BY <3>1 DEF TypeOK, NoJob
    <3> QED
      BY <2>1, <3>1, <3>2 DEF ReadCode
  <2>2. CASE CountMiss(v) \/ CodeGone(v)
    BY <1>0, <2>2 DEF CountMiss, CodeGone
  <2>3. CASE ConsumeCode(v)
    BY <2>3 DEF ConsumeCode, GoTo, TypeOK, NoJob
  <2>4. CASE FindAccount(v)
    BY <2>4 DEF FindAccount, GoTo, TypeOK
  <2> QED
    BY <1>3, <2>1, <2>2, <2>3, <2>4 DEF Verify
<1> QED
  BY <1>1, <1>2, <1>3 DEF Own

LEMMA KnownInv ==
  ASSUME TypeOK, CodesOK, KnownSent, [AdminAuthNext]_allVars
  PROVE  KnownSent'
<1> SUFFICES ASSUME NEW v \in Verifies PROVE job'[v].known \subseteq Created'
  BY DEF KnownSent
<1>1. Created \subseteq Created'
  BY CodeKept
<1>2. job[v].known \subseteq Created
  BY DEF KnownSent
<1> QED
  BY <1>1, <1>2, ReadSteps

\* A verification reads a usable code, and none that has a newer one is; the codes sent
\* later were not known to it.
LEMMA NewestInv ==
  ASSUME TypeOK, CodesOK, KnownSent, SupersededCodesDead, NewestCodeTried,
         [AdminAuthNext]_allVars
  PROVE  NewestCodeTried'
<1> SUFFICES ASSUME NEW v \in Verifies, pc'[v] = "compare",
                    NEW c \in job'[v].known, code'[c].purpose = job'[v].purpose
             PROVE  c <= job'[v].code
  BY DEF NewestCodeTried
<1>1. CASE pc'[v] = pc[v] /\ job'[v] = job[v]
  <2>1. c \in Created /\ code'[c].purpose = code[c].purpose
    BY <1>1, CodeKept DEF KnownSent
  <2> QED
    BY <1>1, <2>1 DEF NewestCodeTried
<1>2. CASE /\ job'[v].known = Created /\ UNCHANGED code
           /\ job'[v].code \in Stored(job'[v].purpose) /\ Usable(job'[v].code)
  <2> DEFINE d == job'[v].code
  <2>1. d \in Created /\ code[d].purpose = job'[v].purpose /\ Usable(d)
    BY <1>2 DEF Stored, Created
  <2>2. c \in Created /\ code[c].purpose = code[d].purpose
    BY <1>2, <2>1
  <2>3. c \in Nat /\ d \in Nat
    BY <2>1, <2>2, LimitsType DEF Created, Codes
  <2> HIDE DEF d
  <2>4. ~(d < c)
    BY <2>1, <2>2 DEF SupersededCodesDead
  <2> QED
    BY <2>3, <2>4 DEF d
<1> QED
  BY <1>1, <1>2, ReadSteps

-----------------------------------------------------------------------------
(* Wrong tries of a code. *)

\* A request compares a code only if it did before, or read it now, unexhausted.
LEMMA VerifySteps ==
  ASSUME TypeOK, [AdminAuthNext]_allVars, NEW v \in Verifies, NEW c, v \in Comparing(c)'
  PROVE  \/ v \in Comparing(c)
         \/ c \in Codes /\ code[c].attempts < MaxAttempts /\ UNCHANGED code
<1> v \in Requests /\ v \notin Sends /\ v \notin Logins
  BY KindsDisjoint DEF Requests
<1> USE DEF Comparing
<1>1. CASE ~Own(v)
  BY <1>1, OwnSteps
<1>2. CASE Reset(v)
  BY <1>2 DEF Reset, Answer, GoTo, TypeOK
<1>3. CASE Verify(v)
  <2>1. ASSUME NEW p \in Purposes, ReadCode(v, p)
        PROVE  c \in Codes /\ code[c].attempts < MaxAttempts /\ UNCHANGED code
    <3>1. PICK d \in Stored(p) :
            /\ ~Exhausted(d)
            /\ job' = [job EXCEPT ![v] =
                 [NoJob EXCEPT !.purpose = p, !.code = d, !.known = Created]]
      BY <2>1 DEF ReadCode
    <3>2. c = d
      BY <3>1 DEF TypeOK, NoJob
    <3> QED
      BY <2>1, <3>1, <3>2, LimitsType DEF ReadCode, Exhausted, Stored, TypeOK, CodeRow
  <2>2. CASE CountMiss(v) \/ ConsumeCode(v) \/ CodeGone(v) \/ FindAccount(v)
    BY <2>2 DEF CountMiss, ConsumeCode, CodeGone, FindAccount, Answer, GoTo, TypeOK
  <2> QED
    BY <1>3, <2>1, <2>2 DEF Verify
<1> QED
  BY <1>1, <1>2, <1>3 DEF Own

\* The tries of a code: counted once by a request that compared it, and unchanged otherwise.
LEMMA TriesSteps ==
  ASSUME TypeOK, CodesOK, [AdminAuthNext]_allVars, NEW c \in Codes
  PROVE  \/ /\ code'[c].guesses = code[c].guesses
            /\ code'[c].attempts = code[c].attempts
         \/ code'[c].guesses = 0 /\ code'[c].attempts = 0
         \/ /\ code'[c].guesses = code[c].guesses + 1
            /\ code'[c].attempts = code[c].attempts + 1
            /\ \E v \in Verifies :
                 v \in Comparing(c) /\ v \notin Comparing(c)' /\ Comparing(c)' \subseteq Comparing(c)
<1>1. CASE code'[c] = code[c]
  BY <1>1
<1>2. ASSUME NEW s \in Sends, ExpirePrevious(s)
      PROVE  code'[c].guesses = code[c].guesses /\ code'[c].attempts = code[c].attempts
  BY <1>2 DEF ExpirePrevious, TypeOK, CodeRow
<1>3. ASSUME NEW s \in Sends, CreateCode(s), code'[c] # code[c]
      PROVE  code'[c].guesses = 0 /\ code'[c].attempts = 0
  BY <1>3 DEF CreateCode, TypeOK, NoCode
<1>4. ASSUME NEW v \in Verifies, CountMiss(v), code'[c] # code[c]
      PROVE  /\ code'[c].guesses = code[c].guesses + 1
             /\ code'[c].attempts = code[c].attempts + 1
             /\ v \in Comparing(c) /\ v \notin Comparing(c)' /\ Comparing(c)' \subseteq Comparing(c)
  <2> v \in Requests
    BY DEF Requests
  <2>1. job[v].code = c
    BY <1>4 DEF CountMiss, TypeOK
  <2>2. code'[c] = Missed(c)
    BY <1>4, <2>1 DEF CountMiss, TypeOK
  <2>3. v \in Comparing(c)
    BY <1>4, <2>1 DEF CountMiss, Comparing
  <2>4. v \notin Comparing(c)'
    BY <1>4 DEF CountMiss, Answer, GoTo, Comparing, TypeOK
  <2>5. Comparing(c)' \subseteq Comparing(c)
    BY <1>4 DEF CountMiss, Answer, GoTo, Comparing, TypeOK, NoJob, Requests
  <2> QED
    BY <2>2, <2>3, <2>4, <2>5 DEF Missed, TypeOK, CodeRow
<1>5. ASSUME NEW v \in Verifies, ConsumeCode(v)
      PROVE  code'[c].guesses = code[c].guesses /\ code'[c].attempts = code[c].attempts
  BY <1>5 DEF ConsumeCode, TypeOK, CodeRow
<1>6. CASE CleanupExpiredOtps
  BY <1>6 DEF CleanupExpiredOtps, TypeOK, CodeRow
<1> QED
  BY <1>1, <1>2, <1>3, <1>4, <1>5, <1>6, CodeSteps DEF CodeStep, Tick

LEMMA GuessesInv ==
  ASSUME TypeOK, CodesOK, GuessesOK, [AdminAuthNext]_allVars, NEW c \in Codes
  PROVE  /\ code'[c].guesses = code'[c].attempts
         /\ code'[c].guesses + Cardinality(Comparing(c)') <=
              MaxAttempts + Cardinality(Verifies) - 1
<1> DEFINE V == Cardinality(Verifies)
<1>1. V \in Nat /\ MaxAttempts \in Nat \ {0}
  BY RequestsFinite, FS_CardinalityType, LimitsType
<1>2. /\ IsFiniteSet(Comparing(c)) /\ IsFiniteSet(Comparing(c)')
      /\ Cardinality(Comparing(c)) \in 0 .. V /\ Cardinality(Comparing(c)') \in 0 .. V
  BY RequestsFinite, FS_Subset, FS_CardinalityType, <1>1 DEF Comparing
<1>3. /\ code[c].guesses \in Nat /\ code[c].attempts = code[c].guesses
      /\ code[c].guesses + Cardinality(Comparing(c)) <= MaxAttempts + V - 1
  BY DEF TypeOK, CodeRow, GuessesOK
<1>4. CASE Comparing(c)' \subseteq Comparing(c)
  <2>1. Cardinality(Comparing(c)') <= Cardinality(Comparing(c))
    BY <1>2, <1>4, FS_Subset
  <2>2. ASSUME NEW v \in Comparing(c), v \notin Comparing(c)'
        PROVE  Cardinality(Comparing(c)') <= Cardinality(Comparing(c)) - 1
    <3>1. Comparing(c)' \subseteq Comparing(c) \ {v}
      BY <1>4, <2>2
    <3> QED
      BY <1>2, <3>1, FS_Subset, FS_RemoveElement
  <2> QED
    BY <1>1, <1>2, <1>3, <2>1, <2>2, TriesSteps
<1>5. CASE ~(Comparing(c)' \subseteq Comparing(c))
  <2>1. UNCHANGED code /\ code[c].attempts < MaxAttempts
    BY <1>5, VerifySteps DEF Comparing
  <2>2. \A n \in Nat, m \in Nat : 0 <= n + m
    OBVIOUS
  <2> QED
    BY <1>1, <1>2, <1>3, <2>1, <2>2
<1> QED
  BY <1>4, <1>5

-----------------------------------------------------------------------------
(* The lock. *)

Cleared == customer'.loginAttempts = 0 /\ customer'.lockedUntil = None

\* Every action leaves the counter and the lock, clears both, or writes a failure.
LEMMA LockSteps ==
  ASSUME TypeOK, [AdminAuthNext]_allVars
  PROVE  \/ /\ customer'.loginAttempts = customer.loginAttempts
            /\ customer'.lockedUntil = customer.lockedUntil
         \/ /\ Cleared
            /\ kind = "CUSTOMER" => \E r \in Requests : pc[r] = "reset" /\ pc'[r] = "idle"
         \/ /\ \E r \in Logins : customer' = Failure(job[r].attempts + 1)
            /\ now' = now
         \/ /\ \E r \in Logins : customer' = AdminFailure(job[r].attempts + 1)
            /\ now' = now /\ kind = "ADMIN"
<1>1. CASE UNCHANGED customer
  BY <1>1
<1>2. CASE DeactivateAccount \/ EnableAdmin
  BY <1>2 DEF DeactivateAccount, EnableAdmin, TypeOK, Account
<1>3. ASSUME NEW r \in Verifies \cup Logins, Reset(r)
      PROVE  Cleared /\ pc[r] = "reset" /\ pc'[r] = "idle" /\ r \in Requests
  BY <1>3 DEF Reset, Answer, GoTo, Cleared, TypeOK, Account, Requests
<1>4. ASSUME NEW r \in Logins, WriteAttempts(r)
      PROVE  customer' = Failure(job[r].attempts + 1) /\ now' = now
  BY <1>4 DEF WriteAttempts
<1>5. CASE kind = "ADMIN" /\ AdminNext
  <2>1. ASSUME NEW r \in Logins, AdminMiss(r)
        PROVE  customer' = AdminFailure(job[r].attempts + 1) /\ now' = now
    BY <2>1 DEF AdminMiss
  <2>2. CASE UnlockAdmin
    BY <1>5, <2>2 DEF UnlockAdmin, Cleared, TypeOK, Account
  <2>3. ASSUME NEW r \in Logins, AdminReset(r) PROVE Cleared
    BY <1>3, <2>3 DEF AdminReset
  <2>4. ASSUME NEW r \in Logins, AdminLogin(r) PROVE UNCHANGED customer
    BY <2>4 DEF AdminLogin
  <2> QED
    BY <1>1, <1>2, <1>5, <2>1, <2>2, <2>3, <2>4 DEF AdminNext, Tick
<1>6. CASE Next
  <2>1. ASSUME NEW s \in Sends, Send(s) PROVE UNCHANGED customer
    BY <2>1 DEF Send, RequestCode, CheckResendCooldown, ExpirePrevious, CreateCode
  <2>2. ASSUME NEW v \in Verifies, Verify(v) PROVE UNCHANGED customer
    BY <2>2 DEF Verify, ReadCode, CountMiss, ConsumeCode, CodeGone, FindAccount
  <2>3. ASSUME NEW r \in Logins, Login(r), ~WriteAttempts(r) PROVE UNCHANGED customer
    BY <2>3 DEF Login, ReadAccount, ReadAttempts
  <2>4. Tick \/ CleanupExpiredOtps => UNCHANGED customer
    BY DEF Tick, CleanupExpiredOtps
  <2> QED
    BY <1>1, <1>2, <1>3, <1>4, <1>6, <2>1, <2>2, <2>3, <2>4 DEF Next
<1>7. CASE UNCHANGED allVars
  BY <1>1, <1>7 DEF allVars, vars
<1> QED
  BY <1>5, <1>6, <1>7 DEF AdminAuthNext

\* What a failure writes: a lock that runs from now if the limit is reached; if not, a
\* customer's lock as it was, and no lock for an administrator.
LEMMA FailureWrites ==
  ASSUME TypeOK, NEW r \in Logins
  PROVE  LET k == job[r].attempts + 1
             c == Failure(k)
             a == AdminFailure(k)
         IN  /\ k \in Nat \ {0}
             /\ c.loginAttempts = k
             /\ c.lockedUntil = IF k >= MaxLoginAttempts THEN now + LockFor
                                                         ELSE customer.lockedUntil
             /\ a.loginAttempts = IF k <= MaxFailures THEN k ELSE MaxFailures
             /\ a.lockedUntil = IF k >= MaxLoginAttempts THEN now + LockFor ELSE None
<1>1. job[r].attempts + 1 \in Nat \ {0}
  BY DEF TypeOK, Job, Requests
<1> QED
  BY <1>1 DEF Failure, AdminFailure, TypeOK, Account

LEMMA LockInv ==
  ASSUME TypeOK, LockOK, [AdminAuthNext]_allVars PROVE LockOK'
<1> USE DEF LockOK, LimitBringsLock
<1>1. now \in Nat /\ now' \in Nat /\ now <= now'
  BY TimeGrows
<1>2. /\ MaxLoginAttempts \in Nat /\ 0 < MaxLoginAttempts
      /\ LockFor \in Nat /\ 0 < LockFor
      /\ MaxFailures \in Nat
  BY LimitsType
<1>3. customer.loginAttempts \in Nat /\ customer.lockedUntil \in Nat
  BY DEF TypeOK, Account, None
<1>4. CASE /\ customer'.loginAttempts = customer.loginAttempts
           /\ customer'.lockedUntil = customer.lockedUntil
  BY <1>1, <1>2, <1>3, <1>4
<1>5. CASE Cleared
  <2>1. customer'.loginAttempts = 0 /\ customer'.lockedUntil = 0
    BY <1>5 DEF Cleared, None
  <2>2. \A n \in Nat, m \in Nat : 0 <= n + m
    OBVIOUS
  <2>3. 0 <= now' + LockFor
    BY <1>1, <1>2, <2>2, Zenon
  <2>4. ~(0 >= MaxLoginAttempts)
    BY <1>2
  <2> QED
    BY <2>1, <2>3, <2>4
<1>6. ASSUME NEW r \in Logins, now' = now,
             customer' = Failure(job[r].attempts + 1) \/ customer' = AdminFailure(job[r].attempts + 1)
      PROVE  LockOK'
  BY <1>1, <1>2, <1>3, <1>6, FailureWrites, FailuresReachTheLimit DEF None
<1> QED
  BY <1>4, <1>5, <1>6, LockSteps

LEMMA LockStays ==
  ASSUME TypeOK, LockOK, [AdminAuthNext]_allVars, kind = "CUSTOMER" PROVE LockHolds
<1>1. customer.lockedUntil \in Nat /\ now + LockFor \in Nat
  BY LimitsType DEF TypeOK, Account, None, Time
<1>2. ASSUME NEW r \in Logins, customer' = Failure(job[r].attempts + 1)
      PROVE  customer'.lockedUntil >= customer.lockedUntil
  BY <1>1, <1>2, FailureWrites DEF LockOK
<1>3. CASE customer'.lockedUntil = customer.lockedUntil
  BY <1>1, <1>3 DEF LockHolds
<1>4. CASE \E r \in Requests : pc[r] = "reset" /\ pc'[r] = "idle"
  BY <1>4 DEF LockHolds
<1>5. CASE \E r \in Logins : customer' = Failure(job[r].attempts + 1)
  <2>1. PICK r \in Logins : customer' = Failure(job[r].attempts + 1)
    BY <1>5
  <2>2. customer'.lockedUntil \in Nat
    BY <1>1, <2>1, FailureWrites
  <2>3. customer'.lockedUntil >= customer.lockedUntil
    BY <1>2, <2>1
  <2> QED
    BY <1>1, <2>2, <2>3 DEF LockHolds
<1> QED
  BY <1>3, <1>4, <1>5, LockSteps

-----------------------------------------------------------------------------
(* How often two sign-ins of an administrator are refused. *)

LEMMA HalfProduct ==
  ASSUME NEW x \in Nat
  PROVE  /\ (x * (x + 3)) \div 2 \in Nat
         /\ ((x + 1) * ((x + 1) + 3)) \div 2 = (x * (x + 3)) \div 2 + x + 2
<1> DEFINE p == x * (x + 3)
<1>1. p \in Nat
  OBVIOUS
<1>2. (x + 1) * ((x + 1) + 3) = p + 2 * (x + 2)
  OBVIOUS
<1> HIDE DEF p
<1>3. p \div 2 \in Nat /\ (p + 2 * (x + 2)) \div 2 = p \div 2 + x + 2
  BY <1>1
<1> QED
  BY <1>2, <1>3 DEF p

LEMMA HalfProductGrows ==
  ASSUME NEW x \in Nat, NEW y \in Nat, x <= y
  PROVE  (x * (x + 3)) \div 2 <= (y * (y + 3)) \div 2
<1> DEFINE p == x * (x + 3)
           q == y * (y + 3)
<1>1. PICK d \in Nat : y = x + d
  <2>1. y - x \in Nat /\ y = x + (y - x)
    OBVIOUS
  <2> QED
    BY <2>1
<1>2. p \in Nat /\ q \in Nat
  OBVIOUS
<1>3. q = p + d * (x + x + d + 3)
  BY <1>1
<1>4. d * (x + x + d + 3) >= 0
  OBVIOUS
<1>5. p <= q
  BY <1>2, <1>3, <1>4
<1> HIDE DEF p, q
<1>6. p \div 2 <= q \div 2
  BY <1>2, <1>5
<1> QED
  BY <1>6 DEF p, q

LEMMA BothAlone ==
  /\ \A k \in Nat : Both(k) \in Nat /\ Alone(k) \in Nat /\ Alone(k) >= 1
  /\ \A k \in Nat : k < MaxLoginAttempts =>
       Alone(k) = MaxLoginAttempts - k /\ Both(k) = Alone(k) + 1 + Both(k + 1)
  /\ \A j, k \in Nat : j <= k => Both(k) <= Both(j) /\ Alone(k) <= Alone(j)
<1> DEFINE M == MaxLoginAttempts
<1>1. M \in Nat /\ M > 0
  BY LimitsType
<1>2. ASSUME NEW k \in Nat PROVE Both(k) \in Nat /\ Alone(k) \in Nat /\ Alone(k) >= 1
  <2>1. CASE k < M
    <3>1. M - k \in Nat /\ M - k >= 1
      BY <1>1, <2>1
    <3> QED
      BY <2>1, <3>1, HalfProduct DEF Both, Alone
  <2>2. CASE ~(k < M)
    BY <2>2 DEF Both, Alone
  <2> QED
    BY <2>1, <2>2
<1>3. ASSUME NEW k \in Nat, k < M PROVE Alone(k) = M - k /\ Both(k) = Alone(k) + 1 + Both(k + 1)
  <2>1. PICK x \in Nat : M = k + 1 + x
    <3>1. M - k - 1 \in Nat /\ M = k + 1 + (M - k - 1)
      BY <1>1, <1>3
    <3> QED
      BY <3>1
  <2>2. Alone(k) = x + 1 /\ Both(k) = ((x + 1) * ((x + 1) + 3)) \div 2
    <3>1. M - k = x + 1
      BY <2>1
    <3> QED
      BY <1>3, <3>1 DEF Alone, Both
  <2>3. Both(k + 1) = (x * (x + 3)) \div 2
    <3>1. CASE x = 0
      <4>1. ~(k + 1 < M)
        BY <2>1, <3>1
      <4> QED
        BY <3>1, <4>1 DEF Both
    <3>2. CASE x # 0
      <4>1. k + 1 < M /\ M - (k + 1) = x
        BY <2>1, <3>2
      <4> QED
        BY <4>1 DEF Both
    <3> QED
      BY <3>1, <3>2
  <2> QED
    BY <1>3, <2>2, <2>3, HalfProduct DEF Alone
<1>4. ASSUME NEW j \in Nat, NEW k \in Nat, j <= k PROVE Both(k) <= Both(j) /\ Alone(k) <= Alone(j)
  <2>1. CASE k < M
    <3>1. j < M /\ M - k \in Nat /\ M - j \in Nat /\ M - k <= M - j
      BY <1>1, <1>4, <2>1
    <3>2. Both(k) <= Both(j)
      BY <2>1, <3>1, HalfProductGrows DEF Both
    <3> QED
      BY <2>1, <3>1, <3>2 DEF Alone
  <2>2. CASE ~(k < M)
    <3>1. Both(k) = 0 /\ Alone(k) = 1
      BY <2>2 DEF Both, Alone
    <3> QED
      BY <1>2, <3>1
  <2> QED
    BY <2>1, <2>2
<1> QED
  BY <1>2, <1>3, <1>4

\* What can still go wrong never exceeds the bound of a counter at zero.
LEMMA RoomAtMost ==
  ASSUME NEW x \in Nat, NEW y \in Nat, x <= y
  PROVE  /\ 1 + Both(x + 1) <= Both(0)
         /\ Alone(y) + 1 + Both(x + 1) <= Both(0)
<1>1. MaxLoginAttempts \in Nat /\ 0 < MaxLoginAttempts
  BY LimitsType
<1>2. Both(0) = Alone(0) + 1 + Both(1) /\ Both(x + 1) <= Both(1) /\ Alone(y) <= Alone(0)
  BY <1>1, BothAlone
<1> QED
  BY <1>2, BothAlone

\* The arithmetic of a refusal: q and r can both be refused, from a and b; then r is, and
\* the counter is one more than a.
LEMMA RefusalRoom ==
  ASSUME NEW w \in Nat, NEW a \in Nat, NEW b \in Nat, NEW B \in Nat,
         a <= b => w + Alone(b) + 1 + Both(a + 1) <= B,
         b <= a => w + Alone(a) + 1 + Both(b + 1) <= B
  PROVE  /\ (w + 1) + 1 + Both(b + 1) <= B
         /\ a + 1 < MaxLoginAttempts /\ a + 1 <= b =>
              (w + 1) + Alone(b) + 1 + Both(a + 1 + 1) <= B
         /\ a + 1 < MaxLoginAttempts /\ b <= a + 1 =>
              (w + 1) + Alone(a + 1) + 1 + Both(b + 1) <= B
<1>1. /\ Both(a + 1) \in Nat /\ Both(b + 1) \in Nat /\ Both(a + 1 + 1) \in Nat
      /\ Alone(a) \in Nat /\ Alone(b) \in Nat /\ Alone(a + 1) \in Nat
      /\ 1 <= Alone(a) /\ 1 <= Alone(b)
  BY BothAlone
<1>2. a <= b => Both(b + 1) <= Both(a + 1)
  BY BothAlone
<1>3. a + 1 < MaxLoginAttempts =>
        /\ Alone(a) = Alone(a + 1) + 1
        /\ Both(a + 1) = Alone(a + 1) + 1 + Both(a + 1 + 1)
  <2>1. MaxLoginAttempts \in Nat
    BY LimitsType
  <2> QED
    BY <2>1, BothAlone
<1>4. (w + 1) + 1 + Both(b + 1) <= B
  BY <1>1, <1>2
<1>5. ASSUME a + 1 < MaxLoginAttempts, a + 1 <= b
      PROVE  (w + 1) + Alone(b) + 1 + Both(a + 1 + 1) <= B
  BY <1>1, <1>3, <1>5
<1>6. ASSUME a + 1 < MaxLoginAttempts, b <= a + 1
      PROVE  (w + 1) + Alone(a + 1) + 1 + Both(b + 1) <= B
  <2>1. CASE b <= a
    BY <1>1, <1>3, <1>6, <2>1
  <2>2. CASE b = a + 1
    BY <1>1, <1>3, <1>6, <2>2
  <2> QED
    BY <1>6, <2>1, <2>2
<1> QED
  BY <1>4, <1>5, <1>6

\* As RefusalRoom, when only r can be refused, or both from the counter that r leaves.
LEMMA RefusalRoomAlone ==
  ASSUME NEW w \in Nat, NEW a \in Nat, NEW B \in Nat, w + 1 + Both(a + 1) <= B
  PROVE  /\ w + 1 <= B
         /\ a + 1 < MaxLoginAttempts =>
              /\ (w + 1) + 1 + Both(a + 1 + 1) <= B
              /\ (w + 1) + Alone(a + 1) + 1 + Both(a + 1 + 1) <= B
<1>1. /\ Both(a + 1) \in Nat /\ Both(a + 1 + 1) \in Nat
      /\ Alone(a + 1) \in Nat
  BY BothAlone
<1>2. a + 1 < MaxLoginAttempts => Both(a + 1) = Alone(a + 1) + 1 + Both(a + 1 + 1)
  BY BothAlone
<1> QED
  BY <1>1, <1>2

\* A step without a refusal that takes from what can still go wrong.
LEMMA WrongShrinks ==
  ASSUME WrongOK, wrong' = wrong,
         \A r \in Logins : CanMiss(r)' => CanMiss(r) /\ Base(r)' = Base(r)
  PROVE  WrongOK'
BY DEF WrongOK

\* A step that starts the count again.
LEMMA WrongRestarts ==
  ASSUME TypeOK', wrong' = 0 PROVE WrongOK'
<1>1. ASSUME NEW r \in Logins PROVE Base(r)' \in Nat
  BY DEF TypeOK, Base, Account, Job, Requests
<1>2. 0 <= Both(0)
  BY BothAlone
<1>3. ASSUME NEW x \in Nat, NEW y \in Nat, x <= y
      PROVE  0 + 1 + Both(x + 1) <= Both(0) /\ 0 + Alone(y) + 1 + Both(x + 1) <= Both(0)
  <2>1. 0 + 1 = 1 /\ 0 + Alone(y) = Alone(y)
    BY BothAlone
  <2> QED
    BY <1>3, <2>1, RoomAtMost
<1>4. ASSUME NEW x \in Nat PROVE 0 + 1 + Both(x + 1) <= Both(0)
  BY <1>3
<1> QED
  BY <1>1, <1>2, <1>3, <1>4 DEF WrongOK

LEMMA TwoLogins ==
  ASSUME Cardinality(Logins) = 2, NEW q \in Logins, NEW r \in Logins, q # r
  PROVE  Logins = {q, r}
<1>1. Cardinality(Logins \ {q}) = 1
  <2>1. Cardinality(Logins \ {q}) = Cardinality(Logins) - 1
    BY RequestsFinite, FS_RemoveElement, Zenon
  <2> QED
    BY <2>1
<1>2. IsFiniteSet(Logins \ {q})
  BY RequestsFinite, FS_Subset
<1>3. \E x : Logins \ {q} = {x}
  BY <1>1, <1>2, FS_Singleton
<1> QED
  BY <1>3

\* A refusal: the counter is one more than what was read, and the account is locked if that
\* reaches the limit.
LEMMA MissStep ==
  ASSUME AdminAuthTypeOK, NEW r \in Logins, AdminMiss(r)
  PROVE  /\ CanMiss(r)
         /\ Base(r) + 1 >= MaxLoginAttempts => ~CanMiss(r)'
         /\ Base(r) + 1 < MaxLoginAttempts => Base(r)' = Base(r) + 1
         /\ \A q \in Logins : q # r /\ CanMiss(q)' =>
              \/ CanMiss(q) /\ Base(q)' = Base(q)
              \/ Base(r) + 1 < MaxLoginAttempts /\ Base(q)' = Base(r) + 1
<1> DEFINE a == job[r].attempts
<1>1. a \in Nat /\ Base(r) = a /\ CanMiss(r) /\ r \in Requests
  BY DEF AdminAuthTypeOK, TypeOK, Job, Requests, AdminMiss, Base, CanMiss
<1>2. now \in Nat /\ now' = now
  BY DEF AdminMiss, AdminAuthTypeOK, TypeOK, Time
<1>3. LockFor \in Nat /\ 0 < LockFor /\ MaxLoginAttempts \in Nat /\ MaxFailures \in Nat
  BY LimitsType
<1>4. CASE a + 1 >= MaxLoginAttempts
  <2>1. customer'.lockedUntil = now + LockFor
    BY <1>4, FailureWrites DEF AdminMiss, AdminAuthTypeOK
  <2>2. Locked'
    BY <1>2, <1>3, <2>1 DEF Locked
  <2> QED
    <3>1. pc'[r] = "idle"
      BY <1>1 DEF AdminMiss, Answer, GoTo, AdminAuthTypeOK, TypeOK
    <3>2. ASSUME NEW q \in Logins, q # r PROVE pc'[q] = pc[q] /\ job'[q] = job[q]
      BY <1>1, <3>2 DEF AdminMiss, Answer, GoTo, AdminAuthTypeOK, TypeOK, Requests
    <3> QED
      BY <1>1, <1>3, <1>4, <2>2, <3>1, <3>2 DEF CanMiss, Base
<1>5. CASE a + 1 < MaxLoginAttempts
  <2>1. customer'.loginAttempts = a + 1
    BY <1>1, <1>3, <1>5, FailureWrites, FailuresReachTheLimit DEF AdminMiss, AdminAuthTypeOK
  <2>2. pc'[r] = "idle"
    BY <1>1 DEF AdminMiss, Answer, GoTo, AdminAuthTypeOK, TypeOK
  <2>3. ASSUME NEW q \in Logins, q # r PROVE pc'[q] = pc[q] /\ job'[q] = job[q]
    BY <1>1, <2>3 DEF AdminMiss, Answer, GoTo, AdminAuthTypeOK, TypeOK, Requests
  <2> QED
    BY <1>1, <1>3, <1>5, <2>1, <2>2, <2>3 DEF CanMiss, Base
<1> QED
  BY <1>1, <1>3, <1>4, <1>5

LEMMA WrongMiss ==
  ASSUME AdminAuthTypeOK, Cardinality(Logins) = 2, WrongOK, NEW r \in Logins, AdminMiss(r)
  PROVE  WrongOK'
<1> DEFINE a == Base(r)
           B == Both(0)
           M == MaxLoginAttempts
<1>1. a \in Nat /\ B \in Nat /\ wrong \in Nat /\ M \in Nat /\ wrong' = wrong + 1
  BY BothAlone, LimitsType DEF AdminAuthTypeOK, TypeOK, Base, Account, Job, Requests, AdminMiss
<1>2. wrong + 1 + Both(a + 1) <= B
  BY MissStep DEF WrongOK
<1>3. ASSUME NEW q \in Logins, q # r, CanMiss(q)'
      PROVE  \/ /\ CanMiss(q) /\ Base(q)' = Base(q) /\ Base(q) \in Nat
                /\ a <= Base(q) => wrong + Alone(Base(q)) + 1 + Both(a + 1) <= B
                /\ Base(q) <= a => wrong + Alone(a) + 1 + Both(Base(q) + 1) <= B
             \/ a + 1 < M /\ Base(q)' = a + 1
  <2>1. CASE CanMiss(q) /\ Base(q)' = Base(q)
    <3>1. Base(q) \in Nat
      BY DEF AdminAuthTypeOK, TypeOK, Base, Account, Job, Requests
    <3> QED
      BY <1>3, <2>1, <3>1, MissStep DEF WrongOK
  <2> QED
    BY <1>3, <2>1, MissStep
<1>4. wrong' <= B
  BY <1>1, <1>2, RefusalRoomAlone
<1>5. ASSUME NEW q \in Logins, CanMiss(q)' PROVE wrong' + 1 + Both(Base(q)' + 1) <= B
  <2>1. CASE a + 1 < M /\ Base(q)' = a + 1
    BY <1>1, <1>2, <2>1, RefusalRoomAlone
  <2>2. CASE q # r /\ ~(a + 1 < M /\ Base(q)' = a + 1)
    <3>1. /\ Base(q)' = Base(q) /\ Base(q) \in Nat
          /\ a <= Base(q) => wrong + Alone(Base(q)) + 1 + Both(a + 1) <= B
          /\ Base(q) <= a => wrong + Alone(a) + 1 + Both(Base(q) + 1) <= B
      BY <1>3, <1>5, <2>2
    <3> HIDE DEF a, B
    <3> QED
      BY <1>1, <3>1, RefusalRoom
  <2> QED
    BY <1>1, <1>5, <2>1, <2>2, MissStep
<1>6. ASSUME NEW p \in Logins, NEW q \in Logins, p # q, CanMiss(p)', CanMiss(q)',
             Base(p)' <= Base(q)'
      PROVE  wrong' + Alone(Base(q)') + 1 + Both(Base(p)' + 1) <= B
  <2>1. r = p \/ r = q
    BY <1>6, TwoLogins
  <2>2. a + 1 < M /\ Base(r)' = a + 1
    BY <1>1, <1>6, <2>1, MissStep
  <2>3. CASE Base(p)' = a + 1 /\ Base(q)' = a + 1
    BY <1>1, <1>2, <2>2, <2>3, RefusalRoomAlone
  <2>4. CASE r = p /\ Base(q)' # a + 1
    <3>1. /\ Base(q)' = Base(q) /\ Base(q) \in Nat
          /\ a <= Base(q) => wrong + Alone(Base(q)) + 1 + Both(a + 1) <= B
          /\ Base(q) <= a => wrong + Alone(a) + 1 + Both(Base(q) + 1) <= B
      BY <1>3, <1>6, <2>4
    <3>2. a + 1 <= Base(q)
      BY <1>6, <2>2, <2>4, <3>1
    <3> HIDE DEF a, B
    <3>3. (wrong + 1) + Alone(Base(q)) + 1 + Both(a + 1 + 1) <= B
      BY <1>1, <2>2, <3>1, <3>2, RefusalRoom
    <3> QED
      BY <1>1, <2>2, <2>4, <3>1, <3>3
  <2>5. CASE r = q /\ Base(p)' # a + 1
    <3>1. /\ Base(p)' = Base(p) /\ Base(p) \in Nat
          /\ a <= Base(p) => wrong + Alone(Base(p)) + 1 + Both(a + 1) <= B
          /\ Base(p) <= a => wrong + Alone(a) + 1 + Both(Base(p) + 1) <= B
      BY <1>3, <1>6, <2>5
    <3>2. Base(p) <= a + 1
      BY <1>6, <2>2, <2>5, <3>1
    <3> HIDE DEF a, B
    <3>3. (wrong + 1) + Alone(a + 1) + 1 + Both(Base(p) + 1) <= B
      BY <1>1, <2>2, <3>1, <3>2, RefusalRoom
    <3> QED
      BY <1>1, <2>2, <2>5, <3>1, <3>3
  <2> QED
    BY <2>1, <2>2, <2>3, <2>4, <2>5
<1> QED
  BY <1>4, <1>5, <1>6 DEF WrongOK

LEMMA WrongInv ==
  ASSUME AdminAuthTypeOK, AdminAuthTypeOK', Cardinality(Logins) = 2, kind = "ADMIN", WrongOK,
         [AdminAuthNext]_allVars
  PROVE  WrongOK'
<1>1. ASSUME NEW r \in Logins, AdminLogin(r) PROVE WrongOK'
  <2>1. ASSUME NEW q \in Logins, CanMiss(q)' PROVE CanMiss(q) /\ Base(q)' = Base(q)
    <3> q \in Requests /\ r \in Requests
      BY DEF Requests
    <3>1. CASE q = r
      BY <1>1, <2>1, <3>1 DEF AdminLogin, GoTo, CanMiss, Base, AdminAuthTypeOK, TypeOK, Job
    <3>2. CASE q # r
      BY <1>1, <2>1, <3>2 DEF AdminLogin, GoTo, CanMiss, Base, Locked, AdminAuthTypeOK, TypeOK
    <3> QED
      BY <3>1, <3>2
  <2> QED
    BY <1>1, <2>1, WrongShrinks DEF AdminLogin, adminVars
<1>2. ASSUME NEW r \in Logins, AdminMiss(r) PROVE WrongOK'
  BY <1>2, WrongMiss
<1>3. ASSUME wrong' = 0 PROVE WrongOK'
  BY <1>3, WrongRestarts DEF AdminAuthTypeOK
<1>4. CASE /\ UNCHANGED <<now, pc, job, wrong>>
           /\ customer'.loginAttempts = customer.loginAttempts
           /\ customer'.lockedUntil = customer.lockedUntil
  <2>1. ASSUME NEW q \in Logins, CanMiss(q)' PROVE CanMiss(q) /\ Base(q)' = Base(q)
    BY <1>4, <2>1 DEF CanMiss, Base, Locked
  <2> QED
    BY <1>4, <2>1, WrongShrinks
<1>5. CASE EnableAdmin \/ (DeactivateAccount /\ UNCHANGED adminVars)
  BY <1>4, <1>5 DEF EnableAdmin, DeactivateAccount, adminVars, AdminAuthTypeOK, TypeOK, Account
<1>6. CASE AdminNext
  BY <1>1, <1>2, <1>3, <1>5, <1>6 DEF AdminNext, AdminReset, UnlockAdmin
<1>7. CASE UNCHANGED allVars
  BY <1>4, <1>7 DEF allVars, vars, adminVars
<1> QED
  BY <1>6, <1>7 DEF AdminAuthNext

-----------------------------------------------------------------------------
(* The invariant. *)

LEMMA InitInv == AdminAuthInit => IInv
<1> SUFFICES ASSUME AdminAuthInit PROVE IInv
  OBVIOUS
<1>1. AdminAuthTypeOK
  BY InitType
<1> USE DEF AdminAuthInit, Init
<1>2. Created = {}
  BY DEF Created, NoCode
<1>3. CodesOK
  <2>1. Cardinality({}) = 0
    BY FS_EmptySet
  <2> QED
    BY <1>2, <2>1 DEF CodesOK
<1>4. SentOneByOne
  BY <1>2 DEF SentOneByOne, SendingOK, SupersededCodesDead, SendsAreSpaced, Requests
<1>9. KnownSent /\ NewestCodeTried
  BY DEF KnownSent, NewestCodeTried, Requests, NoJob
<1>5. GuessesOK
  <2> SUFFICES ASSUME NEW c \in Codes
               PROVE  /\ code[c].guesses = code[c].attempts
                      /\ code[c].guesses + Cardinality(Comparing(c)) <=
                           MaxAttempts + Cardinality(Verifies) - 1
    BY DEF GuessesOK
  <2>1. Comparing(c) = {}
    BY DEF Comparing, Requests
  <2>2. code[c].guesses = 0 /\ code[c].attempts = 0 /\ Cardinality(Comparing(c)) = 0
    BY <2>1, FS_EmptySet DEF NoCode
  <2>3. Cardinality(Verifies) \in Nat /\ MaxAttempts \in Nat /\ MaxAttempts >= 1
    BY RequestsFinite, FS_CardinalityType, LimitsType
  <2> QED
    BY <2>2, <2>3
<1>6. LockOK
  BY LimitsType DEF LockOK, LimitBringsLock, None
<1>7. WrongOK
  <2>1. ASSUME NEW r \in Logins PROVE Base(r) = 0
    BY DEF Base, Requests
  <2>2. wrong = 0 /\ 0 <= Both(0)
    BY BothAlone
  <2>3. 0 + 1 + Both(0 + 1) <= Both(0) /\ 0 + Alone(0) + 1 + Both(0 + 1) <= Both(0)
    <3>1. 1 + Both(1) <= Both(0) /\ Alone(0) + 1 + Both(1) <= Both(0)
      BY RoomAtMost
    <3>2. Both(1) \in Nat /\ Alone(0) \in Nat
      BY BothAlone
    <3> QED
      BY <3>1, <3>2
  <2> QED
    BY <2>1, <2>2, <2>3 DEF WrongOK
<1> QED
  BY <1>1, <1>3, <1>4, <1>5, <1>6, <1>7, <1>9 DEF IInv, SentOneByOne

LEMMA NextInv == IInv /\ [AdminAuthNext]_allVars => IInv'
<1> SUFFICES ASSUME IInv, [AdminAuthNext]_allVars PROVE IInv'
  OBVIOUS
<1> USE DEF IInv
<1>1. AdminAuthTypeOK' /\ TypeOK
  BY TypeInv DEF AdminAuthTypeOK
<1>2. CodesOK'
  BY <1>1, CodesInv
<1>3. OneSender => (SendingOK /\ SupersededCodesDead /\ SendsAreSpaced)'
  BY <1>1, SendingInv DEF SentOneByOne
<1>9. KnownSent' /\ (OneSender => NewestCodeTried')
  BY <1>1, KnownInv, NewestInv
<1>4. GuessesOK'
  BY <1>1, GuessesInv DEF GuessesOK
<1>5. LockOK'
  BY <1>1, LockInv
<1>6. kind' = kind
  BY DEF AdminAuthNext, AdminNext, adminVars, allVars, AdminLogin, AdminMiss, AdminReset,
         UnlockAdmin, EnableAdmin
<1>7. kind = "CUSTOMER" => wrong' = wrong
  BY DEF AdminAuthNext, adminVars, allVars
<1>8. kind = "ADMIN" /\ Cardinality(Logins) = 2 => WrongOK'
  BY <1>1, WrongInv
<1> QED
  BY <1>1, <1>2, <1>3, <1>4, <1>5, <1>6, <1>7, <1>8, <1>9 DEF OneSender

LEMMA Invariance == AdminAuthSpec => []IInv
  BY InitInv, NextInv, PTL DEF AdminAuthSpec, allVars

-----------------------------------------------------------------------------
\* Type correctness.
THEOREM TypeCorrect == AdminAuthSpec => []AdminAuthTypeOK
<1>1. IInv => AdminAuthTypeOK
  BY DEF IInv
<1> QED
  BY <1>1, Invariance, PTL

\* While codes are sent one at a time, a verification only tries the newest code that had
\* been sent when it began (otp.service.ts:140-150, 174-183); it may accept that one after a
\* newer one was stored meanwhile (197-221).
THEOREM OnlyNewestTried ==
  ASSUME OneSender PROVE AdminAuthSpec => []NewestCodeTried
<1>1. IInv => NewestCodeTried
  BY DEF IInv
<1> QED
  BY <1>1, Invariance, PTL

\* While codes are sent one at a time, two codes of a purpose are more than the cooldown
\* apart, although the rows in which the cooldown is looked up expire and are removed
\* (otp.service.ts:106-123, 232-251).
THEOREM CooldownIsKept ==
  ASSUME OneSender PROVE AdminAuthSpec => []SendsAreSpaced
<1>1. IInv => SendsAreSpaced
  BY DEF IInv
<1> QED
  BY <1>1, Invariance, PTL

\* However many requests compare a code at once, it is tried at most one time each beyond
\* its limit (otp.service.ts:193-209).
THEOREM CodeTriesBounded == AdminAuthSpec => []GuessesBounded
<1>1. IInv => GuessesBounded
  <2> SUFFICES ASSUME IInv, NEW c \in Codes
               PROVE  code[c].guesses <= MaxAttempts + Cardinality(Verifies) - 1
    BY DEF GuessesBounded
  <2>1. IsFiniteSet(Verifies) /\ Comparing(c) \subseteq Verifies
    BY RequestsFinite DEF Comparing
  <2>2. Cardinality(Comparing(c)) \in Nat /\ Cardinality(Verifies) \in Nat
    BY <2>1, FS_Subset, FS_CardinalityType
  <2>3. code[c].guesses \in Nat /\ MaxAttempts \in Nat
    BY LimitsType DEF IInv, AdminAuthTypeOK, TypeOK, CodeRow
  <2> QED
    BY <2>2, <2>3 DEF IInv, GuessesOK
<1> QED
  BY <1>1, Invariance, PTL

\* A failure counter at its limit comes with a lock, a customer's or an administrator's
\* (customer-auth.service.ts:578-597, admin-auth.service.ts:56-65).
THEOREM LimitLocks == AdminAuthSpec => []LimitBringsLock
<1>1. IInv => LimitBringsLock
  BY DEF IInv, LockOK
<1> QED
  BY <1>1, Invariance, PTL

\* Only a login that proved itself lifts or shortens a customer's running lock
\* (customer-auth.service.ts:588-596).
THEOREM LockOnlyLiftedByLogin == AdminAuthSpec => CustomerLockHolds
<1>1. IInv /\ [AdminAuthNext]_allVars => [kind = "CUSTOMER" => LockHolds]_allVars
  BY LockStays DEF IInv, AdminAuthTypeOK
<1> QED
  BY <1>1, Invariance, PTL DEF AdminAuthSpec, CustomerLockHolds, allVars

\* Although a failure that read the row before the lock was set lifts an administrator's
\* lock, two overlapping sign-ins are refused no more than M (M + 3) / 2 times before the
\* clock moves on (admin-auth.service.ts:56-65).
THEOREM AdminRefusalsBounded == AdminAuthSpec => []AdminGuessesBounded
<1>1. IInv => AdminGuessesBounded
  <2> SUFFICES ASSUME IInv, Cardinality(Logins) = 2 PROVE wrong <= Both(0)
    <3>1. Both(0) = (MaxLoginAttempts * (MaxLoginAttempts + 3)) \div 2
      <4>1. 0 < MaxLoginAttempts /\ MaxLoginAttempts - 0 = MaxLoginAttempts
        BY LimitsType
      <4> QED
        BY <4>1 DEF Both
    <3> QED
      BY <3>1 DEF AdminGuessesBounded
  <2>1. CASE kind = "CUSTOMER"
    BY <2>1, BothAlone DEF IInv
  <2>2. CASE kind = "ADMIN"
    BY <2>2 DEF IInv, WrongOK
  <2> QED
    BY <2>1, <2>2 DEF IInv, AdminAuthTypeOK
<1> QED
  BY <1>1, Invariance, PTL

=============================================================================
