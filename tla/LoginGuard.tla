----------------------------- MODULE LoginGuard -----------------------------
(***************************************************************************)
(* AuthService.login up to the tokens: the lock and the counters of failed *)
(* attempts that BruteForceService keeps in Redis, per e-mail and per      *)
(* address, the verification of the password, the rehash of an old hash,   *)
(* and PATCH /users/me, which changes the password.                        *)
(*                                                                         *)
(* Every Redis command is an action; one that fails answers False or 0 and *)
(* the login goes on.  The password row is PostgreSQL's: an UPDATE holds   *)
(* it until the commit and overwrites what others committed since it was   *)
(* read.  Captcha and delay are hints in the response and refuse nothing.  *)
(***************************************************************************)
EXTENDS Integers, FiniteSets

CONSTANTS
    Clerk,          \* threads serving requests
    Email,          \* addresses tried
    Account,        \* ... those of users
    Active,         \* ... whose account is active
    Ip,
    Password,
    FirstHash,      \* FirstHash[e]: [pass, legacy], the stored password
    LockThreshold, AlertThreshold,          \* failures that lock, that alert
    LockDuration, AttemptWindow,            \* in ticks of the clock
    MaxMishaps,      \* bound: commands that fail, and crashes
    NoEmail, NoIp, NoPassword

ASSUME AccountAssumption ==
    /\ Active \subseteq Account /\ Account \subseteq Email
    /\ FirstHash \in [Account -> [pass : Password, legacy : BOOLEAN]]
ASSUME ThresholdAssumption ==
    /\ LockThreshold \in Nat \ {0} /\ AlertThreshold \in Nat /\ LockThreshold < AlertThreshold
    /\ LockDuration \in Nat \ {0} /\ AttemptWindow \in Nat \ {0} /\ MaxMishaps \in Nat
\* The keys of an e-mail and of an address have prefixes of their own.
ASSUME KeyAssumption == IsFiniteSet(Clerk) /\ Email \cap Ip = {}
ASSUME NobodyAssumption ==
    NoEmail \notin Email /\ NoIp \notin Ip /\ NoPassword \notin Password

VARIABLES
    fails,          \* failed attempts counted per e-mail or address
    window,         \* time to live of that counter, 0 without one
    lock,           \* time to live of bf_lock:{email}, 0 without one
    alert,          \* time to live of bf_alert:{email}
    hash,           \* password rows, committed
    mishaps,        \* commands that failed and crashes so far
    lg              \* the request of each thread

gvars == <<fails, window, lock, alert, hash, mishaps, lg>>
redis == <<fails, window, lock, alert>>

NoLogin == [pc |-> "idle", email |-> NoEmail, ip |-> NoIp, pass |-> NoPassword,
            n |-> 0, dirty |-> FALSE]

GuardInit ==
    /\ fails = [k \in Email \cup Ip |-> 0] /\ window = [k \in Email \cup Ip |-> 0]
    /\ lock = [e \in Email |-> 0] /\ alert = [e \in Email |-> 0]
    /\ hash = FirstHash /\ mishaps = 0 /\ lg = [c \in Clerk |-> NoLogin]

LoginAt(c, pc) == lg[c].pc = pc
LoginTo(c, pc) == lg' = [lg EXCEPT ![c] = [lg[c] EXCEPT !.pc = pc]]
LoginEnds(c) == lg' = [lg EXCEPT ![c] = NoLogin]
Counted(c, n) == IF n > lg[c].n THEN n ELSE lg[c].n

Answers(ok) == IF ok THEN UNCHANGED mishaps ELSE mishaps < MaxMishaps /\ mishaps' = mishaps + 1

-----------------------------------------------------------------------------
(* check_and_enforce.                                                      *)

\* Mutant of Login: check_and_enforce is not called.
LoginUnchecked(c, e, i, p) ==
    /\ LoginAt(c, "idle")
    /\ lg' = [lg EXCEPT ![c] = [NoLogin EXCEPT !.pc = "verify", !.email = e, !.ip = i, !.pass = p]]
    /\ UNCHANGED <<redis, hash, mishaps>>

Login(c, e, i, p) ==
    /\ LoginAt(c, "idle")
    /\ lg' = [lg EXCEPT ![c] = [NoLogin EXCEPT !.pc = "locked", !.email = e, !.ip = i, !.pass = p]]
    /\ UNCHANGED <<redis, hash, mishaps>>

\* Mutant of IsLocked: a refused attempt renews the lock.
IsLockedAgain(c, ok) ==
    /\ LoginAt(c, "locked") /\ Answers(ok)
    /\ IF ok /\ lock[lg[c].email] > 0
         THEN LoginEnds(c) /\ lock' = [lock EXCEPT ![lg[c].email] = LockDuration]
         ELSE LoginTo(c, "count") /\ UNCHANGED lock
    /\ UNCHANGED <<fails, window, alert, hash>>

IsLocked(c, ok) ==
    /\ LoginAt(c, "locked") /\ Answers(ok)
    /\ IF ok /\ lock[lg[c].email] > 0 THEN LoginEnds(c) ELSE LoginTo(c, "count")
    /\ UNCHANGED <<redis, hash>>

\* _get_max_attempts reads the counter of the e-mail, then that of the address.
CountEmail(c, ok) ==
    /\ LoginAt(c, "count") /\ Answers(ok)
    /\ lg' = [lg EXCEPT ![c] = [lg[c] EXCEPT !.pc = "count_ip",
                                             !.n = IF ok THEN fails[lg[c].email] ELSE 0]]
    /\ UNCHANGED <<redis, hash>>

CountIp(c, ok) ==
    LET n == Counted(c, IF ok THEN fails[lg[c].ip] ELSE 0) IN
    /\ LoginAt(c, "count_ip") /\ Answers(ok)
    /\ IF n >= LockThreshold THEN LoginEnds(c)
       ELSE lg' = [lg EXCEPT ![c] = [lg[c] EXCEPT !.pc = "verify", !.n = 0]]
    /\ UNCHANGED <<redis, hash>>

-----------------------------------------------------------------------------
(* The password.                                                           *)

\* Mutant of VerifyPassword: an old hash is replaced before it is compared.
RehashFirst(c) ==
    LET e == lg[c].email IN
    /\ LoginAt(c, "verify")
    /\ IF e \in Account /\ hash[e].legacy THEN LoginTo(c, "rehash")
       ELSE IF e \notin Account \/ hash[e].pass # lg[c].pass THEN LoginTo(c, "fail")
       ELSE LoginTo(c, "active")
    /\ UNCHANGED <<redis, hash, mishaps>>

\* An unknown e-mail costs a verification too, against a dummy hash.
VerifyPassword(c) ==
    LET e == lg[c].email IN
    /\ LoginAt(c, "verify")
    /\ IF e \notin Account \/ hash[e].pass # lg[c].pass THEN LoginTo(c, "fail")
       ELSE IF hash[e].legacy THEN LoginTo(c, "rehash")
       ELSE LoginTo(c, "active")
    /\ UNCHANGED <<redis, hash, mishaps>>

RowFree(e) == \A d \in Clerk : lg[d].email = e => ~lg[d].dirty

\* The typed password in the new format is flushed over the row.
Rehash(c) ==
    /\ LoginAt(c, "rehash") /\ RowFree(lg[c].email)
    /\ lg' = [lg EXCEPT ![c] = [lg[c] EXCEPT !.pc = "active", !.dirty = TRUE]]
    /\ UNCHANGED <<redis, hash, mishaps>>

CheckActive(c) ==
    /\ LoginAt(c, "active")
    /\ LoginTo(c, IF lg[c].email \in Active THEN "forget" ELSE "commit")
    /\ UNCHANGED <<redis, hash, mishaps>>

\* Mutant of Forget: a success takes one failure off the counter.
ForgetOne(k) ==
    /\ fails' = [fails EXCEPT ![k] = fails[k] - 1] /\ UNCHANGED window

\* record_successful_login deletes the two counters; the lock stays.
Forget(k) ==
    /\ fails' = [fails EXCEPT ![k] = 0] /\ window' = [window EXCEPT ![k] = 0]

ForgetEmail(c, ok) ==
    /\ LoginAt(c, "forget") /\ Answers(ok)
    /\ IF ok THEN Forget(lg[c].email) ELSE UNCHANGED <<fails, window>>
    /\ LoginTo(c, "forget_ip")
    /\ UNCHANGED <<lock, alert, hash>>

ForgetIp(c, ok) ==
    /\ LoginAt(c, "forget_ip") /\ Answers(ok)
    /\ IF ok THEN Forget(lg[c].ip) ELSE UNCHANGED <<fails, window>>
    /\ LoginTo(c, "commit")
    /\ UNCHANGED <<lock, alert, hash>>

\* The commit, of the audit entry or after the creation of an MFA session,
\* which carries the rehash with it; the tokens come after it.
CommitLogin(c) ==
    /\ LoginAt(c, "commit")
    /\ hash' = IF lg[c].dirty
                 THEN [hash EXCEPT ![lg[c].email] = [pass |-> lg[c].pass, legacy |-> FALSE]]
                 ELSE hash
    /\ LoginEnds(c)
    /\ UNCHANGED <<redis, mishaps>>

-----------------------------------------------------------------------------
(* record_failed_attempt.                                                  *)

\* INCR and EXPIRE in one pipeline: the window slides with every failure.
Increment(k) ==
    /\ fails' = [fails EXCEPT ![k] = fails[k] + 1]
    /\ window' = [window EXCEPT ![k] = AttemptWindow]

FailEmail(c, ok) ==
    /\ LoginAt(c, "fail") /\ Answers(ok)
    /\ IF ok THEN Increment(lg[c].email) ELSE UNCHANGED <<fails, window>>
    /\ lg' = [lg EXCEPT ![c] = [lg[c] EXCEPT !.pc = "fail_ip",
                                             !.n = IF ok THEN fails[lg[c].email] + 1 ELSE 0]]
    /\ UNCHANGED <<lock, alert, hash>>

FailIp(c, ok) ==
    LET n == Counted(c, IF ok THEN fails[lg[c].ip] + 1 ELSE 0) IN
    /\ LoginAt(c, "fail_ip") /\ Answers(ok)
    /\ IF ok THEN Increment(lg[c].ip) ELSE UNCHANGED <<fails, window>>
    /\ IF n >= LockThreshold
         THEN lg' = [lg EXCEPT ![c] = [lg[c] EXCEPT !.pc = "lock", !.n = n]]
         ELSE LoginTo(c, "commit")
    /\ UNCHANGED <<lock, alert, hash>>

SetLock(c, ok) ==
    /\ LoginAt(c, "lock") /\ Answers(ok)
    /\ lock' = IF ok THEN [lock EXCEPT ![lg[c].email] = LockDuration] ELSE lock
    /\ LoginTo(c, IF lg[c].n >= AlertThreshold THEN "alert" ELSE "commit")
    /\ UNCHANGED <<fails, window, alert, hash>>

\* SET NX EX: one alert per window.
SetAlertSent(c, ok) ==
    LET e == lg[c].email IN
    /\ LoginAt(c, "alert") /\ Answers(ok)
    /\ alert' = IF ok /\ alert[e] = 0 THEN [alert EXCEPT ![e] = AttemptWindow] ELSE alert
    /\ LoginTo(c, "commit")
    /\ UNCHANGED <<fails, window, lock, hash>>

-----------------------------------------------------------------------------
(* PATCH /users/me, crashes, time.                                         *)

\* update_profile: one UPDATE, committed at once, that waits for the row.
ChangePassword(e, p) ==
    /\ RowFree(e) /\ p # hash[e].pass
    /\ hash' = [hash EXCEPT ![e] = [pass |-> p, legacy |-> FALSE]]
    /\ UNCHANGED <<redis, mishaps, lg>>

LoginDies(c) ==
    /\ ~LoginAt(c, "idle") /\ mishaps < MaxMishaps /\ mishaps' = mishaps + 1
    /\ LoginEnds(c)
    /\ UNCHANGED <<redis, hash>>

Later(t) == IF t > 0 THEN t - 1 ELSE 0

GuardTick ==
    /\ \/ \E k \in Email \cup Ip : window[k] > 0
       \/ \E e \in Email : lock[e] > 0 \/ alert[e] > 0
    /\ window' = [k \in Email \cup Ip |-> Later(window[k])]
    /\ fails' = [k \in Email \cup Ip |-> IF window[k] = 1 THEN 0 ELSE fails[k]]
    /\ lock' = [e \in Email |-> Later(lock[e])] /\ alert' = [e \in Email |-> Later(alert[e])]
    /\ UNCHANGED <<hash, mishaps, lg>>

CheckStep(c, ok) == IsLocked(c, ok) \/ CountEmail(c, ok) \/ CountIp(c, ok)
SuccessStep(c, ok) == ForgetEmail(c, ok) \/ ForgetIp(c, ok)
FailureStep(c, ok) ==
    FailEmail(c, ok) \/ FailIp(c, ok) \/ SetLock(c, ok) \/ SetAlertSent(c, ok)

LoginProgress(c) ==
    \/ \E ok \in BOOLEAN : CheckStep(c, ok) \/ SuccessStep(c, ok) \/ FailureStep(c, ok)
    \/ VerifyPassword(c) \/ Rehash(c) \/ CheckActive(c) \/ CommitLogin(c)

GuardNext ==
    \/ \E c \in Clerk :
          \/ \E e \in Email, i \in Ip, p \in Password : Login(c, e, i, p)
          \/ LoginProgress(c) \/ LoginDies(c)
    \/ \E e \in Account, p \in Password : ChangePassword(e, p)
    \/ GuardTick

-----------------------------------------------------------------------------

LoginGuardTypeOK ==
    /\ fails \in [Email \cup Ip -> Nat] /\ window \in [Email \cup Ip -> 0..AttemptWindow]
    /\ lock \in [Email -> 0..LockDuration] /\ alert \in [Email -> 0..AttemptWindow]
    /\ hash \in [Account -> [pass : Password, legacy : BOOLEAN]]
    /\ mishaps \in 0..MaxMishaps
    /\ lg \in [Clerk -> [pc : {"idle", "locked", "count", "count_ip", "verify", "rehash", "active",
                               "forget", "forget_ip", "commit", "fail", "fail_ip", "lock", "alert"},
                         email : Email \cup {NoEmail}, ip : Ip \cup {NoIp},
                         pass : Password \cup {NoPassword}, n : Nat, dirty : BOOLEAN]]

\* Requests that passed the check and have yet to count their failure.
Admitted(e) == {c \in Clerk : lg[c].email = e /\ lg[c].pc \in {"verify", "fail"}}

\* The failures counted and the requests let through, together (AttemptsBounded).
FailuresBounded ==
    \A e \in Email :
        fails[e] + Cardinality(Admitted(e)) <= LockThreshold - 1 + Cardinality(Clerk)

\* An account that reached the lock is not shut for ever: at some time neither
\* lock nor counters refuse its user.  Refused attempts count nothing, so that
\* whoever keeps trying does not prolong it.
Open(e) == lock[e] = 0 /\ fails[e] < LockThreshold /\ \A i \in Ip : fails[i] < LockThreshold
LockEnds == \A e \in Email : (lock[e] > 0) ~> Open(e)
=============================================================================
