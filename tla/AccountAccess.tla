---------------------------- MODULE AccountAccess ----------------------------
(***************************************************************************)
(* What stands between a user and the tokens: the rate limiter, the login  *)
(* and its guard against repeated failures, the second factor.  The three  *)
(* share no state, so a behaviour follows one of them, its `subject'.  The *)
(* history variables name the overlaps the code does nothing against.      *)
(***************************************************************************)
EXTENDS RateLimiter, LoginGuard, Mfa

VARIABLES
    subject,        \* the part this behaviour is about
    overlapped,     \* two logins were between the check and the count of failures at once
    stale,          \* logins whose password changed after they verified it
    opened,         \* tickets that opened a login
    shared,         \* tickets that two requests held at once
    spent,          \* <<id, c>>: code or window c of device id opened a login
    raced           \* ... was used while another request wrote the same column

avars == <<rvars, gvars, mvars, subject, overlapped, stale, opened, shared, spent, raced>>

AInit ==
    /\ LimiterInit /\ GuardInit /\ MfaInit
    /\ subject \in {"limiter", "guard", "mfa"}
    /\ overlapped = FALSE /\ stale = {} /\ opened = {} /\ shared = {} /\ spent = {} /\ raced = {}

\* Logins that verified the password of e and have yet to commit.
Verified(e) == {c \in Clerk : /\ lg[c].email = e
                              /\ lg[c].pc \in {"rehash", "active", "forget", "forget_ip", "commit"}}

LoginHistory ==
    /\ overlapped' = (overlapped \/ \E c, d \in Clerk :
          c # d /\ {lg'[c].pc, lg'[d].pc} \subseteq {"count_ip", "verify", "fail", "fail_ip"})
    /\ stale' = {c \in Clerk : /\ lg'[c].pc # "idle"
                               /\ \/ c \in stale
                                  \/ \E e \in Account : /\ hash'[e].pass # hash[e].pass
                                                        /\ c \in Verified(e)}
    /\ UNCHANGED <<opened, shared, spent, raced>>

\* What the request of h uses up: a recovery code, or the window of the clock.
Used(h) == <<mf[h].seen.id, IF mf[h].op = "recovery" THEN mf[h].code ELSE mf[h].shown>>

\* Requests about to write the column that op writes: verify-setup sets the
\* window as well.
Column(op) == IF op = "recovery" THEN {"recovery"} ELSE {"totp", "enable"}
Writing(op) == {h \in Handler : mf[h].pc = "write" /\ mf[h].op \in Column(op)}

MfaHistory ==
    /\ opened' = opened \cup {mf[h].tk : h \in {g \in Handler : mf[g].pc = "grant" /\ mf'[g] # mf[g]}}
    /\ spent' = spent \cup {Used(h) : h \in {g \in Handler : mf[g].pc = "grant" /\ mf'[g] # mf[g]}}
    /\ shared' = shared \cup {k \in Ticket :
          \E h, g \in Handler : h # g /\ mf'[h].tk = k /\ mf'[g].tk = k}
    /\ raced' = raced \cup {Used(h) : h \in {g \in Handler :
          /\ mf[g].pc = "write" /\ mf'[g] # mf[g]
          /\ Writing(mf[g].op) # {g} /\ mf[g].op \in {"totp", "recovery"}}}
    /\ UNCHANGED <<overlapped, stale>>

NoHistory == UNCHANGED <<overlapped, stale, opened, shared, spent, raced>>

ANext ==
    /\ UNCHANGED subject
    /\ \/ /\ subject = "limiter" /\ LimiterNext /\ NoHistory /\ UNCHANGED <<gvars, mvars>>
       \/ /\ subject = "guard" /\ GuardNext /\ LoginHistory /\ UNCHANGED <<rvars, mvars>>
       \/ /\ subject = "mfa" /\ MfaNext /\ MfaHistory /\ UNCHANGED <<rvars, gvars>>

\* Time passes, and a thread that is not killed gets on with its request.
Fairness ==
    /\ WF_rvars(LimiterTick) /\ WF_gvars(GuardTick)
    /\ \A r \in Requester : WF_rvars(RequestStep(r))

ASpec == AInit /\ [][ANext]_avars /\ Fairness

TypeOK == RateLimiterTypeOK /\ LoginGuardTypeOK /\ MfaTypeOK

-----------------------------------------------------------------------------
(* Properties.                                                             *)

\* As long as no command fails, however many requests run at once, an e-mail
\* never has more failures counted than the threshold and one for every further
\* thread let through before the failure that reached it; and the alert of the
\* tenth failure, higher than that threshold, is only raised when requests
\* overlap, since the attempts after the one that locks are refused and count
\* nothing (check_and_enforce, record_failed_attempt, BruteForceThresholds).
AttemptsBounded ==
    mishaps = 0 => FailuresBounded /\ (~overlapped => \A e \in Email : alert[e] = 0)

\* A password that a user set is only replaced by the user: the rehash of an
\* old hash writes back the password it verified, unless the user changed it
\* between the verification and the commit of that login (AuthService.login).
PasswordKept ==
    [][\A e \in Account : hash'[e].pass # hash[e].pass =>
          lg' = lg \/ \E c \in stale : lg[c].email = e /\ lg'[c] # lg[c]]_avars

\* An MFA session opens one login and is gone with it; it opens another one only
\* if two requests read it before either deleted it (validate_mfa_session).
TicketOpensOnce ==
    /\ opened \cap ticket = {}
    /\ \A h \in Handler : mf[h].pc = "grant" /\ mf[h].tk \in opened => mf[h].tk \in shared

\* A recovery code that opened a login is gone for good, and no second login
\* is opened in a window that opened one, unless another request was about to
\* write the same column from an older value (verify_recovery_code, verify_totp).
UsedStaysUsed ==
    \A u \in spent \ raced : u[1] = device.id =>
        u[2] \notin device.codes /\ (u[2] \in 1..Windows => u[2] <= device.last)

\* MFA that a user enabled stays enabled until disabled, unless a second set-up
\* read the device while it was still pending (setup_totp).
EnabledUntilDisabled ==
    [][device.enabled /\ ~device'.enabled =>
          \/ mf' = mf
          \/ \E h \in Handler : HandlerAt(h, "setup", "write") /\ mf'[h] # mf[h]
                                /\ mf[h].seen.id = device.id /\ ~mf[h].seen.enabled]_avars
=============================================================================
