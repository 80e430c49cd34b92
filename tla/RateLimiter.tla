---------------------------- MODULE RateLimiter -----------------------------
(***************************************************************************)
(* The fixed-window rate limiter (RateLimiter.check_rate_limit) and the    *)
(* two checks RateLimitMiddleware makes in front of every request: one per *)
(* address, then one for the scope of the request (login, a user, changes, *)
(* reads).  INCR and EXPIRE are separate commands: a request that dies     *)
(* between them leaves a counter without a deadline, which the next one is *)
(* meant to repair.  Any error lets the request through.                   *)
(***************************************************************************)
EXTENDS Integers

CONSTANTS
    Requester,      \* threads in which the middleware runs
    Client,         \* addresses or users, as the keys tell them apart
    Scope,          \* scopes but the global one
    Limit,          \* Limit[s]: requests of a window, s in Scope or "global"
    Window,         \* length of a window, in ticks of the clock
    MaxCount,       \* bound: requests counted by one key
    MaxErrors       \* bound: commands that fail, and crashes

ASSUME LimiterAssumption ==
    /\ "global" \notin Scope /\ Limit \in [Scope \cup {"global"} -> Nat]
    /\ Window \in Nat \ {0} /\ MaxCount \in Nat /\ MaxErrors \in Nat

Key == (Scope \cup {"global"}) \X Client

NoTtl == 0 - 1
NoKey == <<"none", "none">>

VARIABLES
    hits,           \* hits[k]: the counter rate_limit:{scope}:{client}, 0 if absent
    ttl,            \* its time to live in ticks, NoTtl for a key without one
    errors,         \* commands that failed and crashes so far
    rq              \* the request of each thread

rvars == <<hits, ttl, errors, rq>>

IdleRequest == [pc |-> "idle", key |-> NoKey, then |-> NoKey, n |-> 0]

LimiterInit ==
    /\ hits = [k \in Key |-> 0] /\ ttl = [k \in Key |-> NoTtl]
    /\ errors = 0 /\ rq = [r \in Requester |-> IdleRequest]

-----------------------------------------------------------------------------

\* dispatch: the key of the address c first, that of the scope next, which
\* names the address again or the user, u.
Dispatch(r, s, c, u) ==
    /\ rq[r].pc = "idle"
    /\ rq' = [rq EXCEPT ![r] = [pc |-> "incr", key |-> <<"global", c>>, then |-> <<s, u>>, n |-> 0]]
    /\ UNCHANGED <<hits, ttl, errors>>

RequestAt(r, pc) == rq[r].pc = pc
RequestTo(r, pc) == rq' = [rq EXCEPT ![r] = [rq[r] EXCEPT !.pc = pc]]

\* After an allowed check: the second one, or the handler.
Allow(r) ==
    rq' = [rq EXCEPT ![r] = IF rq[r].key = rq[r].then THEN [rq[r] EXCEPT !.pc = "served"]
                            ELSE [rq[r] EXCEPT !.pc = "incr", !.key = rq[r].then, !.n = 0]]

Decide(r) == IF rq[r].n <= Limit[rq[r].key[1]] THEN Allow(r) ELSE RequestTo(r, "refused")

\* An error of any command is caught, and the request allowed.
CommandFails(r) ==
    /\ rq[r].pc \in {"incr", "expire", "ttl", "heal"}
    /\ errors < MaxErrors /\ errors' = errors + 1
    /\ Allow(r)
    /\ UNCHANGED <<hits, ttl>>

Incr(r) ==
    LET k == rq[r].key IN
    /\ RequestAt(r, "incr") /\ hits[k] < MaxCount
    /\ hits' = [hits EXCEPT ![k] = hits[k] + 1]
    /\ rq' = [rq EXCEPT ![r] = [rq[r] EXCEPT !.n = hits[k] + 1,
                                             !.pc = IF hits[k] = 0 THEN "expire" ELSE "ttl"]]
    /\ UNCHANGED <<ttl, errors>>

\* EXPIRE does nothing on a key that is gone.
SetDeadline(k) == ttl' = [ttl EXCEPT ![k] = IF hits[k] > 0 THEN Window ELSE NoTtl]

Expire(r) ==
    /\ RequestAt(r, "expire")
    /\ SetDeadline(rq[r].key) /\ RequestTo(r, "ttl")
    /\ UNCHANGED <<hits, errors>>

\* Mutant of ReadTtl: a counter without a deadline is not repaired.
ReadTtlOnly(r) ==
    /\ RequestAt(r, "ttl")
    /\ Decide(r)
    /\ UNCHANGED <<hits, ttl, errors>>

ReadTtl(r) ==
    /\ RequestAt(r, "ttl")
    /\ IF hits[rq[r].key] > 0 /\ ttl[rq[r].key] = NoTtl THEN RequestTo(r, "heal") ELSE Decide(r)
    /\ UNCHANGED <<hits, ttl, errors>>

Heal(r) ==
    /\ RequestAt(r, "heal")
    /\ SetDeadline(rq[r].key) /\ Decide(r)
    /\ UNCHANGED <<hits, errors>>

\* The response, of the handler or the 429.
Respond(r) ==
    /\ rq[r].pc \in {"served", "refused"}
    /\ rq' = [rq EXCEPT ![r] = IdleRequest]
    /\ UNCHANGED <<hits, ttl, errors>>

RequestDies(r) ==
    /\ rq[r].pc # "idle" /\ errors < MaxErrors /\ errors' = errors + 1
    /\ rq' = [rq EXCEPT ![r] = IdleRequest]
    /\ UNCHANGED <<hits, ttl>>

\* Keys whose time has come disappear.
LimiterTick ==
    /\ \E k \in Key : ttl[k] > 0
    /\ ttl' = [k \in Key |-> IF ttl[k] > 1 THEN ttl[k] - 1 ELSE NoTtl]
    /\ hits' = [k \in Key |-> IF ttl[k] = 1 THEN 0 ELSE hits[k]]
    /\ UNCHANGED <<errors, rq>>

RequestStep(r) ==
    Incr(r) \/ Expire(r) \/ ReadTtl(r) \/ Heal(r) \/ Respond(r)

LimiterNext ==
    \/ \E r \in Requester :
          \/ \E s \in Scope, c, u \in Client : Dispatch(r, s, c, u)
          \/ RequestStep(r) \/ CommandFails(r) \/ RequestDies(r)
    \/ LimiterTick

-----------------------------------------------------------------------------

RateLimiterTypeOK ==
    /\ hits \in [Key -> 0..MaxCount] /\ ttl \in [Key -> {NoTtl} \cup 1..Window]
    /\ errors \in 0..MaxErrors
    /\ rq \in [Requester -> [pc : {"idle", "incr", "expire", "ttl", "heal", "served", "refused"},
                             key : Key \cup {NoKey}, then : Key \cup {NoKey}, n : 0..MaxCount]]

\* A client that is refused is not refused for ever: the counter that refused
\* it falls below its limit, although a request died before that counter got
\* its deadline (check_rate_limit).
RefusalEnds == \A r \in Requester, k \in Key :
    (rq[r].pc = "refused" /\ rq[r].key = k) ~> (hits[k] <= Limit[k[1]])
=============================================================================
