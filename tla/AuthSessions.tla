---------------------------- MODULE AuthSessions ----------------------------
(***************************************************************************)
(* Refresh tokens, token families and user sessions: TokenService,         *)
(* SessionService and the Redis commands under them, as the handlers of    *)
(* /auth (login and MFA login, refresh, logout) and /sessions (list,       *)
(* revoke, revoke all) call them.  What a logout does to the access token  *)
(* and the CSRF tokens, which only the checks in front of the handlers     *)
(* read, is in Gateway.                                                    *)
(*                                                                         *)
(* Nothing here holds a lock or a transaction: a handler is a sequence of  *)
(* Redis commands, one action each, and every command may fail, which the  *)
(* wrappers of core/redis.py answer with False, None, 0 or [].  A family   *)
(* is one login; its tokens <<f, 1>>, <<f, 2>>, ... are the pairs (access, *)
(* refresh) that login and the rotations minted, in order.  The session of *)
(* a login is named by its family.  A client may send any pair it ever     *)
(* received: it retries with an old one when an answer is lost.            *)
(***************************************************************************)
EXTENDS Integers, FiniteSets

CONSTANTS
    Worker,         \* threads serving requests
    User,
    Family,         \* logins that may happen
    Owner,          \* Owner[f]: the user who logs in
    MaxTokens,      \* bound: MaxTokens[f] pairs minted in family f
    MaxSessions,    \* SessionConfig.MAX_SESSIONS_PER_USER
    MaxFaults,      \* bound: Redis commands that fail, and crashes
    NoUser, NoFamily, NoToken

ASSUME FamilyAssumption == IsFiniteSet(Family)
ASSUME OwnerAssumption == Owner \in [Family -> User]
ASSUME LimitAssumption == MaxTokens \in [Family -> Nat \ {0}] /\ MaxSessions \in Nat \ {0} /\ MaxFaults \in Nat

Token == Family \X (Nat \ {0})
ASSUME NoneAssumption == NoUser \notin User /\ NoFamily \notin Family /\ NoToken \notin Token

VARIABLES
    refresh,        \* white list of refresh tokens (refresh_jti:{jti})
    family,         \* token families (token_family:{id})
    session,        \* session keys (session:{id})
    index,          \* ids in the sets session_idx:{user}
    minted,         \* pairs minted so far in each family
    since,          \* order of the sessions' created_at, 0 before
    held,           \* pairs some client received
    faults,         \* commands that failed and crashes so far
    failed,         \* a command has failed
    tx              \* the request of each worker

store == <<refresh, family, session, index>>
vars == <<refresh, family, session, index, minted, since, held, faults, failed, tx>>

Ops == {"none", "login", "refresh", "logout", "revoke", "revoke_all"}

Points == {"idle", "jti", "family", "list", "kill", "drop", "key", "index",
           "check", "live", "old", "suspect", "wipe",
           "own", "members", "unindex"}

Tx == [op : Ops, pc : Points,
       usr : User \cup {NoUser},
       fam : Family \cup {NoFamily},       \* family of the request's token or session
       tok : Token \cup {NoToken},         \* refresh token in hand
       todo : SUBSET Family]               \* sessions to be revoked

Idle == [op |-> "none", pc |-> "idle", usr |-> NoUser, fam |-> NoFamily, tok |-> NoToken,
         todo |-> {}]

Init ==
    /\ refresh = {} /\ session = {} /\ index = {}
    /\ family = [f \in Family |-> "absent"]
    /\ minted = [f \in Family |-> 0] /\ since = [f \in Family |-> 0]
    /\ held = {} /\ faults = 0 /\ failed = FALSE
    /\ tx = [w \in Worker |-> Idle]

-----------------------------------------------------------------------------
(* Redis.                                                                  *)

\* A command answers, or fails and the wrapper swallows the error.
Reply(ok) ==
    IF ok THEN UNCHANGED <<faults, failed>>
          ELSE faults < MaxFaults /\ faults' = faults + 1 /\ failed' = TRUE

At(w, pc) == tx[w].pc = pc
Goto(w, pc) == tx' = [tx EXCEPT ![w] = [tx[w] EXCEPT !.pc = pc]]
Done(w) == tx' = [tx EXCEPT ![w] = Idle]
\* Mutant of Answer: the pair is lost on the way to the response.
AnswerNothing(w, t) == Done(w) /\ held' = held \cup {NoToken}

Answer(w, t) == Done(w) /\ held' = held \cup {t}

Mine(w) == {f \in Family : Owner[f] = tx[w].usr}
Live(f) == {t \in refresh : t[1] = f}

\* list_user_sessions: the indexed sessions whose key exists.
Visible(u) == {f \in index \cap session : Owner[f] = u}

\* ... which also removes from the index the ids whose key is gone.
ListUserSessions(u, ok) ==
    index' = IF ok THEN {f \in index : Owner[f] = u => f \in session} ELSE index

\* revoke_token_family: the record is rewritten with active = False.
RevokeTokenFamily(f, ok) ==
    family' = IF ok /\ family[f] = "active" THEN [family EXCEPT ![f] = "inactive"] ELSE family

DeleteSession(f, ok) ==
    /\ session' = IF ok THEN session \ {f} ELSE session
    /\ index' = IF ok THEN index \ {f} ELSE index

-----------------------------------------------------------------------------
(* Login: issue_tokens and create_session.                                 *)

Fresh(f) == minted[f] = 0

IssueTokens(w, f) ==
    /\ At(w, "idle") /\ Fresh(f)
    /\ minted' = [minted EXCEPT ![f] = 1]
    /\ tx' = [tx EXCEPT ![w] = [Idle EXCEPT !.op = "login", !.pc = "jti",
                                            !.usr = Owner[f], !.fam = f, !.tok = <<f, 1>>]]
    /\ UNCHANGED <<store, since, held, faults, failed>>

\* Mutant of StoreRefreshJti: the token of a login is not listed.
StoreRotatedJtiOnly(w, ok) ==
    /\ At(w, "jti") /\ Reply(ok)
    /\ refresh' = IF ok /\ tx[w].op = "refresh" THEN refresh \cup {tx[w].tok} ELSE refresh
    /\ IF tx[w].op = "login" THEN Goto(w, "family") /\ UNCHANGED held
                             ELSE Answer(w, tx[w].tok)
    /\ UNCHANGED <<family, session, index, minted, since>>

\* The SETEX of a refresh token: a rotation answers after it, a login goes on.
StoreRefreshJti(w, ok) ==
    /\ At(w, "jti") /\ Reply(ok)
    /\ refresh' = IF ok THEN refresh \cup {tx[w].tok} ELSE refresh
    /\ IF tx[w].op = "login" THEN Goto(w, "family") /\ UNCHANGED held
                             ELSE Answer(w, tx[w].tok)
    /\ UNCHANGED <<family, session, index, minted, since>>

\* create_session reads the clock for created_at before it lists the sessions.
StoreTokenFamily(w, ok) ==
    LET f == tx[w].fam IN
    /\ At(w, "family") /\ Reply(ok)
    /\ family' = IF ok THEN [family EXCEPT ![f] = "active"] ELSE family
    /\ since' = [since EXCEPT ![f] = 1 + Cardinality({g \in Family : since[g] > 0})]
    /\ Goto(w, "list")
    /\ UNCHANGED <<refresh, session, index, minted, held>>

\* The members of S but the MaxSessions - 1 latest.
Oldest(S) == {f \in S : Cardinality({g \in S : since[g] > since[f]}) >= MaxSessions - 1}

\* Mutant of EnforceMaxSessions: one session too many is allowed.
EnforceOneMore(w, ok) ==
    LET u == tx[w].usr
        evict == IF ok /\ Cardinality(Visible(u)) > MaxSessions THEN Oldest(Visible(u)) ELSE {}
    IN  /\ At(w, "list") /\ tx[w].op = "login" /\ Reply(ok)
        /\ ListUserSessions(u, ok)
        /\ tx' = [tx EXCEPT ![w] = [tx[w] EXCEPT !.todo = evict,
                                                 !.pc = IF evict = {} THEN "key" ELSE "kill"]]
        /\ UNCHANGED <<refresh, family, session, minted, since, held>>

EnforceMaxSessions(w, ok) ==
    LET u == tx[w].usr
        evict == IF ok /\ Cardinality(Visible(u)) >= MaxSessions THEN Oldest(Visible(u)) ELSE {}
    IN  /\ At(w, "list") /\ tx[w].op = "login" /\ Reply(ok)
        /\ ListUserSessions(u, ok)
        /\ tx' = [tx EXCEPT ![w] = [tx[w] EXCEPT !.todo = evict,
                                                 !.pc = IF evict = {} THEN "key" ELSE "kill"]]
        /\ UNCHANGED <<refresh, family, session, minted, since, held>>

\* store_session, first command: a failure ends it, the login answers anyway.
StoreSessionKey(w, ok) ==
    /\ At(w, "key") /\ Reply(ok)
    /\ session' = IF ok THEN session \cup {tx[w].fam} ELSE session
    /\ IF ok THEN Goto(w, "index") /\ UNCHANGED held ELSE Answer(w, tx[w].tok)
    /\ UNCHANGED <<refresh, family, index, minted, since>>

StoreSessionIndex(w, ok) ==
    /\ At(w, "index") /\ Reply(ok)
    /\ index' = IF ok THEN index \cup {tx[w].fam} ELSE index
    /\ Answer(w, tx[w].tok)
    /\ UNCHANGED <<refresh, family, session, minted, since>>

-----------------------------------------------------------------------------
(* Refresh: rotate_refresh_token.                                          *)

\* Rotations of family f that may still mint a pair.
Rotating(f) == {w \in Worker : tx[w].op = "refresh" /\ tx[w].fam = f
                               /\ tx[w].pc \in {"check", "live", "old"}}

BeginRefresh(w, t) ==
    /\ At(w, "idle")
    /\ minted[t[1]] + Cardinality(Rotating(t[1])) < MaxTokens[t[1]] \/ t \notin refresh
    /\ tx' = [tx EXCEPT ![w] = [Idle EXCEPT !.op = "refresh", !.pc = "check",
                                            !.usr = Owner[t[1]], !.fam = t[1], !.tok = t]]
    /\ UNCHANGED <<store, minted, since, held, faults, failed>>

CheckWhitelist(w, ok) ==
    /\ At(w, "check") /\ Reply(ok)
    /\ Goto(w, IF ok /\ tx[w].tok \in refresh THEN "live" ELSE "suspect")
    /\ UNCHANGED <<store, minted, since, held>>

\* Mutant of CheckFamily: a listed token is rotated whatever its family.
CheckNoFamily(w, ok) ==
    /\ At(w, "live") /\ Reply(ok)
    /\ Goto(w, "old")
    /\ UNCHANGED <<store, minted, since, held>>

CheckFamily(w, ok) ==
    /\ At(w, "live") /\ Reply(ok)
    /\ IF ok /\ family[tx[w].fam] = "active" THEN Goto(w, "old") ELSE Done(w)
    /\ UNCHANGED <<store, minted, since, held>>

\* Mutant of RotateOld: the old token stays in the white list.
RotateKeepsOld(w, ok) ==
    LET f == tx[w].fam IN
    /\ At(w, "old") /\ tx[w].op = "refresh" /\ Reply(ok)
    /\ minted[f] < MaxTokens[f]
    /\ minted' = [minted EXCEPT ![f] = minted[f] + 1]
    /\ tx' = [tx EXCEPT ![w] = [tx[w] EXCEPT !.tok = <<f, minted[f] + 1>>, !.pc = "jti"]]
    /\ UNCHANGED <<store, since, held>>

\* The old token is deleted, whether it is still there is not looked at, and
\* the new pair is signed.
RotateOld(w, ok) ==
    LET f == tx[w].fam IN
    /\ At(w, "old") /\ tx[w].op = "refresh" /\ Reply(ok)
    /\ minted[f] < MaxTokens[f]
    /\ refresh' = IF ok THEN refresh \ {tx[w].tok} ELSE refresh
    /\ minted' = [minted EXCEPT ![f] = minted[f] + 1]
    /\ tx' = [tx EXCEPT ![w] = [tx[w] EXCEPT !.tok = <<f, minted[f] + 1>>, !.pc = "jti"]]
    /\ UNCHANGED <<family, session, index, since, held>>

\* An unlisted token of an active family is a replay, of another one revoked.
DetectReplay(w, ok) ==
    /\ At(w, "suspect") /\ Reply(ok)
    /\ IF ok /\ family[tx[w].fam] = "active" THEN Goto(w, "kill") ELSE Done(w)
    /\ UNCHANGED <<store, minted, since, held>>

\* revoke_all_refresh_tokens: the SCAN of the white list, as one step.
RevokeAllRefreshTokens(w, ok) ==
    /\ At(w, "wipe") /\ Reply(ok)
    /\ refresh' = IF ok THEN {t \in refresh : t[1] \notin Mine(w)} ELSE refresh
    /\ Done(w)
    /\ UNCHANGED <<family, session, index, minted, since, held>>

-----------------------------------------------------------------------------
(* Logout, revocation of one session and of all of them.                   *)

\* revoke_on_logout, the half about the refresh token.
BeginLogout(w, t) ==
    /\ At(w, "idle")
    /\ tx' = [tx EXCEPT ![w] = [Idle EXCEPT !.op = "logout", !.pc = "old",
                                            !.usr = Owner[t[1]], !.fam = t[1], !.tok = t]]
    /\ UNCHANGED <<store, minted, since, held, faults, failed>>

RevokeRefreshJti(w, ok) ==
    /\ At(w, "old") /\ tx[w].op = "logout" /\ Reply(ok)
    /\ refresh' = IF ok THEN refresh \ {tx[w].tok} ELSE refresh
    /\ Goto(w, "kill")
    /\ UNCHANGED <<family, session, index, minted, since, held>>

\* get_session_by_family.
FindSession(w, ok) ==
    LET u == tx[w].usr IN
    /\ At(w, "list") /\ tx[w].op = "logout" /\ Reply(ok)
    /\ ListUserSessions(u, ok)
    /\ IF ok /\ tx[w].fam \in Visible(u) THEN Goto(w, "own") ELSE Done(w)
    /\ UNCHANGED <<refresh, family, session, minted, since, held>>

\* The client takes the id from the list.
BeginRevokeSession(w, f) ==
    /\ At(w, "idle") /\ f \in index
    /\ tx' = [tx EXCEPT ![w] = [Idle EXCEPT !.op = "revoke", !.pc = "own",
                                            !.usr = Owner[f], !.fam = f]]
    /\ UNCHANGED <<store, minted, since, held, faults, failed>>

\* revoke_session: the record names the family; without one nothing is done.
GetSession(w, ok) ==
    /\ At(w, "own") /\ Reply(ok)
    /\ IF ok /\ tx[w].fam \in session
         THEN tx' = [tx EXCEPT ![w] = [tx[w] EXCEPT !.todo = {tx[w].fam}, !.pc = "kill"]]
         ELSE Done(w)
    /\ UNCHANGED <<store, minted, since, held>>

BeginRevokeAll(w, u) ==
    /\ At(w, "idle") /\ \E t \in held : Owner[t[1]] = u
    /\ tx' = [tx EXCEPT ![w] = [Idle EXCEPT !.op = "revoke_all", !.pc = "list", !.usr = u]]
    /\ UNCHANGED <<store, minted, since, held, faults, failed>>

\* Mutant of ListForRevokeAll: the sessions are deleted, their families forgotten.
ForgetFamilies(w, ok) ==
    /\ At(w, "list") /\ tx[w].op = "revoke_all" /\ Reply(ok)
    /\ ListUserSessions(tx[w].usr, ok)
    /\ Goto(w, "members")
    /\ UNCHANGED <<refresh, family, session, minted, since, held>>

ListForRevokeAll(w, ok) ==
    LET u == tx[w].usr
        all == IF ok THEN Visible(u) ELSE {}
    IN  /\ At(w, "list") /\ tx[w].op = "revoke_all" /\ Reply(ok)
        /\ ListUserSessions(u, ok)
        /\ tx' = [tx EXCEPT ![w] = [tx[w] EXCEPT !.todo = all,
                                                 !.pc = IF all = {} THEN "members" ELSE "kill"]]
        /\ UNCHANGED <<refresh, family, session, minted, since, held>>

\* delete_all_user_sessions reads the index again and deletes those keys ...
DeleteAllUserSessions(w, ok) ==
    /\ At(w, "members") /\ Reply(ok)
    /\ session' = IF ok THEN session \ (index \cap Mine(w)) ELSE session
    /\ IF ok THEN Goto(w, "unindex") ELSE Done(w)
    /\ UNCHANGED <<refresh, family, index, minted, since, held>>

\* ... then the index.
DeleteUserIndex(w, ok) ==
    /\ At(w, "unindex") /\ Reply(ok)
    /\ index' = IF ok THEN index \ Mine(w) ELSE index
    /\ Done(w)
    /\ UNCHANGED <<refresh, family, session, minted, since, held>>

-----------------------------------------------------------------------------
(* Revocation of a family, shared by all of them.                          *)

\* The family to revoke next: the oldest session of an eviction, any of a
\* revocation of all, otherwise the request's own.
Target(w) ==
    IF tx[w].todo = {} THEN {tx[w].fam}
    ELSE IF tx[w].op = "login" THEN {f \in tx[w].todo : \A g \in tx[w].todo : since[f] <= since[g]}
    ELSE tx[w].todo

\* Where a request goes after revoking family f.
AfterKill(w, f) ==
    CASE tx[w].op = "refresh" -> Goto(w, "wipe")
      [] tx[w].op = "logout" /\ tx[w].todo = {} -> Goto(w, "list")
      [] tx[w].op = "revoke_all" ->
           tx' = [tx EXCEPT ![w] = [tx[w] EXCEPT !.todo = tx[w].todo \ {f},
                       !.pc = IF tx[w].todo = {f} THEN "members" ELSE "kill"]]
      [] OTHER -> Goto(w, "drop")

\* Mutant of RevokeFamily: the record is read and not written back.
RevokeNothing(w, f, ok) ==
    /\ At(w, "kill") /\ f \in Target(w) /\ Reply(ok)
    /\ AfterKill(w, f)
    /\ UNCHANGED <<refresh, family, session, index, minted, since, held>>

RevokeFamily(w, f, ok) ==
    /\ At(w, "kill") /\ f \in Target(w) /\ Reply(ok)
    /\ RevokeTokenFamily(f, ok)
    /\ AfterKill(w, f)
    /\ UNCHANGED <<refresh, session, index, minted, since, held>>

DropSession(w, f, ok) ==
    LET rest == tx[w].todo \ {f} IN
    /\ At(w, "drop") /\ f \in Target(w) /\ Reply(ok)
    /\ DeleteSession(f, ok)
    /\ IF tx[w].op = "login"
         THEN tx' = [tx EXCEPT ![w] = [tx[w] EXCEPT !.todo = rest,
                                          !.pc = IF rest = {} THEN "key" ELSE "kill"]]
         ELSE Done(w)
    /\ UNCHANGED <<refresh, family, minted, since, held>>

-----------------------------------------------------------------------------
(* Requests of one command, expiry, crashes.                               *)

\* GET /sessions.
ListSessions(u) ==
    /\ \E t \in held : Owner[t[1]] = u
    /\ ListUserSessions(u, TRUE)
    /\ UNCHANGED <<refresh, family, session, minted, since, held, faults, failed, tx>>

\* Seven days after the login: its first pair, its family and its session,
\* stored one after the other with one TTL.  A rotation renews none of them,
\* but the pairs it mints live for seven days of their own.
\* Bound: no request of the user is under way at that moment.
ExpireFamily(f) ==
    /\ family[f] # "absent" /\ \A w \in Worker : tx[w].usr # Owner[f]
    /\ family' = [family EXCEPT ![f] = "absent"]
    /\ refresh' = refresh \ {<<f, 1>>} /\ held' = held \ {<<f, 1>>}
    /\ session' = session \ {f}
    /\ UNCHANGED <<index, minted, since, faults, failed, tx>>

\* The process dies while it serves the request.
Crash(w) ==
    /\ ~At(w, "idle") /\ Done(w)
    /\ faults < MaxFaults /\ faults' = faults + 1
    /\ UNCHANGED <<store, minted, since, held, failed>>

LoginStep(w, ok) ==
    \/ StoreRefreshJti(w, ok) \/ StoreTokenFamily(w, ok) \/ EnforceMaxSessions(w, ok)
    \/ StoreSessionKey(w, ok) \/ StoreSessionIndex(w, ok)

RefreshStep(w, ok) ==
    \/ CheckWhitelist(w, ok) \/ CheckFamily(w, ok) \/ RotateOld(w, ok)
    \/ DetectReplay(w, ok) \/ RevokeAllRefreshTokens(w, ok)

RevokeStep(w, ok) ==
    \/ RevokeRefreshJti(w, ok) \/ FindSession(w, ok) \/ GetSession(w, ok)
    \/ ListForRevokeAll(w, ok) \/ DeleteAllUserSessions(w, ok) \/ DeleteUserIndex(w, ok)
    \/ \E f \in Family : RevokeFamily(w, f, ok) \/ DropSession(w, f, ok)

Begin(w) ==
    \/ \E f \in Family : IssueTokens(w, f) \/ BeginRevokeSession(w, f)
    \/ \E t \in held : BeginRefresh(w, t) \/ BeginLogout(w, t)
    \/ \E u \in User : BeginRevokeAll(w, u)

Next ==
    \/ \E w \in Worker :
          \/ Begin(w)
          \/ \E ok \in BOOLEAN : LoginStep(w, ok) \/ RefreshStep(w, ok) \/ RevokeStep(w, ok)
          \/ Crash(w)
    \/ \E u \in User : ListSessions(u)
    \/ \E f \in Family : ExpireFamily(f)

Spec == Init /\ [][Next]_vars

-----------------------------------------------------------------------------
(* Properties.                                                             *)

TypeOK ==
    /\ refresh \subseteq Token /\ held \subseteq Token
    /\ family \in [Family -> {"absent", "active", "inactive"}]
    /\ session \subseteq Family /\ index \subseteq Family
    /\ minted \in [Family -> Nat] /\ since \in [Family -> Nat]
    /\ faults \in 0..MaxFaults /\ failed \in BOOLEAN
    /\ tx \in [Worker -> Tx]

\* w is between the check of f's family and the end of a rotation, or logs in.
Minting(w, f) == tx[w].fam = f /\ tx[w].pc \in {"jti", "family", "old"}
                 /\ tx[w].op \in {"login", "refresh"}

\* f was revoked or has expired, and no request that saw it active is under way.
Quiet(f) == minted[f] > 0 /\ family[f] # "active" /\ \A w \in Worker : ~Minting(w, f)

\* A revoked or expired family stays dead: whatever a client replays and
\* whichever commands fail, it is never active again and no pair of it is
\* minted or white-listed (revoke_token_family, rotate_refresh_token).
DeadFamiliesStayDead ==
    [][\A f \in Family : Quiet(f) =>
          Quiet(f)' /\ minted'[f] = minted[f] /\ Live(f)' \subseteq Live(f)]_vars
=============================================================================
