------------------------- MODULE AuthHistory_proofs ---------------------------
(***************************************************************************)
(* A family has one token that works unless it was forked, for any number  *)
(* of users, logins and requests.                                          *)
(*                                                                         *)
(* OneLiveToken is not inductive: a rotation that has found its token      *)
(* listed is going to mint another.  Sole therefore speaks of the tokens   *)
(* in hand as well: all of them, and the listed ones, are one token, and   *)
(* while a new one is on its way to the list nothing else is there.  A     *)
(* login starts from nothing since its family has minted nothing (Begun).  *)
(*                                                                         *)
(* The second half says what is taken for a replay.  LifeInv follows a     *)
(* login: what its request knows of the family, which pairs exist, and     *)
(* that the clients' pairs carry numbers already minted.  ReplayInv then   *)
(* says that a pair which is not listed was rotated, used twice, or wiped  *)
(* by a replay before it, and so are the pairs in the hands of requests.   *)
(***************************************************************************)
EXTENDS AuthHistory, AuthSessions_proofs

\* w has a token of f that is listed, was found listed, or is to be listed.
Uses(w, f) ==
    /\ tx[w].fam = f
    /\ tx[w].pc = "jti" \/ (tx[w].op = "refresh" /\ tx[w].pc \in {"live", "old"})

Sole(f) ==
    /\ \A s, t \in Live(f) : s = t
    /\ \A w \in Worker : Uses(w, f) => \A t \in Live(f) : t = tx[w].tok
    /\ \A v, w \in Worker : Uses(v, f) /\ Uses(w, f) => tx[v].tok = tx[w].tok
    /\ \A w \in Worker : Uses(w, f) /\ tx[w].pc = "jti" =>
          Live(f) = {} /\ \A v \in Worker : Uses(v, f) => v = w

SoleInv == ~failed => \A f \in Family \ forked : Sole(f)

Begun ==
    /\ \A t \in refresh \cup held : minted[t[1]] > 0
    /\ \A w \in Worker : tx[w].op \in {"login", "refresh"} => minted[tx[w].fam] > 0

HInv == IInv /\ Begun /\ SoleInv

-----------------------------------------------------------------------------
(* All steps but four do nothing to what a request has in hand.            *)

Keeps(v) ==
    \/ tx'[v].op \notin {"login", "refresh"}
    \/ tx'[v].op = "refresh" /\ tx'[v].pc = "check" /\ \E c \in held : tx'[v].fam = c[1]
    \/ /\ tx'[v].op = tx[v].op /\ tx'[v].fam = tx[v].fam /\ tx'[v].tok = tx[v].tok
       /\ tx'[v].pc = "jti" => tx[v].pc = "jti"
       /\ tx'[v].pc \in {"live", "old"} => tx[v].pc \in {"live", "old"}

Plain ==
    /\ refresh' \subseteq refresh /\ minted' = minted /\ (failed => failed')
    /\ \A c \in held' \ held :
          \E w \in Worker : tx[w].op \in {"login", "refresh"} /\ c = tx[w].tok
    /\ \A v \in Worker : Keeps(v)

LEMMA ReplyFailed ==
    ASSUME NEW ok, Reply(ok)
    PROVE  failed => failed'
BY DEF Reply

LEMMA KeepsOthers ==
    ASSUME TxInv, NEW w \in Worker, NEW t, tx' = [tx EXCEPT ![w] = t], Keeps(w)
    PROVE  \A v \in Worker : Keeps(v)
<1>1. ASSUME NEW v \in Worker, v # w
      PROVE  Keeps(v)
  <2>1. tx'[v] = tx[v]
    BY <1>1 DEF TxInv
  <2> QED
    BY <2>1 DEF Keeps
<1> QED
  BY <1>1

LEMMA DoneKeeps ==
    ASSUME TxInv, NEW w \in Worker, Done(w)
    PROVE  \A v \in Worker : Keeps(v)
<1>1. tx'[w].op = "none"
  BY DEF Done, TxInv, Idle
<1>2. Keeps(w)
  BY <1>1 DEF Keeps
<1> QED
  BY <1>2, KeepsOthers DEF Done

LEMMA GotoKeeps ==
    ASSUME TxInv, NEW w \in Worker, NEW pc, Goto(w, pc), pc # "jti",
           pc \in {"live", "old"} => tx[w].pc \in {"live", "old"}
    PROVE  \A v \in Worker : Keeps(v)
<1> DEFINE t == [tx[w] EXCEPT !.pc = pc]
<1>1. tx'[w] = t /\ t.op = tx[w].op /\ t.fam = tx[w].fam /\ t.tok = tx[w].tok /\ t.pc = pc
  BY DEF Goto, TxInv, Wired, Tx
<1>2. Keeps(w)
  BY <1>1 DEF Keeps
<1> QED
  BY <1>2, KeepsOthers DEF Goto

LEMMA TodoKeeps ==
    ASSUME TxInv, NEW w \in Worker, NEW S, NEW pc, pc \notin {"jti", "live", "old"},
           tx' = [tx EXCEPT ![w] = [tx[w] EXCEPT !.todo = S, !.pc = pc]]
    PROVE  \A v \in Worker : Keeps(v)
<1> DEFINE t == [tx[w] EXCEPT !.todo = S, !.pc = pc]
<1>1. tx'[w] = t /\ t.op = tx[w].op /\ t.fam = tx[w].fam /\ t.tok = tx[w].tok /\ t.pc = pc
  BY DEF TxInv, Wired, Tx
<1>2. Keeps(w)
  BY <1>1 DEF Keeps
<1> QED
  BY <1>2, KeepsOthers

LEMMA BeginPlain ==
    ASSUME IInv, NEW w \in Worker, Begin(w), ~\E f \in Family : IssueTokens(w, f)
    PROVE  Plain
<1> USE DEF IInv
<1>1. ASSUME NEW t, tx' = [tx EXCEPT ![w] = t],
             \/ t.op \in {"revoke", "revoke_all", "logout"}
             \/ t.op = "refresh" /\ t.pc = "check" /\ \E c \in held : t.fam = c[1]
      PROVE  \A v \in Worker : Keeps(v)
  <2>1. tx'[w] = t
    BY <1>1 DEF TxInv
  <2>2. Keeps(w)
    BY <1>1, <2>1 DEF Keeps
  <2> QED
    BY <1>1, <2>2, KeepsOthers
<1>2. ASSUME NEW f \in Family, BeginRevokeSession(w, f)
      PROVE  Plain
  <2> DEFINE t == [Idle EXCEPT !.op = "revoke", !.pc = "own", !.usr = Owner[f], !.fam = f]
  <2>1. tx' = [tx EXCEPT ![w] = t] /\ t.op = "revoke"
    BY <1>2 DEF BeginRevokeSession, Idle
  <2>2. \A v \in Worker : Keeps(v)
    BY <2>1, <1>1
  <2> QED
    BY <1>2, <2>2 DEF Plain, BeginRevokeSession, store
<1>3. ASSUME NEW c \in held, BeginRefresh(w, c)
      PROVE  Plain
  <2> DEFINE t == [Idle EXCEPT !.op = "refresh", !.pc = "check", !.usr = Owner[c[1]],
                               !.fam = c[1], !.tok = c]
  <2>1. tx' = [tx EXCEPT ![w] = t] /\ t.op = "refresh" /\ t.pc = "check" /\ t.fam = c[1]
    BY <1>3 DEF BeginRefresh, Idle
  <2>2. \A v \in Worker : Keeps(v)
    BY <2>1, <1>1
  <2> QED
    BY <1>3, <2>2 DEF Plain, BeginRefresh, store
<1>4. ASSUME NEW c \in held, BeginLogout(w, c)
      PROVE  Plain
  <2> DEFINE t == [Idle EXCEPT !.op = "logout", !.pc = "old", !.usr = Owner[c[1]],
                               !.fam = c[1], !.tok = c]
  <2>1. tx' = [tx EXCEPT ![w] = t] /\ t.op = "logout"
    BY <1>4 DEF BeginLogout, Idle
  <2>2. \A v \in Worker : Keeps(v)
    BY <2>1, <1>1
  <2> QED
    BY <1>4, <2>2 DEF Plain, BeginLogout, store
<1>5. ASSUME NEW u \in User, BeginRevokeAll(w, u)
      PROVE  Plain
  <2> DEFINE t == [Idle EXCEPT !.op = "revoke_all", !.pc = "list", !.usr = u]
  <2>1. tx' = [tx EXCEPT ![w] = t] /\ t.op = "revoke_all"
    BY <1>5 DEF BeginRevokeAll, Idle
  <2>2. \A v \in Worker : Keeps(v)
    BY <2>1, <1>1
  <2> QED
    BY <1>5, <2>2 DEF Plain, BeginRevokeAll, store
<1> QED
  BY <1>2, <1>3, <1>4, <1>5 DEF Begin

LEMMA LoginPlain ==
    ASSUME IInv, NEW w \in Worker, NEW ok \in BOOLEAN, LoginStep(w, ok), ~StoreRefreshJti(w, ok)
    PROVE  Plain
<1>0. TxInv
  BY DEF IInv
<1>1. CASE StoreTokenFamily(w, ok)
  <2>1. \A v \in Worker : Keeps(v)
    BY <1>0, <1>1, GotoKeeps DEF StoreTokenFamily
  <2> QED
    BY <1>1, <2>1, ReplyFailed DEF Plain, StoreTokenFamily
<1>2. CASE EnforceMaxSessions(w, ok)
  <2>1. PICK S \in SUBSET Family, pc \in {"key", "kill"} :
           tx' = [tx EXCEPT ![w] = [tx[w] EXCEPT !.todo = S, !.pc = pc]]
    BY <1>2 DEF EnforceMaxSessions, Oldest, Visible, IInv, StoreInv
  <2>2. \A v \in Worker : Keeps(v)
    BY <1>0, <2>1, TodoKeeps
  <2> QED
    BY <1>2, <2>2, ReplyFailed DEF Plain, EnforceMaxSessions
<1>3. CASE StoreSessionKey(w, ok) \/ StoreSessionIndex(w, ok)
  <2>1. tx[w].op = "login"
    BY <1>0, <1>3 DEF StoreSessionKey, StoreSessionIndex, At, TxInv, Wired
  <2>2. Done(w) \/ Goto(w, "index")
    BY <1>3 DEF StoreSessionKey, StoreSessionIndex, Answer
  <2>3. \A v \in Worker : Keeps(v)
    BY <1>0, <2>2, DoneKeeps, GotoKeeps
  <2>4. held' \subseteq held \cup {tx[w].tok}
    BY <1>3 DEF StoreSessionKey, StoreSessionIndex, Answer
  <2> QED
    BY <1>3, <2>1, <2>3, <2>4, ReplyFailed DEF Plain, StoreSessionKey, StoreSessionIndex
<1> QED
  BY <1>1, <1>2, <1>3 DEF LoginStep

LEMMA RefreshPlain ==
    ASSUME IInv, NEW w \in Worker, NEW ok \in BOOLEAN, RefreshStep(w, ok),
           ~CheckWhitelist(w, ok), ~RotateOld(w, ok)
    PROVE  Plain
<1>0. TxInv
  BY DEF IInv
<1>1. CASE CheckFamily(w, ok)
  <2>1. tx[w].pc = "live" /\ (Done(w) \/ Goto(w, "old"))
    BY <1>1 DEF CheckFamily, At
  <2>2. \A v \in Worker : Keeps(v)
    BY <1>0, <2>1, DoneKeeps, GotoKeeps
  <2> QED
    BY <1>1, <2>2, ReplyFailed DEF Plain, CheckFamily, store
<1>2. CASE DetectReplay(w, ok)
  <2>1. \A v \in Worker : Keeps(v)
    BY <1>0, <1>2, DoneKeeps, GotoKeeps DEF DetectReplay
  <2> QED
    BY <1>2, <2>1, ReplyFailed DEF Plain, DetectReplay, store
<1>3. CASE RevokeAllRefreshTokens(w, ok)
  <2>1. \A v \in Worker : Keeps(v)
    BY <1>0, <1>3, DoneKeeps DEF RevokeAllRefreshTokens
  <2> QED
    BY <1>3, <2>1, ReplyFailed DEF Plain, RevokeAllRefreshTokens
<1> QED
  BY <1>1, <1>2, <1>3 DEF RefreshStep

LEMMA RevokePlain ==
    ASSUME IInv, NEW w \in Worker, NEW ok \in BOOLEAN, RevokeStep(w, ok)
    PROVE  Plain
<1>0. TxInv
  BY DEF IInv
<1>1. ASSUME UNCHANGED <<minted, held>>, Reply(ok), refresh' \subseteq refresh,
             \/ Done(w)
             \/ \E pc \in {"kill", "own", "unindex", "wipe", "list", "drop", "members"} : Goto(w, pc)
             \/ \E S : \E pc \in {"members", "kill", "key"} :
                  tx' = [tx EXCEPT ![w] = [tx[w] EXCEPT !.todo = S, !.pc = pc]]
      PROVE  Plain
  <2>1. \A v \in Worker : Keeps(v)
    BY <1>0, <1>1, DoneKeeps, GotoKeeps, TodoKeeps
  <2> QED
    BY <1>1, <2>1, ReplyFailed DEF Plain
<1>2. CASE RevokeRefreshJti(w, ok)
  BY <1>1, <1>2 DEF RevokeRefreshJti
<1>3. CASE FindSession(w, ok)
  BY <1>1, <1>3 DEF FindSession
<1>4. CASE GetSession(w, ok)
  <2>1. \/ Done(w)
        \/ \E S : \E pc \in {"members", "kill", "key"} :
             tx' = [tx EXCEPT ![w] = [tx[w] EXCEPT !.todo = S, !.pc = pc]]
    BY <1>4 DEF GetSession
  <2> QED
    BY <1>1, <1>4, <2>1 DEF GetSession, store
<1>5. CASE ListForRevokeAll(w, ok)
  <2>1. \E S : \E pc \in {"members", "kill", "key"} :
           tx' = [tx EXCEPT ![w] = [tx[w] EXCEPT !.todo = S, !.pc = pc]]
    BY <1>5 DEF ListForRevokeAll
  <2> QED
    BY <1>1, <1>5, <2>1 DEF ListForRevokeAll
<1>6. CASE DeleteAllUserSessions(w, ok) \/ DeleteUserIndex(w, ok)
  BY <1>1, <1>6 DEF DeleteAllUserSessions, DeleteUserIndex
<1>7. ASSUME NEW f \in Family, RevokeFamily(w, f, ok)
      PROVE  Plain
  <2>1. \/ \E pc \in {"kill", "own", "unindex", "wipe", "list", "drop", "members"} : Goto(w, pc)
        \/ \E S : \E pc \in {"members", "kill", "key"} :
             tx' = [tx EXCEPT ![w] = [tx[w] EXCEPT !.todo = S, !.pc = pc]]
    BY <1>7 DEF RevokeFamily, AfterKill
  <2> QED
    BY <1>1, <1>7, <2>1 DEF RevokeFamily
<1>8. ASSUME NEW f \in Family, DropSession(w, f, ok)
      PROVE  Plain
  <2>1. \/ Done(w)
        \/ \E S : \E pc \in {"members", "kill", "key"} :
             tx' = [tx EXCEPT ![w] = [tx[w] EXCEPT !.todo = S, !.pc = pc]]
    BY <1>8 DEF DropSession
  <2> QED
    BY <1>1, <1>8, <2>1 DEF DropSession
<1> QED
  BY <1>2, <1>3, <1>4, <1>5, <1>6, <1>7, <1>8 DEF RevokeStep

LEMMA OtherPlain ==
    ASSUME IInv,
           \/ \E w \in Worker : Crash(w)
           \/ \E u \in User : ListSessions(u)
           \/ \E f \in Family : ExpireFamily(f)
           \/ UNCHANGED vars
    PROVE  Plain
<1>0. TxInv
  BY DEF IInv
<1>1. ASSUME NEW w \in Worker, Crash(w)
      PROVE  Plain
  <2>1. \A v \in Worker : Keeps(v)
    BY <1>0, <1>1, DoneKeeps DEF Crash
  <2> QED
    BY <1>1, <2>1 DEF Plain, Crash, store
<1>2. CASE ~\E w \in Worker : Crash(w)
  <2>1. UNCHANGED <<tx, minted, failed>> /\ refresh' \subseteq refresh /\ held' \subseteq held
    BY <1>2 DEF ListSessions, ExpireFamily, vars, store
  <2>2. \A v \in Worker : Keeps(v)
    BY <2>1 DEF Keeps
  <2> QED
    BY <2>1, <2>2 DEF Plain
<1> QED
  BY <1>1, <1>2

\* The steps that matter, and all others.
LEMMA StepShape ==
    ASSUME IInv, [Next]_vars
    PROVE  \/ Plain
           \/ \E w \in Worker :
                \/ \E f \in Family : IssueTokens(w, f)
                \/ \E ok \in BOOLEAN :
                     StoreRefreshJti(w, ok) \/ CheckWhitelist(w, ok) \/ RotateOld(w, ok)
BY BeginPlain, LoginPlain, RefreshPlain, RevokePlain, OtherPlain DEF Next

-----------------------------------------------------------------------------
(* A family whose pairs exist has minted them.                             *)

LEMMA BegunStep ==
    ASSUME IInv, Begun, [Next]_vars
    PROVE  Begun'
<1>0. TxInv /\ IInv' /\ minted \in [Family -> Nat]
  BY StepTypes DEF IInv, CountInv
<1>1. CASE Plain
  <2>1. ASSUME NEW v \in Worker, tx'[v].op \in {"login", "refresh"}
        PROVE  minted'[tx'[v].fam] > 0
    BY <1>1, <2>1 DEF Plain, Keeps, Begun
  <2>2. ASSUME NEW c \in refresh' \cup held'
        PROVE  minted'[c[1]] > 0
    <3>1. CASE c \in refresh \cup held
      BY <1>1, <3>1 DEF Plain, Begun
    <3>2. CASE c \in held' \ held
      <4>1. PICK w \in Worker : tx[w].op \in {"login", "refresh"} /\ c = tx[w].tok
        BY <1>1, <3>2 DEF Plain
      <4>2. c[1] = tx[w].fam
        BY <1>0, <4>1 DEF TxInv, Wired
      <4> QED
        BY <1>1, <4>1, <4>2 DEF Plain, Begun
    <3> QED
      BY <1>1, <2>2, <3>1, <3>2 DEF Plain
  <2> QED
    BY <2>1, <2>2 DEF Begun
<1>2. ASSUME NEW w \in Worker, NEW f \in Family, IssueTokens(w, f)
      PROVE  Begun'
  <2>1. minted' = [minted EXCEPT ![f] = 1] /\ UNCHANGED <<refresh, held>>
    BY <1>2 DEF IssueTokens, store
  <2>2. \A v \in Worker : v = w \/ tx'[v] = tx[v]
    BY <1>0, <1>2 DEF IssueTokens, TxInv
  <2>3. tx'[w].fam = f
    BY <1>0, <1>2 DEF IssueTokens, TxInv, Idle
  <2>4. \A t \in refresh \cup held : t[1] \in Family
    BY DEF IInv, StoreInv, Token
  <2>5. \A v \in Worker : tx[v].op \in {"login", "refresh"} => tx[v].fam \in Family
    BY <1>0 DEF TxInv, Wired
  <2> QED
    BY <1>0, <2>1, <2>2, <2>3, <2>4, <2>5 DEF Begun
<1>3. ASSUME NEW w \in Worker, NEW ok \in BOOLEAN, StoreRefreshJti(w, ok)
      PROVE  Begun'
  <2>1. tx[w].op \in {"login", "refresh"} /\ tx[w].tok[1] = tx[w].fam
    BY <1>0, <1>3 DEF StoreRefreshJti, At, TxInv, Wired
  <2>2. refresh' \subseteq refresh \cup {tx[w].tok} /\ held' \subseteq held \cup {tx[w].tok}
        /\ UNCHANGED minted
    BY <1>3 DEF StoreRefreshJti, Answer
  <2>3. Done(w) \/ Goto(w, "family")
    BY <1>3 DEF StoreRefreshJti, Answer
  <2>4. \A v \in Worker : Keeps(v)
    BY <1>0, <2>3, DoneKeeps, GotoKeeps
  <2>5. \A v \in Worker : tx'[v].op \in {"login", "refresh"} => minted'[tx'[v].fam] > 0
    BY <2>2, <2>4 DEF Keeps, Begun
  <2> QED
    BY <2>1, <2>2, <2>5 DEF Begun
<1>4. ASSUME NEW w \in Worker, NEW ok \in BOOLEAN, CheckWhitelist(w, ok)
      PROVE  Begun'
  <2>1. UNCHANGED <<refresh, held, minted>>
    BY <1>4 DEF CheckWhitelist, store
  <2>2. \A v \in Worker : tx'[v].op = tx[v].op /\ tx'[v].fam = tx[v].fam
    BY <1>0, <1>4 DEF CheckWhitelist, Goto, TxInv, Wired, Tx
  <2> QED
    BY <2>1, <2>2 DEF Begun
<1>5. ASSUME NEW w \in Worker, NEW ok \in BOOLEAN, RotateOld(w, ok)
      PROVE  Begun'
  <2> DEFINE g == tx[w].fam
  <2>1. g \in Family /\ minted' = [minted EXCEPT ![g] = minted[g] + 1] /\ held' = held
        /\ refresh' \subseteq refresh
    BY <1>0, <1>5 DEF RotateOld, TxInv, Wired
  <2>2. \A h \in Family : minted'[h] >= minted[h]
    BY <1>0, <2>1
  <2>3. \A v \in Worker : tx'[v].op = tx[v].op /\ tx'[v].fam = tx[v].fam
    BY <1>0, <1>5 DEF RotateOld, TxInv, Wired, Tx
  <2>4. \A t \in refresh \cup held : t[1] \in Family
    BY DEF IInv, StoreInv, Token
  <2>5. \A v \in Worker : tx[v].op \in {"login", "refresh"} => tx[v].fam \in Family
    BY <1>0 DEF TxInv, Wired
  <2>6. minted' \in [Family -> Nat]
    BY <1>0 DEF IInv, CountInv
  <2> QED
    BY <1>0, <2>1, <2>2, <2>3, <2>4, <2>5, <2>6 DEF Begun
<1> QED
  BY <1>1, <1>2, <1>3, <1>4, <1>5, StepShape

-----------------------------------------------------------------------------
(* One token in hand or listed.                                            *)

\* A step that lists no token of f and gives no request one to use.
LEMMA SoleStays ==
    ASSUME NEW f \in Family, Sole(f), Live(f)' \subseteq Live(f),
           \A v \in Worker : Uses(v, f)' =>
              Uses(v, f) /\ tx'[v].tok = tx[v].tok /\ (tx'[v].pc = "jti" => tx[v].pc = "jti")
    PROVE  Sole(f)'
BY DEF Sole

LEMMA PlainSole ==
    ASSUME IInv, IInv', NEW f \in Family, Sole(f), Plain
    PROVE  Sole(f)'
<1>1. Live(f)' \subseteq Live(f)
  BY DEF Plain, Live
<1>2. ASSUME NEW v \in Worker, Uses(v, f)'
      PROVE  Uses(v, f) /\ tx'[v].tok = tx[v].tok /\ (tx'[v].pc = "jti" => tx[v].pc = "jti")
  <2>1. Keeps(v) /\ tx'[v] \in Wired /\ tx[v] \in Wired
    BY DEF Plain, IInv, TxInv
  <2> QED
    BY <1>2, <2>1 DEF Keeps, Uses, Wired
<1> QED
  BY <1>1, <1>2, SoleStays

LEMMA LoginSole ==
    ASSUME IInv, Begun, NEW f \in Family, Sole(f),
           NEW w \in Worker, NEW g \in Family, IssueTokens(w, g)
    PROVE  Sole(f)'
<1>0. TxInv /\ \A v \in Worker : v = w \/ tx'[v] = tx[v]
  BY DEF IInv, TxInv, IssueTokens
<1>1. Live(f)' = Live(f) /\ tx'[w].fam = g
  BY <1>0 DEF IssueTokens, store, Live, TxInv, Idle
<1>2. CASE g # f
  <2>1. ~Uses(w, f)'
    BY <1>1, <1>2 DEF Uses
  <2>2. \A v \in Worker : Uses(v, f)' =>
           Uses(v, f) /\ tx'[v].tok = tx[v].tok /\ (tx'[v].pc = "jti" => tx[v].pc = "jti")
    BY <1>0, <2>1 DEF Uses
  <2> QED
    BY <1>1, <2>2, SoleStays
<1>3. CASE g = f
  <2>1. minted[f] = 0
    BY <1>3 DEF IssueTokens, Fresh
  <2>2. Live(f) = {}
    BY <2>1 DEF Begun, Live
  <2>3. \A v \in Worker : ~Uses(v, f)
    BY <1>0, <2>1 DEF Begun, Uses, TxInv, Wired
  <2>4. \A v \in Worker : Uses(v, f)' => v = w
    BY <1>0, <2>3 DEF Uses
  <2> QED
    BY <1>1, <2>2, <2>4 DEF Sole
<1> QED
  BY <1>2, <1>3

LEMMA StoreSole ==
    ASSUME IInv, NEW f \in Family, Sole(f),
           NEW w \in Worker, NEW ok \in BOOLEAN, StoreRefreshJti(w, ok)
    PROVE  Sole(f)'
<1> DEFINE u == tx[w].tok
<1>0. TxInv /\ tx[w].pc = "jti" /\ u[1] = tx[w].fam
  BY DEF IInv, TxInv, StoreRefreshJti, At, Wired
<1>1. Done(w) \/ Goto(w, "family")
  BY DEF StoreRefreshJti, Answer
<1>2. tx'[w].pc \in {"idle", "family"}
  BY <1>0, <1>1 DEF Done, Goto, Idle, TxInv, Wired, Tx
<1>3. \A v \in Worker : v = w \/ tx'[v] = tx[v]
  BY <1>0, <1>1 DEF Done, Goto, TxInv
<1>4. \A v \in Worker : Uses(v, f)' => v # w /\ Uses(v, f)
  BY <1>2, <1>3 DEF Uses
<1>5. refresh' \subseteq refresh \cup {u}
  BY DEF StoreRefreshJti
<1>6. CASE tx[w].fam = f
  <2>1. Uses(w, f)
    BY <1>0, <1>6 DEF Uses
  <2>2. Live(f) = {} /\ \A v \in Worker : Uses(v, f) => v = w
    BY <1>0, <2>1 DEF Sole
  <2>3. \A t \in Live(f)' : t = u
    BY <1>5, <2>2 DEF Live
  <2>4. \A v \in Worker : ~Uses(v, f)'
    BY <1>4, <2>2
  <2> QED
    BY <2>3, <2>4 DEF Sole
<1>7. CASE tx[w].fam # f
  <2>1. Live(f)' \subseteq Live(f)
    BY <1>0, <1>5, <1>7 DEF Live
  <2> QED
    BY <1>3, <1>4, <2>1, SoleStays
<1> QED
  BY <1>6, <1>7

LEMMA CheckSole ==
    ASSUME IInv, NEW f \in Family, Sole(f),
           NEW w \in Worker, NEW ok \in BOOLEAN, CheckWhitelist(w, ok)
    PROVE  Sole(f)'
<1> DEFINE u == tx[w].tok
<1>0. TxInv /\ tx[w].op = "refresh" /\ u[1] = tx[w].fam
  BY DEF IInv, TxInv, CheckWhitelist, At, Wired
<1>1. PICK pc \in {"live", "suspect"} : Goto(w, pc) /\ (pc = "live" => u \in refresh)
  BY DEF CheckWhitelist
<1>2. /\ tx'[w].pc = pc /\ tx'[w].fam = tx[w].fam /\ tx'[w].tok = u
      /\ \A v \in Worker : v = w \/ tx'[v] = tx[v]
  BY <1>0, <1>1 DEF Goto, TxInv, Wired, Tx
<1>3. Live(f)' = Live(f)
  BY DEF CheckWhitelist, store, Live
<1>4. CASE pc = "live" /\ tx[w].fam = f
  <2>1. u \in Live(f)
    BY <1>0, <1>1, <1>4 DEF Live
  <2>2. \A t \in Live(f) : t = u
    BY <2>1 DEF Sole
  <2>3. \A v \in Worker : Uses(v, f) => tx[v].tok = u /\ tx[v].pc # "jti"
    BY <2>1 DEF Sole
  <2>4. \A v \in Worker : Uses(v, f)' => tx'[v].tok = u /\ tx'[v].pc # "jti"
    BY <1>2, <1>4, <2>3 DEF Uses
  <2> QED
    BY <1>3, <2>2, <2>4 DEF Sole
<1>5. CASE ~(pc = "live" /\ tx[w].fam = f)
  <2>1. ~Uses(w, f)'
    BY <1>2, <1>5 DEF Uses
  <2>2. \A v \in Worker : Uses(v, f)' =>
           Uses(v, f) /\ tx'[v].tok = tx[v].tok /\ (tx'[v].pc = "jti" => tx[v].pc = "jti")
    BY <1>2, <2>1 DEF Uses
  <2> QED
    BY <1>3, <2>2, SoleStays
<1> QED
  BY <1>4, <1>5

\* The rotation of a token that no other request has in hand.
LEMMA RotateSole ==
    ASSUME IInv, NEW f \in Family, Sole(f),
           NEW w \in Worker, RotateOld(w, TRUE), f = tx[w].fam => ~Forks(w)
    PROVE  Sole(f)'
<1> DEFINE u == tx[w].tok
<1>0. TxInv /\ tx[w].op = "refresh" /\ tx[w].pc = "old"
  BY DEF IInv, RotateOld, At
<1>1. /\ tx'[w].pc = "jti" /\ tx'[w].fam = tx[w].fam
      /\ \A v \in Worker : v = w \/ tx'[v] = tx[v]
  BY <1>0 DEF RotateOld, TxInv, Wired, Tx
<1>2. refresh' = refresh \ {u}
  BY DEF RotateOld
<1>3. CASE tx[w].fam = f
  <2>1. Uses(w, f)
    BY <1>0, <1>3 DEF Uses
  <2>2. \A t \in Live(f) : t = u
    BY <2>1 DEF Sole
  <2>3. Live(f)' = {}
    BY <1>2, <2>2 DEF Live
  <2>4. ASSUME NEW v \in Worker, v # w
        PROVE  ~Uses(v, f)
    <3>1. Uses(v, f) => tx[v].tok = u /\ tx[v].pc # "jti"
      BY <1>0, <2>1, <2>4 DEF Sole
    <3>2. Uses(v, f) => Forks(w)
      BY <1>0, <2>4, <3>1 DEF Uses, Forks, At
    <3> QED
      BY <1>3, <3>2
  <2>5. \A v \in Worker : Uses(v, f)' => v = w
    BY <1>1, <2>4 DEF Uses
  <2> QED
    BY <2>3, <2>5 DEF Sole
<1>4. CASE tx[w].fam # f
  <2>1. \A v \in Worker : Uses(v, f)' =>
           Uses(v, f) /\ tx'[v].tok = tx[v].tok /\ (tx'[v].pc = "jti" => tx[v].pc = "jti")
    BY <1>1, <1>4 DEF Uses
  <2>2. Live(f)' \subseteq Live(f)
    BY <1>2 DEF Live
  <2> QED
    BY <2>1, <2>2, SoleStays
<1> QED
  BY <1>3, <1>4

LEMMA SoleStep ==
    ASSUME HInv, [HNext]_hvars
    PROVE  HInv'
<1>0. IInv /\ Begun /\ [Next]_vars
  BY DEF HInv, HNext, hvars
<1>1. IInv' /\ Begun'
  BY <1>0, StepTypes, BegunStep
<1>2. forked \subseteq forked'
  BY DEF HNext, hvars
<1>3. ASSUME ~failed', NEW f \in Family \ forked'
      PROVE  Sole(f)'
  <2>1. ~failed => Sole(f)
    BY <1>2, <1>3 DEF HInv, SoleInv
  <2>2. CASE Plain
    BY <1>0, <1>1, <1>3, <2>1, <2>2, PlainSole DEF Plain
  <2>3. ASSUME NEW w \in Worker, NEW g \in Family, IssueTokens(w, g)
        PROVE  Sole(f)'
    BY <1>0, <1>3, <2>1, <2>3, LoginSole DEF IssueTokens
  <2>4. ASSUME NEW w \in Worker, NEW ok \in BOOLEAN, StoreRefreshJti(w, ok)
        PROVE  Sole(f)'
    BY <1>0, <1>3, <2>1, <2>4, ReplyFailed, StoreSole DEF StoreRefreshJti
  <2>5. ASSUME NEW w \in Worker, NEW ok \in BOOLEAN, CheckWhitelist(w, ok)
        PROVE  Sole(f)'
    BY <1>0, <1>3, <2>1, <2>5, ReplyFailed, CheckSole DEF CheckWhitelist
  <2>6. ASSUME NEW w \in Worker, NEW ok \in BOOLEAN, RotateOld(w, ok)
        PROVE  Sole(f)'
    <3>1. ok = TRUE /\ ~failed
      BY <1>3, <2>6, ReplyFailed DEF RotateOld, Reply
    <3>2. Moved(w)
      <4>1. tx'[w].pc = "jti" /\ tx[w].pc = "old"
        BY <1>0, <2>6 DEF RotateOld, At, IInv, TxInv, Wired, Tx
      <4> QED
        BY <4>1 DEF Moved
    <3>3. tx # tx'
      BY <3>2 DEF Moved
    <3>4. HNext
      BY <3>3 DEF hvars, vars
    <3>5. f = tx[w].fam => ~Forks(w)
      BY <1>3, <3>2, <3>4 DEF HNext
    <3> QED
      BY <1>0, <1>3, <2>1, <2>6, <3>1, <3>5, RotateSole
  <2> QED
    BY <1>0, <2>2, <2>3, <2>4, <2>5, <2>6, StepShape
<1> QED
  BY <1>1, <1>3 DEF HInv, SoleInv

LEMMA SoleInit == HInit => HInv
<1> SUFFICES ASSUME HInit PROVE HInv
  OBVIOUS
<1>1. IInv
  BY InitTypes DEF HInit
<1>2. Begun
  BY DEF HInit, Init, Begun, Idle
<1>3. \A f \in Family : Sole(f)
  BY DEF HInit, Init, Sole, Live, Uses, Idle
<1> QED
  BY <1>1, <1>2, <1>3 DEF HInv, SoleInv

\* A family has one refresh token that works, unless two requests used one
\* token at once or a command failed (rotate_refresh_token).
THEOREM OneTokenPerFamily == HSpec => []OneLiveToken
<1>1. HInv => OneLiveToken
  BY DEF HInv, SoleInv, Sole, OneLiveToken
<1> QED
  BY <1>1, SoleInit, SoleStep, PTL DEF HSpec

-----------------------------------------------------------------------------
(* The life of a login, which the other properties rest on.                *)

\* What a request in hand knows of its family.
Serves(w) ==
    /\ tx[w].fam \in Family => tx[w].usr = Owner[tx[w].fam]
    /\ tx[w].op = "refresh" => Held(tx[w].fam) # {}
    /\ tx[w].op = "login" =>
         /\ Held(tx[w].fam) = {} /\ tx[w].fam \notin index
         /\ tx[w].pc \in {"jti", "family"} <=> since[tx[w].fam] = 0

\* A family has one login.
OneLogin ==
    \A v, w \in Worker :
      tx[v].op = "login" /\ tx[w].op = "login" /\ tx[v].fam = tx[w].fam => v = w

\* What a family has, its login gave it, in this order.
Grown(f) ==
    /\ minted[f] = 0 => since[f] = 0
    /\ f \in session \cup index \/ Held(f) # {} => since[f] > 0

\* No two sessions were created at the same time.
Clock ==
    LET S == {g \in Family : since[g] > 0}
    IN  /\ \A f \in Family : since[f] <= Cardinality(S)
        /\ \A f, g \in S : since[f] = since[g] => f = g

LifeInv == (\A w \in Worker : Serves(w)) /\ OneLogin /\ (\A f \in Family : Grown(f)) /\ Clock

BaseInv == IInv /\ Begun /\ LifeInv

-----------------------------------------------------------------------------
(* Most steps only take away, and move a request that is no login's start. *)

OnlyMoves(w) == \A v \in Worker \ {w} : tx'[v] = tx[v]

Ends(w) == tx'[w] = Idle

Goes(w) ==
    /\ tx'[w].op = tx[w].op /\ tx'[w].usr = tx[w].usr
    /\ tx'[w].fam = tx[w].fam /\ tx'[w].tok = tx[w].tok

Opens(w) ==
    /\ tx[w].op = "none" /\ tx'[w].todo = {}
    /\ \/ /\ tx'[w].op = "refresh" /\ tx'[w].pc = "check"
          /\ tx'[w].tok \in held /\ tx'[w].fam = tx'[w].tok[1] /\ tx'[w].usr = Owner[tx'[w].fam]
       \/ tx'[w].op = "logout" /\ tx'[w].pc = "old" /\ tx'[w].usr = Owner[tx'[w].fam]
       \/ tx'[w].op = "revoke" /\ tx'[w].pc = "own" /\ tx'[w].usr = Owner[tx'[w].fam]
       \/ tx'[w].op = "revoke_all" /\ tx'[w].pc = "list" /\ tx'[w].fam = NoFamily

Starting == {"jti", "family"}

Steady(w) ==
    \/ tx'[w] = tx[w] \/ Ends(w) \/ Opens(w)
    \/ Goes(w) /\ tx[w].pc \notin Starting /\ tx'[w].pc \notin Starting

Shrinks ==
    /\ refresh' \subseteq refresh /\ session' \subseteq session /\ index' \subseteq index
    /\ \A f \in Family : family'[f] = "active" => family[f] = "active"
    /\ UNCHANGED <<minted, since>> /\ (failed => failed')

Calm == Shrinks /\ held' = held /\ \A w \in Worker : Steady(w)

LEMMA DoneShape ==
    ASSUME TxInv, NEW w \in Worker, Done(w)
    PROVE  OnlyMoves(w) /\ Ends(w)
BY DEF TxInv, Done, OnlyMoves, Ends

LEMMA TodoShape ==
    ASSUME TxInv, NEW w \in Worker, NEW S, NEW pc,
           tx' = [tx EXCEPT ![w] = [tx[w] EXCEPT !.todo = S, !.pc = pc]]
    PROVE  OnlyMoves(w) /\ Goes(w) /\ tx'[w].pc = pc /\ tx'[w].todo = S
<1> DEFINE t == [tx[w] EXCEPT !.todo = S, !.pc = pc]
<1>1. tx'[w] = t /\ OnlyMoves(w)
  BY DEF TxInv, OnlyMoves
<1>2. /\ t.op = tx[w].op /\ t.usr = tx[w].usr /\ t.fam = tx[w].fam /\ t.tok = tx[w].tok
      /\ t.pc = pc /\ t.todo = S
  BY DEF TxInv, Wired, Tx
<1> HIDE DEF t
<1> QED
  BY <1>1, <1>2 DEF Goes

LEMMA GotoShape ==
    ASSUME TxInv, NEW w \in Worker, NEW pc, Goto(w, pc)
    PROVE  OnlyMoves(w) /\ Goes(w) /\ tx'[w].pc = pc /\ tx'[w].todo = tx[w].todo
<1> DEFINE t == [tx[w] EXCEPT !.pc = pc]
<1>1. tx'[w] = t /\ OnlyMoves(w)
  BY DEF TxInv, OnlyMoves, Goto
<1>2. /\ t.op = tx[w].op /\ t.usr = tx[w].usr /\ t.fam = tx[w].fam /\ t.tok = tx[w].tok
      /\ t.pc = pc /\ t.todo = tx[w].todo
  BY DEF TxInv, Wired, Tx
<1> HIDE DEF t
<1> QED
  BY <1>1, <1>2 DEF Goes

LEMMA OpenShape ==
    ASSUME IInv, NEW w \in Worker, Begin(w), ~\E f \in Family : IssueTokens(w, f)
    PROVE  /\ OnlyMoves(w) /\ Opens(w)
           /\ UNCHANGED <<store, minted, since, held, failed>>
<1>0. TxInv /\ (tx[w].pc = "idle" => tx[w].op = "none")
  BY DEF IInv, TxInv, Wired
<1>1. ASSUME NEW t, tx' = [tx EXCEPT ![w] = t]
      PROVE  tx'[w] = t /\ OnlyMoves(w)
  BY <1>0, <1>1 DEF TxInv, OnlyMoves
<1>2. ASSUME NEW f \in Family, BeginRevokeSession(w, f)
      PROVE  OnlyMoves(w) /\ Opens(w)
  <2> DEFINE t == [Idle EXCEPT !.op = "revoke", !.pc = "own", !.usr = Owner[f], !.fam = f]
  <2>1. /\ tx' = [tx EXCEPT ![w] = t] /\ t.op = "revoke" /\ t.pc = "own" /\ t.todo = {}
        /\ t.usr = Owner[f] /\ t.fam = f
    BY <1>2 DEF BeginRevokeSession, Idle
  <2> HIDE DEF t
  <2> QED
    BY <1>0, <1>1, <1>2, <2>1 DEF Opens, BeginRevokeSession, At
<1>3. ASSUME NEW c \in held, BeginRefresh(w, c)
      PROVE  OnlyMoves(w) /\ Opens(w)
  <2> DEFINE t == [Idle EXCEPT !.op = "refresh", !.pc = "check", !.usr = Owner[c[1]],
                               !.fam = c[1], !.tok = c]
  <2>1. /\ tx' = [tx EXCEPT ![w] = t] /\ t.op = "refresh" /\ t.pc = "check" /\ t.todo = {}
        /\ t.usr = Owner[c[1]] /\ t.fam = c[1] /\ t.tok = c
    BY <1>3 DEF BeginRefresh, Idle
  <2> HIDE DEF t
  <2> QED
    BY <1>0, <1>1, <1>3, <2>1 DEF Opens, BeginRefresh, At
<1>4. ASSUME NEW c \in held, BeginLogout(w, c)
      PROVE  OnlyMoves(w) /\ Opens(w)
  <2> DEFINE t == [Idle EXCEPT !.op = "logout", !.pc = "old", !.usr = Owner[c[1]],
                               !.fam = c[1], !.tok = c]
  <2>1. /\ tx' = [tx EXCEPT ![w] = t] /\ t.op = "logout" /\ t.pc = "old" /\ t.todo = {}
        /\ t.usr = Owner[c[1]] /\ t.fam = c[1]
    BY <1>4 DEF BeginLogout, Idle
  <2> HIDE DEF t
  <2> QED
    BY <1>0, <1>1, <1>4, <2>1 DEF Opens, BeginLogout, At
<1>5. ASSUME NEW u \in User, BeginRevokeAll(w, u)
      PROVE  OnlyMoves(w) /\ Opens(w)
  <2> DEFINE t == [Idle EXCEPT !.op = "revoke_all", !.pc = "list", !.usr = u]
  <2>1. /\ tx' = [tx EXCEPT ![w] = t] /\ t.op = "revoke_all" /\ t.pc = "list" /\ t.todo = {}
        /\ t.fam = NoFamily
    BY <1>5 DEF BeginRevokeAll, Idle
  <2> HIDE DEF t
  <2> QED
    BY <1>0, <1>1, <1>5, <2>1 DEF Opens, BeginRevokeAll, At
<1>6. UNCHANGED <<store, minted, since, held, failed>>
  BY DEF Begin, BeginRevokeSession, BeginRefresh, BeginLogout, BeginRevokeAll
<1> QED
  BY <1>2, <1>3, <1>4, <1>5, <1>6 DEF Begin

LEMMA CalmMove ==
    ASSUME NEW w \in Worker, OnlyMoves(w), Shrinks, held' = held,
           \/ Ends(w) \/ Opens(w)
           \/ Goes(w) /\ tx[w].pc \notin Starting /\ tx'[w].pc \notin Starting
    PROVE  Calm
BY DEF Calm, OnlyMoves, Steady

LEMMA CalmStore ==
    ASSUME IInv, NEW ok, NEW u, NEW f \in Family
    PROVE  /\ ListUserSessions(u, ok) => index' \subseteq index
           /\ RevokeTokenFamily(f, ok) =>
                \A g \in Family : family'[g] = "active" => family[g] = "active"
           /\ DeleteSession(f, ok) => session' \subseteq session /\ index' \subseteq index
BY DEF IInv, StoreInv, ListUserSessions, RevokeTokenFamily, DeleteSession

LEMMA RefreshCalm ==
    ASSUME IInv, NEW w \in Worker, NEW ok \in BOOLEAN, RefreshStep(w, ok), ~RotateOld(w, ok)
    PROVE  Calm
<1>0. TxInv
  BY DEF IInv
<1>1. tx[w].pc \in {"check", "live", "suspect", "wipe"}
  BY DEF RefreshStep, CheckWhitelist, CheckFamily, DetectReplay, RevokeAllRefreshTokens, At
<1>2. Done(w) \/ \E pc \in {"live", "suspect", "old", "kill"} : Goto(w, pc)
  BY DEF RefreshStep, CheckWhitelist, CheckFamily, DetectReplay, RevokeAllRefreshTokens
<1>3. Shrinks /\ held' = held
  BY ReplyFailed DEF Shrinks, RefreshStep, CheckWhitelist, CheckFamily, DetectReplay,
     RevokeAllRefreshTokens, store
<1> QED
  BY <1>0, <1>1, <1>2, <1>3, DoneShape, GotoShape, CalmMove DEF Starting

LEMMA EnforceCalm ==
    ASSUME IInv, NEW w \in Worker, NEW ok \in BOOLEAN, EnforceMaxSessions(w, ok)
    PROVE  Calm
<1>0. TxInv
  BY DEF IInv
<1>1. PICK S \in SUBSET Family, pc \in {"key", "kill"} :
         tx' = [tx EXCEPT ![w] = [tx[w] EXCEPT !.todo = S, !.pc = pc]]
  BY DEF EnforceMaxSessions, Oldest, Visible, IInv, StoreInv
<1>2. Shrinks /\ held' = held
  BY ReplyFailed DEF Shrinks, EnforceMaxSessions, ListUserSessions
<1>3. OnlyMoves(w) /\ Goes(w) /\ tx'[w].pc = pc
  BY <1>0, <1>1, TodoShape
<1>4. tx[w].pc = "list"
  BY DEF EnforceMaxSessions, At
<1> QED
  BY <1>2, <1>3, <1>4, CalmMove DEF Starting

LEMMA RevokeCalm ==
    ASSUME IInv, NEW w \in Worker, NEW ok \in BOOLEAN, RevokeStep(w, ok)
    PROVE  Calm
<1>0. TxInv
  BY DEF IInv
<1>1. ASSUME Shrinks, held' = held, tx[w].pc \notin Starting,
             \/ Done(w)
             \/ \E pc \in {"kill", "own", "unindex", "wipe", "list", "drop", "members"} : Goto(w, pc)
             \/ \E S : \E pc \in {"members", "kill", "key"} :
                  tx' = [tx EXCEPT ![w] = [tx[w] EXCEPT !.todo = S, !.pc = pc]]
      PROVE  Calm
  <2>1. CASE Done(w)
    BY <1>0, <1>1, <2>1, DoneShape, CalmMove
  <2>2. ASSUME NEW pc \in {"kill", "own", "unindex", "wipe", "list", "drop", "members"}, Goto(w, pc)
        PROVE  Calm
    BY <1>0, <1>1, <2>2, GotoShape, CalmMove DEF Starting
  <2>3. ASSUME NEW S, NEW pc \in {"members", "kill", "key"},
               tx' = [tx EXCEPT ![w] = [tx[w] EXCEPT !.todo = S, !.pc = pc]]
        PROVE  Calm
    <3>1. OnlyMoves(w) /\ Goes(w) /\ tx'[w].pc = pc
      BY <1>0, <2>3, TodoShape
    <3> QED
      BY <1>1, <3>1, CalmMove DEF Starting
  <2> QED
    BY <1>1, <2>1, <2>2, <2>3
<1>2. CASE RevokeRefreshJti(w, ok)
  BY <1>1, <1>2, ReplyFailed DEF RevokeRefreshJti, Shrinks, At, Starting
<1>3. CASE FindSession(w, ok)
  BY <1>1, <1>3, ReplyFailed DEF FindSession, Shrinks, ListUserSessions, At, Starting
<1>4. CASE GetSession(w, ok)
  <2>1. \/ Done(w)
        \/ \E S : \E pc \in {"members", "kill", "key"} :
             tx' = [tx EXCEPT ![w] = [tx[w] EXCEPT !.todo = S, !.pc = pc]]
    BY <1>4 DEF GetSession
  <2> QED
    BY <1>1, <1>4, <2>1, ReplyFailed DEF GetSession, store, Shrinks, At, Starting
<1>5. CASE ListForRevokeAll(w, ok)
  <2>1. \E S : \E pc \in {"members", "kill", "key"} :
           tx' = [tx EXCEPT ![w] = [tx[w] EXCEPT !.todo = S, !.pc = pc]]
    BY <1>5 DEF ListForRevokeAll
  <2> QED
    BY <1>1, <1>5, <2>1, ReplyFailed
       DEF ListForRevokeAll, Shrinks, ListUserSessions, At, Starting
<1>6. CASE DeleteAllUserSessions(w, ok) \/ DeleteUserIndex(w, ok)
  BY <1>1, <1>6, ReplyFailed DEF DeleteAllUserSessions, DeleteUserIndex, Shrinks, At, Starting
<1>7. ASSUME NEW f \in Family, RevokeFamily(w, f, ok)
      PROVE  Calm
  <2>1. \/ \E pc \in {"kill", "own", "unindex", "wipe", "list", "drop", "members"} : Goto(w, pc)
        \/ \E S : \E pc \in {"members", "kill", "key"} :
             tx' = [tx EXCEPT ![w] = [tx[w] EXCEPT !.todo = S, !.pc = pc]]
    BY <1>7 DEF RevokeFamily, AfterKill
  <2>2. Shrinks
    BY <1>7, ReplyFailed, CalmStore DEF RevokeFamily, Shrinks
  <2> QED
    BY <1>1, <1>7, <2>1, <2>2 DEF RevokeFamily, At, Starting
<1>8. ASSUME NEW f \in Family, DropSession(w, f, ok)
      PROVE  Calm
  <2>1. \/ Done(w)
        \/ \E S : \E pc \in {"members", "kill", "key"} :
             tx' = [tx EXCEPT ![w] = [tx[w] EXCEPT !.todo = S, !.pc = pc]]
    BY <1>8 DEF DropSession
  <2>2. Shrinks
    BY <1>8, ReplyFailed, CalmStore DEF DropSession, Shrinks
  <2> QED
    BY <1>1, <1>8, <2>1, <2>2 DEF DropSession, At, Starting
<1> QED
  BY <1>2, <1>3, <1>4, <1>5, <1>6, <1>7, <1>8 DEF RevokeStep

LEMMA OtherCalm ==
    ASSUME IInv,
           \/ \E w \in Worker : Crash(w) \/ (Begin(w) /\ ~\E f \in Family : IssueTokens(w, f))
           \/ \E u \in User : ListSessions(u)
           \/ UNCHANGED vars
    PROVE  Calm
<1>0. TxInv
  BY DEF IInv
<1>1. ASSUME NEW w \in Worker, Crash(w)
      PROVE  Calm
  BY <1>0, <1>1, DoneShape, CalmMove DEF Crash, store, Shrinks
<1>2. ASSUME NEW w \in Worker, Begin(w), ~\E f \in Family : IssueTokens(w, f)
      PROVE  Calm
  <2>1. OnlyMoves(w) /\ Opens(w) /\ UNCHANGED <<store, minted, since, held, failed>>
    BY <1>2, OpenShape
  <2> QED
    BY <2>1, CalmMove DEF store, Shrinks
<1>3. CASE \/ \E u \in User : ListSessions(u)
           \/ UNCHANGED vars
  <2>1. UNCHANGED <<tx, refresh, session, family, minted, since, held, failed>> /\ index' \subseteq index
    BY <1>3 DEF ListSessions, ListUserSessions, vars, store
  <2> QED
    BY <2>1 DEF Calm, Shrinks, Steady
<1> QED
  BY <1>1, <1>2, <1>3

\* The steps that matter, and all others.
LEMMA LifeShape ==
    ASSUME IInv, [Next]_vars
    PROVE  \/ Calm
           \/ \E w \in Worker :
                \/ \E f \in Family : IssueTokens(w, f)
                \/ \E ok \in BOOLEAN :
                     \/ StoreRefreshJti(w, ok) \/ StoreTokenFamily(w, ok)
                     \/ StoreSessionKey(w, ok) \/ StoreSessionIndex(w, ok) \/ RotateOld(w, ok)
           \/ \E f \in Family : ExpireFamily(f)
<1>1. ASSUME NEW w \in Worker, NEW ok \in BOOLEAN,
             LoginStep(w, ok) \/ RefreshStep(w, ok) \/ RevokeStep(w, ok)
      PROVE  \/ Calm
             \/ StoreRefreshJti(w, ok) \/ StoreTokenFamily(w, ok)
             \/ StoreSessionKey(w, ok) \/ StoreSessionIndex(w, ok) \/ RotateOld(w, ok)
  BY <1>1, RefreshCalm, EnforceCalm, RevokeCalm, Zenon DEF LoginStep
<1> QED
  BY <1>1, OtherCalm, Zenon DEF Next

-----------------------------------------------------------------------------
(* Every step keeps the life of the logins in order.                       *)

LEMMA ServingFamilies ==
    ASSUME IInv, NEW w \in Worker, tx[w].op \in {"login", "refresh"}
    PROVE  /\ tx[w].fam \in Family /\ tx[w].tok \in Token /\ tx[w].tok[1] = tx[w].fam
           /\ tx[w].pc # "idle" /\ tx[w].usr \in User
BY DEF IInv, TxInv, Wired

LEMMA LifeCalm ==
    ASSUME BaseInv, Calm
    PROVE  LifeInv'
<1>0. /\ \A f : Held(f)' = Held(f)
      /\ since' = since /\ minted' = minted /\ index' \subseteq index /\ session' \subseteq session
  BY DEF Calm, Shrinks, Held
<1>1. ASSUME NEW w \in Worker
      PROVE  Serves(w)'
  <2>1. Serves(w) /\ Steady(w)
    BY DEF BaseInv, LifeInv, Calm
  <2>2. CASE Ends(w)
    BY <2>2, NoneAssumption DEF Ends, Idle, Serves
  <2>3. CASE Opens(w)
    <3>1. CASE tx'[w].op = "refresh"
      BY <1>0, <2>3, <3>1 DEF Opens, Serves, Held
    <3>2. CASE tx'[w].op # "refresh"
      BY <2>3, <3>2, NoneAssumption DEF Opens, Serves
    <3> QED
      BY <3>1, <3>2
  <2>4. CASE tx'[w] = tx[w]
    BY <1>0, <2>1, <2>4 DEF Serves
  <2>5. CASE Goes(w) /\ tx[w].pc \notin Starting /\ tx'[w].pc \notin Starting
    BY <1>0, <2>1, <2>5 DEF Serves, Goes, Starting
  <2> QED
    BY <2>1, <2>2, <2>3, <2>4, <2>5 DEF Steady
<1>2. ASSUME NEW w \in Worker, tx'[w].op = "login"
      PROVE  tx[w].op = "login" /\ tx'[w].fam = tx[w].fam
  BY <1>2 DEF Calm, Steady, Ends, Opens, Goes, Idle
<1>3. OneLogin'
  BY <1>2 DEF OneLogin, BaseInv, LifeInv
<1>4. ASSUME NEW f \in Family
      PROVE  Grown(f)'
  BY <1>0 DEF BaseInv, LifeInv, Grown
<1>5. Clock'
  BY <1>0 DEF BaseInv, LifeInv, Clock
<1> QED
  BY <1>1, <1>3, <1>4, <1>5 DEF LifeInv

LEMMA LifeIssue ==
    ASSUME BaseInv, NEW w \in Worker, NEW f \in Family, IssueTokens(w, f)
    PROVE  LifeInv'
<1> DEFINE t == [Idle EXCEPT !.op = "login", !.pc = "jti", !.usr = Owner[f], !.fam = f,
                             !.tok = <<f, 1>>]
<1>0. /\ t.op = "login" /\ t.pc = "jti" /\ t.usr = Owner[f] /\ t.fam = f
      /\ tx' = [tx EXCEPT ![w] = t]
  BY DEF IssueTokens, Idle
<1> HIDE DEF t
<1>1. tx'[w] = t /\ \A v \in Worker \ {w} : tx'[v] = tx[v]
  BY <1>0 DEF BaseInv, IInv, TxInv
<1>2. /\ \A g : Held(g)' = Held(g)
      /\ since' = since /\ index' = index /\ session' = session
      /\ minted' = [minted EXCEPT ![f] = 1] /\ minted[f] = 0
  BY DEF IssueTokens, store, Held, Fresh
<1>3. since[f] = 0 /\ Held(f) = {} /\ f \notin index /\ since \in [Family -> Nat]
  BY <1>2 DEF BaseInv, LifeInv, Grown, IInv, CountInv
<1>4. \A v \in Worker : tx[v].op = "login" => tx[v].fam # f
  BY <1>2 DEF BaseInv, Begun
<1>5. ASSUME NEW v \in Worker
      PROVE  Serves(v)'
  <2>1. CASE v = w
    BY <1>0, <1>1, <1>2, <1>3, <2>1 DEF Serves
  <2>2. CASE v # w
    BY <1>1, <1>2, <2>2 DEF Serves, BaseInv, LifeInv
  <2> QED
    BY <2>1, <2>2
<1>6. OneLogin'
  BY <1>0, <1>1, <1>4 DEF OneLogin, BaseInv, LifeInv
<1>7. ASSUME NEW g \in Family
      PROVE  Grown(g)'
  BY <1>2 DEF BaseInv, LifeInv, Grown, IInv, CountInv
<1>8. Clock'
  BY <1>2 DEF BaseInv, LifeInv, Clock
<1> QED
  BY <1>5, <1>6, <1>7, <1>8 DEF LifeInv

\* A login or a rotation that answers, or goes on.
LEMMA LifeAnswer ==
    ASSUME BaseInv, NEW w \in Worker, tx[w].op \in {"login", "refresh"},
           OnlyMoves(w), UNCHANGED <<minted, since>>,
           \/ /\ Ends(w) /\ held' = held \cup {tx[w].tok}
              /\ tx[w].op = "login" => tx[w].pc \notin Starting
           \/ /\ Goes(w) /\ held' = held
              /\ tx[w].pc \in Starting <=> tx'[w].pc \in Starting,
           \/ session' = session /\ index' \subseteq index \cup {tx[w].fam}
           \/ session' \subseteq session \cup {tx[w].fam} /\ index' = index,
           tx[w].pc \in Starting => session' = session,
           Ends(w) \/ index' = index
    PROVE  LifeInv'
<1>g. PICK g : g = tx[w].fam
  OBVIOUS
<1>0. /\ g \in Family /\ tx[w].tok \in Token /\ tx[w].tok[1] = g
      /\ Serves(w) /\ minted[g] > 0 /\ since \in [Family -> Nat]
      /\ \A f \in Family : Grown(f)
  BY <1>g, ServingFamilies DEF BaseInv, Begun, LifeInv, IInv, CountInv
<1>a. Ends(w) => ~Goes(w)
  BY DEF Ends, Goes, Idle
<1>b. held' = held \cup {tx[w].tok} \/ (held' = held /\ ~Ends(w))
  BY <1>a
<1>c. ~Ends(w) => held' = held
  OBVIOUS
<1>1. /\ \A f : f # g => Held(f)' = Held(f)
      /\ \A f : Held(f) # {} => Held(f)' # {}
      /\ (~Ends(w) => Held(g)' = Held(g))
      /\ session' \subseteq session \cup {g} /\ index' \subseteq index \cup {g}
  <2>1. \A f : f # g => Held(f)' = Held(f)
    BY <1>0, <1>b DEF Held
  <2>2. \A f : Held(f) \subseteq Held(f)'
    BY <1>b DEF Held
  <2>3. ~Ends(w) => Held(g)' = Held(g)
    BY <1>c DEF Held
  <2>4. session' \subseteq session \cup {g} /\ index' \subseteq index \cup {g}
    <3>1. session' = session => session' \subseteq session \cup {g}
      OBVIOUS
    <3>2. index' = index => index' \subseteq index \cup {g}
      OBVIOUS
    <3> QED
      BY <1>g, <3>1, <3>2, Zenon
  <2> QED
    BY <2>1, <2>2, <2>3, <2>4
<1>2. tx[w].pc \notin Starting => since[g] > 0
  <2>1. CASE tx[w].op = "login"
    BY <1>g, <1>0, <2>1 DEF Serves, Starting
  <2>2. CASE tx[w].op = "refresh"
    BY <1>g, <1>0, <2>2 DEF Serves, Grown
  <2> QED
    BY <2>1, <2>2
<1>3. Ends(w) => since[g] > 0
  BY <1>g, <1>0, <1>2, <1>a DEF Serves, Grown
<1>4. ASSUME NEW v \in Worker
      PROVE  Serves(v)'
  <2>1. CASE v = w /\ Ends(w)
    BY <2>1, NoneAssumption DEF Ends, Idle, Serves
  <2>2. CASE v = w /\ Goes(w) /\ held' = held /\ ~Ends(w)
    <3>1. Held(g)' = Held(g) /\ index' = index
      BY <1>1, <2>2
    <3>2. tx[w].pc \in Starting <=> tx'[w].pc \in Starting
      BY <2>2
    <3> QED
      BY <1>g, <1>0, <2>2, <3>1, <3>2 DEF Serves, Goes, Starting
  <2>3. CASE v # w
    <3>1. tx'[v] = tx[v] /\ Serves(v)
      BY <2>3 DEF OnlyMoves, BaseInv, LifeInv
    <3>2. CASE tx[v].op = "login" /\ tx[v].fam = g
      <4>1. tx[w].op = "refresh"
        BY <1>g, <2>3, <3>2 DEF BaseInv, LifeInv, OneLogin
      <4> QED
        BY <1>g, <1>0, <3>1, <3>2, <4>1 DEF Serves
    <3>3. CASE tx[v].op = "login" /\ tx[v].fam # g
      BY <1>g, <1>1, <3>1, <3>3 DEF Serves
    <3>4. CASE tx[v].op # "login"
      BY <1>1, <3>1, <3>4 DEF Serves
    <3> QED
      BY <3>2, <3>3, <3>4
  <2> QED
    BY <2>1, <2>2, <2>3
<1>5. OneLogin'
  BY DEF OneLogin, BaseInv, LifeInv, OnlyMoves, Ends, Goes, Idle
<1>6. ASSUME NEW f \in Family
      PROVE  Grown(f)'
  <2>1. CASE f = g
    <3>1. CASE Ends(w) \/ tx[w].pc \notin Starting
      BY <1>0, <1>2, <1>3, <2>1, <3>1 DEF Grown
    <3>2. CASE ~Ends(w) /\ tx[w].pc \in Starting
      <4>1. Held(f)' = Held(f) /\ index' = index /\ session' = session
        BY <1>1, <2>1, <3>2
      <4>2. Grown(f)
        BY <1>0
      <4> QED
        BY <4>1, <4>2 DEF Grown
    <3> QED
      BY <3>1, <3>2
  <2>2. CASE f # g
    BY <1>0, <1>1, <2>2 DEF Grown
  <2> QED
    BY <2>1, <2>2
<1>7. Clock'
  BY DEF BaseInv, LifeInv, Clock
<1> QED
  BY <1>4, <1>5, <1>6, <1>7 DEF LifeInv

LEMMA LifeStore ==
    ASSUME BaseInv, NEW w \in Worker, NEW ok \in BOOLEAN,
           StoreRefreshJti(w, ok) \/ StoreSessionKey(w, ok) \/ StoreSessionIndex(w, ok)
    PROVE  LifeInv'
<1>0. TxInv
  BY DEF BaseInv, IInv
<1>1. CASE StoreRefreshJti(w, ok)
  <2>1. tx[w].op \in {"login", "refresh"} /\ tx[w].pc = "jti"
    BY <1>0, <1>1 DEF StoreRefreshJti, At, TxInv, Wired
  <2>2. CASE tx[w].op = "login"
    <3>1. OnlyMoves(w) /\ Goes(w) /\ tx'[w].pc = "family"
      BY <1>0, <1>1, <2>2, GotoShape DEF StoreRefreshJti
    <3> QED
      BY <1>1, <2>1, <2>2, <3>1, LifeAnswer DEF StoreRefreshJti, Starting
  <2>3. CASE tx[w].op = "refresh"
    <3>1. OnlyMoves(w) /\ Ends(w)
      BY <1>0, <1>1, <2>3, DoneShape DEF StoreRefreshJti, Answer
    <3> QED
      BY <1>1, <2>1, <2>3, <3>1, LifeAnswer DEF StoreRefreshJti, Starting, Answer
  <2> QED
    BY <2>1, <2>2, <2>3
<1>2. CASE StoreSessionKey(w, ok)
  <2>1. tx[w].op = "login" /\ tx[w].pc = "key"
    BY <1>0, <1>2 DEF StoreSessionKey, At, TxInv, Wired
  <2>2. CASE ok
    <3>1. OnlyMoves(w) /\ Goes(w) /\ tx'[w].pc = "index"
      BY <1>0, <1>2, <2>2, GotoShape DEF StoreSessionKey
    <3> QED
      BY <1>2, <2>1, <2>2, <3>1, LifeAnswer DEF StoreSessionKey, Starting
  <2>3. CASE ~ok
    <3>1. OnlyMoves(w) /\ Ends(w)
      BY <1>0, <1>2, <2>3, DoneShape DEF StoreSessionKey, Answer
    <3> QED
      BY <1>2, <2>1, <2>3, <3>1, LifeAnswer DEF StoreSessionKey, Starting, Answer
  <2> QED
    BY <2>2, <2>3
<1>3. CASE StoreSessionIndex(w, ok)
  <2>1. tx[w].op = "login" /\ tx[w].pc = "index"
    BY <1>0, <1>3 DEF StoreSessionIndex, At, TxInv, Wired
  <2>2. OnlyMoves(w) /\ Ends(w)
    BY <1>0, <1>3, DoneShape DEF StoreSessionIndex, Answer
  <2> QED
    BY <1>3, <2>1, <2>2, LifeAnswer DEF StoreSessionIndex, Starting, Answer
<1> QED
  BY <1>1, <1>2, <1>3

\* A session created now is later than all others.
LEMMA ClockTicks ==
    ASSUME since \in [Family -> Nat], Clock, NEW f \in Family, since[f] = 0,
           since' = [since EXCEPT ![f] = 1 + Cardinality({g \in Family : since[g] > 0})]
    PROVE  Clock'
<1> DEFINE S == {g \in Family : since[g] > 0}
           N == {g \in Family : since'[g] > 0}
<1>1. IsFiniteSet(S) /\ Cardinality(S) \in Nat
  BY FamilyAssumption, FS_Subset, FS_CardinalityType
<1>2. since'[f] = 1 + Cardinality(S) /\ \A g \in Family \ {f} : since'[g] = since[g]
  OBVIOUS
<1>3. N = S \cup {f} /\ f \notin S
  BY <1>1, <1>2
<1>4. Cardinality(N) = Cardinality(S) + 1
  BY <1>1, <1>3, FS_AddElement
<1>5. \A g \in Family : since[g] <= Cardinality(S)
  BY DEF Clock
<1>6. ASSUME NEW g \in N, NEW h \in N, since'[g] = since'[h]
      PROVE  g = h
  <2>1. CASE g = f \/ h = f
    BY <1>1, <1>2, <1>5, <1>6, <2>1
  <2>2. CASE g # f /\ h # f
    <3>1. g \in S /\ h \in S /\ since[g] = since[h]
      BY <1>2, <1>3, <1>6, <2>2
    <3> QED
      BY <3>1 DEF Clock
  <2> QED
    BY <2>1, <2>2
<1>7. \A g \in Family : since'[g] <= Cardinality(N)
  BY <1>1, <1>2, <1>4, <1>5
<1> QED
  BY <1>6, <1>7 DEF Clock

LEMMA LifeFamily ==
    ASSUME BaseInv, NEW w \in Worker, NEW ok \in BOOLEAN, StoreTokenFamily(w, ok)
    PROVE  LifeInv'
<1> DEFINE g == tx[w].fam
<1>0. /\ TxInv /\ tx[w].op = "login" /\ tx[w].pc = "family" /\ g \in Family
      /\ since \in [Family -> Nat] /\ Serves(w)
  BY DEF BaseInv, LifeInv, IInv, TxInv, Wired, CountInv, StoreTokenFamily, At
<1>1. OnlyMoves(w) /\ Goes(w) /\ tx'[w].pc = "list"
  BY <1>0, GotoShape DEF StoreTokenFamily
<1>2. since[g] = 0 /\ Held(g) = {} /\ g \notin index
  BY <1>0 DEF Serves
<1>3. Cardinality({f \in Family : since[f] > 0}) \in Nat
  BY FamilyAssumption, FS_Subset, FS_CardinalityType
<1>4. /\ since'[g] > 0 /\ \A f \in Family \ {g} : since'[f] = since[f]
      /\ index' = index /\ session' = session /\ minted' = minted
      /\ \A f : Held(f)' = Held(f)
  BY <1>0, <1>3 DEF StoreTokenFamily, Held
<1>5. ASSUME NEW v \in Worker
      PROVE  Serves(v)'
  <2>1. CASE v = w
    BY <1>0, <1>1, <1>4, <2>1 DEF Serves, Goes
  <2>2. CASE v # w
    <3>1. tx'[v] = tx[v] /\ Serves(v)
      BY <1>1, <2>2 DEF OnlyMoves, BaseInv, LifeInv
    <3>2. tx[v].op = "login" => tx[v].fam # g /\ tx[v].fam \in Family
      BY <1>0, <2>2, ServingFamilies DEF BaseInv, LifeInv, OneLogin
    <3> QED
      BY <1>4, <3>1, <3>2 DEF Serves
  <2> QED
    BY <2>1, <2>2
<1>6. OneLogin'
  BY <1>1 DEF OneLogin, BaseInv, LifeInv, OnlyMoves, Goes
<1>7. ASSUME NEW f \in Family
      PROVE  Grown(f)'
  <2>1. minted[g] > 0
    BY <1>0 DEF BaseInv, Begun
  <2> QED
    BY <1>4, <2>1 DEF BaseInv, LifeInv, Grown
<1>8. Clock'
  BY <1>0, <1>2, ClockTicks DEF StoreTokenFamily, BaseInv, LifeInv
<1> QED
  BY <1>5, <1>6, <1>7, <1>8 DEF LifeInv

\* What a rotation changes.
LEMMA RotateShape ==
    ASSUME IInv, NEW w \in Worker, NEW ok \in BOOLEAN, RotateOld(w, ok)
    PROVE  /\ tx[w].op = "refresh" /\ tx[w].pc = "old" /\ tx[w].fam \in Family
           /\ OnlyMoves(w)
           /\ tx'[w].op = "refresh" /\ tx'[w].usr = tx[w].usr /\ tx'[w].fam = tx[w].fam
           /\ tx'[w].pc = "jti" /\ tx'[w].todo = tx[w].todo
           /\ tx'[w].tok = <<tx[w].fam, minted[tx[w].fam] + 1>>
           /\ minted' = [minted EXCEPT ![tx[w].fam] = minted[tx[w].fam] + 1]
           /\ \A f \in Family : minted'[f] >= minted[f]
           /\ refresh' = (IF ok THEN refresh \ {tx[w].tok} ELSE refresh)
           /\ UNCHANGED <<family, session, index, since, held>>
<1>0. TxInv /\ tx[w] \in Tx /\ minted \in [Family -> Nat]
  BY DEF IInv, TxInv, Wired, CountInv
<1>1. tx[w].op = "refresh" /\ tx[w].pc = "old" /\ tx[w].fam \in Family
  BY <1>0 DEF RotateOld, At, TxInv, Wired
<1> DEFINE k == <<tx[w].fam, minted[tx[w].fam] + 1>>
           t == [tx[w] EXCEPT !.tok = k, !.pc = "jti"]
<1>2. tx' = [tx EXCEPT ![w] = t]
  BY DEF RotateOld
<1> HIDE DEF k
<1>3. /\ t.op = tx[w].op /\ t.usr = tx[w].usr /\ t.fam = tx[w].fam /\ t.pc = "jti"
      /\ t.todo = tx[w].todo /\ t.tok = k
  BY <1>0 DEF Tx
<1> HIDE DEF t
<1>4. tx'[w] = t /\ OnlyMoves(w)
  BY <1>0, <1>2 DEF TxInv, OnlyMoves
<1>5. /\ minted' = [minted EXCEPT ![tx[w].fam] = minted[tx[w].fam] + 1]
      /\ refresh' = (IF ok THEN refresh \ {tx[w].tok} ELSE refresh)
      /\ UNCHANGED <<family, session, index, since, held>>
  BY DEF RotateOld
<1>6. \A f \in Family : minted'[f] >= minted[f]
  BY <1>0, <1>1, <1>5
<1> QED
  BY <1>1, <1>3, <1>4, <1>5, <1>6 DEF k

LEMMA LifeRotate ==
    ASSUME BaseInv, NEW w \in Worker, NEW ok \in BOOLEAN, RotateOld(w, ok)
    PROVE  LifeInv'
<1>0. IInv
  BY DEF BaseInv
<1> DEFINE g == tx[w].fam
<1>1. /\ tx[w].op = "refresh" /\ tx'[w].op = "refresh" /\ tx'[w].usr = tx[w].usr
      /\ tx'[w].fam = g /\ OnlyMoves(w) /\ \A f \in Family : minted'[f] >= minted[f]
      /\ UNCHANGED <<session, index, since, held>> /\ minted' \in [Family -> Nat]
  BY <1>0, RotateShape DEF IInv, CountInv
<1>2. \A f : Held(f)' = Held(f)
  BY <1>1 DEF Held
<1>3. ASSUME NEW v \in Worker
      PROVE  Serves(v)'
  <2>1. Serves(v)
    BY DEF BaseInv, LifeInv
  <2>2. CASE v = w
    BY <1>1, <1>2, <2>1, <2>2 DEF Serves
  <2>3. CASE v # w
    BY <1>1, <1>2, <2>1, <2>3 DEF Serves, OnlyMoves
  <2> QED
    BY <2>2, <2>3
<1>4. OneLogin'
  BY <1>1 DEF OneLogin, BaseInv, LifeInv, OnlyMoves
<1>5. ASSUME NEW f \in Family
      PROVE  Grown(f)'
  <2>1. minted[f] \in Nat /\ minted'[f] \in Nat /\ minted'[f] >= minted[f]
    BY <1>0, <1>1 DEF IInv, CountInv
  <2>2. minted'[f] = 0 => minted[f] = 0
    BY <2>1
  <2> QED
    BY <1>1, <1>2, <2>2 DEF BaseInv, LifeInv, Grown
<1>6. Clock'
  BY <1>1 DEF BaseInv, LifeInv, Clock
<1> QED
  BY <1>3, <1>4, <1>5, <1>6 DEF LifeInv

LEMMA LifeExpire ==
    ASSUME BaseInv, NEW f \in Family, ExpireFamily(f)
    PROVE  LifeInv'
<1>1. /\ held' = held \ {<<f, 1>>} /\ session' \subseteq session
      /\ UNCHANGED <<index, minted, since, tx>> /\ \A w \in Worker : tx[w].usr # Owner[f]
  BY DEF ExpireFamily
<1>2. \A g : Held(g)' \subseteq Held(g) /\ (g # f => Held(g)' = Held(g))
  BY <1>1 DEF Held
<1>3. ASSUME NEW v \in Worker
      PROVE  Serves(v)'
  <2>1. Serves(v) /\ tx[v].usr # Owner[f]
    BY <1>1 DEF BaseInv, LifeInv
  <2>2. tx[v].op \in {"login", "refresh"} => tx[v].fam # f
    BY <2>1, ServingFamilies DEF Serves, BaseInv
  <2> QED
    BY <1>1, <1>2, <2>1, <2>2 DEF Serves
<1>4. OneLogin'
  BY <1>1 DEF OneLogin, BaseInv, LifeInv
<1>5. ASSUME NEW g \in Family
      PROVE  Grown(g)'
  BY <1>1, <1>2 DEF BaseInv, LifeInv, Grown
<1>6. Clock'
  BY <1>1 DEF BaseInv, LifeInv, Clock
<1> QED
  BY <1>3, <1>4, <1>5, <1>6 DEF LifeInv

LEMMA LifeStep ==
    ASSUME BaseInv, [Next]_vars
    PROVE  BaseInv'
<1>1. IInv' /\ Begun'
  BY StepTypes, BegunStep DEF BaseInv
<1>2. LifeInv'
  BY LifeShape, LifeCalm, LifeIssue, LifeStore, LifeFamily, LifeRotate, LifeExpire DEF BaseInv
<1> QED
  BY <1>1, <1>2 DEF BaseInv

LEMMA LifeInit == Init => BaseInv
<1> SUFFICES ASSUME Init PROVE BaseInv
  OBVIOUS
<1>1. IInv /\ Begun
  BY InitTypes DEF Init, Begun, Idle
<1>2. /\ \A w \in Worker : Serves(w)
      /\ OneLogin /\ \A f \in Family : Grown(f)
  BY NoneAssumption DEF Init, Serves, OneLogin, Grown, Idle, Held
<1>3. Clock
  <2>1. {g \in Family : since[g] > 0} = {} /\ \A f \in Family : since[f] = 0
    BY DEF Init
  <2>2. Cardinality({}) = 0
    BY FS_EmptySet
  <2> QED
    BY <2>1, <2>2 DEF Clock
<1> QED
  BY <1>1, <1>2, <1>3 DEF BaseInv, LifeInv

-----------------------------------------------------------------------------
(* What is taken for a replay.                                             *)

\* t was rotated or used twice, or a replay deleted it.
Spent(t) == t[2] < minted[t[1]] \/ t[1] \in forked \/ Owner[t[1]] \in wiped

Good(t) == t \in refresh \/ Spent(t)

\* A login whose token is listed, a rotation that has not looked yet.
InHand(w) ==
    \/ tx[w].op = "login" /\ tx[w].pc # "jti"
    \/ tx[w].op = "refresh" /\ tx[w].pc = "check"

\* A token is not numbered beyond what its family minted.
Signed ==
    /\ \A t \in held : t[2] <= minted[t[1]]
    /\ \A w \in Worker : tx[w].op \in {"login", "refresh"} => tx[w].tok[2] <= minted[tx[w].fam]

ReplayInv ==
    ~failed =>
       /\ \A t \in held : Good(t)
       /\ \A w \in Worker : InHand(w) => Good(tx[w].tok)
       /\ \A w \in Worker : tx[w].op = "refresh" /\ tx[w].pc \in {"suspect", "kill"} =>
             Spent(tx[w].tok)

\* Where the token of a login or a rotation comes from.
Path(v) ==
    \/ tx'[v] = tx[v]
    \/ tx'[v].op \notin {"login", "refresh"}
    \/ tx'[v].pc = "jti" /\ tx'[v].tok[2] = minted'[tx'[v].fam]
    \/ /\ tx'[v].op = "refresh" /\ tx'[v].pc = "check"
       /\ tx'[v].tok \in held /\ tx'[v].fam = tx'[v].tok[1]
    \/ /\ Goes(v) /\ tx[v].op = "login"
       /\ tx[v].pc # "jti" \/ \E ok \in BOOLEAN : StoreRefreshJti(v, ok)
    \/ /\ Goes(v) /\ tx[v].op = "refresh"
       /\ \/ tx[v].pc = "suspect" /\ tx'[v].pc = "kill"
          \/ tx'[v].pc \notin {"check", "suspect", "kill"}
          \/ \E ok \in BOOLEAN : CheckWhitelist(v, ok)

LEMMA StepMoves ==
    ASSUME IInv, NEW w \in Worker, NEW ok \in BOOLEAN, LoginStep(w, ok) \/ RevokeStep(w, ok)
    PROVE  OnlyMoves(w) /\ (Ends(w) \/ Goes(w))
<1>0. TxInv
  BY DEF IInv
<1>1. CASE Done(w)
  BY <1>0, <1>1, DoneShape
<1>2. ASSUME NEW pc, Goto(w, pc)
      PROVE  OnlyMoves(w) /\ Goes(w)
  BY <1>0, <1>2, GotoShape
<1>3. ASSUME NEW S, NEW pc, tx' = [tx EXCEPT ![w] = [tx[w] EXCEPT !.todo = S, !.pc = pc]]
      PROVE  OnlyMoves(w) /\ Goes(w)
  BY <1>0, <1>3, TodoShape
<1>4. CASE LoginStep(w, ok)
  <2>1. \/ Done(w) \/ \E pc : Goto(w, pc)
        \/ \E S : \E pc : tx' = [tx EXCEPT ![w] = [tx[w] EXCEPT !.todo = S, !.pc = pc]]
    <3>1. CASE EnforceMaxSessions(w, ok)
      BY <3>1 DEF EnforceMaxSessions
    <3>2. CASE ~EnforceMaxSessions(w, ok)
      BY <1>4, <3>2 DEF LoginStep, StoreRefreshJti, StoreTokenFamily, StoreSessionKey,
         StoreSessionIndex, Answer
    <3> QED
      BY <3>1, <3>2
  <2> QED
    BY <1>1, <1>2, <1>3, <2>1
<1>5. CASE RevokeStep(w, ok)
  <2>1. \/ Done(w) \/ \E pc : Goto(w, pc)
        \/ \E S : \E pc : tx' = [tx EXCEPT ![w] = [tx[w] EXCEPT !.todo = S, !.pc = pc]]
    <3>1. CASE GetSession(w, ok)
      BY <3>1 DEF GetSession
    <3>2. CASE ListForRevokeAll(w, ok)
      BY <3>2 DEF ListForRevokeAll
    <3>3. ASSUME NEW f \in Family, RevokeFamily(w, f, ok)
          PROVE  \/ \E pc : Goto(w, pc)
                 \/ \E S : \E pc : tx' = [tx EXCEPT ![w] = [tx[w] EXCEPT !.todo = S, !.pc = pc]]
      BY <3>3 DEF RevokeFamily, AfterKill
    <3>4. ASSUME NEW f \in Family, DropSession(w, f, ok)
          PROVE  \/ Done(w)
                 \/ \E S : \E pc : tx' = [tx EXCEPT ![w] = [tx[w] EXCEPT !.todo = S, !.pc = pc]]
      BY <3>4 DEF DropSession
    <3>5. CASE RevokeRefreshJti(w, ok) \/ FindSession(w, ok) \/ DeleteAllUserSessions(w, ok)
               \/ DeleteUserIndex(w, ok)
      BY <3>5 DEF RevokeRefreshJti, FindSession, DeleteAllUserSessions, DeleteUserIndex
    <3> QED
      BY <1>5, <3>1, <3>2, <3>3, <3>4, <3>5 DEF RevokeStep
  <2> QED
    BY <1>1, <1>2, <1>3, <2>1
<1> QED
  BY <1>4, <1>5

LEMMA IssueShape ==
    ASSUME IInv, NEW w \in Worker, NEW f \in Family, IssueTokens(w, f)
    PROVE  /\ OnlyMoves(w) /\ tx[w].op = "none"
           /\ tx'[w].op = "login" /\ tx'[w].pc = "jti" /\ tx'[w].usr = Owner[f]
           /\ tx'[w].fam = f /\ tx'[w].tok = <<f, 1>> /\ tx'[w].todo = {}
           /\ minted' = [minted EXCEPT ![f] = 1] /\ minted[f] = 0
           /\ UNCHANGED <<refresh, family, session, index, since, held, failed>>
<1> DEFINE t == [Idle EXCEPT !.op = "login", !.pc = "jti", !.usr = Owner[f], !.fam = f,
                             !.tok = <<f, 1>>]
<1>1. /\ t.op = "login" /\ t.pc = "jti" /\ t.usr = Owner[f] /\ t.fam = f /\ t.tok = <<f, 1>>
      /\ t.todo = {} /\ tx' = [tx EXCEPT ![w] = t]
  BY DEF IssueTokens, Idle
<1> HIDE DEF t
<1>2. tx'[w] = t /\ OnlyMoves(w) /\ tx[w].op = "none"
  BY <1>1 DEF IInv, TxInv, Wired, OnlyMoves, IssueTokens, At
<1>3. /\ minted' = [minted EXCEPT ![f] = 1] /\ minted[f] = 0
      /\ UNCHANGED <<refresh, family, session, index, since, held, failed>>
  BY DEF IssueTokens, store, Fresh
<1> QED
  BY <1>1, <1>2, <1>3

LEMMA PathStep ==
    ASSUME IInv, [Next]_vars, NEW v \in Worker
    PROVE  Path(v)
<1>0. TxInv
  BY DEF IInv
<1>1. ASSUME NEW w \in Worker, OnlyMoves(w), Path(w)
      PROVE  Path(v)
  <2>1. v # w => tx'[v] = tx[v]
    BY <1>1 DEF OnlyMoves
  <2> QED
    BY <1>1, <2>1 DEF Path
<1>2. ASSUME NEW w \in Worker, Ends(w)
      PROVE  Path(w)
  BY <1>2 DEF Ends, Idle, Path
<1>3. ASSUME NEW w \in Worker, NEW f \in Family, IssueTokens(w, f)
      PROVE  Path(v)
  <2>1. /\ OnlyMoves(w) /\ tx'[w].pc = "jti" /\ tx'[w].fam = f /\ tx'[w].tok = <<f, 1>>
        /\ minted' = [minted EXCEPT ![f] = 1]
    BY <1>3, IssueShape
  <2>2. minted'[f] = 1
    BY <2>1 DEF IInv, CountInv
  <2>3. Path(w)
    BY <2>1, <2>2 DEF Path
  <2> QED
    BY <1>1, <2>1, <2>3
<1>4. ASSUME NEW w \in Worker, Begin(w), ~\E f \in Family : IssueTokens(w, f)
      PROVE  Path(v)
  <2>1. OnlyMoves(w) /\ Opens(w)
    BY <1>4, OpenShape
  <2>2. Path(w)
    BY <2>1 DEF Opens, Path
  <2> QED
    BY <1>1, <2>1, <2>2
<1>5. ASSUME NEW w \in Worker, NEW ok \in BOOLEAN, LoginStep(w, ok)
      PROVE  Path(v)
  <2>1. OnlyMoves(w) /\ (Ends(w) \/ Goes(w))
    BY <1>5, StepMoves
  <2>2. CASE tx[w].op = "login"
    <3>1. tx[w].pc # "jti" \/ StoreRefreshJti(w, ok)
      BY <1>5 DEF LoginStep, StoreTokenFamily, EnforceMaxSessions, StoreSessionKey,
         StoreSessionIndex, At
    <3>2. Path(w)
      BY <1>2, <2>1, <2>2, <3>1 DEF Path
    <3> QED
      BY <1>1, <2>1, <3>2
  <2>3. CASE tx[w].op # "login"
    <3>1. StoreRefreshJti(w, ok)
      BY <1>0, <1>5, <2>3 DEF LoginStep, StoreTokenFamily, EnforceMaxSessions, StoreSessionKey,
         StoreSessionIndex, At, TxInv, Wired
    <3>2. Ends(w)
      BY <1>0, <2>3, <3>1, DoneShape DEF StoreRefreshJti, Answer
    <3> QED
      BY <1>1, <1>2, <2>1, <3>2
  <2> QED
    BY <2>2, <2>3
<1>6. ASSUME NEW w \in Worker, NEW ok \in BOOLEAN, RefreshStep(w, ok), ~RotateOld(w, ok)
      PROVE  Path(v)
  <2>0. tx[w].op = "refresh"
    BY <1>0, <1>6 DEF RefreshStep, CheckWhitelist, CheckFamily, DetectReplay,
       RevokeAllRefreshTokens, At, TxInv, Wired
  <2>1. CASE CheckWhitelist(w, ok)
    <3>1. PICK pc : Goto(w, pc)
      BY <2>1 DEF CheckWhitelist
    <3>2. OnlyMoves(w) /\ Goes(w)
      BY <1>0, <3>1, GotoShape
    <3>3. Path(w)
      BY <2>0, <2>1, <3>2 DEF Path
    <3> QED
      BY <1>1, <3>2, <3>3
  <2>2. CASE CheckFamily(w, ok) \/ DetectReplay(w, ok) \/ RevokeAllRefreshTokens(w, ok)
    <3>1. \/ Done(w) \/ Goto(w, "old")
          \/ Goto(w, "kill") /\ tx[w].pc = "suspect"
      BY <2>2 DEF CheckFamily, DetectReplay, RevokeAllRefreshTokens, At
    <3>2. CASE Done(w)
      BY <1>0, <1>1, <1>2, <3>2, DoneShape
    <3>3. CASE Goto(w, "old") \/ (Goto(w, "kill") /\ tx[w].pc = "suspect")
      <4>1. /\ OnlyMoves(w) /\ Goes(w)
            /\ tx'[w].pc = "old" \/ (tx'[w].pc = "kill" /\ tx[w].pc = "suspect")
        BY <1>0, <3>3, GotoShape
      <4>2. Path(w)
        BY <2>0, <4>1 DEF Path
      <4> QED
        BY <1>1, <4>1, <4>2
    <3> QED
      BY <3>1, <3>2, <3>3
  <2> QED
    BY <1>6, <2>1, <2>2 DEF RefreshStep
<1>7. ASSUME NEW w \in Worker, NEW ok \in BOOLEAN, RotateOld(w, ok)
      PROVE  Path(v)
  <2>1. /\ OnlyMoves(w) /\ tx'[w].pc = "jti" /\ tx'[w].fam = tx[w].fam /\ tx[w].fam \in Family
        /\ tx'[w].tok = <<tx[w].fam, minted[tx[w].fam] + 1>>
        /\ minted' = [minted EXCEPT ![tx[w].fam] = minted[tx[w].fam] + 1]
    BY <1>7, RotateShape
  <2>2. minted'[tx[w].fam] = minted[tx[w].fam] + 1
    BY <2>1 DEF IInv, CountInv
  <2>3. Path(w)
    BY <2>1, <2>2 DEF Path
  <2> QED
    BY <1>1, <2>1, <2>3
<1>8. ASSUME NEW w \in Worker, NEW ok \in BOOLEAN, RevokeStep(w, ok)
      PROVE  Path(v)
  <2>1. OnlyMoves(w) /\ (Ends(w) \/ Goes(w))
    BY <1>8, StepMoves
  <2>2. CASE tx[w].op = "refresh"
    <3>1. PICK f \in Family : RevokeFamily(w, f, ok)
      BY <1>0, <1>8, <2>2 DEF RevokeStep, RevokeRefreshJti, FindSession, GetSession,
         ListForRevokeAll, DeleteAllUserSessions, DeleteUserIndex, DropSession, At, TxInv, Wired
    <3>2. Goto(w, "wipe")
      BY <2>2, <3>1 DEF RevokeFamily, AfterKill
    <3>3. tx'[w].pc = "wipe" /\ Goes(w)
      BY <1>0, <3>2, GotoShape
    <3>4. Path(w)
      BY <2>2, <3>3 DEF Path
    <3> QED
      BY <1>1, <2>1, <3>4
  <2>3. CASE tx[w].op = "login"
    <3>1. tx[w].pc # "jti"
      BY <1>0, <1>8 DEF RevokeStep, RevokeRefreshJti, FindSession, GetSession,
         ListForRevokeAll, DeleteAllUserSessions, DeleteUserIndex, RevokeFamily, DropSession, At
    <3>2. Path(w)
      BY <1>2, <2>1, <2>3, <3>1 DEF Path
    <3> QED
      BY <1>1, <2>1, <3>2
  <2>4. CASE tx[w].op \notin {"login", "refresh"}
    <3>1. Path(w)
      BY <1>2, <2>1, <2>4 DEF Path, Goes
    <3> QED
      BY <1>1, <2>1, <3>1
  <2> QED
    BY <2>2, <2>3, <2>4
<1>9. ASSUME NEW w \in Worker, Crash(w)
      PROVE  Path(v)
  BY <1>0, <1>1, <1>2, <1>9, DoneShape DEF Crash
<1>10. CASE (\E u \in User : ListSessions(u)) \/ (\E f \in Family : ExpireFamily(f)) \/ UNCHANGED vars
  <2>1. tx' = tx
    BY <1>10 DEF ListSessions, ExpireFamily, vars
  <2> QED
    BY <2>1 DEF Path
<1>11. ASSUME NEW w \in Worker, Begin(w)
       PROVE  Path(v)
  BY <1>3, <1>4, <1>11
<1>12. ASSUME NEW w \in Worker, NEW ok \in BOOLEAN,
              LoginStep(w, ok) \/ RefreshStep(w, ok) \/ RevokeStep(w, ok)
       PROVE  Path(v)
  BY <1>5, <1>6, <1>7, <1>8, <1>12
<1> QED
  BY <1>9, <1>10, <1>11, <1>12, Zenon DEF Next

-----------------------------------------------------------------------------
LEMMA MintedGrows ==
    ASSUME IInv, [Next]_vars
    PROVE  \A f \in Family : minted[f] \in Nat /\ minted'[f] \in Nat /\ minted'[f] >= minted[f]
<1>0. minted \in [Family -> Nat] /\ minted' \in [Family -> Nat]
  BY StepTypes DEF IInv, CountInv
<1>1. ASSUME NEW w \in Worker, NEW f \in Family, IssueTokens(w, f)
      PROVE  \A g \in Family : minted'[g] >= minted[g]
  BY <1>0, <1>1, IssueShape
<1>2. ASSUME NEW w \in Worker, NEW ok \in BOOLEAN, RotateOld(w, ok)
      PROVE  \A g \in Family : minted'[g] >= minted[g]
  BY <1>2, RotateShape
<1>3. CASE Plain
  BY <1>0, <1>3 DEF Plain
<1>4. ASSUME NEW w \in Worker, NEW ok \in BOOLEAN, StoreRefreshJti(w, ok) \/ CheckWhitelist(w, ok)
      PROVE  \A g \in Family : minted'[g] >= minted[g]
  BY <1>0, <1>4 DEF StoreRefreshJti, CheckWhitelist
<1> QED
  BY <1>0, <1>1, <1>2, <1>3, <1>4, StepShape

LEMMA FailedStays ==
    ASSUME IInv, [Next]_vars
    PROVE  failed => failed'
<1>1. CASE Calm
  BY <1>1 DEF Calm, Shrinks
<1>2. ASSUME NEW w \in Worker, NEW f \in Family, IssueTokens(w, f)
      PROVE  failed => failed'
  BY <1>2 DEF IssueTokens
<1>3. ASSUME NEW w \in Worker, NEW ok \in BOOLEAN,
             StoreRefreshJti(w, ok) \/ StoreTokenFamily(w, ok) \/ StoreSessionKey(w, ok)
             \/ StoreSessionIndex(w, ok) \/ RotateOld(w, ok)
      PROVE  failed => failed'
  BY <1>3, ReplyFailed
     DEF StoreRefreshJti, StoreTokenFamily, StoreSessionKey, StoreSessionIndex, RotateOld
<1>4. ASSUME NEW f \in Family, ExpireFamily(f)
      PROVE  failed => failed'
  BY <1>4 DEF ExpireFamily
<1>5. \/ Calm
      \/ \E w \in Worker :
           \/ \E f \in Family : IssueTokens(w, f)
           \/ \E ok \in BOOLEAN :
                \/ StoreRefreshJti(w, ok) \/ StoreTokenFamily(w, ok)
                \/ StoreSessionKey(w, ok) \/ StoreSessionIndex(w, ok) \/ RotateOld(w, ok)
      \/ \E f \in Family : ExpireFamily(f)
  BY LifeShape
<1>6. CASE \E w \in Worker : \E f \in Family : IssueTokens(w, f)
  BY <1>2, <1>6
<1>7. CASE \E w \in Worker : \E ok \in BOOLEAN :
              \/ StoreRefreshJti(w, ok) \/ StoreTokenFamily(w, ok)
              \/ StoreSessionKey(w, ok) \/ StoreSessionIndex(w, ok) \/ RotateOld(w, ok)
  BY <1>3, <1>7
<1>8. CASE \E f \in Family : ExpireFamily(f)
  BY <1>4, <1>8
<1> QED
  BY <1>1, <1>5, <1>6, <1>7, <1>8

LEMMA HistoryGrows ==
    ASSUME [HNext]_hvars
    PROVE  /\ forked \subseteq forked' /\ wiped \subseteq wiped'
           /\ crowded \subseteq crowded' /\ raced \subseteq raced'
           /\ [Next]_vars /\ (tx' # tx => HNext)
BY DEF HNext, hvars, vars

LEMMA SpentStays ==
    ASSUME IInv, [HNext]_hvars, NEW t \in Token, Spent(t)
    PROVE  Spent(t)'
<1>1. t[1] \in Family /\ t[2] \in Nat
  BY DEF Token
<1>2. minted'[t[1]] >= minted[t[1]] /\ minted[t[1]] \in Nat /\ minted'[t[1]] \in Nat
  BY <1>1, MintedGrows, HistoryGrows
<1>3. t[2] < minted[t[1]] => t[2] < minted'[t[1]]
  BY <1>1, <1>2
<1> QED
  BY <1>3, HistoryGrows DEF Spent

\* The tokens that a client gets.
LEMMA NewlyHeld ==
    ASSUME IInv, [Next]_vars, NEW t \in held' \ held
    PROVE  \E w \in Worker : /\ tx[w].op \in {"login", "refresh"} /\ t = tx[w].tok
                             /\ InHand(w) \/ \E ok \in BOOLEAN : StoreRefreshJti(w, ok)
<1>0. TxInv
  BY DEF IInv
<1>1. ~Calm /\ ~\E f \in Family : ExpireFamily(f)
  BY DEF Calm, ExpireFamily
<1>2. ASSUME NEW w \in Worker, NEW ok \in BOOLEAN, StoreRefreshJti(w, ok)
      PROVE  tx[w].op \in {"login", "refresh"} /\ t = tx[w].tok
  BY <1>0, <1>2 DEF StoreRefreshJti, At, TxInv, Wired, Answer
<1>3. ASSUME NEW w \in Worker, NEW ok \in BOOLEAN,
             StoreSessionKey(w, ok) \/ StoreSessionIndex(w, ok)
      PROVE  tx[w].op = "login" /\ t = tx[w].tok /\ InHand(w)
  BY <1>0, <1>3 DEF StoreSessionKey, StoreSessionIndex, At, TxInv, Wired, Answer, InHand
<1>4. \A w \in Worker : \A ok \in BOOLEAN : ~StoreTokenFamily(w, ok) /\ ~RotateOld(w, ok)
  BY DEF StoreTokenFamily, RotateOld
<1>5. \A w \in Worker : \A f \in Family : ~IssueTokens(w, f)
  BY DEF IssueTokens
<1> QED
  BY <1>1, <1>2, <1>3, <1>4, <1>5, LifeShape

LEMMA SignedStep ==
    ASSUME IInv, Signed, [Next]_vars
    PROVE  Signed'
<1>0. TxInv /\ TxInv' /\ held \subseteq Token /\ held' \subseteq Token
  BY StepTypes DEF IInv, StoreInv
<1>1. \A f \in Family : minted[f] \in Nat /\ minted'[f] \in Nat /\ minted'[f] >= minted[f]
  BY MintedGrows
<1>2. ASSUME NEW t \in Token, t[2] <= minted[t[1]]
      PROVE  t[2] <= minted'[t[1]]
  <2>1. t[1] \in Family /\ t[2] \in Nat
    BY DEF Token
  <2> QED
    BY <1>1, <1>2, <2>1
<1>3. ASSUME NEW w \in Worker, tx[w].op \in {"login", "refresh"}
      PROVE  /\ tx[w].tok \in Token /\ tx[w].tok[1] = tx[w].fam
             /\ tx[w].tok[2] <= minted[tx[w].tok[1]]
  BY <1>0, <1>3 DEF TxInv, Wired, Signed
<1>4. ASSUME NEW t \in held'
      PROVE  t[2] <= minted'[t[1]]
  <2>1. CASE t \in held
    BY <1>0, <1>2, <2>1 DEF Signed
  <2>2. CASE t \notin held
    BY <1>2, <1>3, <1>4, <2>2, NewlyHeld
  <2> QED
    BY <2>1, <2>2
<1>5. ASSUME NEW v \in Worker, tx'[v].op \in {"login", "refresh"}
      PROVE  tx'[v].tok[2] <= minted'[tx'[v].fam]
  <2>1. /\ tx'[v].fam \in Family /\ tx'[v].tok \in Token /\ tx'[v].tok[1] = tx'[v].fam
        /\ minted'[tx'[v].fam] \in Nat
    BY <1>0, <1>1, <1>5 DEF TxInv, Wired
  <2>2. CASE tx[v].op \in {"login", "refresh"} /\ tx'[v].tok = tx[v].tok
    BY <1>2, <1>3, <2>1, <2>2
  <2>3. CASE tx'[v].tok \in held
    BY <1>0, <1>2, <2>1, <2>3 DEF Signed
  <2>4. CASE tx'[v].tok[2] = minted'[tx'[v].fam]
    BY <2>1, <2>4
  <2> QED
    BY <1>5, <2>2, <2>3, <2>4, PathStep DEF Path, Goes
<1> QED
  BY <1>4, <1>5 DEF Signed

\* A token that leaves the white list is spent, or expires.
LEMMA Unlisted ==
    ASSUME BaseInv, Signed, [HNext]_hvars, NEW t \in refresh \ refresh'
    PROVE  Spent(t)' \/ \E f \in Family : ExpireFamily(f) /\ t = <<f, 1>>
<1>0. /\ IInv /\ TxInv /\ [Next]_vars /\ t \in Token
      /\ minted \in [Family -> Nat] /\ refresh # refresh'
  BY HistoryGrows DEF BaseInv, IInv, StoreInv, CountInv
<1>a. t[1] \in Family /\ t[2] \in Nat
  BY <1>0 DEF Token
<1>1. ASSUME NEW w \in Worker, NEW ok \in BOOLEAN, RotateOld(w, ok)
      PROVE  Spent(t)'
  <2>1. /\ tx[w].fam \in Family /\ refresh' = (IF ok THEN refresh \ {tx[w].tok} ELSE refresh)
        /\ minted' = [minted EXCEPT ![tx[w].fam] = minted[tx[w].fam] + 1] /\ tx[w].op = "refresh"
    BY <1>0, <1>1, RotateShape
  <2>2. t = tx[w].tok
    BY <2>1
  <2>3. t[1] = tx[w].fam /\ t[2] <= minted[t[1]]
    BY <1>0, <2>1, <2>2 DEF TxInv, Wired, Signed
  <2>4. minted'[t[1]] = minted[t[1]] + 1
    BY <1>0, <2>1, <2>3
  <2>5. t[2] < minted'[t[1]]
    BY <1>0, <1>a, <2>3, <2>4
  <2> QED
    BY <2>5 DEF Spent
<1>2. ASSUME NEW w \in Worker, NEW ok \in BOOLEAN, RevokeAllRefreshTokens(w, ok)
      PROVE  Spent(t)'
  <2>1. tx[w].pc = "wipe" /\ tx'[w].pc = "idle" /\ t[1] \in Mine(w)
    BY <1>0, <1>2, DoneShape DEF RevokeAllRefreshTokens, At, Ends, Idle
  <2>2. Moved(w) /\ HNext
    BY <2>1, HistoryGrows DEF Moved
  <2>3. tx[w].usr \in wiped'
    BY <2>1, <2>2 DEF HNext, At
  <2>4. Owner[t[1]] = tx[w].usr
    BY <2>1 DEF Mine
  <2> QED
    BY <2>3, <2>4 DEF Spent
<1>3. ASSUME NEW w \in Worker, NEW ok \in BOOLEAN, RevokeRefreshJti(w, ok)
      PROVE  Spent(t)'
  <2>1. tx[w].pc = "old" /\ tx[w].op = "logout" /\ tx'[w].pc = "kill" /\ t = tx[w].tok
    BY <1>0, <1>3, GotoShape DEF RevokeRefreshJti, At
  <2>2. Moved(w) /\ HNext
    BY <2>1, HistoryGrows DEF Moved
  <2>3. Forks(w)
    BY <2>1 DEF Forks, At
  <2>4. tx[w].fam \in forked'
    BY <2>2, <2>3 DEF HNext
  <2>5. t[1] = tx[w].fam
    BY <1>0, <2>1 DEF TxInv, Wired
  <2> QED
    BY <2>4, <2>5 DEF Spent
<1>4. ASSUME NEW w \in Worker, Begin(w) \/ Crash(w)
      PROVE  FALSE
  BY <1>0, <1>4 DEF Begin, IssueTokens, BeginRevokeSession, BeginRefresh, BeginLogout,
     BeginRevokeAll, Crash, store
<1>5. ASSUME NEW w \in Worker, NEW ok \in BOOLEAN, LoginStep(w, ok)
      PROVE  FALSE
  BY <1>5 DEF LoginStep, StoreRefreshJti, StoreTokenFamily, EnforceMaxSessions, StoreSessionKey,
     StoreSessionIndex
<1>6. ASSUME NEW w \in Worker, NEW ok \in BOOLEAN, RefreshStep(w, ok)
      PROVE  Spent(t)'
  BY <1>0, <1>1, <1>2, <1>6
     DEF RefreshStep, CheckWhitelist, CheckFamily, DetectReplay, store
<1>7. ASSUME NEW w \in Worker, NEW ok \in BOOLEAN, RevokeStep(w, ok)
      PROVE  Spent(t)'
  BY <1>0, <1>3, <1>7
     DEF RevokeStep, FindSession, GetSession, ListForRevokeAll, DeleteAllUserSessions,
         DeleteUserIndex, RevokeFamily, DropSession, store
<1>8. ASSUME NEW f \in Family, ExpireFamily(f)
      PROVE  t = <<f, 1>>
  BY <1>8 DEF ExpireFamily
<1>9. ~(\E u \in User : ListSessions(u)) /\ ~UNCHANGED vars
  BY <1>0 DEF ListSessions, vars, store
<1>10. ASSUME NEW w \in Worker, NEW ok \in BOOLEAN,
              LoginStep(w, ok) \/ RefreshStep(w, ok) \/ RevokeStep(w, ok)
       PROVE  Spent(t)'
  BY <1>5, <1>6, <1>7, <1>10
<1> QED
  BY <1>0, <1>4, <1>8, <1>9, <1>10, Zenon DEF Next

\* A good token stays good while somebody has it.
LEMMA GoodStays ==
    ASSUME BaseInv, Signed, [HNext]_hvars, NEW t \in Token, Good(t)
    PROVE  Good(t)' \/ \E f \in Family : ExpireFamily(f) /\ t = <<f, 1>>
<1>0. IInv
  BY DEF BaseInv
<1>1. CASE Spent(t)
  BY <1>0, <1>1, SpentStays DEF Good
<1>2. CASE t \in refresh /\ t \notin refresh'
  BY <1>2, Unlisted DEF Good
<1>3. CASE t \in refresh'
  BY <1>3 DEF Good
<1> QED
  BY <1>1, <1>2, <1>3 DEF Good

\* No request of the user is under way when a family expires.
LEMMA HandsOff ==
    ASSUME BaseInv, NEW f \in Family, ExpireFamily(f), NEW w \in Worker,
           tx[w].op \in {"login", "refresh"}
    PROVE  tx[w].tok # <<f, 1>>
<1>1. tx[w].usr # Owner[f]
  BY DEF ExpireFamily
<1>2. tx[w].usr = Owner[tx[w].fam] /\ tx[w].tok[1] = tx[w].fam
  BY ServingFamilies DEF BaseInv, LifeInv, Serves
<1> QED
  BY <1>1, <1>2

LEMMA ReplayStep ==
    ASSUME BaseInv, Signed, ReplayInv, [HNext]_hvars
    PROVE  ReplayInv'
<1>0. IInv /\ TxInv /\ IInv' /\ TxInv' /\ [Next]_vars /\ held \subseteq Token
  BY HistoryGrows, StepTypes DEF BaseInv, IInv, StoreInv
<1>1. failed => failed'
  BY <1>0, FailedStays
<1>2. ASSUME ~failed', NEW t \in Token, NEW w \in Worker,
             tx[w].op \in {"login", "refresh"}, t = tx[w].tok,
             InHand(w) \/ \E ok \in BOOLEAN : StoreRefreshJti(w, ok)
      PROVE  Good(t)'
  <2>1. tx[w].op \in {"login", "refresh"} /\ t = tx[w].tok
    BY <1>2
  <2>2. CASE InHand(w)
    <3>1. Good(t)
      BY <1>1, <1>2, <2>1, <2>2 DEF ReplayInv
    <3>2. ~\E f \in Family : ExpireFamily(f) /\ t = <<f, 1>>
      BY <2>1, HandsOff
    <3> QED
      BY <3>1, <3>2, GoodStays
  <2>3. ASSUME NEW ok \in BOOLEAN, StoreRefreshJti(w, ok)
        PROVE  Good(t)'
    <3>1. ok
      BY <1>2, <2>3 DEF StoreRefreshJti, Reply
    <3> QED
      BY <2>1, <2>3, <3>1 DEF StoreRefreshJti, Good
  <2> QED
    BY <1>2, <2>2, <2>3
<1>3. ASSUME ~failed', NEW t \in held, t \in held' \/ \E w \in Worker : tx'[w] # tx[w] /\ tx'[w].tok = t
      PROVE  Good(t)'
  <2>1. Good(t) /\ t \in Token
    BY <1>0, <1>1, <1>3 DEF ReplayInv
  <2>2. ~\E f \in Family : ExpireFamily(f) /\ t = <<f, 1>>
    BY <1>3 DEF ExpireFamily
  <2> QED
    BY <2>1, <2>2, GoodStays
<1>4. ASSUME ~failed', NEW t \in held'
      PROVE  Good(t)'
  <2>1. t \in Token
    BY <1>0 DEF IInv, StoreInv
  <2>2. CASE t \in held
    BY <1>3, <1>4, <2>2
  <2>3. CASE t \notin held
    BY <1>0, <1>2, <1>4, <2>1, <2>3, NewlyHeld
  <2> QED
    BY <2>2, <2>3
<1>5. ASSUME ~failed', NEW v \in Worker, InHand(v)', NEW t, t = tx'[v].tok
      PROVE  Good(t)'
  <2>1. tx'[v].op \in {"login", "refresh"} /\ (tx'[v].pc = "jti" => FALSE) /\ t \in Token
    BY <1>0, <1>5 DEF InHand, TxInv, Wired
  <2>2. CASE tx'[v] = tx[v]
    BY <1>2, <1>5, <2>1, <2>2 DEF InHand
  <2>3. CASE tx'[v] # tx[v] /\ t \in held
    BY <1>3, <1>5, <2>3
  <2>4. CASE /\ Goes(v) /\ tx[v].op = "login"
             /\ tx[v].pc # "jti" \/ \E ok \in BOOLEAN : StoreRefreshJti(v, ok)
    BY <1>2, <1>5, <2>1, <2>4 DEF InHand, Goes
  <2>5. ~\E ok \in BOOLEAN : tx'[v].op = "refresh" /\ CheckWhitelist(v, ok)
    BY <1>0, <1>5, GotoShape DEF CheckWhitelist, InHand
  <2>6. Path(v)
    BY <1>0, PathStep
  <2> QED
    BY <1>5, <2>1, <2>2, <2>3, <2>4, <2>5, <2>6 DEF Path, InHand, Goes
<1>6. ASSUME ~failed', NEW v \in Worker, tx'[v].op = "refresh", tx'[v].pc \in {"suspect", "kill"},
             NEW t, t = tx'[v].tok
      PROVE  Spent(t)'
  <2>1. t \in Token
    BY <1>0, <1>6 DEF TxInv, Wired
  <2>2. CASE /\ tx[v].op = "refresh" /\ tx[v].pc \in {"suspect", "kill"} /\ t = tx[v].tok
    <3>1. Spent(t)
      BY <1>1, <1>6, <2>2 DEF ReplayInv
    <3> QED
      BY <1>0, <2>1, <3>1, SpentStays
  <2>3. ASSUME NEW ok \in BOOLEAN, CheckWhitelist(v, ok), Goes(v)
        PROVE  Spent(t)'
    <3>1. ok /\ tx[v].pc = "check" /\ tx[v].op = "refresh" /\ t = tx[v].tok
      BY <1>0, <1>6, <2>3 DEF CheckWhitelist, Reply, At, TxInv, Wired, Goes
    <3>2. t \notin refresh /\ Good(t)
      <4>1. Goto(v, IF t \in refresh THEN "live" ELSE "suspect")
        BY <2>3, <3>1 DEF CheckWhitelist
      <4>2. t \in refresh => tx'[v].pc = "live"
        BY <1>0, <4>1, GotoShape
      <4>3. InHand(v)
        BY <3>1 DEF InHand
      <4> QED
        BY <1>1, <1>6, <3>1, <4>2, <4>3 DEF ReplayInv
    <3>3. Spent(t)
      BY <3>2 DEF Good
    <3> QED
      BY <1>0, <2>1, <3>3, SpentStays
  <2>4. Path(v)
    BY <1>0, PathStep
  <2> QED
    BY <1>6, <2>2, <2>3, <2>4 DEF Path, Goes
<1> QED
  BY <1>4, <1>5, <1>6 DEF ReplayInv, Good, Spent

RBase == BaseInv /\ Signed /\ ReplayInv

LEMMA ReplayInit == HInit => RBase
<1> SUFFICES ASSUME HInit PROVE RBase
  OBVIOUS
<1>1. BaseInv
  BY LifeInit DEF HInit
<1>2. held = {} /\ \A w \in Worker : tx[w].op = "none"
  BY DEF HInit, Init, Idle
<1> QED
  BY <1>1, <1>2 DEF RBase, Signed, ReplayInv, InHand

LEMMA RBaseStep == RBase /\ [HNext]_hvars => RBase'
<1> SUFFICES ASSUME RBase, [HNext]_hvars PROVE RBase'
  OBVIOUS
<1>1. BaseInv /\ Signed /\ ReplayInv /\ [Next]_vars /\ IInv
  BY HistoryGrows DEF RBase, BaseInv
<1>2. BaseInv'
  BY <1>1, LifeStep
<1>3. Signed'
  BY <1>1, SignedStep
<1>4. ReplayInv'
  BY <1>1, ReplayStep
<1> QED
  BY <1>2, <1>3, <1>4 DEF RBase

\* A request is treated as a replay only if its token was used before, an
\* earlier replay deleted the user's tokens, or a command failed
\* (rotate_refresh_token).
THEOREM ReplaysAreReuses == HSpec => []ReplayOnlyAfterUse
<1>1. RBase => ReplayOnlyAfterUse
  <2> SUFFICES ASSUME RBase, ~failed, NEW w \in Worker, tx[w].op = "refresh", tx[w].pc = "kill"
               PROVE  \/ tx[w].tok[2] < minted[tx[w].fam] \/ tx[w].fam \in forked
                      \/ tx[w].usr \in wiped
    BY DEF ReplayOnlyAfterUse, At
  <2>1. Spent(tx[w].tok)
    BY DEF RBase, ReplayInv
  <2>2. tx[w].fam \in Family /\ tx[w].tok[1] = tx[w].fam
    BY ServingFamilies DEF RBase, BaseInv
  <2>3. tx[w].usr = Owner[tx[w].fam]
    BY <2>2 DEF RBase, BaseInv, LifeInv, Serves
  <2> QED
    BY <2>1, <2>2, <2>3 DEF Spent
<1>2. HSpec => []RBase
  BY ReplayInit, RBaseStep, PTL DEF HSpec
<1> QED
  BY <1>1, <1>2, PTL
===============================================================================
