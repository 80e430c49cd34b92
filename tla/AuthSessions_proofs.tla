------------------------- MODULE AuthSessions_proofs --------------------------
(***************************************************************************)
(* Proofs about AuthSessions, for any number of users, logins, requests    *)
(* and failing commands: typing, and that dead families stay dead.         *)
(*                                                                         *)
(* Typing needs to know which request is where (Wired): a request at "jti" *)
(* is a login or a rotation, and has a token of its own family in hand.    *)
(***************************************************************************)
EXTENDS AuthSessions, FiniteSetTheorems, TLAPS

\* Requests between two commands.
Wired ==
    {t \in Tx :
       /\ t.pc = "idle" <=> t.op = "none"
       /\ t.pc # "idle" => t.usr \in User
       /\ t.op \notin {"none", "revoke_all"} => t.fam \in Family
       /\ t.op \in {"login", "refresh", "logout"} => t.tok \in Token /\ t.tok[1] = t.fam
       /\ t.pc = "jti" => t.op \in {"login", "refresh"}
       /\ t.pc \in {"family", "key", "index"} => t.op = "login"
       /\ t.pc \in {"check", "live", "suspect", "wipe"} => t.op = "refresh"
       /\ t.pc = "old" => t.op \in {"refresh", "logout"}
       /\ t.pc = "list" => t.op \in {"login", "logout", "revoke_all"}
       /\ t.pc = "own" => t.op \in {"logout", "revoke"}
       /\ t.pc = "drop" => t.op \in {"login", "logout", "revoke"}
       /\ t.pc \in {"members", "unindex"} => t.op = "revoke_all"}

TxInv == tx \in [Worker -> Wired]

StoreInv ==
    /\ refresh \subseteq Token /\ held \subseteq Token
    /\ family \in [Family -> {"absent", "active", "inactive"}]
    /\ session \subseteq Family /\ index \subseteq Family

CountInv ==
    /\ minted \in [Family -> Nat] /\ since \in [Family -> Nat]
    /\ faults \in 0..MaxFaults /\ failed \in BOOLEAN

IInv == StoreInv /\ CountInv /\ TxInv

-----------------------------------------------------------------------------
(* Lemmas about the operators of the module.                               *)

LEMMA IdleIsWired == Idle \in Wired
BY NoneAssumption DEF Idle, Wired, Tx, Ops, Points

\* A step of a request changes its own record.
LEMMA TxStays ==
    ASSUME TxInv, NEW w \in Worker, NEW t \in Wired, tx' = [tx EXCEPT ![w] = t]
    PROVE  TxInv'
BY DEF TxInv

LEMMA DoneIsWired ==
    ASSUME TxInv, NEW w \in Worker, Done(w)
    PROVE  TxInv'
BY TxStays, IdleIsWired DEF Done

\* The commands that change the place only.
LEMMA GotoIsWired ==
    ASSUME TxInv, NEW w \in Worker, NEW pc \in Points, Goto(w, pc),
           pc # "idle", tx[w].pc # "idle",
           pc = "jti" => tx[w].op \in {"login", "refresh"},
           pc \in {"family", "key", "index"} => tx[w].op = "login",
           pc \in {"check", "live", "suspect", "wipe"} => tx[w].op = "refresh",
           pc = "old" => tx[w].op \in {"refresh", "logout"},
           pc = "list" => tx[w].op \in {"login", "logout", "revoke_all"},
           pc = "own" => tx[w].op \in {"logout", "revoke"},
           pc = "drop" => tx[w].op \in {"login", "logout", "revoke"},
           pc \in {"members", "unindex"} => tx[w].op = "revoke_all"
    PROVE  TxInv'
<1> DEFINE t == [tx[w] EXCEPT !.pc = pc]
<1>1. t \in Wired
  BY DEF TxInv, Wired, Tx
<1> QED
  BY <1>1, TxStays DEF Goto

LEMMA ReplyTypes ==
    ASSUME CountInv, NEW ok, Reply(ok)
    PROVE  faults' \in 0..MaxFaults /\ failed' \in BOOLEAN
<1>1. CASE ok
  <2>1. faults' = faults /\ failed' = failed
    BY <1>1 DEF Reply
  <2> QED
    BY <2>1 DEF CountInv
<1>2. CASE ~ok
  <2>1. faults < MaxFaults /\ faults' = faults + 1 /\ failed' = TRUE
    BY <1>2 DEF Reply
  <2>2. faults' \in 0..MaxFaults
    BY <2>1, LimitAssumption DEF CountInv
  <2> QED
    BY <2>1, <2>2, Zenon
<1> QED
  BY <1>1, <1>2

LEMMA TodoIsWired ==
    ASSUME TxInv, NEW w \in Worker, NEW S \in SUBSET Family, NEW pc \in Points,
           tx' = [tx EXCEPT ![w] = [tx[w] EXCEPT !.todo = S, !.pc = pc]],
           tx[w].pc # "idle",
           \/ pc = "kill"
           \/ pc = "members" /\ tx[w].op = "revoke_all"
           \/ pc = "key" /\ tx[w].op = "login"
    PROVE  TxInv'
<1> DEFINE t == [tx[w] EXCEPT !.todo = S, !.pc = pc]
<1>1. t \in Wired
  BY DEF TxInv, Wired, Tx
<1> QED
  BY <1>1, TxStays

-----------------------------------------------------------------------------
(* Each step preserves the invariant.                                      *)

LEMMA InitTypes == Init => IInv
<1> SUFFICES ASSUME Init PROVE IInv
  OBVIOUS
<1>1. StoreInv
  BY DEF Init, StoreInv
<1>2. TxInv
  BY IdleIsWired DEF Init, TxInv
<1>3. minted \in [Family -> Nat] /\ since \in [Family -> Nat] /\ faults \in 0..MaxFaults
  BY LimitAssumption DEF Init
<1>4. failed \in BOOLEAN
  BY Zenon DEF Init
<1> QED
  BY <1>1, <1>2, <1>3, <1>4, Zenon DEF IInv, CountInv

LEMMA BeginTypes ==
    ASSUME IInv, NEW w \in Worker, Begin(w)
    PROVE  IInv'
<1> USE DEF IInv, StoreInv, CountInv
<1>1. ASSUME NEW t \in Wired, tx' = [tx EXCEPT ![w] = t]
      PROVE  TxInv'
  BY <1>1, TxStays
<1>2. ASSUME NEW f \in Family, IssueTokens(w, f)
      PROVE  IInv'
  <2> DEFINE t == [Idle EXCEPT !.op = "login", !.pc = "jti", !.usr = Owner[f], !.fam = f,
                               !.tok = <<f, 1>>]
  <2>0. <<f, 1>> \in Token /\ <<f, 1>>[1] = f /\ Owner[f] \in User
    BY OwnerAssumption DEF Token
  <2>1. t \in Wired
    BY <2>0 DEF Idle, Wired, Tx, Ops, Points
  <2>2. TxInv'
    BY <1>2, <2>1, <1>1 DEF IssueTokens
  <2> QED
    BY <1>2, <2>2 DEF IssueTokens, store
<1>3. ASSUME NEW f \in Family, BeginRevokeSession(w, f)
      PROVE  IInv'
  <2> DEFINE t == [Idle EXCEPT !.op = "revoke", !.pc = "own", !.usr = Owner[f], !.fam = f]
  <2>1. t \in Wired
    BY OwnerAssumption DEF Idle, Wired, Tx, Ops, Points
  <2>2. TxInv'
    BY <1>3, <2>1, <1>1 DEF BeginRevokeSession
  <2> QED
    BY <1>3, <2>2 DEF BeginRevokeSession, store
<1>4. ASSUME NEW c \in held, BeginRefresh(w, c) \/ BeginLogout(w, c)
      PROVE  IInv'
  <2> DEFINE t(op, pc) == [Idle EXCEPT !.op = op, !.pc = pc, !.usr = Owner[c[1]],
                                       !.fam = c[1], !.tok = c]
  <2>0. c \in Token /\ c[1] \in Family
    BY DEF Token
  <2>1. t("refresh", "check") \in Wired /\ t("logout", "old") \in Wired
    BY <2>0, OwnerAssumption DEF Idle, Wired, Tx, Ops, Points
  <2>2. TxInv'
    BY <1>4, <2>1, <1>1 DEF BeginRefresh, BeginLogout
  <2> QED
    BY <1>4, <2>2 DEF BeginRefresh, BeginLogout, store
<1>5. ASSUME NEW u \in User, BeginRevokeAll(w, u)
      PROVE  IInv'
  <2> DEFINE t == [Idle EXCEPT !.op = "revoke_all", !.pc = "list", !.usr = u]
  <2>1. t \in Wired
    BY NoneAssumption DEF Idle, Wired, Tx, Ops, Points
  <2>2. TxInv'
    BY <1>5, <2>1, <1>1 DEF BeginRevokeAll
  <2> QED
    BY <1>5, <2>2 DEF BeginRevokeAll, store
<1> QED
  BY <1>2, <1>3, <1>4, <1>5 DEF Begin

\* A command that stores nothing but what it is asked to.
LEMMA StoreTypes ==
    ASSUME IInv, NEW w \in Worker, NEW ok \in BOOLEAN, NEW f \in Family,
           tx[w].pc # "idle"
    PROVE  /\ ListUserSessions(tx[w].usr, ok) => index' \subseteq Family
           /\ RevokeTokenFamily(f, ok) => family' \in [Family -> {"absent", "active", "inactive"}]
           /\ DeleteSession(f, ok) => session' \subseteq Family /\ index' \subseteq Family
BY DEF IInv, StoreInv, ListUserSessions, RevokeTokenFamily, DeleteSession

\* A request in hand of a pair is answered with it.
LEMMA AnswerTypes ==
    ASSUME IInv, NEW w \in Worker, tx[w].op \in {"login", "refresh"}, Answer(w, tx[w].tok)
    PROVE  TxInv' /\ held' \subseteq Token
<1>1. tx[w].tok \in Token
  BY DEF IInv, TxInv, Wired
<1> QED
  BY <1>1, DoneIsWired DEF IInv, StoreInv, Answer

LEMMA LoginTypes ==
    ASSUME IInv, NEW w \in Worker, NEW ok \in BOOLEAN, LoginStep(w, ok)
    PROVE  IInv'
<1> USE DEF IInv
<1> DEFINE f == tx[w].fam
<1>0. ASSUME Reply(ok), minted' \in [Family -> Nat], since' \in [Family -> Nat]
      PROVE  CountInv'
  BY <1>0, ReplyTypes, Zenon DEF CountInv
<1>1. CASE StoreRefreshJti(w, ok)
  <2>1. tx[w].op \in {"login", "refresh"} /\ tx[w].tok \in Token /\ At(w, "jti")
    BY <1>1 DEF StoreRefreshJti, At, TxInv, Wired
  <2>2. TxInv' /\ held' \subseteq Token
    <3>1. CASE tx[w].op = "login"
      BY <1>1, <2>1, <3>1, GotoIsWired DEF StoreRefreshJti, At, Points, StoreInv
    <3>2. CASE tx[w].op # "login"
      BY <1>1, <2>1, <3>2, AnswerTypes DEF StoreRefreshJti
    <3> QED
      BY <3>1, <3>2
  <2>3. CountInv'
    BY <1>1, <1>0 DEF StoreRefreshJti, CountInv
  <2> QED
    BY <1>1, <2>1, <2>2, <2>3 DEF StoreRefreshJti, StoreInv
<1>2. CASE StoreTokenFamily(w, ok)
  <2>1. tx[w].op = "login" /\ f \in Family /\ At(w, "family")
    BY <1>2 DEF StoreTokenFamily, At, TxInv, Wired
  <2>2. TxInv'
    BY <1>2, <2>1, GotoIsWired DEF StoreTokenFamily, At, Points
  <2>3. Cardinality({g \in Family : since[g] > 0}) \in Nat
    BY FamilyAssumption, FS_Subset, FS_CardinalityType
  <2>4. since' \in [Family -> Nat]
    BY <1>2, <2>1, <2>3 DEF StoreTokenFamily, CountInv
  <2>5. CountInv'
    BY <1>2, <2>4, <1>0 DEF StoreTokenFamily, CountInv
  <2> QED
    BY <1>2, <2>1, <2>2, <2>5 DEF StoreTokenFamily, StoreInv
<1>3. CASE EnforceMaxSessions(w, ok)
  <2>1. tx[w].op = "login" /\ tx[w].pc = "list" /\ f \in Family
    BY <1>3 DEF EnforceMaxSessions, At, TxInv, Wired
  <2>2. PICK S \in SUBSET Family, pc \in {"key", "kill"} :
           tx' = [tx EXCEPT ![w] = [tx[w] EXCEPT !.todo = S, !.pc = pc]]
    BY <1>3 DEF EnforceMaxSessions, Oldest, Visible, StoreInv
  <2>3. TxInv'
    BY <2>1, <2>2, TodoIsWired DEF Points
  <2>4. index' \subseteq Family
    BY <1>3, <2>1, StoreTypes DEF EnforceMaxSessions
  <2>5. CountInv'
    BY <1>3, <1>0 DEF EnforceMaxSessions, CountInv
  <2> QED
    BY <1>3, <2>3, <2>4, <2>5 DEF EnforceMaxSessions, StoreInv
<1>4. CASE StoreSessionKey(w, ok)
  <2>1. tx[w].op = "login" /\ tx[w].pc = "key" /\ f \in Family
    BY <1>4 DEF StoreSessionKey, At, TxInv, Wired
  <2>2. TxInv' /\ held' \subseteq Token
    <3>1. CASE ok
      BY <1>4, <2>1, <3>1, GotoIsWired DEF StoreSessionKey, Points, StoreInv
    <3>2. CASE ~ok
      BY <1>4, <2>1, <3>2, AnswerTypes DEF StoreSessionKey
    <3> QED
      BY <3>1, <3>2
  <2>3. CountInv'
    BY <1>4, <1>0 DEF StoreSessionKey, CountInv
  <2> QED
    BY <1>4, <2>1, <2>2, <2>3 DEF StoreSessionKey, StoreInv
<1>5. CASE StoreSessionIndex(w, ok)
  <2>1. tx[w].op = "login" /\ tx[w].pc = "index" /\ f \in Family
    BY <1>5 DEF StoreSessionIndex, At, TxInv, Wired
  <2>2. TxInv' /\ held' \subseteq Token
    BY <1>5, <2>1, AnswerTypes DEF StoreSessionIndex
  <2>3. CountInv'
    BY <1>5, <1>0 DEF StoreSessionIndex, CountInv
  <2> QED
    BY <1>5, <2>1, <2>2, <2>3 DEF StoreSessionIndex, StoreInv
<1> QED
  BY <1>1, <1>2, <1>3, <1>4, <1>5 DEF LoginStep

LEMMA RefreshTypes ==
    ASSUME IInv, NEW w \in Worker, NEW ok \in BOOLEAN, RefreshStep(w, ok)
    PROVE  IInv'
<1> USE DEF IInv
<1>0. ASSUME Reply(ok), minted' \in [Family -> Nat], since' = since
      PROVE  CountInv'
  BY <1>0, ReplyTypes, Zenon DEF CountInv
<1>1. CASE CheckWhitelist(w, ok) \/ CheckFamily(w, ok) \/ DetectReplay(w, ok)
  <2>1. tx[w].op = "refresh" /\ tx[w].pc # "idle"
    BY <1>1 DEF CheckWhitelist, CheckFamily, DetectReplay, At, TxInv, Wired
  <2>2. Done(w) \/ \E pc \in {"live", "suspect", "old", "kill"} : Goto(w, pc)
    BY <1>1 DEF CheckWhitelist, CheckFamily, DetectReplay
  <2>3. TxInv'
    BY <2>1, <2>2, DoneIsWired, GotoIsWired DEF Points
  <2>4. UNCHANGED store /\ UNCHANGED <<minted, since, held>> /\ Reply(ok)
    BY <1>1 DEF CheckWhitelist, CheckFamily, DetectReplay
  <2>5. CountInv'
    BY <2>4, <1>0 DEF CountInv
  <2> QED
    BY <2>3, <2>4, <2>5 DEF StoreInv, store
<1>2. CASE RotateOld(w, ok)
  <2> DEFINE f == tx[w].fam
             n == minted[f] + 1
             t == [tx[w] EXCEPT !.tok = <<f, n>>, !.pc = "jti"]
  <2>1. f \in Family /\ tx[w] \in Wired /\ tx[w].op = "refresh"
    BY <1>2 DEF RotateOld, TxInv, Wired
  <2>2. n \in Nat \ {0}
    BY <2>1 DEF CountInv
  <2>3. <<f, n>> \in Token /\ <<f, n>>[1] = f
    BY <2>1, <2>2 DEF Token
  <2>4. t \in Wired
    BY <1>2, <2>1, <2>3 DEF RotateOld, At, Wired, Tx, Points
  <2>5. TxInv'
    BY <1>2, <2>4, TxStays DEF RotateOld
  <2>6. minted' \in [Family -> Nat]
    BY <1>2, <2>1, <2>2 DEF RotateOld, CountInv
  <2>7. CountInv'
    BY <1>2, <2>6, <1>0 DEF RotateOld
  <2> QED
    BY <1>2, <2>5, <2>7 DEF RotateOld, StoreInv
<1>3. CASE RevokeAllRefreshTokens(w, ok)
  <2>1. TxInv'
    BY <1>3, DoneIsWired DEF RevokeAllRefreshTokens
  <2>2. CountInv'
    BY <1>3, <1>0 DEF RevokeAllRefreshTokens, CountInv
  <2> QED
    BY <1>3, <2>1, <2>2 DEF RevokeAllRefreshTokens, StoreInv
<1> QED
  BY <1>1, <1>2, <1>3 DEF RefreshStep

LEMMA RevokeTypes ==
    ASSUME IInv, NEW w \in Worker, NEW ok \in BOOLEAN, RevokeStep(w, ok)
    PROVE  IInv'
<1> USE DEF IInv
<1>0. ASSUME Reply(ok), UNCHANGED <<minted, since>>
      PROVE  CountInv'
  BY <1>0, ReplyTypes, Zenon DEF CountInv
<1>1. CASE RevokeRefreshJti(w, ok)
  <2>1. tx[w].pc = "old" /\ TxInv'
    BY <1>1, GotoIsWired DEF RevokeRefreshJti, At, Points
  <2>2. CountInv'
    BY <1>1, <1>0 DEF RevokeRefreshJti
  <2> QED
    BY <1>1, <2>1, <2>2 DEF RevokeRefreshJti, StoreInv
<1>2. CASE FindSession(w, ok)
  <2>1. tx[w].op = "logout" /\ tx[w].pc # "idle" /\ tx[w].fam \in Family
    BY <1>2 DEF FindSession, At, TxInv, Wired
  <2>2. TxInv'
    BY <1>2, <2>1, GotoIsWired, DoneIsWired DEF FindSession, Points
  <2>3. index' \subseteq Family
    BY <1>2, <2>1, StoreTypes DEF FindSession
  <2>4. CountInv'
    BY <1>2, <1>0 DEF FindSession
  <2> QED
    BY <1>2, <2>2, <2>3, <2>4 DEF FindSession, StoreInv
<1>3. CASE GetSession(w, ok)
  <2>1. tx[w].pc # "idle"
    BY <1>3 DEF GetSession, At
  <2>2. CASE ok /\ tx[w].fam \in session
    <3> DEFINE S == {tx[w].fam}
    <3>1. S \in SUBSET Family
      BY <2>2 DEF StoreInv
    <3> QED
      BY <1>3, <2>1, <2>2, <3>1, TodoIsWired, <1>0 DEF GetSession, Points, StoreInv, store
  <2>3. CASE ~(ok /\ tx[w].fam \in session)
    BY <1>3, <2>3, DoneIsWired, <1>0 DEF GetSession, StoreInv, store
  <2> QED
    BY <2>2, <2>3
<1>4. CASE ListForRevokeAll(w, ok)
  <2>1. tx[w].op = "revoke_all" /\ tx[w].pc # "idle"
    BY <1>4 DEF ListForRevokeAll, At
  <2>2. PICK S \in SUBSET Family, pc \in {"members", "kill"} :
           tx' = [tx EXCEPT ![w] = [tx[w] EXCEPT !.todo = S, !.pc = pc]]
    BY <1>4 DEF ListForRevokeAll, Visible, StoreInv
  <2>3. TxInv'
    BY <2>1, <2>2, TodoIsWired DEF Points
  <2>4. index' \subseteq Family
    BY <1>4 DEF ListForRevokeAll, ListUserSessions, StoreInv
  <2>5. CountInv'
    BY <1>4, <1>0 DEF ListForRevokeAll
  <2> QED
    BY <1>4, <2>3, <2>4, <2>5 DEF ListForRevokeAll, StoreInv
<1>5. CASE DeleteAllUserSessions(w, ok) \/ DeleteUserIndex(w, ok)
  <2>1. tx[w].pc # "idle" /\ tx[w].op = "revoke_all"
    BY <1>5 DEF DeleteAllUserSessions, DeleteUserIndex, At, TxInv, Wired
  <2>2. TxInv'
    BY <1>5, <2>1, DoneIsWired, GotoIsWired DEF DeleteAllUserSessions, DeleteUserIndex, Points
  <2>3. CountInv'
    BY <1>5, <1>0 DEF DeleteAllUserSessions, DeleteUserIndex
  <2> QED
    BY <1>5, <2>2, <2>3 DEF DeleteAllUserSessions, DeleteUserIndex, StoreInv
<1>6. ASSUME NEW f \in Family, RevokeFamily(w, f, ok)
      PROVE  IInv'
  <2>1. tx[w].pc = "kill" /\ tx[w] \in Wired
    BY <1>6 DEF RevokeFamily, At, TxInv
  <2>2. TxInv'
    <3>1. CASE tx[w].op = "revoke_all"
      <4>1. PICK pc \in {"members", "kill"} :
              tx' = [tx EXCEPT ![w] = [tx[w] EXCEPT !.todo = tx[w].todo \ {f}, !.pc = pc]]
        BY <1>6, <3>1 DEF RevokeFamily, AfterKill
      <4>2. tx[w].todo \ {f} \in SUBSET Family
        BY <2>1 DEF Wired, Tx
      <4> QED
        BY <2>1, <3>1, <4>1, <4>2, TodoIsWired DEF Points
    <3>2. CASE tx[w].op # "revoke_all"
      <4>0. tx[w].op \in {"login", "refresh", "logout", "revoke"}
        BY <2>1, <3>2 DEF Wired, Tx, Ops
      <4>1. \E pc \in {"wipe", "list", "drop"} :
              /\ Goto(w, pc) /\ (pc = "wipe" => tx[w].op = "refresh")
              /\ pc = "list" => tx[w].op = "logout"
              /\ pc = "drop" => tx[w].op \in {"login", "logout", "revoke"}
        BY <1>6, <3>2, <4>0 DEF RevokeFamily, AfterKill
      <4> QED
        BY <2>1, <4>1, GotoIsWired DEF Points
    <3> QED
      BY <3>1, <3>2
  <2>3. CountInv'
    BY <1>6, <1>0 DEF RevokeFamily
  <2> QED
    BY <1>6, <2>1, <2>2, <2>3, StoreTypes DEF RevokeFamily, StoreInv
<1>7. ASSUME NEW f \in Family, DropSession(w, f, ok)
      PROVE  IInv'
  <2>1. tx[w].pc = "drop" /\ tx[w] \in Wired
    BY <1>7 DEF DropSession, At, TxInv
  <2>2. TxInv'
    <3>1. CASE tx[w].op = "login"
      <4>1. PICK pc \in {"key", "kill"} :
              tx' = [tx EXCEPT ![w] = [tx[w] EXCEPT !.todo = tx[w].todo \ {f}, !.pc = pc]]
        BY <1>7, <3>1 DEF DropSession
      <4>2. tx[w].todo \ {f} \in SUBSET Family
        BY <2>1 DEF Wired, Tx
      <4> QED
        BY <2>1, <3>1, <4>1, <4>2, TodoIsWired DEF Points
    <3>2. CASE tx[w].op # "login"
      BY <1>7, <3>2, DoneIsWired DEF DropSession
    <3> QED
      BY <3>1, <3>2
  <2>3. CountInv'
    BY <1>7, <1>0 DEF DropSession
  <2> QED
    BY <1>7, <2>1, <2>2, <2>3, StoreTypes DEF DropSession, StoreInv
<1> QED
  BY <1>1, <1>2, <1>3, <1>4, <1>5, <1>6, <1>7 DEF RevokeStep

LEMMA OtherTypes ==
    ASSUME IInv,
           \/ \E w \in Worker : Crash(w)
           \/ \E u \in User : ListSessions(u)
           \/ \E f \in Family : ExpireFamily(f)
    PROVE  IInv'
<1> USE DEF IInv
<1>1. ASSUME NEW w \in Worker, Crash(w)
      PROVE  IInv'
  <2>1. TxInv'
    BY <1>1, DoneIsWired DEF Crash
  <2>2. faults' \in 0..MaxFaults
    BY <1>1, LimitAssumption DEF Crash, CountInv
  <2>3. CountInv'
    BY <1>1, <2>2, Zenon DEF Crash, CountInv
  <2> QED
    BY <1>1, <2>1, <2>3 DEF Crash, StoreInv, store
<1>2. ASSUME NEW u \in User, ListSessions(u)
      PROVE  IInv'
  <2>1. CountInv'
    BY <1>2, Zenon DEF ListSessions, CountInv
  <2> QED
    BY <1>2, <2>1 DEF ListSessions, ListUserSessions, StoreInv, TxInv
<1>3. ASSUME NEW f \in Family, ExpireFamily(f)
      PROVE  IInv'
  <2>1. CountInv'
    BY <1>3, Zenon DEF ExpireFamily, CountInv
  <2> QED
    BY <1>3, <2>1 DEF ExpireFamily, StoreInv, TxInv
<1> QED
  BY <1>1, <1>2, <1>3

LEMMA StepTypes ==
    ASSUME IInv, [Next]_vars
    PROVE  IInv'
<1>1. CASE Next
  BY <1>1, BeginTypes, LoginTypes, RefreshTypes, RevokeTypes, OtherTypes DEF Next
<1>2. CASE UNCHANGED vars
  BY <1>2 DEF IInv, StoreInv, CountInv, TxInv, vars, store
<1> QED
  BY <1>1, <1>2

THEOREM Typed == Spec => []IInv
BY InitTypes, StepTypes, PTL DEF Spec

\* Whatever clients send and whichever commands fail, the store and the
\* requests have their types (TokenService, SessionService).
THEOREM TypeCorrect == Spec => []TypeOK
<1>1. IInv => TypeOK
  <2>1. TxInv => tx \in [Worker -> Tx]
    BY DEF TxInv, Wired
  <2> QED
    BY <2>1, Zenon DEF IInv, StoreInv, CountInv, TypeOK
<1> QED
  BY <1>1, Typed, PTL

-----------------------------------------------------------------------------
(* Dead families stay dead.                                                *)

\* What a step may do to a family that nothing is about to mint for: only a
\* login and a rotation of that family could touch it.
DeadStep(f) ==
    /\ family'[f] # "active" /\ minted'[f] = minted[f] /\ Live(f)' \subseteq Live(f)
    /\ \A w \in Worker : ~Minting(w, f)'

\* A step of w that stores nothing for f and does not set w to mint for it.
LEMMA QuietStep ==
    ASSUME NEW f \in Family, Quiet(f), NEW w \in Worker, NEW t,
           tx \in [Worker -> Wired], tx' = [tx EXCEPT ![w] = t],
           t.fam = f => t.pc \notin {"jti", "family", "old"} \/ t.op \notin {"login", "refresh"},
           family'[f] # "active", minted'[f] = minted[f], Live(f)' \subseteq Live(f)
    PROVE  DeadStep(f)
<1>1. ASSUME NEW v \in Worker
      PROVE  ~Minting(v, f)'
  BY DEF Quiet, Minting
<1> QED
  BY <1>1 DEF DeadStep

LEMMA DeadBegin ==
    ASSUME IInv, NEW f \in Family, Quiet(f), NEW w \in Worker, Begin(w)
    PROVE  DeadStep(f)
<1>0. minted[f] # 0 /\ family[f] # "active" /\ TxInv
  BY DEF Quiet, IInv, CountInv
<1>1. ASSUME NEW g \in Family, IssueTokens(w, g)
      PROVE  DeadStep(f)
  <2>1. g # f
    BY <1>0, <1>1 DEF IssueTokens, Fresh
  <2> DEFINE t == [Idle EXCEPT !.op = "login", !.pc = "jti", !.usr = Owner[g], !.fam = g,
                               !.tok = <<g, 1>>]
  <2>2. t.fam = g /\ tx' = [tx EXCEPT ![w] = t]
    BY <1>1 DEF IssueTokens, Idle
  <2>3. minted'[f] = minted[f] /\ UNCHANGED <<family, refresh>> /\ Live(f)' \subseteq Live(f)
    BY <1>1, <2>1 DEF IssueTokens, store, IInv, CountInv, Live
  <2> QED
    BY <1>0, <2>1, <2>2, <2>3, QuietStep DEF TxInv
<1>2. ASSUME ~\E g \in Family : IssueTokens(w, g)
      PROVE  DeadStep(f)
  <2>1. PICK t : /\ tx' = [tx EXCEPT ![w] = t]
                 /\ t.pc \notin {"jti", "family", "old"} \/ t.op \notin {"login", "refresh"}
    <3> DEFINE Fits(t) == tx' = [tx EXCEPT ![w] = t]
                          /\ (t.pc \notin {"jti", "family", "old"} \/ t.op \notin {"login", "refresh"})
    <3>1. ASSUME NEW g \in Family, BeginRevokeSession(w, g)
          PROVE  \E t : Fits(t)
      <4>1. Fits([Idle EXCEPT !.op = "revoke", !.pc = "own", !.usr = Owner[g], !.fam = g])
        BY <3>1 DEF BeginRevokeSession, Idle
      <4> QED
        BY <4>1
    <3>2. ASSUME NEW c \in held, BeginRefresh(w, c)
          PROVE  \E t : Fits(t)
      <4>1. Fits([Idle EXCEPT !.op = "refresh", !.pc = "check", !.usr = Owner[c[1]],
                              !.fam = c[1], !.tok = c])
        BY <3>2 DEF BeginRefresh, Idle
      <4> QED
        BY <4>1
    <3>3. ASSUME NEW c \in held, BeginLogout(w, c)
          PROVE  \E t : Fits(t)
      <4>1. Fits([Idle EXCEPT !.op = "logout", !.pc = "old", !.usr = Owner[c[1]],
                              !.fam = c[1], !.tok = c])
        BY <3>3 DEF BeginLogout, Idle
      <4> QED
        BY <4>1
    <3>4. ASSUME NEW u \in User, BeginRevokeAll(w, u)
          PROVE  \E t : Fits(t)
      <4>1. Fits([Idle EXCEPT !.op = "revoke_all", !.pc = "list", !.usr = u])
        BY <3>4 DEF BeginRevokeAll, Idle
      <4> QED
        BY <4>1
    <3> QED
      BY <1>2, <3>1, <3>2, <3>3, <3>4 DEF Begin
  <2>2. UNCHANGED <<family, refresh, minted>> /\ Live(f)' \subseteq Live(f)
    BY <1>2 DEF Begin, BeginRevokeSession, BeginRefresh, BeginLogout, BeginRevokeAll, store, Live
  <2> QED
    BY <1>0, <2>1, <2>2, QuietStep DEF TxInv
<1> QED
  BY <1>1, <1>2

\* A request that goes on to a place where nothing is minted.
LEMMA DeadGoto ==
    ASSUME TxInv, NEW f \in Family, Quiet(f), NEW w \in Worker, NEW pc,
           Done(w) \/ (Goto(w, pc) /\ (pc \in {"jti", "family", "old"} => ~Minting(w, f)' )),
           family'[f] # "active", minted'[f] = minted[f], Live(f)' \subseteq Live(f)
    PROVE  DeadStep(f)
<1>1. PICK t : /\ tx' = [tx EXCEPT ![w] = t]
               /\ t.fam = f => t.pc \notin {"jti", "family", "old"} \/ t.op \notin {"login", "refresh"}
  <2>1. CASE Done(w)
    <3>1. Idle.op = "none"
      BY DEF Idle
    <3> QED
      BY <2>1, <3>1 DEF Done
  <2>2. CASE Goto(w, pc) /\ (pc \in {"jti", "family", "old"} => ~Minting(w, f)')
    <3> DEFINE t == [tx[w] EXCEPT !.pc = pc]
    <3>1. tx' = [tx EXCEPT ![w] = t] /\ tx'[w] = t /\ t.pc = pc
      BY <2>2 DEF Goto, TxInv, Wired, Tx
    <3> QED
      BY <2>2, <3>1 DEF Minting
  <2> QED
    BY <2>1, <2>2
<1> QED
  BY <1>1, QuietStep DEF TxInv

LEMMA DeadLogin ==
    ASSUME IInv, NEW f \in Family, Quiet(f), NEW w \in Worker, NEW ok \in BOOLEAN,
           LoginStep(w, ok)
    PROVE  DeadStep(f)
<1>0. TxInv /\ family[f] # "active" /\ ~Minting(w, f) /\ minted \in [Family -> Nat]
  BY DEF IInv, CountInv, Quiet
<1>1. CASE StoreRefreshJti(w, ok)
  <2>1. tx[w].fam # f /\ tx[w].tok[1] # f
    BY <1>0, <1>1 DEF StoreRefreshJti, At, Minting, TxInv, Wired
  <2>2. Live(f)' \subseteq Live(f) /\ UNCHANGED <<family, minted>>
    BY <1>1, <2>1 DEF StoreRefreshJti, Live
  <2>3. Done(w) \/ Goto(w, "family")
    BY <1>1 DEF StoreRefreshJti, Answer
  <2>4. Goto(w, "family") => ~Minting(w, f)'
    BY <1>0, <2>1 DEF Goto, Minting, TxInv, Wired, Tx
  <2> QED
    BY <1>0, <2>2, <2>3, <2>4, DeadGoto
<1>2. CASE StoreTokenFamily(w, ok)
  <2>1. tx[w].fam # f
    BY <1>0, <1>2 DEF StoreTokenFamily, At, Minting, TxInv, Wired
  <2>2. Live(f)' \subseteq Live(f) /\ UNCHANGED minted /\ family'[f] # "active"
    BY <1>0, <1>2, <2>1 DEF StoreTokenFamily, Live, IInv, StoreInv
  <2>3. Goto(w, "list")
    BY <1>2 DEF StoreTokenFamily
  <2> QED
    BY <1>0, <2>2, <2>3, DeadGoto
<1>3. CASE EnforceMaxSessions(w, ok)
  <2>1. PICK S \in SUBSET Family, pc \in {"key", "kill"} :
           tx' = [tx EXCEPT ![w] = [tx[w] EXCEPT !.todo = S, !.pc = pc]]
    BY <1>3 DEF EnforceMaxSessions, Oldest, Visible, IInv, StoreInv
  <2>2. [tx[w] EXCEPT !.todo = S, !.pc = pc].pc = pc
    BY <1>0 DEF TxInv, Wired, Tx
  <2>3. Live(f)' \subseteq Live(f) /\ UNCHANGED <<minted, family>>
    BY <1>3 DEF EnforceMaxSessions, Live
  <2> QED
    BY <1>0, <2>1, <2>2, <2>3, QuietStep DEF TxInv
<1>4. CASE StoreSessionKey(w, ok) \/ StoreSessionIndex(w, ok)
  <2>1. Done(w) \/ Goto(w, "index")
    BY <1>4 DEF StoreSessionKey, StoreSessionIndex, Answer
  <2>2. Live(f)' \subseteq Live(f) /\ UNCHANGED <<minted, family>>
    BY <1>4 DEF StoreSessionKey, StoreSessionIndex, Live
  <2> QED
    BY <1>0, <2>1, <2>2, DeadGoto
<1> QED
  BY <1>1, <1>2, <1>3, <1>4 DEF LoginStep

LEMMA DeadRefresh ==
    ASSUME IInv, NEW f \in Family, Quiet(f), NEW w \in Worker, NEW ok \in BOOLEAN,
           RefreshStep(w, ok)
    PROVE  DeadStep(f)
<1>0. TxInv /\ family[f] # "active" /\ ~Minting(w, f) /\ minted \in [Family -> Nat]
  BY DEF IInv, CountInv, Quiet
<1>1. CASE CheckFamily(w, ok)
  <2>1. Done(w) \/ (Goto(w, "old") /\ tx[w].fam # f)
    BY <1>0, <1>1 DEF CheckFamily
  <2>2. Goto(w, "old") /\ tx[w].fam # f => ~Minting(w, f)'
    BY <1>0 DEF Goto, Minting, TxInv, Wired, Tx
  <2>3. Live(f)' \subseteq Live(f) /\ UNCHANGED <<minted, family>>
    BY <1>1 DEF CheckFamily, store, Live
  <2> QED
    BY <1>0, <2>1, <2>2, <2>3, DeadGoto
<1>2. CASE CheckWhitelist(w, ok) \/ DetectReplay(w, ok)
  <2>1. Done(w) \/ \E pc \in {"live", "suspect", "kill"} : Goto(w, pc)
    BY <1>2 DEF CheckWhitelist, DetectReplay
  <2>2. Live(f)' \subseteq Live(f) /\ UNCHANGED <<minted, family>>
    BY <1>2 DEF CheckWhitelist, DetectReplay, store, Live
  <2> QED
    BY <1>0, <2>1, <2>2, DeadGoto
<1>3. CASE RotateOld(w, ok)
  <2> DEFINE g == tx[w].fam
             t == [tx[w] EXCEPT !.tok = <<g, minted[g] + 1>>, !.pc = "jti"]
  <2>1. g # f /\ g \in Family
    BY <1>0, <1>3 DEF RotateOld, At, Minting, TxInv, Wired
  <2>2. t.fam = g /\ tx' = [tx EXCEPT ![w] = t]
    BY <1>0, <1>3 DEF RotateOld, TxInv, Wired, Tx
  <2>3. Live(f)' \subseteq Live(f) /\ UNCHANGED family /\ minted'[f] = minted[f]
    BY <1>0, <1>3, <2>1 DEF RotateOld, Live
  <2> QED
    BY <1>0, <2>1, <2>2, <2>3, QuietStep DEF TxInv
<1>4. CASE RevokeAllRefreshTokens(w, ok)
  <2>1. Live(f)' \subseteq Live(f) /\ UNCHANGED <<minted, family>> /\ Done(w)
    BY <1>4 DEF RevokeAllRefreshTokens, Live
  <2> QED
    BY <1>0, <2>1, DeadGoto
<1> QED
  BY <1>1, <1>2, <1>3, <1>4 DEF RefreshStep

LEMMA DeadRevoke ==
    ASSUME IInv, NEW f \in Family, Quiet(f), NEW w \in Worker, NEW ok \in BOOLEAN,
           RevokeStep(w, ok)
    PROVE  DeadStep(f)
<1>0. TxInv /\ family \in [Family -> {"absent", "active", "inactive"}] /\ family[f] # "active"
  BY DEF IInv, StoreInv, Quiet
<1>1. ASSUME NEW pc, NEW S, pc \notin {"jti", "family", "old"},
             tx' = [tx EXCEPT ![w] = [tx[w] EXCEPT !.todo = S, !.pc = pc]],
             family'[f] # "active", UNCHANGED minted, Live(f)' \subseteq Live(f)
      PROVE  DeadStep(f)
  <2>1. [tx[w] EXCEPT !.todo = S, !.pc = pc].pc = pc
    BY <1>0 DEF TxInv, Wired, Tx
  <2> QED
    BY <1>0, <1>1, <2>1, QuietStep DEF TxInv
<1>2. ASSUME NEW pc, pc \notin {"jti", "family", "old"}, Done(w) \/ Goto(w, pc),
             family'[f] # "active", UNCHANGED minted, Live(f)' \subseteq Live(f)
      PROVE  DeadStep(f)
  BY <1>0, <1>2, DeadGoto
<1>3. CASE RevokeRefreshJti(w, ok)
  <2>1. Goto(w, "kill") /\ UNCHANGED <<family, minted>> /\ Live(f)' \subseteq Live(f)
    BY <1>3 DEF RevokeRefreshJti, Live
  <2> QED
    BY <1>0, <1>2, <2>1
<1>4. CASE FindSession(w, ok)
  <2>1. Done(w) \/ Goto(w, "own")
    BY <1>4 DEF FindSession
  <2>2. UNCHANGED <<family, minted>> /\ Live(f)' \subseteq Live(f)
    BY <1>4 DEF FindSession, Live
  <2> QED
    BY <1>0, <1>2, <2>1, <2>2
<1>5. CASE GetSession(w, ok)
  <2>1. \/ Done(w)
        \/ \E S : \E pc \in {"kill"} :
             tx' = [tx EXCEPT ![w] = [tx[w] EXCEPT !.todo = S, !.pc = pc]]
    BY <1>5 DEF GetSession
  <2>2. UNCHANGED <<family, minted>> /\ Live(f)' \subseteq Live(f)
    BY <1>5 DEF GetSession, store, Live
  <2> QED
    BY <1>0, <1>1, <1>2, <2>1, <2>2
<1>6. CASE ListForRevokeAll(w, ok)
  <2>1. \E S : \E pc \in {"members", "kill"} :
           tx' = [tx EXCEPT ![w] = [tx[w] EXCEPT !.todo = S, !.pc = pc]]
    BY <1>6 DEF ListForRevokeAll
  <2>2. UNCHANGED <<family, minted>> /\ Live(f)' \subseteq Live(f)
    BY <1>6 DEF ListForRevokeAll, Live
  <2> QED
    BY <1>0, <1>1, <2>1, <2>2
<1>7. CASE DeleteAllUserSessions(w, ok) \/ DeleteUserIndex(w, ok)
  <2>1. Done(w) \/ Goto(w, "unindex")
    BY <1>7 DEF DeleteAllUserSessions, DeleteUserIndex
  <2>2. UNCHANGED <<family, minted>> /\ Live(f)' \subseteq Live(f)
    BY <1>7 DEF DeleteAllUserSessions, DeleteUserIndex, Live
  <2> QED
    BY <1>0, <1>2, <2>1, <2>2
<1>8. ASSUME NEW g \in Family, RevokeFamily(w, g, ok)
      PROVE  DeadStep(f)
  <2>1. UNCHANGED minted /\ Live(f)' \subseteq Live(f)
    BY <1>8 DEF RevokeFamily, Live
  <2>2. family'[f] # "active"
    BY <1>0, <1>8 DEF RevokeFamily, RevokeTokenFamily
  <2>3. \/ \E pc \in {"wipe", "list", "drop"} : Goto(w, pc)
        \/ \E S : \E pc \in {"members", "kill"} :
             tx' = [tx EXCEPT ![w] = [tx[w] EXCEPT !.todo = S, !.pc = pc]]
    BY <1>8 DEF RevokeFamily, AfterKill
  <2> QED
    BY <1>1, <1>2, <2>1, <2>2, <2>3
<1>9. ASSUME NEW g \in Family, DropSession(w, g, ok)
      PROVE  DeadStep(f)
  <2>1. UNCHANGED <<family, minted>> /\ Live(f)' \subseteq Live(f)
    BY <1>9 DEF DropSession, Live
  <2>2. \/ Done(w)
        \/ \E S : \E pc \in {"key", "kill"} :
             tx' = [tx EXCEPT ![w] = [tx[w] EXCEPT !.todo = S, !.pc = pc]]
    BY <1>9 DEF DropSession
  <2> QED
    BY <1>0, <1>1, <1>2, <2>1, <2>2
<1> QED
  BY <1>3, <1>4, <1>5, <1>6, <1>7, <1>8, <1>9 DEF RevokeStep

LEMMA DeadOther ==
    ASSUME IInv, NEW f \in Family, Quiet(f),
           \/ \E w \in Worker : Crash(w)
           \/ \E u \in User : ListSessions(u)
           \/ \E g \in Family : ExpireFamily(g)
    PROVE  DeadStep(f)
<1>0. TxInv /\ family \in [Family -> {"absent", "active", "inactive"}] /\ family[f] # "active"
  BY DEF IInv, StoreInv, Quiet
<1>1. ASSUME NEW w \in Worker, Crash(w)
      PROVE  DeadStep(f)
  <2>1. Done(w) /\ UNCHANGED <<family, minted>> /\ Live(f)' \subseteq Live(f)
    BY <1>1 DEF Crash, store, Live
  <2> QED
    BY <1>0, <2>1, DeadGoto
<1>2. CASE (\E u \in User : ListSessions(u)) \/ (\E g \in Family : ExpireFamily(g))
  <2>1. family'[f] # "active" /\ UNCHANGED <<minted, tx>> /\ Live(f)' \subseteq Live(f)
    BY <1>0, <1>2 DEF ListSessions, ExpireFamily, Live
  <2>2. \A w \in Worker : ~Minting(w, f)'
    BY <2>1 DEF Quiet, Minting
  <2> QED
    BY <2>1, <2>2 DEF DeadStep
<1> QED
  BY <1>1, <1>2

\* A family that was revoked or has expired, and that no request is about to
\* mint for, is never active again, and no pair of it is minted or listed,
\* whatever is replayed and whichever commands fail
\* (revoke_token_family, rotate_refresh_token).
THEOREM DeadFamilies == Spec => DeadFamiliesStayDead
<1>1. ASSUME IInv, [Next]_vars, NEW f \in Family, Quiet(f)
      PROVE  Quiet(f)' /\ minted'[f] = minted[f] /\ Live(f)' \subseteq Live(f)
  <2>1. DeadStep(f)
    <3>1. CASE Next
      BY <1>1, <3>1, DeadBegin, DeadLogin, DeadRefresh, DeadRevoke, DeadOther DEF Next
    <3>2. CASE UNCHANGED vars
      BY <1>1, <3>2 DEF vars, store, DeadStep, Quiet, Minting, Live
    <3> QED
      BY <1>1, <3>1, <3>2
  <2> QED
    BY <1>1, <2>1 DEF DeadStep, Quiet
<1>2. IInv /\ [Next]_vars =>
        [\A f \in Family : Quiet(f) =>
            Quiet(f)' /\ minted'[f] = minted[f] /\ Live(f)' \subseteq Live(f)]_vars
  BY <1>1
<1> QED
  BY <1>2, Typed, PTL DEF Spec, DeadFamiliesStayDead
===============================================================================
