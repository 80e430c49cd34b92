----------------------- MODULE SessionList_proofs ----------------------------
(***************************************************************************)
(* What users see of their devices, for any number of users, logins and    *)
(* requests, and any limit: a device that can refresh is listed; after a   *)
(* revocation of all sessions none can; nobody has more sessions than the  *)
(* limit.  Off the overlaps that raced and crowded name, and as long as no *)
(* command fails.                                                          *)
(*                                                                         *)
(* A family is created before its session is listed and revoked before it  *)
(* is taken off the list, so each property holds only between requests.    *)
(* TasksInv says which sessions a request is going to revoke; Dropping,    *)
(* Listing, Storing and Sweeping say what is already true of a family when *)
(* a request stands between two commands on it.  For the limit, Alone says *)
(* that an uncrowded login is the only one of its user, and Room that      *)
(* there is room for the session it is about to list.                      *)
(***************************************************************************)
EXTENDS AuthHistory_proofs

-----------------------------------------------------------------------------
(* The sessions a request is going to revoke.                              *)

Tasks(w) ==
    /\ \A f \in tx[w].todo : since[f] > 0 /\ Owner[f] = tx[w].usr
    /\ tx[w].op \in {"logout", "revoke"} => tx[w].todo \subseteq {tx[w].fam}
    /\ \/ tx[w].pc = "drop"
       \/ tx[w].pc = "kill" /\ tx[w].op \in {"login", "revoke"}
       => tx[w].todo # {}
    /\ tx[w].pc \in {"key", "index"} => tx[w].todo = {}

TasksInv == \A w \in Worker : Tasks(w)

\* The time of a session's creation is set once.
LEMMA SinceStays ==
    ASSUME BaseInv, [Next]_vars, NEW f \in Family, since[f] > 0
    PROVE  since'[f] = since[f]
<1>0. IInv
  BY DEF BaseInv
<1>1. CASE Calm
  BY <1>1 DEF Calm, Shrinks
<1>2. ASSUME NEW w \in Worker, NEW ok \in BOOLEAN, StoreTokenFamily(w, ok)
      PROVE  since'[f] = since[f]
  <2>1. tx[w].pc = "family" /\ tx[w].op = "login" /\ Serves(w)
    BY <1>0, <1>2 DEF StoreTokenFamily, At, IInv, TxInv, Wired, BaseInv, LifeInv
  <2>2. tx[w].fam # f
    BY <2>1 DEF Serves
  <2> QED
    BY <1>0, <1>2, <2>2 DEF StoreTokenFamily, IInv, CountInv
<1>3. CASE since' = since
  BY <1>3
<1> QED
  BY <1>0, <1>1, <1>2, <1>3, LifeShape
     DEF IssueTokens, StoreRefreshJti, StoreSessionKey, StoreSessionIndex, RotateOld, ExpireFamily

\* Every step but those that choose what to revoke, and go through it.
Same(w) ==
    \/ Ends(w) \/ Opens(w)
    \/ /\ Goes(w) /\ tx'[w].todo = tx[w].todo
       /\ \/ tx'[w].pc \notin {"drop", "kill", "key", "index"}
          \/ tx'[w].pc = "kill" /\ tx[w].op \in {"refresh", "logout"}
          \/ tx'[w].pc = "index" /\ tx[w].pc = "key"

LEMMA TasksMove ==
    ASSUME BaseInv, TasksInv, [Next]_vars, NEW w \in Worker, OnlyMoves(w), Tasks(w)'
    PROVE  TasksInv'
<1>1. ASSUME NEW v \in Worker, v # w
      PROVE  Tasks(v)'
  <2>1. tx'[v] = tx[v] /\ Tasks(v)
    BY <1>1 DEF OnlyMoves, TasksInv
  <2>2. tx[v].todo \subseteq Family
    BY DEF BaseInv, IInv, TxInv, Wired, Tx
  <2>3. \A f \in tx[v].todo : since'[f] > 0
    BY <2>1, <2>2, SinceStays DEF Tasks
  <2> QED
    BY <2>1, <2>3 DEF Tasks
<1> QED
  BY <1>1 DEF TasksInv

LEMMA TasksSame ==
    ASSUME BaseInv, TasksInv, [Next]_vars, NEW w \in Worker, OnlyMoves(w), Same(w)
    PROVE  TasksInv'
<1>1. Tasks(w)
  BY DEF TasksInv
<1>2. tx[w].todo \subseteq Family
  BY DEF BaseInv, IInv, TxInv, Wired, Tx
<1>3. \A f \in tx[w].todo : since'[f] > 0
  BY <1>1, <1>2, SinceStays DEF Tasks
<1>4. CASE Ends(w)
  BY <1>4, TasksMove DEF Ends, Idle, Tasks
<1>5. CASE Opens(w)
  BY <1>5, TasksMove DEF Opens, Tasks
<1>6. CASE Goes(w) /\ tx'[w].todo = tx[w].todo
           /\ \/ tx'[w].pc \notin {"drop", "kill", "key", "index"}
              \/ tx'[w].pc = "kill" /\ tx[w].op \in {"refresh", "logout"}
              \/ tx'[w].pc = "index" /\ tx[w].pc = "key"
  <2>1. Tasks(w)'
    BY <1>1, <1>3, <1>6 DEF Tasks, Goes
  <2> QED
    BY <2>1, TasksMove
<1> QED
  BY <1>4, <1>5, <1>6 DEF Same

LEMMA TasksGoto ==
    ASSUME BaseInv, TasksInv, [Next]_vars, NEW w \in Worker, NEW pc, Goto(w, pc),
           \/ pc \notin {"drop", "kill", "key", "index"}
           \/ pc = "kill" /\ tx[w].op \in {"refresh", "logout"}
           \/ pc = "index" /\ tx[w].pc = "key"
    PROVE  TasksInv'
<1>1. OnlyMoves(w) /\ Goes(w) /\ tx'[w].pc = pc /\ tx'[w].todo = tx[w].todo
  BY GotoShape DEF BaseInv, IInv
<1> QED
  BY <1>1, TasksSame DEF Same

LEMMA TasksDone ==
    ASSUME BaseInv, TasksInv, [Next]_vars, NEW w \in Worker, Done(w)
    PROVE  TasksInv'
<1>1. OnlyMoves(w) /\ Ends(w)
  BY DoneShape DEF BaseInv, IInv
<1> QED
  BY <1>1, TasksSame DEF Same

\* A request that lists sessions, or goes on to the next one.
LEMMA TasksList ==
    ASSUME BaseInv, TasksInv, [Next]_vars, NEW w \in Worker, NEW S \in SUBSET Family, NEW pc,
           tx' = [tx EXCEPT ![w] = [tx[w] EXCEPT !.todo = S, !.pc = pc]],
           \A f \in S : since[f] > 0 /\ Owner[f] = tx[w].usr,
           \/ tx[w].op = "login" /\ pc = (IF S = {} THEN "key" ELSE "kill")
           \/ tx[w].op = "revoke_all" /\ pc \in {"members", "kill"}
           \/ tx[w].op \in {"logout", "revoke"} /\ S = {tx[w].fam} /\ pc = "kill"
    PROVE  TasksInv'
<1>1. OnlyMoves(w) /\ Goes(w) /\ tx'[w].pc = pc /\ tx'[w].todo = S
  BY TodoShape DEF BaseInv, IInv
<1>2. \A f \in S : since'[f] > 0
  BY SinceStays
<1>3. Tasks(w)'
  BY <1>1, <1>2 DEF Tasks, Goes
<1> QED
  BY <1>1, <1>3, TasksMove

\* The listed sessions of the request's user.
LEMMA ListedSessions ==
    ASSUME BaseInv, NEW w \in Worker
    PROVE  /\ Visible(tx[w].usr) \subseteq Family
           /\ \A f \in Visible(tx[w].usr) : since[f] > 0 /\ Owner[f] = tx[w].usr
<1>1. index \subseteq Family /\ \A f \in Family : Grown(f)
  BY DEF BaseInv, IInv, StoreInv, LifeInv
<1>2. \A f \in index : since[f] > 0
  BY <1>1 DEF Grown
<1> QED
  BY <1>1, <1>2 DEF Visible

LEMMA TasksLogin ==
    ASSUME BaseInv, TasksInv, [Next]_vars, NEW w \in Worker, NEW ok \in BOOLEAN, LoginStep(w, ok)
    PROVE  TasksInv'
<1>0. TxInv
  BY DEF BaseInv, IInv
<1>1. CASE EnforceMaxSessions(w, ok)
  <2> DEFINE S == IF ok /\ Cardinality(Visible(tx[w].usr)) >= MaxSessions
                    THEN Oldest(Visible(tx[w].usr)) ELSE {}
             pc == IF S = {} THEN "key" ELSE "kill"
  <2>1. tx[w].op = "login" /\ tx' = [tx EXCEPT ![w] = [tx[w] EXCEPT !.todo = S, !.pc = pc]]
    BY <1>1 DEF EnforceMaxSessions
  <2>2. S \subseteq Visible(tx[w].usr)
    BY DEF Oldest
  <2>3. S \in SUBSET Family /\ \A f \in S : since[f] > 0 /\ Owner[f] = tx[w].usr
    BY <2>2, ListedSessions
  <2> HIDE DEF S
  <2> QED
    BY <2>1, <2>3, TasksList
<1>2. CASE ~EnforceMaxSessions(w, ok)
  <2>1. \/ Done(w) \/ Goto(w, "family") \/ Goto(w, "list")
        \/ Goto(w, "index") /\ tx[w].pc = "key"
    BY <1>2 DEF LoginStep, StoreRefreshJti, StoreTokenFamily, StoreSessionKey, StoreSessionIndex,
       Answer, At
  <2> QED
    BY <2>1, TasksDone, TasksGoto
<1> QED
  BY <1>1, <1>2

LEMMA TasksRefresh ==
    ASSUME BaseInv, TasksInv, [Next]_vars, NEW w \in Worker, NEW ok \in BOOLEAN, RefreshStep(w, ok)
    PROVE  TasksInv'
<1>0. TxInv /\ IInv
  BY DEF BaseInv, IInv
<1>1. CASE RotateOld(w, ok)
  <2>1. /\ OnlyMoves(w) /\ tx[w].op = "refresh"
        /\ tx'[w].op = "refresh" /\ tx'[w].usr = tx[w].usr /\ tx'[w].fam = tx[w].fam
        /\ tx'[w].pc = "jti" /\ tx'[w].todo = tx[w].todo
        /\ since' = since
    BY <1>0, <1>1, RotateShape
  <2>2. Tasks(w)
    BY DEF TasksInv
  <2>3. Tasks(w)'
    BY <2>1, <2>2 DEF Tasks
  <2> QED
    BY <2>1, <2>3, TasksMove
<1>2. CASE ~RotateOld(w, ok)
  <2>1. \/ Done(w) \/ \E pc \in {"live", "suspect", "old"} : Goto(w, pc)
        \/ Goto(w, "kill") /\ tx[w].pc = "suspect"
    BY <1>2 DEF RefreshStep, CheckWhitelist, CheckFamily, DetectReplay, RevokeAllRefreshTokens, At
  <2>2. tx[w].pc = "suspect" => tx[w].op = "refresh"
    BY <1>0 DEF TxInv, Wired
  <2> QED
    BY <2>1, <2>2, TasksDone, TasksGoto
<1> QED
  BY <1>1, <1>2

LEMMA TasksRevoke ==
    ASSUME BaseInv, TasksInv, [Next]_vars, NEW w \in Worker, NEW ok \in BOOLEAN, RevokeStep(w, ok)
    PROVE  TasksInv'
<1>0. TxInv /\ Tasks(w) /\ tx[w] \in Wired /\ tx[w].todo \subseteq Family
  BY DEF BaseInv, IInv, TxInv, TasksInv, Wired, Tx
<1>1. CASE RevokeRefreshJti(w, ok)
  BY <1>1, TasksGoto DEF RevokeRefreshJti
<1>2. CASE FindSession(w, ok)
  <2>1. Done(w) \/ Goto(w, "own")
    BY <1>2 DEF FindSession
  <2> QED
    BY <2>1, TasksDone, TasksGoto
<1>3. CASE GetSession(w, ok)
  <2>1. tx[w].pc = "own" /\ tx[w].op \in {"logout", "revoke"}
    BY <1>0, <1>3 DEF GetSession, At, Wired
  <2>2. CASE ok /\ tx[w].fam \in session
    <3>1. tx' = [tx EXCEPT ![w] = [tx[w] EXCEPT !.todo = {tx[w].fam}, !.pc = "kill"]]
      BY <1>3, <2>2 DEF GetSession
    <3>2. tx[w].fam \in Family /\ Grown(tx[w].fam) /\ Serves(w)
      BY <2>2 DEF BaseInv, LifeInv, IInv, StoreInv
    <3>3. since[tx[w].fam] > 0 /\ Owner[tx[w].fam] = tx[w].usr
      BY <2>2, <3>2 DEF Grown, Serves
    <3>4. {tx[w].fam} \in SUBSET Family /\ \A f \in {tx[w].fam} : since[f] > 0 /\ Owner[f] = tx[w].usr
      BY <3>2, <3>3
    <3> QED
      BY <2>1, <3>1, <3>4, TasksList
  <2>3. CASE ~(ok /\ tx[w].fam \in session)
    BY <1>3, <2>3, TasksDone DEF GetSession
  <2> QED
    BY <2>2, <2>3
<1>4. CASE ListForRevokeAll(w, ok)
  <2> DEFINE S == IF ok THEN Visible(tx[w].usr) ELSE {}
             pc == IF S = {} THEN "members" ELSE "kill"
  <2>1. tx[w].op = "revoke_all" /\ tx' = [tx EXCEPT ![w] = [tx[w] EXCEPT !.todo = S, !.pc = pc]]
    BY <1>4 DEF ListForRevokeAll
  <2>2. S \in SUBSET Family /\ \A f \in S : since[f] > 0 /\ Owner[f] = tx[w].usr
    BY ListedSessions
  <2>3. pc \in {"members", "kill"}
    OBVIOUS
  <2> HIDE DEF S, pc
  <2> QED
    BY <2>1, <2>2, <2>3, TasksList
<1>5. CASE DeleteAllUserSessions(w, ok) \/ DeleteUserIndex(w, ok)
  <2>1. Done(w) \/ Goto(w, "unindex")
    BY <1>5 DEF DeleteAllUserSessions, DeleteUserIndex
  <2> QED
    BY <2>1, TasksDone, TasksGoto
<1>6. ASSUME NEW f \in Family, RevokeFamily(w, f, ok)
      PROVE  TasksInv'
  <2>0. tx[w].pc = "kill" /\ AfterKill(w, f)
    BY <1>6 DEF RevokeFamily, At
  <2>1. CASE tx[w].op = "revoke_all"
    <3>1. PICK pc \in {"members", "kill"} :
             tx' = [tx EXCEPT ![w] = [tx[w] EXCEPT !.todo = tx[w].todo \ {f}, !.pc = pc]]
      BY <2>0, <2>1 DEF AfterKill
    <3>2. PICK S : S = tx[w].todo \ {f}
      OBVIOUS
    <3>3. S \in SUBSET Family /\ \A g \in S : since[g] > 0 /\ Owner[g] = tx[w].usr
      BY <1>0, <3>2 DEF Tasks
    <3> QED
      BY <2>1, <3>1, <3>2, <3>3, TasksList
  <2>2. CASE tx[w].op = "refresh" \/ (tx[w].op = "logout" /\ tx[w].todo = {})
    <3>1. Goto(w, "wipe") \/ Goto(w, "list")
      BY <2>0, <2>2 DEF AfterKill
    <3> QED
      BY <3>1, TasksGoto
  <2>3. CASE tx[w].op \in {"login", "revoke"} \/ (tx[w].op = "logout" /\ tx[w].todo # {})
    <3>1. Goto(w, "drop")
      BY <2>0, <2>3 DEF AfterKill
    <3>2. OnlyMoves(w) /\ Goes(w) /\ tx'[w].pc = "drop" /\ tx'[w].todo = tx[w].todo
      BY <1>0, <3>1, GotoShape
    <3>3. tx[w].todo # {}
      BY <1>0, <2>0, <2>3 DEF Tasks
    <3>4. \A g \in tx[w].todo : since'[g] > 0
      BY <1>0, SinceStays DEF Tasks
    <3>5. Tasks(w)'
      BY <1>0, <3>2, <3>3, <3>4 DEF Tasks, Goes
    <3> QED
      BY <3>2, <3>5, TasksMove
  <2>4. tx[w].op \in {"login", "refresh", "logout", "revoke", "revoke_all"}
    BY <1>0, <2>0 DEF Wired, Tx, Ops
  <2> QED
    BY <2>1, <2>2, <2>3, <2>4
<1>7. ASSUME NEW f \in Family, DropSession(w, f, ok)
      PROVE  TasksInv'
  <2>1. CASE tx[w].op = "login"
    <3>1. PICK S, pc :
             /\ S = tx[w].todo \ {f} /\ pc = IF S = {} THEN "key" ELSE "kill"
             /\ tx' = [tx EXCEPT ![w] = [tx[w] EXCEPT !.todo = S, !.pc = pc]]
      BY <1>7, <2>1 DEF DropSession
    <3>2. S \in SUBSET Family /\ \A g \in S : since[g] > 0 /\ Owner[g] = tx[w].usr
      BY <1>0, <3>1 DEF Tasks
    <3> QED
      BY <2>1, <3>1, <3>2, TasksList
  <2>2. CASE tx[w].op # "login"
    BY <1>7, <2>2, TasksDone DEF DropSession
  <2> QED
    BY <2>1, <2>2
<1> QED
  BY <1>1, <1>2, <1>3, <1>4, <1>5, <1>6, <1>7 DEF RevokeStep

LEMMA TasksStep ==
    ASSUME BaseInv, TasksInv, [Next]_vars
    PROVE  TasksInv'
<1>0. IInv /\ TxInv
  BY DEF BaseInv, IInv
<1>1. ASSUME NEW w \in Worker, Begin(w)
      PROVE  TasksInv'
  <2>1. ASSUME NEW f \in Family, IssueTokens(w, f)
        PROVE  TasksInv'
    <3>1. OnlyMoves(w) /\ tx'[w].op = "login" /\ tx'[w].pc = "jti" /\ tx'[w].todo = {}
      BY <1>0, <2>1, IssueShape
    <3>2. Tasks(w)'
      BY <3>1 DEF Tasks
    <3> QED
      BY <3>1, <3>2, TasksMove
  <2>2. CASE ~\E f \in Family : IssueTokens(w, f)
    <3>1. OnlyMoves(w) /\ Opens(w)
      BY <1>0, <1>1, <2>2, OpenShape
    <3> QED
      BY <3>1, TasksSame DEF Same
  <2> QED
    BY <2>1, <2>2
<1>2. ASSUME NEW w \in Worker, NEW ok \in BOOLEAN,
             LoginStep(w, ok) \/ RefreshStep(w, ok) \/ RevokeStep(w, ok)
      PROVE  TasksInv'
  BY <1>2, TasksLogin, TasksRefresh, TasksRevoke
<1>3. ASSUME NEW w \in Worker, Crash(w)
      PROVE  TasksInv'
  BY <1>3, TasksDone DEF Crash
<1>4. CASE (\E u \in User : ListSessions(u)) \/ (\E f \in Family : ExpireFamily(f)) \/ UNCHANGED vars
  <2>1. tx' = tx /\ since' = since
    BY <1>4 DEF ListSessions, ExpireFamily, vars
  <2> QED
    BY <2>1 DEF TasksInv, Tasks
<1> QED
  BY <1>1, <1>2, <1>3, <1>4, Zenon DEF Next

-----------------------------------------------------------------------------
(* The list of sessions and the families behind it.                        *)

\* A family whose session was created and that refreshes no more.
Over(g) == since[g] > 0 /\ family[g] # "active"

Dropping == \A w \in Worker : tx[w].pc = "drop" => \A f \in Target(w) : Over(f)

Listing ==
    \A f \in Family \ raced : family[f] = "active" /\ Held(f) # {} => f \in index \cap session

Storing ==
    \A w \in Worker : tx[w].pc = "index" /\ tx[w].fam \notin raced /\ family[tx[w].fam] = "active" =>
       tx[w].fam \in session

Sweeping ==
    \A w \in Worker : tx[w].op = "revoke_all" /\ tx[w].pc # "list" =>
       \A f \in Mine(w) \ raced :
          Held(f) # {} /\ family[f] = "active" => tx[w].pc = "kill" /\ f \in tx[w].todo

RacesInv == \A f \in Family : Races(f) => f \in raced

ListInv == ~failed => Dropping /\ Listing /\ Storing /\ Sweeping

\* Only the step of a login makes a family active.
LEMMA Revived ==
    ASSUME IInv, [Next]_vars, NEW f \in Family, family'[f] = "active", family[f] # "active"
    PROVE  \E w \in Worker : \E ok \in BOOLEAN : StoreTokenFamily(w, ok) /\ tx[w].fam = f
<1>1. ~Calm /\ ~(family' = family)
  BY DEF Calm, Shrinks
<1>2. ASSUME NEW w \in Worker, NEW ok \in BOOLEAN, StoreTokenFamily(w, ok)
      PROVE  tx[w].fam = f
  BY <1>2 DEF StoreTokenFamily, IInv, StoreInv
<1>3. ASSUME NEW g \in Family
      PROVE  ~ExpireFamily(g)
  <2>1. ExpireFamily(g) => \A h \in Family : family'[h] = "absent" \/ family'[h] = family[h]
    BY DEF ExpireFamily, IInv, StoreInv
  <2> QED
    BY <2>1
<1> QED
  BY <1>1, <1>2, <1>3, LifeShape
     DEF IssueTokens, store, StoreRefreshJti, StoreSessionKey, StoreSessionIndex, RotateOld

LEMMA OverStays ==
    ASSUME BaseInv, [Next]_vars, NEW f \in Family, Over(f)
    PROVE  Over(f)'
<1>0. IInv /\ since[f] > 0 /\ family[f] # "active"
  BY DEF BaseInv, Over
<1>1. since'[f] > 0
  BY <1>0, SinceStays
<1>2. CASE family'[f] = "active"
  <2>1. PICK w \in Worker, ok \in BOOLEAN : StoreTokenFamily(w, ok) /\ tx[w].fam = f
    BY <1>0, <1>2, Revived
  <2>2. tx[w].op = "login" /\ tx[w].pc = "family" /\ Serves(w)
    BY <1>0, <2>1 DEF StoreTokenFamily, At, IInv, TxInv, Wired, BaseInv, LifeInv
  <2> QED
    BY <1>0, <2>1, <2>2 DEF Serves
<1> QED
  BY <1>1, <1>2 DEF Over

\* The first pair that a client has of a family comes with its session.
LEMMA FirstHeld ==
    ASSUME BaseInv, [Next]_vars, NEW f \in Family, Held(f) = {}, Held(f)' # {}
    PROVE  \E w \in Worker : /\ tx[w].fam = f /\ tx[w].op = "login"
                             /\ tx[w].pc \in {"key", "index"}
                             /\ StoreSessionKey(w, FALSE) \/ \E ok \in BOOLEAN : StoreSessionIndex(w, ok)
<1>0. IInv /\ TxInv
  BY DEF BaseInv, IInv
<1>1. PICK t : t \in held' /\ t[1] = f /\ t \notin held
  BY DEF Held
<1>2. ~Calm /\ ~\E g \in Family : ExpireFamily(g)
  BY <1>1 DEF Calm, ExpireFamily
<1>3. ASSUME NEW w \in Worker, NEW ok \in BOOLEAN
      PROVE  ~StoreTokenFamily(w, ok) /\ ~RotateOld(w, ok) /\ ~StoreRefreshJti(w, ok)
  <2>1. ~StoreTokenFamily(w, ok) /\ ~RotateOld(w, ok)
    BY <1>1 DEF StoreTokenFamily, RotateOld
  <2>2. CASE StoreRefreshJti(w, ok)
    <3>1. tx[w].op = "refresh" /\ t = tx[w].tok /\ tx[w].tok[1] = tx[w].fam
      BY <1>0, <1>1, <2>2 DEF StoreRefreshJti, At, TxInv, Wired, Answer
    <3>2. Serves(w)
      BY DEF BaseInv, LifeInv
    <3> QED
      BY <1>1, <3>1, <3>2 DEF Serves
  <2> QED
    BY <2>1, <2>2
<1>4. \A w \in Worker : \A g \in Family : ~IssueTokens(w, g)
  BY <1>1 DEF IssueTokens
<1>5. PICK w \in Worker, ok \in BOOLEAN : StoreSessionKey(w, ok) \/ StoreSessionIndex(w, ok)
  BY <1>0, <1>2, <1>3, <1>4, LifeShape
<1>6. /\ tx[w].op = "login" /\ t = tx[w].tok /\ tx[w].tok[1] = tx[w].fam
      /\ tx[w].pc \in {"key", "index"}
  BY <1>0, <1>1, <1>5 DEF StoreSessionKey, StoreSessionIndex, At, TxInv, Wired, Answer
<1>7. CASE StoreSessionKey(w, ok)
  <2>1. ok = FALSE
    BY <1>1, <1>7 DEF StoreSessionKey
  <2> QED
    BY <1>1, <1>6, <1>7, <2>1
<1>8. CASE StoreSessionIndex(w, ok)
  BY <1>1, <1>6, <1>8
<1> QED
  BY <1>5, <1>7, <1>8

\* What may become of the key of a session.
LEMMA KeyLost ==
    ASSUME IInv, [Next]_vars, NEW f \in session \ session'
    PROVE  \/ \E w \in Worker : tx[w].pc = "drop" /\ f \in Target(w) /\ family' = family
           \/ \E w \in Worker : /\ tx[w].pc = "members" /\ tx[w].op = "revoke_all"
                                /\ f \in Mine(w) \cap index /\ UNCHANGED <<family, held>>
           \/ ExpireFamily(f)
<1>0. TxInv /\ session # session'
  BY DEF IInv
<1>1. ASSUME NEW w \in Worker, NEW g \in Family, NEW ok \in BOOLEAN, DropSession(w, g, ok)
      PROVE  tx[w].pc = "drop" /\ f \in Target(w) /\ family' = family
  BY <1>1 DEF DropSession, DeleteSession, At
<1>2. ASSUME NEW w \in Worker, NEW ok \in BOOLEAN, DeleteAllUserSessions(w, ok)
      PROVE  /\ tx[w].pc = "members" /\ tx[w].op = "revoke_all"
             /\ f \in Mine(w) \cap index /\ UNCHANGED <<family, held>>
  BY <1>0, <1>2 DEF DeleteAllUserSessions, At, TxInv, Wired
<1>3. ASSUME NEW g \in Family, ExpireFamily(g)
      PROVE  ExpireFamily(f)
  <2>1. g = f
    BY <1>3 DEF ExpireFamily
  <2> QED
    BY <1>3, <2>1
<1>4. ASSUME NEW w \in Worker, Begin(w) \/ Crash(w)
      PROVE  FALSE
  BY <1>0, <1>4 DEF Begin, IssueTokens, BeginRevokeSession, BeginRefresh, BeginLogout,
     BeginRevokeAll, Crash, store
<1>5. ASSUME NEW w \in Worker, NEW ok \in BOOLEAN, LoginStep(w, ok) \/ RefreshStep(w, ok)
      PROVE  FALSE
  BY <1>0, <1>5 DEF LoginStep, StoreRefreshJti, StoreTokenFamily, EnforceMaxSessions,
     StoreSessionKey, StoreSessionIndex, RefreshStep, CheckWhitelist, CheckFamily, DetectReplay,
     RotateOld, RevokeAllRefreshTokens, store
<1>6. ASSUME NEW w \in Worker, NEW ok \in BOOLEAN, RevokeStep(w, ok),
             ~DeleteAllUserSessions(w, ok)
      PROVE  \E g \in Family : DropSession(w, g, ok)
  BY <1>0, <1>6 DEF RevokeStep, RevokeRefreshJti, FindSession, GetSession, ListForRevokeAll,
     DeleteUserIndex, RevokeFamily, store
<1>7. ~(\E u \in User : ListSessions(u)) /\ ~UNCHANGED vars
  BY <1>0 DEF ListSessions, vars, store
<1>8. ASSUME NEW w \in Worker, NEW ok \in BOOLEAN,
             LoginStep(w, ok) \/ RefreshStep(w, ok) \/ RevokeStep(w, ok)
      PROVE  \/ tx[w].pc = "drop" /\ f \in Target(w) /\ family' = family
             \/ /\ tx[w].pc = "members" /\ tx[w].op = "revoke_all"
                /\ f \in Mine(w) \cap index /\ UNCHANGED <<family, held>>
  <2>1. RevokeStep(w, ok)
    BY <1>5, <1>8
  <2>2. CASE DeleteAllUserSessions(w, ok)
    BY <1>2, <2>2
  <2>3. CASE ~DeleteAllUserSessions(w, ok)
    <3>1. PICK g \in Family : DropSession(w, g, ok)
      BY <1>6, <2>1, <2>3
    <3> QED
      BY <1>1, <3>1
  <2> QED
    BY <2>2, <2>3
<1>9. CASE \E g \in Family : ExpireFamily(g)
  BY <1>3, <1>9
<1>10. CASE \E w \in Worker : \E ok \in BOOLEAN :
               LoginStep(w, ok) \/ RefreshStep(w, ok) \/ RevokeStep(w, ok)
  <2>1. PICK w \in Worker, ok \in BOOLEAN : LoginStep(w, ok) \/ RefreshStep(w, ok) \/ RevokeStep(w, ok)
    BY <1>10
  <2> QED
    BY <1>8, <2>1
<1> QED
  BY <1>4, <1>7, <1>9, <1>10, Zenon DEF Next

\* ... and of its entry in the index.
LEMMA EntryLost ==
    ASSUME IInv, [Next]_vars, NEW f \in index \ index', f \in session
    PROVE  \/ \E w \in Worker : tx[w].pc = "drop" /\ f \in Target(w) /\ family' = family
           \/ \E w \in Worker : /\ tx[w].pc = "unindex" /\ tx[w].op = "revoke_all"
                                /\ f \in Mine(w) /\ UNCHANGED <<family, held>>
<1>0. TxInv /\ index # index'
  BY DEF IInv
<1>1. ASSUME NEW w \in Worker, NEW g \in Family, NEW ok \in BOOLEAN, DropSession(w, g, ok)
      PROVE  tx[w].pc = "drop" /\ f \in Target(w) /\ family' = family
  BY <1>1 DEF DropSession, DeleteSession, At
<1>2. ASSUME NEW w \in Worker, NEW ok \in BOOLEAN, DeleteUserIndex(w, ok)
      PROVE  /\ tx[w].pc = "unindex" /\ tx[w].op = "revoke_all"
             /\ f \in Mine(w) /\ UNCHANGED <<family, held>>
  BY <1>0, <1>2 DEF DeleteUserIndex, At, TxInv, Wired
<1>3. \A u : \A ok : ~ListUserSessions(u, ok)
  BY DEF ListUserSessions
<1>4. ASSUME NEW w \in Worker, Begin(w) \/ Crash(w)
      PROVE  FALSE
  BY <1>0, <1>4 DEF Begin, IssueTokens, BeginRevokeSession, BeginRefresh, BeginLogout,
     BeginRevokeAll, Crash, store
<1>5. ASSUME NEW w \in Worker, NEW ok \in BOOLEAN, LoginStep(w, ok) \/ RefreshStep(w, ok)
      PROVE  FALSE
  BY <1>0, <1>3, <1>5 DEF LoginStep, StoreRefreshJti, StoreTokenFamily, EnforceMaxSessions,
     StoreSessionKey, StoreSessionIndex, RefreshStep, CheckWhitelist, CheckFamily, DetectReplay,
     RotateOld, RevokeAllRefreshTokens, store
<1>6. ASSUME NEW w \in Worker, NEW ok \in BOOLEAN, RevokeStep(w, ok), ~DeleteUserIndex(w, ok)
      PROVE  \E g \in Family : DropSession(w, g, ok)
  BY <1>0, <1>3, <1>6 DEF RevokeStep, RevokeRefreshJti, FindSession, GetSession, ListForRevokeAll,
     DeleteAllUserSessions, RevokeFamily, store
<1>7. ~(\E u \in User : ListSessions(u)) /\ ~UNCHANGED vars /\ ~(\E g \in Family : ExpireFamily(g))
  BY <1>0, <1>3 DEF ListSessions, vars, store, ExpireFamily
<1>8. ASSUME NEW w \in Worker, NEW ok \in BOOLEAN,
             LoginStep(w, ok) \/ RefreshStep(w, ok) \/ RevokeStep(w, ok)
      PROVE  \/ tx[w].pc = "drop" /\ f \in Target(w) /\ family' = family
             \/ /\ tx[w].pc = "unindex" /\ tx[w].op = "revoke_all"
                /\ f \in Mine(w) /\ UNCHANGED <<family, held>>
  <2>1. RevokeStep(w, ok)
    BY <1>5, <1>8
  <2>2. CASE DeleteUserIndex(w, ok)
    BY <1>2, <2>2
  <2>3. CASE ~DeleteUserIndex(w, ok)
    <3>1. PICK g \in Family : DropSession(w, g, ok)
      BY <1>6, <2>1, <2>3
    <3> QED
      BY <1>1, <3>1
  <2> QED
    BY <2>2, <2>3
<1>10. CASE \E w \in Worker : \E ok \in BOOLEAN :
               LoginStep(w, ok) \/ RefreshStep(w, ok) \/ RevokeStep(w, ok)
  <2>1. PICK w \in Worker, ok \in BOOLEAN : LoginStep(w, ok) \/ RefreshStep(w, ok) \/ RevokeStep(w, ok)
    BY <1>10
  <2> QED
    BY <1>8, <2>1
<1> QED
  BY <1>4, <1>7, <1>10, Zenon DEF Next

-----------------------------------------------------------------------------
(* How a request comes to the places that matter for the list.             *)

Turns(v) ==
    \/ tx'[v] = tx[v]
    \/ tx'[v].pc \notin {"drop", "index"} /\ (tx'[v].op = "revoke_all" => tx'[v].pc = "list")
    \/ \E ok \in BOOLEAN : \E f \in Family : RevokeFamily(v, f, ok)
    \/ \E ok \in BOOLEAN :
          StoreSessionKey(v, ok) \/ ListForRevokeAll(v, ok) \/ DeleteAllUserSessions(v, ok)

LEMMA TurnsStep ==
    ASSUME IInv, [Next]_vars, NEW v \in Worker
    PROVE  Turns(v)
<1>0. TxInv
  BY DEF IInv
<1>1. ASSUME NEW w \in Worker, OnlyMoves(w), Turns(w)
      PROVE  Turns(v)
  <2>1. v # w => tx'[v] = tx[v]
    BY <1>1 DEF OnlyMoves
  <2> QED
    BY <1>1, <2>1 DEF Turns
<1>2. ASSUME NEW w \in Worker, Done(w)
      PROVE  Turns(v)
  <2>1. OnlyMoves(w) /\ Ends(w)
    BY <1>0, <1>2, DoneShape
  <2>2. Turns(w)
    BY <2>1 DEF Turns, Ends, Idle
  <2> QED
    BY <1>1, <2>1, <2>2
<1>3. ASSUME NEW w \in Worker, NEW pc, Goto(w, pc), pc \notin {"drop", "index"},
             tx[w].op # "revoke_all"
      PROVE  Turns(v)
  <2>1. OnlyMoves(w) /\ Goes(w) /\ tx'[w].pc = pc
    BY <1>0, <1>3, GotoShape
  <2>2. Turns(w)
    BY <1>3, <2>1 DEF Turns, Goes
  <2> QED
    BY <1>1, <2>1, <2>2
<1>4. ASSUME NEW w \in Worker, Begin(w)
      PROVE  Turns(v)
  <2>1. CASE \E f \in Family : IssueTokens(w, f)
    <3>1. OnlyMoves(w) /\ tx'[w].op = "login" /\ tx'[w].pc = "jti"
      BY <1>0, <2>1, IssueShape
    <3>2. Turns(w)
      BY <3>1 DEF Turns
    <3> QED
      BY <1>1, <3>1, <3>2
  <2>2. CASE ~\E f \in Family : IssueTokens(w, f)
    <3>1. OnlyMoves(w) /\ Opens(w)
      BY <1>4, <2>2, OpenShape
    <3>2. Turns(w)
      BY <3>1 DEF Turns, Opens
    <3> QED
      BY <1>1, <3>1, <3>2
  <2> QED
    BY <2>1, <2>2
<1>5. ASSUME NEW w \in Worker, NEW ok \in BOOLEAN, LoginStep(w, ok)
      PROVE  Turns(v)
  <2>1. OnlyMoves(w) /\ (Ends(w) \/ Goes(w)) /\ tx[w].op # "revoke_all"
    BY <1>0, <1>5, StepMoves DEF LoginStep, StoreRefreshJti, StoreTokenFamily, EnforceMaxSessions,
       StoreSessionKey, StoreSessionIndex, At, TxInv, Wired
  <2>2. CASE EnforceMaxSessions(w, ok)
    <3>1. PICK S \in SUBSET Family, pc \in {"key", "kill"} :
             tx' = [tx EXCEPT ![w] = [tx[w] EXCEPT !.todo = S, !.pc = pc]]
      BY <2>2 DEF EnforceMaxSessions, Oldest, Visible, IInv, StoreInv
    <3>2. Goes(w) /\ tx'[w].pc = pc
      BY <1>0, <3>1, TodoShape
    <3>3. Turns(w)
      BY <2>1, <3>2 DEF Turns, Goes
    <3> QED
      BY <1>1, <2>1, <3>3
  <2>3. CASE StoreSessionKey(w, ok)
    <3>1. Turns(w)
      BY <2>3 DEF Turns
    <3> QED
      BY <1>1, <2>1, <3>1
  <2>4. CASE StoreRefreshJti(w, ok) \/ StoreTokenFamily(w, ok) \/ StoreSessionIndex(w, ok)
    <3>1. Done(w) \/ Goto(w, "family") \/ Goto(w, "list")
      BY <2>4 DEF StoreRefreshJti, StoreTokenFamily, StoreSessionIndex, Answer
    <3> QED
      BY <1>2, <1>3, <2>1, <3>1
  <2> QED
    BY <1>5, <2>2, <2>3, <2>4 DEF LoginStep
<1>6. ASSUME NEW w \in Worker, NEW ok \in BOOLEAN, RefreshStep(w, ok)
      PROVE  Turns(v)
  <2>1. CASE RotateOld(w, ok)
    <3>1. OnlyMoves(w) /\ tx'[w].op = "refresh" /\ tx'[w].pc = "jti"
      BY <2>1, RotateShape
    <3>2. Turns(w)
      BY <3>1 DEF Turns
    <3> QED
      BY <1>1, <3>1, <3>2
  <2>2. CASE ~RotateOld(w, ok)
    <3>1. Done(w) \/ \E pc \in {"live", "suspect", "old", "kill"} : Goto(w, pc)
      BY <1>6, <2>2 DEF RefreshStep, CheckWhitelist, CheckFamily, DetectReplay, RevokeAllRefreshTokens
    <3>2. tx[w].op = "refresh"
      BY <1>0, <1>6, <2>2 DEF RefreshStep, CheckWhitelist, CheckFamily, DetectReplay,
         RevokeAllRefreshTokens, At, TxInv, Wired
    <3> QED
      BY <1>2, <1>3, <3>1, <3>2
  <2> QED
    BY <2>1, <2>2
<1>7. ASSUME NEW w \in Worker, NEW ok \in BOOLEAN, RevokeStep(w, ok)
      PROVE  Turns(v)
  <2>1. OnlyMoves(w) /\ (Ends(w) \/ Goes(w))
    BY <1>7, StepMoves
  <2>2. CASE \/ \E f \in Family : RevokeFamily(w, f, ok)
             \/ ListForRevokeAll(w, ok) \/ DeleteAllUserSessions(w, ok)
    <3>1. Turns(w)
      BY <2>2 DEF Turns
    <3> QED
      BY <1>1, <2>1, <3>1
  <2>3. CASE RevokeRefreshJti(w, ok) \/ FindSession(w, ok) \/ DeleteUserIndex(w, ok)
    <3>1. \/ Done(w)
          \/ tx[w].op = "logout" /\ (Goto(w, "kill") \/ Goto(w, "own"))
      BY <2>3 DEF RevokeRefreshJti, FindSession, DeleteUserIndex
    <3> QED
      BY <1>2, <1>3, <3>1
  <2>4. CASE GetSession(w, ok)
    <3>1. tx[w].op # "revoke_all"
      BY <1>0, <2>4 DEF GetSession, At, TxInv, Wired
    <3>2. \/ Done(w)
          \/ \E S : tx' = [tx EXCEPT ![w] = [tx[w] EXCEPT !.todo = S, !.pc = "kill"]]
      BY <2>4 DEF GetSession
    <3>3. ASSUME NEW S, tx' = [tx EXCEPT ![w] = [tx[w] EXCEPT !.todo = S, !.pc = "kill"]]
          PROVE  Turns(w)
      <4>1. Goes(w) /\ tx'[w].pc = "kill"
        BY <1>0, <3>3, TodoShape
      <4> QED
        BY <3>1, <4>1 DEF Turns, Goes
    <3> QED
      BY <1>1, <1>2, <2>1, <3>2, <3>3
  <2>5. ASSUME NEW f \in Family, DropSession(w, f, ok)
        PROVE  Turns(v)
    <3>1. tx[w].op # "revoke_all"
      BY <1>0, <2>5 DEF DropSession, At, TxInv, Wired
    <3>2. \/ Done(w)
          \/ \E S : \E pc \in {"key", "kill"} :
               tx' = [tx EXCEPT ![w] = [tx[w] EXCEPT !.todo = S, !.pc = pc]]
      BY <2>5 DEF DropSession
    <3>3. ASSUME NEW S, NEW pc \in {"key", "kill"},
                 tx' = [tx EXCEPT ![w] = [tx[w] EXCEPT !.todo = S, !.pc = pc]]
          PROVE  Turns(w)
      <4>1. Goes(w) /\ tx'[w].pc = pc
        BY <1>0, <3>3, TodoShape
      <4> QED
        BY <3>1, <4>1 DEF Turns, Goes
    <3> QED
      BY <1>1, <1>2, <2>1, <3>2, <3>3
  <2> QED
    BY <1>7, <2>2, <2>3, <2>4, <2>5 DEF RevokeStep
<1>8. ASSUME NEW w \in Worker, Crash(w)
      PROVE  Turns(v)
  BY <1>2, <1>8 DEF Crash
<1>9. CASE (\E u \in User : ListSessions(u)) \/ (\E f \in Family : ExpireFamily(f)) \/ UNCHANGED vars
  <2>1. tx' = tx
    BY <1>9 DEF ListSessions, ExpireFamily, vars
  <2> QED
    BY <2>1 DEF Turns
<1>10. ASSUME NEW w \in Worker, NEW ok \in BOOLEAN,
              LoginStep(w, ok) \/ RefreshStep(w, ok) \/ RevokeStep(w, ok)
       PROVE  Turns(v)
  BY <1>5, <1>6, <1>7, <1>10
<1> QED
  BY <1>4, <1>8, <1>9, <1>10, Zenon DEF Next

\* The family that a request revokes is over, and where the request goes.
LEMMA RevokeShape ==
    ASSUME BaseInv, TasksInv, NEW w \in Worker, NEW f \in Family, RevokeFamily(w, f, TRUE)
    PROVE  /\ tx[w].pc = "kill" /\ family'[f] # "active" /\ UNCHANGED <<session, index, since, held>>
           /\ Goes(w) /\ tx'[w].pc # "index"
           /\ tx'[w].pc = "drop" => Target(w) = {f} /\ tx'[w].todo = tx[w].todo /\ since[f] > 0
           /\ tx[w].op = "revoke_all" => tx'[w].todo = tx[w].todo \ {f}
           /\ tx[w].op = "revoke_all" /\ (\E g \in tx[w].todo : g # f) => tx'[w].pc = "kill"
<1>0. /\ TxInv /\ Tasks(w) /\ tx[w] \in Wired /\ tx[w].todo \subseteq Family
      /\ family \in [Family -> {"absent", "active", "inactive"}]
  BY DEF BaseInv, IInv, TxInv, TasksInv, Wired, Tx, StoreInv
<1>1. /\ tx[w].pc = "kill" /\ AfterKill(w, f) /\ f \in Target(w)
      /\ UNCHANGED <<session, index, since, held>> /\ family'[f] # "active"
  BY <1>0 DEF RevokeFamily, At, RevokeTokenFamily
<1>2. CASE tx[w].op = "revoke_all"
  <2>1. PICK S, pc : /\ S = tx[w].todo \ {f}
                     /\ pc = IF tx[w].todo = {f} THEN "members" ELSE "kill"
    OBVIOUS
  <2>2. tx' = [tx EXCEPT ![w] = [tx[w] EXCEPT !.todo = S, !.pc = pc]]
    BY <1>1, <1>2, <2>1 DEF AfterKill
  <2>3. Goes(w) /\ tx'[w].pc = pc /\ tx'[w].todo = S
    BY <1>0, <2>2, TodoShape
  <2> QED
    BY <1>1, <2>1, <2>3
<1>3. CASE tx[w].op = "refresh" \/ (tx[w].op = "logout" /\ tx[w].todo = {})
  <2>1. Goto(w, "wipe") \/ Goto(w, "list")
    BY <1>1, <1>3 DEF AfterKill
  <2>2. Goes(w) /\ tx'[w].pc \in {"wipe", "list"}
    BY <1>0, <2>1, GotoShape
  <2> QED
    BY <1>1, <1>3, <2>2
<1>4. CASE tx[w].op \in {"login", "revoke"} \/ (tx[w].op = "logout" /\ tx[w].todo # {})
  <2>1. Goto(w, "drop")
    BY <1>1, <1>4 DEF AfterKill
  <2>2. Goes(w) /\ tx'[w].pc = "drop" /\ tx'[w].todo = tx[w].todo
    BY <1>0, <2>1, GotoShape
  <2>3. tx[w].todo # {}
    BY <1>0, <1>1, <1>4 DEF Tasks
  <2>4. f \in tx[w].todo /\ since[f] > 0
    BY <1>0, <1>1, <2>3 DEF Target, Tasks
  <2>5. Target(w) = {f}
    <3>1. CASE tx[w].op # "login"
      <4>1. tx[w].todo \subseteq {tx[w].fam}
        BY <1>0, <1>4, <3>1 DEF Tasks
      <4> QED
        BY <2>3, <2>4, <3>1, <4>1 DEF Target
    <3>2. CASE tx[w].op = "login"
      <4>1. Target(w) = {g \in tx[w].todo : \A h \in tx[w].todo : since[g] <= since[h]}
        BY <2>3, <3>2 DEF Target
      <4>2. ASSUME NEW g \in Target(w)
            PROVE  g = f
        <5>1. g \in Family /\ f \in Family /\ since[g] > 0 /\ since[f] > 0
          BY <1>0, <2>4, <4>1 DEF Tasks
        <5>2. since[g] <= since[f] /\ since[f] <= since[g] /\ since[g] \in Nat /\ since[f] \in Nat
          BY <1>1, <2>4, <4>1, <5>1 DEF BaseInv, IInv, CountInv
        <5>3. since[g] = since[f]
          BY <5>2
        <5> QED
          BY <5>1, <5>3 DEF BaseInv, LifeInv, Clock
      <4> QED
        BY <1>1, <4>2
    <3> QED
      BY <3>1, <3>2
  <2> QED
    BY <1>1, <1>4, <2>2, <2>4, <2>5
<1>5. tx[w].op \in {"login", "refresh", "logout", "revoke", "revoke_all"}
  BY <1>0, <1>1 DEF Wired, Tx, Ops
<1> QED
  BY <1>2, <1>3, <1>4, <1>5

-----------------------------------------------------------------------------
(* A device that can refresh is listed.                                    *)

\* All that the following lemmas assume of a step without a failed command.
Tidy ==
    /\ BaseInv /\ TasksInv /\ RacesInv /\ Dropping /\ Listing /\ Storing /\ Sweeping
    /\ [Next]_vars /\ ~failed' /\ raced \subseteq raced'

LEMMA RacesStep ==
    ASSUME RacesInv, [HNext]_hvars
    PROVE  RacesInv'
<1>1. CASE HNext
  BY <1>1 DEF HNext, RacesInv
<1>2. CASE UNCHANGED hvars
  BY <1>2 DEF hvars, vars, RacesInv, Races, At
<1> QED
  BY <1>1, <1>2

\* A login that StoreTokenFamily serves.
LEMMA FamilyStored ==
    ASSUME BaseInv, NEW w \in Worker, NEW ok \in BOOLEAN, StoreTokenFamily(w, ok)
    PROVE  /\ tx[w].op = "login" /\ tx[w].pc = "family" /\ tx[w].fam \in Family
           /\ Held(tx[w].fam) = {} /\ held' = held
<1>1. tx[w].op = "login" /\ tx[w].pc = "family" /\ Serves(w) /\ tx[w].fam \in Family
  BY DEF StoreTokenFamily, At, BaseInv, IInv, TxInv, Wired, LifeInv
<1> QED
  BY <1>1 DEF Serves, StoreTokenFamily

\* A key of a session whose family is active is lost to nobody but a
\* revocation of all sessions, which finds it indexed.
LEMMA KeyKept ==
    ASSUME Tidy, NEW f \in session, family[f] = "active", family'[f] = "active",
           \A w \in Worker : tx[w].op = "revoke_all" /\ tx[w].pc = "members" =>
              f \notin Mine(w) \cap index
    PROVE  f \in session'
<1> SUFFICES ASSUME f \notin session' PROVE FALSE
  OBVIOUS
<1>0. IInv /\ [Next]_vars
  BY DEF Tidy, BaseInv
<1>1. ASSUME NEW w \in Worker, tx[w].pc = "drop", f \in Target(w)
      PROVE  FALSE
  BY <1>1 DEF Tidy, Dropping, Over
<1>2. ~ExpireFamily(f)
  BY <1>0 DEF ExpireFamily, IInv, StoreInv
<1> QED
  BY <1>0, <1>1, <1>2, KeyLost

LEMMA ListingStep ==
    ASSUME Tidy, NEW f \in Family \ raced', family'[f] = "active", Held(f)' # {}
    PROVE  f \in index' \cap session'
<1>0. IInv /\ TxInv /\ BaseInv /\ [Next]_vars /\ f \notin raced
  BY DEF Tidy, BaseInv, IInv
<1>1. family[f] = "active"
  <2> SUFFICES ASSUME family[f] # "active" PROVE FALSE
    OBVIOUS
  <2>1. PICK w \in Worker, ok \in BOOLEAN : StoreTokenFamily(w, ok) /\ tx[w].fam = f
    BY <1>0, Revived
  <2>2. Held(tx[w].fam) = {} /\ held' = held
    BY <1>0, <2>1, FamilyStored
  <2>3. Held(f) = {}
    BY <2>1, <2>2
  <2>4. Held(f)' = Held(f)
    BY <2>2 DEF Held
  <2> QED
    BY <2>3, <2>4
<1>2. CASE Held(f) = {}
  <2>1. PICK w \in Worker :
           /\ tx[w].fam = f /\ tx[w].op = "login" /\ tx[w].pc \in {"key", "index"}
           /\ StoreSessionKey(w, FALSE) \/ \E ok \in BOOLEAN : StoreSessionIndex(w, ok)
    BY <1>0, <1>2, FirstHeld
  <2>2. StoreSessionIndex(w, TRUE)
    BY <2>1 DEF StoreSessionKey, StoreSessionIndex, Reply, Tidy
  <2>3. f \in session
    BY <1>0, <1>1, <2>1, <2>2 DEF Tidy, Storing, StoreSessionIndex, At
  <2> QED
    BY <2>1, <2>2, <2>3 DEF StoreSessionIndex
<1>3. CASE Held(f) # {}
  <2>1. f \in index /\ f \in session
    BY <1>0, <1>1, <1>3 DEF Tidy, Listing
  <2>2. ASSUME NEW w \in Worker, tx[w].op = "revoke_all", tx[w].pc \in {"members", "unindex"}
        PROVE  f \notin Mine(w)
    BY <1>0, <1>1, <1>3, <2>2 DEF Tidy, Sweeping
  <2>3. f \in session'
    BY <1>1, <2>1, <2>2, KeyKept
  <2>4. ASSUME NEW w \in Worker, tx[w].pc = "drop", f \in Target(w)
        PROVE  FALSE
    BY <1>1, <2>4 DEF Tidy, Dropping, Over
  <2>5. f \in index'
    BY <1>0, <2>1, <2>2, <2>4, EntryLost
  <2> QED
    BY <2>3, <2>5
<1> QED
  BY <1>2, <1>3

LEMMA StoringStep ==
    ASSUME Tidy, NEW v \in Worker, tx'[v].pc = "index", NEW f \in Family \ raced',
           tx'[v].fam = f, family'[f] = "active"
    PROVE  f \in session'
<1>0. IInv /\ TxInv /\ TxInv' /\ BaseInv /\ TasksInv /\ [Next]_vars /\ f \notin raced
  BY StepTypes DEF Tidy, BaseInv, IInv
<1>1. CASE tx'[v] = tx[v]
  <2>1. tx[v].op = "login" /\ tx[v].pc = "index" /\ tx[v].fam = f
    BY <1>0, <1>1 DEF TxInv, Wired
  <2>2. f \notin index
    BY <1>0, <2>1 DEF BaseInv, LifeInv, Serves
  <2>3. family[f] = "active"
    <3> SUFFICES ASSUME family[f] # "active" PROVE FALSE
      OBVIOUS
    <3>1. PICK w \in Worker, ok \in BOOLEAN : StoreTokenFamily(w, ok) /\ tx[w].fam = f
      BY <1>0, Revived
    <3>2. tx[w].op = "login" /\ tx[w].pc = "family"
      BY <1>0, <3>1, FamilyStored
    <3> QED
      BY <1>0, <2>1, <3>1, <3>2 DEF BaseInv, LifeInv, OneLogin
  <2>4. f \in session
    BY <1>0, <2>1, <2>3 DEF Tidy, Storing
  <2> QED
    BY <2>2, <2>3, <2>4, KeyKept
<1>2. ASSUME NEW ok \in BOOLEAN, StoreSessionKey(v, ok)
      PROVE  f \in session'
  <2>1. ok = TRUE
    BY <1>2 DEF StoreSessionKey, Reply, Tidy
  <2>2. tx[v].fam = f
    BY <1>0, <1>2, <2>1, GotoShape DEF StoreSessionKey, Goes
  <2> QED
    BY <1>2, <2>1, <2>2 DEF StoreSessionKey
<1>3. ASSUME NEW ok \in BOOLEAN, NEW g \in Family, RevokeFamily(v, g, ok)
      PROVE  FALSE
  <2>1. ok = TRUE
    BY <1>3 DEF RevokeFamily, Reply, Tidy
  <2> QED
    BY <1>0, <1>3, <2>1, RevokeShape
<1>4. ASSUME NEW ok \in BOOLEAN, ListForRevokeAll(v, ok) \/ DeleteAllUserSessions(v, ok)
      PROVE  FALSE
  <2>1. tx[v].op = "revoke_all"
    BY <1>0, <1>4 DEF ListForRevokeAll, DeleteAllUserSessions, At, TxInv, Wired
  <2>2. Ends(v) \/ Goes(v)
    BY <1>0, <1>4, StepMoves DEF RevokeStep
  <2> QED
    BY <1>0, <2>1, <2>2 DEF Ends, Idle, Goes, TxInv, Wired
<1> QED
  BY <1>0, <1>1, <1>2, <1>3, <1>4, TurnsStep DEF Turns

LEMMA DroppingStep ==
    ASSUME Tidy, NEW v \in Worker, tx'[v].pc = "drop", NEW f \in Target(v)'
    PROVE  Over(f)'
<1>0. IInv /\ TxInv /\ TxInv' /\ BaseInv /\ TasksInv /\ TasksInv' /\ [Next]_vars
  BY StepTypes, TasksStep DEF Tidy, BaseInv, IInv
<1>1. CASE tx'[v] = tx[v]
  <2>1. tx[v].pc = "drop" /\ tx[v].todo # {} /\ tx[v].todo \subseteq Family
        /\ \A g \in tx[v].todo : since[g] > 0
    BY <1>0, <1>1 DEF TasksInv, Tasks, TxInv, Wired, Tx
  <2>2. \A g \in tx[v].todo : since'[g] = since[g]
    BY <1>0, <2>1, SinceStays
  <2>3. f \in Target(v) /\ f \in Family
    BY <1>1, <2>1, <2>2 DEF Target
  <2>4. Over(f)
    BY <2>1, <2>3 DEF Tidy, Dropping
  <2> QED
    BY <1>0, <2>3, <2>4, OverStays
<1>2. ASSUME NEW ok \in BOOLEAN, NEW g \in Family, RevokeFamily(v, g, ok)
      PROVE  Over(f)'
  <2>0. ok = TRUE
    BY <1>2 DEF RevokeFamily, Reply, Tidy
  <2>1. /\ family'[g] # "active" /\ since' = since /\ Goes(v)
        /\ Target(v) = {g} /\ tx'[v].todo = tx[v].todo /\ since[g] > 0
    BY <1>0, <1>2, <2>0, RevokeShape
  <2>2. Target(v)' = Target(v)
    BY <2>1 DEF Target, Goes
  <2>3. f = g
    BY <2>1, <2>2
  <2> QED
    BY <2>1, <2>3 DEF Over
<1>3. ASSUME NEW ok \in BOOLEAN, StoreSessionKey(v, ok)
      PROVE  FALSE
  <2>1. Done(v) \/ Goto(v, "index")
    BY <1>3 DEF StoreSessionKey, Answer
  <2>2. Ends(v) \/ tx'[v].pc = "index"
    BY <1>0, <2>1, DoneShape, GotoShape
  <2> QED
    BY <2>2 DEF Ends, Idle
<1>4. ASSUME NEW ok \in BOOLEAN, ListForRevokeAll(v, ok) \/ DeleteAllUserSessions(v, ok)
      PROVE  FALSE
  <2>1. tx[v].op = "revoke_all"
    BY <1>0, <1>4 DEF ListForRevokeAll, DeleteAllUserSessions, At, TxInv, Wired
  <2>2. Ends(v) \/ Goes(v)
    BY <1>0, <1>4, StepMoves DEF RevokeStep
  <2> QED
    BY <1>0, <2>1, <2>2 DEF Ends, Idle, Goes, TxInv, Wired
<1> QED
  BY <1>0, <1>1, <1>2, <1>3, <1>4, TurnsStep DEF Turns

-----------------------------------------------------------------------------
(* A revocation of all sessions misses no device.                          *)

\* Nobody logs in behind a revocation but a family that raced it.
LEMMA NoNewcomer ==
    ASSUME Tidy, NEW v \in Worker, tx[v].op = "revoke_all", tx[v].pc # "list",
           NEW f \in Family \ raced', Owner[f] = tx[v].usr,
           Held(f)' # {}, family'[f] = "active"
    PROVE  /\ Held(f) # {} /\ family[f] = "active"
           /\ tx[v].pc = "kill" /\ f \in tx[v].todo
<1>0. IInv /\ BaseInv /\ [Next]_vars /\ f \notin raced
  BY DEF Tidy, BaseInv
<1>1. \A w \in Worker : tx[w].op = "login" => tx[w].fam # f
  BY <1>0 DEF Tidy, RacesInv, Races
<1>2. Held(f) # {}
  BY <1>0, <1>1, FirstHeld
<1>3. family[f] = "active"
  BY <1>0, <1>1, Revived, FamilyStored
<1>4. f \in Mine(v) \ raced
  BY <1>0 DEF Mine
<1> QED
  BY <1>2, <1>3, <1>4 DEF Tidy, Sweeping

LEMMA SweepShape ==
    ASSUME TxInv, NEW w \in Worker, ListForRevokeAll(w, TRUE)
    PROVE  /\ Goes(w) /\ tx'[w].todo = Visible(tx[w].usr)
           /\ Visible(tx[w].usr) # {} => tx'[w].pc = "kill"
<1>1. PICK S, pc : S = Visible(tx[w].usr) /\ pc = IF S = {} THEN "members" ELSE "kill"
  OBVIOUS
<1>2. tx' = [tx EXCEPT ![w] = [tx[w] EXCEPT !.todo = S, !.pc = pc]]
  BY <1>1 DEF ListForRevokeAll
<1>3. Goes(w) /\ tx'[w].pc = pc /\ tx'[w].todo = S
  BY <1>2, TodoShape
<1> QED
  BY <1>1, <1>3

LEMMA SweepingStep ==
    ASSUME Tidy, NEW v \in Worker, tx'[v].op = "revoke_all", tx'[v].pc # "list",
           NEW f \in Family \ raced', Owner[f] = tx'[v].usr,
           Held(f)' # {}, family'[f] = "active"
    PROVE  tx'[v].pc = "kill" /\ f \in tx'[v].todo
<1>0. IInv /\ TxInv /\ TxInv' /\ BaseInv /\ TasksInv /\ [Next]_vars /\ f \notin raced
  BY StepTypes DEF Tidy, BaseInv, IInv
<1>1. CASE tx'[v] = tx[v]
  BY <1>1, NoNewcomer
<1>2. ASSUME NEW ok \in BOOLEAN, NEW g \in Family, RevokeFamily(v, g, ok)
      PROVE  tx'[v].pc = "kill" /\ f \in tx'[v].todo
  <2>0. ok = TRUE
    BY <1>2 DEF RevokeFamily, Reply, Tidy
  <2>1. /\ tx[v].pc = "kill" /\ family'[g] # "active" /\ Goes(v)
        /\ tx[v].op = "revoke_all" => tx'[v].todo = tx[v].todo \ {g}
        /\ tx[v].op = "revoke_all" /\ (\E h \in tx[v].todo : h # g) => tx'[v].pc = "kill"
    BY <1>0, <1>2, <2>0, RevokeShape
  <2>2. tx[v].op = "revoke_all" /\ tx[v].usr = tx'[v].usr
    BY <2>1 DEF Goes
  <2>3. f \in tx[v].todo /\ f # g
    BY <2>1, <2>2, NoNewcomer
  <2> QED
    BY <2>1, <2>2, <2>3
<1>3. ASSUME NEW ok \in BOOLEAN, ListForRevokeAll(v, ok)
      PROVE  tx'[v].pc = "kill" /\ f \in tx'[v].todo
  <2>0. ok = TRUE
    BY <1>3 DEF ListForRevokeAll, Reply, Tidy
  <2>3. /\ Goes(v) /\ tx'[v].todo = Visible(tx[v].usr)
        /\ Visible(tx[v].usr) # {} => tx'[v].pc = "kill"
    BY <1>0, <1>3, <2>0, SweepShape
  <2>4. Held(f) # {} /\ family[f] = "active"
    BY <1>3 DEF ListForRevokeAll, Held
  <2>5. f \in index \cap session
    BY <1>0, <2>4 DEF Tidy, Listing
  <2>6. f \in Visible(tx[v].usr)
    BY <2>3, <2>5 DEF Visible, Goes
  <2> QED
    BY <2>3, <2>6
<1>4. ASSUME NEW ok \in BOOLEAN, DeleteAllUserSessions(v, ok)
      PROVE  FALSE
  <2>1. tx[v].op = "revoke_all" /\ tx[v].pc = "members"
    BY <1>0, <1>4 DEF DeleteAllUserSessions, At, TxInv, Wired
  <2>2. Ends(v) \/ Goes(v)
    BY <1>0, <1>4, StepMoves DEF RevokeStep
  <2>3. tx[v].usr = tx'[v].usr
    BY <2>2 DEF Ends, Idle, Goes
  <2> QED
    BY <2>1, <2>3, NoNewcomer
<1>5. ASSUME NEW ok \in BOOLEAN, StoreSessionKey(v, ok)
      PROVE  FALSE
  <2>1. tx[v].op = "login"
    BY <1>0, <1>5 DEF StoreSessionKey, At, TxInv, Wired
  <2>2. Ends(v) \/ Goes(v)
    BY <1>0, <1>5, StepMoves DEF LoginStep
  <2> QED
    BY <2>1, <2>2 DEF Ends, Idle, Goes
<1> QED
  BY <1>0, <1>1, <1>2, <1>3, <1>4, <1>5, TurnsStep DEF Turns

LBase == BaseInv /\ TasksInv /\ RacesInv /\ ListInv

LEMMA LBaseStep == LBase /\ [HNext]_hvars => LBase'
<1> SUFFICES ASSUME LBase, [HNext]_hvars PROVE LBase'
  OBVIOUS
<1>1. /\ BaseInv /\ IInv /\ TasksInv /\ RacesInv /\ ListInv
      /\ [Next]_vars /\ raced \subseteq raced'
  BY HistoryGrows DEF LBase, BaseInv
<1>2. BaseInv' /\ TasksInv' /\ RacesInv'
  BY <1>1, LifeStep, TasksStep, RacesStep
<1>3. ASSUME ~failed'
      PROVE  Dropping' /\ Listing' /\ Storing' /\ Sweeping'
  <2>1. Tidy
    BY <1>1, <1>3, FailedStays DEF Tidy, ListInv
  <2>2. Dropping'
    BY <2>1, DroppingStep DEF Dropping
  <2>3. Listing'
    BY <2>1, ListingStep DEF Listing
  <2>4. Storing'
    <3> SUFFICES ASSUME NEW w \in Worker, tx'[w].pc = "index", tx'[w].fam \notin raced',
                        family'[tx'[w].fam] = "active"
                 PROVE  tx'[w].fam \in session'
      BY DEF Storing
    <3>1. tx'[w].fam \in Family
      BY <1>2 DEF BaseInv, IInv, TxInv, Wired
    <3> QED
      BY <2>1, <3>1, StoringStep
  <2>5. Sweeping'
    <3> SUFFICES ASSUME NEW w \in Worker, tx'[w].op = "revoke_all", tx'[w].pc # "list",
                        NEW f \in Family \ raced', Owner[f] = tx'[w].usr,
                        Held(f)' # {}, family'[f] = "active"
                 PROVE  tx'[w].pc = "kill" /\ f \in tx'[w].todo
      BY DEF Sweeping, Mine
    <3> QED
      BY <2>1, SweepingStep
  <2> QED
    BY <2>2, <2>3, <2>4, <2>5
<1> QED
  BY <1>2, <1>3 DEF LBase, ListInv

LEMMA LBaseInit == HInit => LBase
<1> SUFFICES ASSUME HInit PROVE LBase
  OBVIOUS
<1>1. BaseInv
  BY LifeInit DEF HInit
<1>2. /\ \A w \in Worker : tx[w] = Idle
      /\ held = {}
  BY DEF HInit, Init
<1>3. \A w \in Worker : tx[w].op = "none" /\ tx[w].pc = "idle" /\ tx[w].todo = {}
  BY <1>2 DEF Idle
<1>4. TasksInv /\ RacesInv
  BY <1>3 DEF TasksInv, Tasks, RacesInv, Races
<1>5. ListInv
  BY <1>2, <1>3 DEF ListInv, Dropping, Listing, Storing, Sweeping, Held
<1> QED
  BY <1>1, <1>4, <1>5 DEF LBase

LEMMA ListedAlways == HSpec => []LBase
BY LBaseInit, LBaseStep, PTL DEF HSpec

\* A device that can still refresh is listed, unless its login overlapped a
\* revocation of all the sessions (create_session, revoke_session).
THEOREM ActiveIsListed == HSpec => []ActiveFamilyIsListed
<1>1. LBase => ActiveFamilyIsListed
  <2> SUFFICES ASSUME LBase, ~failed, NEW f \in Family \ raced, family[f] = "active",
                      Held(f) \cap refresh # {}
               PROVE  f \in Visible(Owner[f])
    BY DEF ActiveFamilyIsListed
  <2>1. f \in index \cap session
    BY DEF LBase, ListInv, Listing
  <2> QED
    BY <2>1 DEF Visible
<1> QED
  BY <1>1, ListedAlways, PTL

\* When a revocation of all sessions has gone through them, no device that was
\* logged in before can refresh (revoke_all_sessions).
THEOREM RevokeAllReachesAll == HSpec => []RevokeAllIsComplete
<1>1. LBase => RevokeAllIsComplete
  <2> SUFFICES ASSUME LBase, ~failed, NEW w \in Worker, tx[w].pc = "unindex",
                      NEW f \in Mine(w) \ raced, Held(f) # {}
               PROVE  family[f] # "active"
    BY DEF RevokeAllIsComplete, At
  <2>1. tx[w].op = "revoke_all"
    BY DEF LBase, BaseInv, IInv, TxInv, Wired
  <2> QED
    BY <2>1 DEF LBase, ListInv, Sweeping
<1> QED
  BY <1>1, ListedAlways, PTL

-----------------------------------------------------------------------------
(* The latest sessions of a set.                                           *)

\* One of a set of numbered things comes first.
LEMMA Earliest ==
    ASSUME NEW S, IsFiniteSet(S), S # {}, NEW n \in [S -> Nat]
    PROVE  \E f \in S : \A g \in S : n[f] <= n[g]
<1> DEFINE e(f) == {g \in S : n[g] <= n[f]}
           T == {e(f) : f \in S}
<1>1. IsWellFoundedOn(StrictSubsetOrdering(S), FiniteSubsetsOf(S))
  BY FS_StrictSubsetOrderingWellFounded
<1>2. T \subseteq SUBSET S /\ T # {}
  <2>1. \A f \in S : e(f) \subseteq S
    OBVIOUS
  <2> HIDE DEF e
  <2> QED
    BY <2>1
<1>3. T \subseteq FiniteSubsetsOf(S)
  BY <1>2, FS_FiniteSubsetsOfFinite
<1>4. \E s \in T : \A t \in T : ~ (<<t, s>> \in StrictSubsetOrdering(S))
  <2> HIDE DEF T
  <2> QED
    BY ONLY <1>1, <1>2, <1>3, WFMin
<1>5. PICK f \in S : \A g \in S : ~ (<<e(g), e(f)>> \in StrictSubsetOrdering(S))
  <2> HIDE DEF e
  <2> QED
    BY <1>4
<1>6. ASSUME NEW g \in S, ~(n[f] <= n[g])
      PROVE  FALSE
  <2>1. n[f] \in Nat /\ n[g] \in Nat /\ n[g] < n[f]
    BY <1>6
  <2>2. \A h \in S : n[h] <= n[g] => n[h] <= n[f]
    BY <2>1
  <2>3. e(g) \subseteq e(f) /\ f \in e(f) /\ f \notin e(g)
    BY <2>1, <2>2
  <2>4. <<e(g), e(f)>> \in StrictSubsetOrdering(S)
    BY <2>3 DEF StrictSubsetOrdering
  <2> QED
    BY <1>5, <2>4
<1> QED
  BY <1>6

\* With the oldest sessions gone there is room for another one.
LEMMA OldestLeaveRoom ==
    ASSUME NEW S \in SUBSET Family, since \in [Family -> Nat],
           \A f, g \in S : since[f] = since[g] => f = g
    PROVE  Cardinality(S \ Oldest(S)) <= MaxSessions - 1
<1> DEFINE later(f) == {g \in S : since[g] > since[f]}
           K == S \ Oldest(S)
<1>0. IsFiniteSet(S) /\ IsFiniteSet(K) /\ MaxSessions \in Nat \ {0}
  BY FamilyAssumption, LimitAssumption, FS_Subset
<1>1. CASE K = {}
  BY <1>0, <1>1, FS_EmptySet
<1>2. CASE K # {}
  <2>1. PICK n \in [K -> Nat] : \A f \in K : n[f] = since[f]
    <3>1. [f \in K |-> since[f]] \in [K -> Nat]
      OBVIOUS
    <3> QED
      BY <3>1
  <2>2. PICK f \in K : \A g \in K : n[f] <= n[g]
    BY <1>0, <1>2, Earliest
  <2>3. \A g \in K : since[f] <= since[g]
    BY <2>1, <2>2
  <2>4. K \subseteq later(f) \cup {f}
    <3>1. ASSUME NEW g \in K, g # f
          PROVE  since[g] > since[f]
      <4>1. since[g] # since[f] /\ since[f] <= since[g] /\ since[f] \in Nat /\ since[g] \in Nat
        BY <2>3, <3>1
      <4> QED
        BY <4>1
    <3> QED
      BY <3>1
  <2>5. IsFiniteSet(later(f)) /\ Cardinality(later(f)) \in Nat /\ f \notin later(f)
    BY <1>0, FS_Subset, FS_CardinalityType
  <2>6. ~(Cardinality(later(f)) >= MaxSessions - 1)
    BY DEF Oldest
  <2>7. /\ IsFiniteSet(later(f) \cup {f})
        /\ Cardinality(later(f) \cup {f}) = Cardinality(later(f)) + 1
    BY <2>5, FS_AddElement
  <2>8. Cardinality(K) <= Cardinality(later(f) \cup {f}) /\ Cardinality(K) \in Nat
    BY <1>0, <2>4, <2>7, FS_Subset, FS_CardinalityType
  <2> HIDE DEF later, K
  <2>9. Cardinality(K) <= MaxSessions - 1
    BY <1>0, <2>5, <2>6, <2>7, <2>8
  <2> QED
    BY <2>9 DEF K
<1> QED
  BY <1>1, <1>2

-----------------------------------------------------------------------------
(* A user has no more sessions than the limit.                             *)

\* A login that has counted the sessions and has yet to store its own.
Past(w) == tx[w].op = "login" /\ tx[w].pc \in {"kill", "drop", "key", "index"}

Alone ==
    \A v, w \in Worker : Past(v) /\ Past(w) /\ tx[v].usr = tx[w].usr =>
       v = w \/ tx[v].usr \in crowded

Room ==
    ~failed => \A u \in User \ crowded :
       /\ Cardinality(Visible(u)) <= MaxSessions
       /\ \A w \in Worker : Past(w) /\ tx[w].usr = u =>
             Cardinality(Visible(u) \ tx[w].todo) <= MaxSessions - 1

\* How a login gets there, and what it has left to revoke.
Counts(v) ==
    \/ tx'[v] = tx[v] \/ ~Past(v)'
    \/ Past(v) /\ Goes(v) /\ tx'[v].todo = tx[v].todo
    \/ \E ok \in BOOLEAN : \E f \in Family :
          /\ DropSession(v, f, ok) /\ Past(v) /\ Goes(v) /\ tx'[v].todo = tx[v].todo \ {f}
    \/ \E ok \in BOOLEAN : EnforceMaxSessions(v, ok)

LEMMA EnforceShape ==
    ASSUME IInv, NEW w \in Worker, NEW ok \in BOOLEAN, EnforceMaxSessions(w, ok)
    PROVE  /\ tx[w].op = "login" /\ tx[w].pc = "list" /\ OnlyMoves(w) /\ Goes(w)
           /\ tx'[w].pc \in {"key", "kill"}
           /\ tx'[w].todo = (IF ok /\ Cardinality(Visible(tx[w].usr)) >= MaxSessions
                               THEN Oldest(Visible(tx[w].usr)) ELSE {})
<1>1. PICK S, pc : /\ S = (IF ok /\ Cardinality(Visible(tx[w].usr)) >= MaxSessions
                             THEN Oldest(Visible(tx[w].usr)) ELSE {})
                   /\ pc = (IF S = {} THEN "key" ELSE "kill")
  OBVIOUS
<1>2. tx' = [tx EXCEPT ![w] = [tx[w] EXCEPT !.todo = S, !.pc = pc]]
  BY <1>1 DEF EnforceMaxSessions
<1>3. TxInv
  BY DEF IInv
<1>4. OnlyMoves(w) /\ Goes(w) /\ tx'[w].pc = pc /\ tx'[w].todo = S
  BY <1>2, <1>3, TodoShape
<1>5. tx[w].op = "login" /\ tx[w].pc = "list"
  BY DEF EnforceMaxSessions, At
<1> QED
  BY <1>1, <1>4, <1>5

LEMMA CountsStep ==
    ASSUME IInv, [Next]_vars, NEW v \in Worker
    PROVE  Counts(v)
<1>0. TxInv
  BY DEF IInv
<1>1. ASSUME NEW w \in Worker, OnlyMoves(w), Counts(w)
      PROVE  Counts(v)
  <2>1. v # w => tx'[v] = tx[v]
    BY <1>1 DEF OnlyMoves
  <2> QED
    BY <1>1, <2>1 DEF Counts
<1>2. ASSUME NEW w \in Worker, Done(w)
      PROVE  Counts(v)
  <2>1. OnlyMoves(w) /\ Ends(w)
    BY <1>0, <1>2, DoneShape
  <2>2. Counts(w)
    BY <2>1 DEF Counts, Ends, Idle, Past
  <2> QED
    BY <1>1, <2>1, <2>2
<1>3. ASSUME NEW w \in Worker, NEW pc, Goto(w, pc), Past(w) \/ pc \notin {"kill", "drop", "key", "index"}
      PROVE  Counts(v)
  <2>1. OnlyMoves(w) /\ Goes(w) /\ tx'[w].pc = pc /\ tx'[w].todo = tx[w].todo
    BY <1>0, <1>3, GotoShape
  <2>2. Counts(w)
    BY <1>3, <2>1 DEF Counts, Past
  <2> QED
    BY <1>1, <2>1, <2>2
<1>4. ASSUME NEW w \in Worker, OnlyMoves(w), tx'[w].op # "login"
      PROVE  Counts(v)
  <2>1. Counts(w)
    BY <1>4 DEF Counts, Past
  <2> QED
    BY <1>1, <1>4, <2>1
<1>5. ASSUME NEW w \in Worker, Begin(w)
      PROVE  Counts(v)
  <2>1. CASE \E f \in Family : IssueTokens(w, f)
    <3>1. OnlyMoves(w) /\ tx'[w].pc = "jti"
      BY <1>0, <2>1, IssueShape
    <3>2. Counts(w)
      BY <3>1 DEF Counts, Past
    <3> QED
      BY <1>1, <3>1, <3>2
  <2>2. CASE ~\E f \in Family : IssueTokens(w, f)
    <3>1. OnlyMoves(w) /\ Opens(w)
      BY <1>5, <2>2, OpenShape
    <3> QED
      BY <1>4, <3>1 DEF Opens
  <2> QED
    BY <2>1, <2>2
<1>6. ASSUME NEW w \in Worker, NEW ok \in BOOLEAN, LoginStep(w, ok)
      PROVE  Counts(v)
  <2>1. CASE EnforceMaxSessions(w, ok)
    <3>1. OnlyMoves(w)
      BY <2>1, EnforceShape
    <3>2. Counts(w)
      BY <2>1 DEF Counts
    <3> QED
      BY <1>1, <3>1, <3>2
  <2>2. CASE ~EnforceMaxSessions(w, ok)
    <3>1. \/ Done(w) \/ Goto(w, "family") \/ Goto(w, "list")
          \/ Goto(w, "index") /\ tx[w].pc = "key"
      BY <1>6, <2>2 DEF LoginStep, StoreRefreshJti, StoreTokenFamily, StoreSessionKey,
         StoreSessionIndex, Answer, At
    <3>2. tx[w].pc = "key" => Past(w)
      BY <1>0 DEF TxInv, Wired, Past
    <3> QED
      BY <1>2, <1>3, <3>1, <3>2
  <2> QED
    BY <2>1, <2>2
<1>7. ASSUME NEW w \in Worker, NEW ok \in BOOLEAN, RefreshStep(w, ok)
      PROVE  Counts(v)
  <2>1. CASE RotateOld(w, ok)
    <3>1. OnlyMoves(w) /\ tx'[w].op = "refresh"
      BY <2>1, RotateShape
    <3> QED
      BY <1>4, <3>1
  <2>2. CASE ~RotateOld(w, ok)
    <3>1. Done(w) \/ \E pc \in {"live", "suspect", "old", "kill"} : Goto(w, pc)
      BY <1>7, <2>2 DEF RefreshStep, CheckWhitelist, CheckFamily, DetectReplay, RevokeAllRefreshTokens
    <3>2. tx[w].op = "refresh"
      BY <1>0, <1>7, <2>2 DEF RefreshStep, CheckWhitelist, CheckFamily, DetectReplay,
         RevokeAllRefreshTokens, At, TxInv, Wired
    <3>3. ASSUME NEW pc, Goto(w, pc)
          PROVE  OnlyMoves(w) /\ tx'[w].op # "login"
      BY <1>0, <3>2, <3>3, GotoShape DEF Goes
    <3> QED
      BY <1>2, <1>4, <3>1, <3>3
  <2> QED
    BY <2>1, <2>2
<1>8. ASSUME NEW w \in Worker, NEW ok \in BOOLEAN, RevokeStep(w, ok)
      PROVE  Counts(v)
  <2>1. OnlyMoves(w) /\ (Ends(w) \/ Goes(w))
    BY <1>8, StepMoves
  <2>2. CASE tx[w].op # "login"
    <3>1. tx'[w].op # "login"
      BY <2>1, <2>2 DEF Ends, Idle, Goes
    <3> QED
      BY <1>4, <2>1, <3>1
  <2>3. CASE tx[w].op = "login"
    <3>1. \E f \in Family : RevokeFamily(w, f, ok) \/ DropSession(w, f, ok)
      BY <1>0, <1>8, <2>3 DEF RevokeStep, RevokeRefreshJti, FindSession, GetSession,
         ListForRevokeAll, DeleteAllUserSessions, DeleteUserIndex, At, TxInv, Wired
    <3>2. PICK f \in Family : RevokeFamily(w, f, ok) \/ DropSession(w, f, ok)
      BY <3>1
    <3>3. Past(w)
      BY <2>3, <3>2 DEF RevokeFamily, DropSession, At, Past
    <3>4. CASE RevokeFamily(w, f, ok)
      <4>1. Goto(w, "drop")
        BY <2>3, <3>4 DEF RevokeFamily, AfterKill
      <4> QED
        BY <1>3, <3>3, <4>1
    <3>5. CASE DropSession(w, f, ok)
      <4>1. PICK S, pc : S = tx[w].todo \ {f} /\ pc = (IF S = {} THEN "key" ELSE "kill")
        OBVIOUS
      <4>2. tx' = [tx EXCEPT ![w] = [tx[w] EXCEPT !.todo = S, !.pc = pc]]
        BY <2>3, <3>5, <4>1 DEF DropSession
      <4>3. Goes(w) /\ tx'[w].todo = S
        BY <1>0, <4>2, TodoShape
      <4>4. Counts(w)
        BY <3>3, <3>5, <4>1, <4>3 DEF Counts
      <4> QED
        BY <1>1, <2>1, <4>4
    <3> QED
      BY <3>2, <3>4, <3>5
  <2> QED
    BY <2>2, <2>3
<1>9. ASSUME NEW w \in Worker, Crash(w)
      PROVE  Counts(v)
  BY <1>2, <1>9 DEF Crash
<1>10. CASE (\E u \in User : ListSessions(u)) \/ (\E f \in Family : ExpireFamily(f)) \/ UNCHANGED vars
  <2>1. tx' = tx
    BY <1>10 DEF ListSessions, ExpireFamily, vars
  <2> QED
    BY <2>1 DEF Counts
<1>11. ASSUME NEW w \in Worker, NEW ok \in BOOLEAN,
              LoginStep(w, ok) \/ RefreshStep(w, ok) \/ RevokeStep(w, ok)
       PROVE  Counts(v)
  BY <1>6, <1>7, <1>8, <1>11
<1> QED
  BY <1>5, <1>9, <1>10, <1>11, Zenon DEF Next

LEMMA AloneStep ==
    ASSUME IInv, Alone, [HNext]_hvars
    PROVE  Alone'
<1>0. IInv /\ [Next]_vars /\ crowded \subseteq crowded'
  BY HistoryGrows
<1>1. ASSUME NEW v \in Worker, Past(v)'
      PROVE  \/ Past(v) /\ tx[v].usr = tx'[v].usr
             \/ \E ok \in BOOLEAN : EnforceMaxSessions(v, ok)
  <2>1. CASE tx'[v] = tx[v]
    BY <1>1, <2>1 DEF Past
  <2> QED
    BY <1>0, <1>1, <2>1, CountsStep DEF Counts, Goes
<1>2. ASSUME NEW v \in Worker, NEW w \in Worker, v # w, Past(v)', Past(w)', tx'[v].usr = tx'[w].usr,
             NEW ok \in BOOLEAN, EnforceMaxSessions(v, ok)
      PROVE  tx'[v].usr \in crowded'
  <2>1. /\ tx[v].op = "login" /\ tx[v].pc = "list" /\ OnlyMoves(v) /\ Goes(v)
        /\ tx'[v].pc \in {"key", "kill"}
    BY <1>2, EnforceShape
  <2>2. Moved(v) /\ HNext
    BY <2>1, HistoryGrows DEF Moved
  <2>3. tx'[w] = tx[w]
    BY <1>2, <2>1 DEF OnlyMoves
  <2>4. tx[v].usr = tx'[v].usr
    BY <2>1 DEF Goes
  <2>5. Crowds(v)
    BY <1>2, <2>1, <2>3, <2>4 DEF Crowds, Past, At
  <2> QED
    BY <2>2, <2>4, <2>5 DEF HNext
<1>3. ASSUME NEW v \in Worker, NEW w \in Worker, Past(v)', Past(w)', tx'[v].usr = tx'[w].usr
      PROVE  v = w \/ tx'[v].usr \in crowded'
  <2>1. CASE Past(v) /\ tx[v].usr = tx'[v].usr /\ Past(w) /\ tx[w].usr = tx'[w].usr
    BY <1>0, <1>3, <2>1 DEF Alone
  <2>2. CASE \E ok \in BOOLEAN : EnforceMaxSessions(v, ok)
    BY <1>2, <1>3, <2>2
  <2>3. CASE \E ok \in BOOLEAN : EnforceMaxSessions(w, ok)
    BY <1>2, <1>3, <2>3
  <2> QED
    BY <1>1, <1>3, <2>1, <2>2, <2>3
<1> QED
  BY <1>3 DEF Alone

\* A session becomes visible when its login puts it in the index.
LEMMA Newcomer ==
    ASSUME BaseInv, [Next]_vars, NEW u \in User, NEW f \in Family,
           f \in Visible(u)', f \notin Visible(u)
    PROVE  \E w \in Worker : \E ok \in BOOLEAN :
              StoreSessionIndex(w, ok) /\ tx[w].op = "login" /\ tx[w].fam = f /\ tx[w].usr = u
<1>0. IInv /\ TxInv
  BY DEF BaseInv, IInv
<1>1. f \in index' /\ f \in session' /\ Owner[f] = u /\ ~(f \in index /\ f \in session)
  BY DEF Visible
<1>2. CASE Calm
  BY <1>1, <1>2 DEF Calm, Shrinks
<1>3. ASSUME NEW w \in Worker, NEW ok \in BOOLEAN, StoreSessionKey(w, ok)
      PROVE  FALSE
  <2>1. tx[w].op = "login" /\ Serves(w)
    BY <1>0, <1>3 DEF StoreSessionKey, At, TxInv, Wired, BaseInv, LifeInv
  <2>2. tx[w].fam \notin index /\ index' = index /\ session' \subseteq session \cup {tx[w].fam}
    BY <1>3, <2>1 DEF StoreSessionKey, Serves
  <2> QED
    BY <1>1, <2>2
<1>4. ASSUME NEW w \in Worker, NEW ok \in BOOLEAN, StoreSessionIndex(w, ok)
      PROVE  tx[w].op = "login" /\ tx[w].fam = f /\ tx[w].usr = u
  <2>1. tx[w].op = "login" /\ Serves(w)
    BY <1>0, <1>4 DEF StoreSessionIndex, At, TxInv, Wired, BaseInv, LifeInv
  <2>2. index' \subseteq index \cup {tx[w].fam} /\ session' = session
    BY <1>4 DEF StoreSessionIndex
  <2>3. tx[w].fam = f
    BY <1>1, <2>2
  <2> QED
    BY <1>1, <2>1, <2>3 DEF Serves
<1>5. CASE (\E g \in Family : ExpireFamily(g)) \/ \E w \in Worker :
             \/ \E g \in Family : IssueTokens(w, g)
             \/ \E ok \in BOOLEAN : StoreRefreshJti(w, ok) \/ StoreTokenFamily(w, ok) \/ RotateOld(w, ok)
  BY <1>1, <1>5 DEF ExpireFamily, IssueTokens, StoreRefreshJti, StoreTokenFamily, RotateOld, store
<1> QED
  BY <1>0, <1>2, <1>3, <1>4, <1>5, LifeShape

\* Without a newcomer, a login that has counted still has room.
LEMMA RoomKept ==
    ASSUME BaseInv, Alone, Room, [Next]_vars, ~failed, ~failed',
           NEW u \in User \ crowded, Visible(u)' \subseteq Visible(u),
           NEW v \in Worker, Past(v)', tx'[v].usr = u
    PROVE  Cardinality(Visible(u)' \ tx'[v].todo) <= MaxSessions - 1
<1>0. IInv /\ TxInv /\ Visible(u) \subseteq Family /\ IsFiniteSet(Visible(u)) /\ MaxSessions \in Nat \ {0}
  <2>1. Visible(u) \subseteq Family
    BY DEF BaseInv, IInv, StoreInv, Visible
  <2> QED
    BY <2>1, FamilyAssumption, LimitAssumption, FS_Subset DEF BaseInv, IInv
<1>1. ASSUME Past(v), tx[v].usr = u, Visible(u)' \ tx'[v].todo \subseteq Visible(u) \ tx[v].todo
      PROVE  Cardinality(Visible(u)' \ tx'[v].todo) <= MaxSessions - 1
  <2>1. IsFiniteSet(Visible(u) \ tx[v].todo)
    BY <1>0, FS_Subset
  <2>2. Cardinality(Visible(u) \ tx[v].todo) <= MaxSessions - 1
    BY <1>1 DEF Room
  <2>3. /\ IsFiniteSet(Visible(u)' \ tx'[v].todo)
        /\ Cardinality(Visible(u)' \ tx'[v].todo) <= Cardinality(Visible(u) \ tx[v].todo)
    BY <1>1, <2>1, FS_Subset
  <2> QED
    BY <1>0, <2>1, <2>2, <2>3, FS_CardinalityType
<1>2. CASE tx'[v] = tx[v]
  BY <1>1, <1>2 DEF Past
<1>3. CASE Past(v) /\ Goes(v) /\ tx'[v].todo = tx[v].todo
  BY <1>1, <1>3 DEF Goes
<1>4. ASSUME NEW ok \in BOOLEAN, NEW f \in Family, DropSession(v, f, ok),
             Past(v), Goes(v), tx'[v].todo = tx[v].todo \ {f}
      PROVE  Cardinality(Visible(u)' \ tx'[v].todo) <= MaxSessions - 1
  <2>1. session' = session \ {f}
    BY <1>4 DEF DropSession, DeleteSession, Reply
  <2>2. f \notin Visible(u)'
    BY <2>1 DEF Visible
  <2> QED
    BY <1>1, <1>4, <2>2 DEF Goes
<1>5. ASSUME NEW ok \in BOOLEAN, EnforceMaxSessions(v, ok)
      PROVE  Cardinality(Visible(u)' \ tx'[v].todo) <= MaxSessions - 1
  <2>1. ok /\ tx[v].usr = u
    BY <1>0, <1>5, EnforceShape DEF EnforceMaxSessions, Reply, Goes
  <2>2. tx'[v].todo = IF Cardinality(Visible(u)) >= MaxSessions THEN Oldest(Visible(u)) ELSE {}
    BY <1>0, <1>5, <2>1, EnforceShape
  <2>3. IsFiniteSet(Visible(u) \ tx'[v].todo)
    BY <1>0, FS_Subset
  <2>4. Cardinality(Visible(u) \ tx'[v].todo) <= MaxSessions - 1
    <3>1. CASE Cardinality(Visible(u)) >= MaxSessions
      <4>1. \A f \in Visible(u) : since[f] > 0
        BY <2>1, ListedSessions
      <4>2. \A f, g \in Visible(u) : since[f] = since[g] => f = g
        BY <1>0, <4>1 DEF BaseInv, LifeInv, Clock
      <4>3. since \in [Family -> Nat]
        BY <1>0 DEF IInv, CountInv
      <4> QED
        BY <1>0, <2>2, <3>1, <4>2, <4>3, OldestLeaveRoom
    <3>2. CASE ~(Cardinality(Visible(u)) >= MaxSessions)
      <4>1. Visible(u) \ tx'[v].todo = Visible(u) /\ Cardinality(Visible(u)) \in Nat
        BY <1>0, <2>2, <3>2, FS_CardinalityType
      <4>2. Cardinality(Visible(u)) <= MaxSessions - 1
        BY <1>0, <3>2, <4>1
      <4> QED
        BY <4>1, <4>2, Zenon
    <3> QED
      BY <3>1, <3>2
  <2>5. /\ IsFiniteSet(Visible(u)' \ tx'[v].todo)
        /\ Cardinality(Visible(u)' \ tx'[v].todo) <= Cardinality(Visible(u) \ tx'[v].todo)
    BY <2>3, FS_Subset
  <2> QED
    BY <1>0, <2>3, <2>4, <2>5, FS_CardinalityType
<1> QED
  BY <1>0, <1>2, <1>3, <1>4, <1>5, CountsStep DEF Counts

LEMMA RoomStep ==
    ASSUME BaseInv, TasksInv, Alone, Room, [HNext]_hvars
    PROVE  Room'
<1>0. IInv /\ TxInv /\ [Next]_vars /\ crowded \subseteq crowded' /\ (failed => failed')
  BY HistoryGrows, FailedStays DEF BaseInv, IInv
<1>1. SUFFICES ASSUME ~failed', NEW u \in User \ crowded'
               PROVE  /\ Cardinality(Visible(u)') <= MaxSessions
                      /\ \A v \in Worker : Past(v)' /\ tx'[v].usr = u =>
                           Cardinality(Visible(u)' \ tx'[v].todo) <= MaxSessions - 1
  BY DEF Room
<1>2. u \in User \ crowded /\ ~failed
  BY <1>0, <1>1
<1>3. IsFiniteSet(Visible(u)) /\ Visible(u)' \subseteq Family /\ MaxSessions \in Nat \ {0}
  <2>1. Visible(u) \subseteq Family
    BY <1>0 DEF IInv, StoreInv, Visible
  <2>2. IInv'
    BY <1>0, LifeStep DEF BaseInv
  <2>3. Visible(u)' \subseteq Family
    BY <2>2 DEF IInv, StoreInv, Visible
  <2> QED
    BY <2>1, <2>3, FamilyAssumption, LimitAssumption, FS_Subset
<1>4. CASE Visible(u)' \subseteq Visible(u)
  <2>1. Cardinality(Visible(u)) <= MaxSessions
    BY <1>2 DEF Room
  <2>2. IsFiniteSet(Visible(u)') /\ Cardinality(Visible(u)') <= Cardinality(Visible(u))
    BY <1>3, <1>4, FS_Subset
  <2>3. Cardinality(Visible(u)') <= MaxSessions
    BY <1>3, <2>1, <2>2, FS_CardinalityType
  <2> QED
    BY <1>0, <1>1, <1>2, <1>4, <2>3, RoomKept
<1>5. CASE ~(Visible(u)' \subseteq Visible(u))
  <2>1. PICK f \in Family : f \in Visible(u)' /\ f \notin Visible(u)
    BY <1>3, <1>5
  <2>2. PICK w \in Worker, ok \in BOOLEAN :
           StoreSessionIndex(w, ok) /\ tx[w].op = "login" /\ tx[w].fam = f /\ tx[w].usr = u
    BY <1>0, <2>1, Newcomer
  <2>3. Past(w) /\ tx[w].todo = {}
    BY <2>2 DEF StoreSessionIndex, At, Past, TasksInv, Tasks
  <2>4. Cardinality(Visible(u)) <= MaxSessions - 1
    <3>1. Visible(u) \ tx[w].todo = Visible(u)
      BY <2>3
    <3>2. Cardinality(Visible(u) \ tx[w].todo) <= MaxSessions - 1
      BY <1>2, <2>2, <2>3 DEF Room
    <3> QED
      BY <3>1, <3>2
  <2>5. Visible(u)' \subseteq Visible(u) \cup {f}
    BY <2>2 DEF StoreSessionIndex, Visible
  <2>6. /\ IsFiniteSet(Visible(u) \cup {f})
        /\ Cardinality(Visible(u) \cup {f}) = Cardinality(Visible(u)) + 1
    BY <1>3, <2>1, FS_AddElement
  <2>7. IsFiniteSet(Visible(u)') /\ Cardinality(Visible(u)') <= Cardinality(Visible(u) \cup {f})
    BY <2>5, <2>6, FS_Subset
  <2>8. Cardinality(Visible(u)') <= MaxSessions
    BY <1>3, <2>4, <2>6, <2>7, FS_CardinalityType
  <2>9. OnlyMoves(w) /\ Ends(w)
    BY <1>0, <2>2, DoneShape DEF StoreSessionIndex, Answer
  <2>10. ASSUME NEW v \in Worker, Past(v)', tx'[v].usr = u
         PROVE  FALSE
    <3>1. v # w
      BY <2>9, <2>10 DEF Ends, Idle, Past
    <3>2. Past(v) /\ tx[v].usr = u
      BY <2>9, <2>10, <3>1 DEF OnlyMoves, Past
    <3> QED
      BY <1>2, <2>2, <2>3, <3>1, <3>2 DEF Alone
  <2> QED
    BY <2>8, <2>10
<1> QED
  BY <1>4, <1>5

\* The inductive invariant of the session limit.
SBase == BaseInv /\ TasksInv /\ Alone /\ Room

LEMMA SBaseInit == HInit => SBase
<1> SUFFICES ASSUME HInit
             PROVE  SBase
  OBVIOUS
<1>1. BaseInv /\ TasksInv
  BY LBaseInit DEF LBase
<1>2. Alone
  BY DEF HInit, Init, Alone, Past, Idle
<1>3. Room
  <2>1. \A u : Visible(u) = {}
    BY DEF HInit, Init, Visible
  <2>2. \A w \in Worker : ~Past(w)
    BY DEF HInit, Init, Past, Idle
  <2>3. Cardinality({}) = 0 /\ MaxSessions \in Nat \ {0}
    BY FS_EmptySet, LimitAssumption
  <2> QED
    BY <2>1, <2>2, <2>3 DEF Room
<1> QED
  BY <1>1, <1>2, <1>3 DEF SBase

LEMMA SBaseStep == SBase /\ [HNext]_hvars => SBase'
<1> SUFFICES ASSUME SBase, [HNext]_hvars
             PROVE  SBase'
  OBVIOUS
<1>1. BaseInv' /\ TasksInv'
  BY HistoryGrows, LifeStep, TasksStep DEF SBase, BaseInv, IInv
<1>2. Alone' /\ Room'
  BY AloneStep, RoomStep DEF SBase, BaseInv
<1> QED
  BY <1>1, <1>2 DEF SBase

\* A user's listed sessions never exceed the limit, unless two logins both
\* counted before either stored its session, or a command failed
\* (_enforce_max_sessions evicts the oldest before the new one is stored).
THEOREM SessionsAreLimited == HSpec => []SessionLimit
<1>1. SBase => SessionLimit
  BY DEF SBase, Room, SessionLimit
<1> QED
  BY <1>1, SBaseInit, SBaseStep, PTL DEF HSpec
==============================================================================
