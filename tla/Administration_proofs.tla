------------------------ MODULE Administration_proofs -------------------------
(***************************************************************************)
(* Proofs about Administration: a logout takes effect, the audit trail     *)
(* agrees with what was committed, and a row that is gone stays gone; then *)
(* the numbers, the keys and the rows: numbers grow, no two rows share a   *)
(* key, a clash has a rival that is there, and every variable keeps its    *)
(* type; last, the tree of categories hides loops only.                    *)
(***************************************************************************)
EXTENDS Administration, FiniteSetTheorems, TLAPS

Needs == {"login", "products:write", "products:delete", "categories:write", "categories:delete",
          "bundles:write", "bundles:delete", "audit:read"}

\* What is known of a route without looking at which one it is.
RouteRec ==
    {r \in [method : {"GET", "POST", "PATCH", "DELETE"}, needs : Needs,
            changes : {"rows", "redis", "none"}, reloads : BOOLEAN, refuses : BOOLEAN,
            sensitive : BOOLEAN, name : {"other", "csrf_token", "logout"}] :
       r.name = "other" /\ r.changes = "none" => r.method = "GET"}

LEMMA RouteTypes ==
    ASSUME NEW method \in {"GET", "POST", "PATCH", "DELETE"}, NEW needs \in Needs,
           NEW changes \in {"rows", "redis", "none"}, NEW reloads \in BOOLEAN,
           changes = "none" => method = "GET"
    PROVE  /\ Route(method, needs, changes, reloads) \in RouteRec
           /\ [Route(method, needs, changes, reloads) EXCEPT !.refuses = FALSE] \in RouteRec
BY DEF Route, RouteRec

LEMMA FormTypes ==
    ASSUME NEW needs \in Needs
    PROVE  /\ Lists(needs) \in RouteRec /\ Reads(needs) \in RouteRec
           /\ Creates(needs) \in RouteRec /\ Updates(needs) \in RouteRec
           /\ Deletes(needs) \in RouteRec
<1>1. Lists(needs) \in RouteRec
  BY RouteTypes DEF Lists
<1>2. Reads(needs) \in RouteRec /\ Creates(needs) \in RouteRec
  BY RouteTypes DEF Reads, Creates
<1>3. Updates(needs) \in RouteRec /\ Deletes(needs) \in RouteRec
  BY RouteTypes DEF Updates, Deletes
<1> QED
  BY <1>1, <1>2, <1>3

LEMMA RoutesTyped == Routes \subseteq RouteRec
<1>1. {list_products, get_product, create_product, update_product, delete_product,
       list_categories, get_category_tree, get_category, create_category, update_category,
       delete_category, list_bundles, get_bundle, create_bundle, update_bundle, delete_bundle,
       add_bundle_item, update_bundle_item, remove_bundle_item, calculate_bundle_price}
      \subseteq RouteRec
  BY FormTypes DEF Needs, list_products, get_product, create_product, update_product, delete_product,
     list_categories, get_category_tree, get_category, create_category, update_category,
     delete_category, list_bundles, get_bundle, create_bundle, update_bundle, delete_bundle,
     add_bundle_item, update_bundle_item, remove_bundle_item, calculate_bundle_price
<1>2. {list_customers, create_customer, update_customer, delete_customer,
       list_reservations, get_reservation, create_reservation, update_reservation,
       confirm_reservation, cancel_reservation, list_invoices, create_invoice, update_invoice,
       add_payment, cancel_invoice, get_my_profile, update_my_profile, list_sessions, mfa_status,
       list_audit_logs, get_user_audit_trail, get_entity_audit_trail, get_current_user_info}
      \subseteq RouteRec
  BY FormTypes DEF Needs, list_customers, create_customer, update_customer, delete_customer,
     list_reservations, get_reservation, create_reservation, update_reservation,
     confirm_reservation, cancel_reservation, list_invoices, create_invoice, update_invoice,
     add_payment, cancel_invoice, get_my_profile, update_my_profile, list_sessions, mfa_status,
     list_audit_logs, get_user_audit_trail, get_entity_audit_trail, get_current_user_info
<1>3. {get_customer, get_invoice} \subseteq RouteRec
  <2>1. \A r \in RouteRec : [r EXCEPT !.sensitive = TRUE] \in RouteRec
    BY DEF RouteRec
  <2> QED
    BY <2>1, FormTypes DEF Needs, get_customer, get_invoice, Sensitive
<1>4. {list_overdue_invoices, revoke_session, revoke_all_sessions, setup_mfa, verify_setup,
       disable_mfa} \subseteq RouteRec
  BY RouteTypes DEF Needs, list_overdue_invoices, revoke_session, revoke_all_sessions, setup_mfa,
     verify_setup, disable_mfa
<1>5. {get_csrf_token, logout} \subseteq RouteRec
  <2>1. Lists("login") \in RouteRec
    BY FormTypes DEF Needs
  <2>2. Named("csrf_token", Lists("login")) \in RouteRec
    BY <2>1 DEF Named, RouteRec
  <2>3. logout \in RouteRec
    BY DEF logout, Named, Route, RouteRec, Needs
  <2> QED
    BY <2>2, <2>3 DEF get_csrf_token
<1> QED
  BY <1>1, <1>2, <1>3, <1>4, <1>5 DEF Routes

-----------------------------------------------------------------------------
(* The invariant of the gateway.                                           *)

Places == {"idle", "csrf", "limit", "user", "listed", "other", "commit", "reload",
           "audit", "answer", "csrf_token", "logout", "scan", "wipe", "log"}
Entries == {"none", "CREATE", "UPDATE", "DELETE", "READ_SENSITIVE", "LOGOUT"}
Statuses == {0, 200, 400, 401, 403, 429, 500}

CallRec ==
    [pc : Places, route : Routes, bearer : Bearer \cup {NoBearer},
     token : CsrfToken \cup {NoCsrf}, scan : SUBSET CsrfToken,
     changed : BOOLEAN, entry : Entries, status : Statuses,
     blind : BOOLEAN, lost : BOOLEAN]

\* What the property asks of an answer.
Consistent(c) ==
    /\ c.entry \in {"CREATE", "UPDATE", "DELETE"} => c.changed
    /\ c.changed /\ c.entry = "none" => c.lost \/ c.status = 500 \/ ~Unsafe(c.route)

\* Requests between two steps: what is changed is committed, and the audit
\* middleware finds nothing changed behind a successful GET only.
Sound ==
    {c \in CallRec :
       /\ c.pc \notin {"reload", "audit", "answer"} => ~c.changed
       /\ c.pc # "answer" => c.entry = "none"
       /\ c.pc = "other" => c.route.name = "other"
       /\ c.pc = "reload" => c.changed
       /\ c.pc = "audit" /\ ~c.changed => ~Unsafe(c.route)
       /\ c.pc = "answer" => Consistent(c)}

\* The access token b is of no more use.
Over(b) == b \notin unexpired \/ b \in blacklist

\* A request that came after the logout of its token and is still under way.
Stopped(c) ==
    c.blind \/ c.bearer \notin unexpired \/
    (~c.changed /\ c.pc \in {"csrf", "limit", "user", "listed", "answer"})

\* The logout in c has done what its place in the code says; k are the CSRF
\* tokens that were stored when it came in.
Loggedout(c, k) ==
    /\ c.pc \in {"scan", "wipe", "log"} /\ ~c.blind => Over(c.bearer)
    /\ c.pc = "wipe" => k \cap csrf \subseteq c.scan
    /\ c.pc = "log" /\ ~c.blind => k \cap csrf = {}

StoreTypes ==
    /\ role \in {Hierarchy[n] : n \in 1..3}
    /\ blacklist \subseteq unexpired /\ unexpired \subseteq Bearer
    /\ csrf \subseteq handed /\ handed \subseteq CsrfToken /\ failures \in 0..MaxFailures

PastInv ==
    /\ known \in [Server -> SUBSET handed] /\ outdated \subseteq handed \ csrf
    /\ late \subseteq Server /\ \A b \in out : Over(b)

CallInv ==
    /\ call \in [Server -> Sound]
    /\ \A s \in Server : Loggedout(call[s], known[s])
    /\ \A s \in late : call[s].pc # "idle" /\ call[s].bearer \in out /\ Stopped(call[s])

GInv == StoreTypes /\ PastInv /\ CallInv

\* What no step does to the stores: revive a token.
Wears ==
    /\ unexpired' \subseteq unexpired /\ \A b : Over(b) => Over(b)'
    /\ handed \subseteq handed' /\ csrf' \cap handed \subseteq csrf

-----------------------------------------------------------------------------
(* Every step of the gateway preserves it.                                 *)

LEMMA PastStep ==
    ASSUME GInv, GatewayHistory, Wears, \A s \in Server : CallAt(s, "idle") \/ call'[s].bearer = call[s].bearer
                                                        \/ call'[s].pc = "idle"
    PROVE  /\ PastInv'
           /\ \A s \in late' : s \in Server /\ call'[s].pc # "idle" /\ call'[s].bearer \in out'
           /\ \A s \in Server : known'[s] \subseteq handed
<1> USE DEF GInv, PastInv, CallInv
<1>1. known' \in [Server -> SUBSET handed]
  BY DEF GatewayHistory, StoreTypes
<1>2. late' \subseteq Server /\ out \subseteq out'
  BY DEF GatewayHistory
<1>3. \A v \in LoggedOut : v \in Server /\ call[v].pc = "log" /\ ~call[v].blind
  BY DEF LoggedOut, CallAt
<1>4. \A b \in out' : Over(b)'
  BY <1>3 DEF GatewayHistory, Loggedout, Wears
<1>5. outdated' \subseteq handed' \ csrf'
  <2>1. \A v \in LoggedOut : known[v] \subseteq handed /\ known[v] \cap csrf = {}
    BY <1>3 DEF Loggedout
  <2> QED
    BY <2>1 DEF GatewayHistory, Wears
<1>6. \A s \in late' : call'[s].pc # "idle" /\ call'[s].bearer \in out'
  BY <1>2 DEF GatewayHistory, CallAt
<1>7. known' \in [Server -> SUBSET handed']
  BY <1>1 DEF Wears
<1> QED
  BY <1>1, <1>2, <1>4, <1>5, <1>6, <1>7

\* What the others did stays done.
LEMMA OthersStay ==
    ASSUME GInv, GatewayHistory, Wears, NEW v \in Server, call'[v] = call[v]
    PROVE  Loggedout(call[v], known[v])' /\ (v \in late' => Stopped(call[v])')
<1> USE DEF GInv, PastInv, CallInv
<1>1. CASE call[v].pc = "idle"
  BY <1>1 DEF Loggedout, GatewayHistory, CallAt
<1>2. CASE call[v].pc # "idle"
  <2>1. known'[v] = known[v] /\ (v \in late' => v \in late) /\ known[v] \subseteq handed
    BY <1>2 DEF GatewayHistory, CallAt
  <2>2. \A k \in SUBSET handed : k \cap csrf' \subseteq k \cap csrf
    BY DEF Wears
  <2>3. Loggedout(call[v], known[v])'
    BY <2>1, <2>2 DEF Loggedout, Wears
  <2>4. v \in late => Stopped(call[v])'
    BY DEF Stopped, Wears
  <2> QED
    BY <2>1, <2>3, <2>4
<1> QED
  BY <1>1, <1>2

\* A step that leaves the requests alone.
LEMMA CallsStay ==
    ASSUME GInv, GatewayHistory, Wears, call' = call
    PROVE  PastInv' /\ CallInv'
<1>1. call' \in [Server -> Sound]
  BY DEF GInv, CallInv
<1>2. PastInv' /\ \A s \in late' : s \in Server /\ call'[s].pc # "idle" /\ call'[s].bearer \in out'
  BY PastStep
<1>3. \A v \in Server : Loggedout(call[v], known[v])' /\ (v \in late' => Stopped(call[v])')
  BY OthersStay
<1> QED
  BY <1>1, <1>2, <1>3 DEF CallInv

\* A step of one request, which becomes c.
LEMMA CallMoves ==
    ASSUME GInv, GatewayHistory, Wears, NEW s \in Server, NEW c \in Sound,
           call' = [call EXCEPT ![s] = c], call[s].pc # "idle",
           c.pc # "idle" => /\ c.bearer = call[s].bearer
                            /\ Loggedout(c, known[s])'
                            /\ s \in late => Stopped(c)'
    PROVE  PastInv' /\ CallInv'
<1>1. /\ call' \in [Server -> Sound] /\ call'[s] = c
      /\ \A v \in Server : v # s => call'[v] = call[v]
  BY DEF GInv, CallInv
<1>2. PastInv' /\ \A v \in late' : v \in Server /\ call'[v].pc # "idle" /\ call'[v].bearer \in out'
  BY <1>1, PastStep
<1>3. s \in late' => s \in late
  BY DEF GatewayHistory, CallAt
<1>4. Loggedout(call[s], known[s])'
  BY <1>1 DEF Loggedout
<1>5. s \in late' => Stopped(call[s])'
  BY <1>1, <1>2, <1>3 DEF Stopped
<1>6. \A v \in Server : v # s => Loggedout(call[v], known[v])' /\ (v \in late' => Stopped(call[v])')
  BY <1>1, OthersStay
<1> QED
  BY <1>1, <1>2, <1>4, <1>5, <1>6 DEF CallInv

LEMMA Unworn ==
    ASSUME UNCHANGED <<unexpired, blacklist, csrf, handed>>
    PROVE  Wears
BY DEF Wears, Over

\* A step of one request that changes no token, outside of a logout.
LEMMA PlainMoves ==
    ASSUME GInv, GatewayHistory, NEW s \in Server, NEW c \in Sound,
           call' = [call EXCEPT ![s] = c], call[s].pc # "idle",
           UNCHANGED <<unexpired, blacklist, csrf, handed>>,
           c.pc \notin {"scan", "wipe", "log"},
           c.pc # "idle" => c.bearer = call[s].bearer /\ (s \in late => Stopped(c))
    PROVE  PastInv' /\ CallInv'
<1>1. Loggedout(c, known[s])' /\ Stopped(c)' = Stopped(c)
  BY DEF Loggedout, Stopped
<1> QED
  BY <1>1, Unworn, CallMoves

-----------------------------------------------------------------------------
(* A request after a step: what the steps write, spelled out field by      *)
(* field.                                                                  *)

With(c, pc, scan, changed, entry, status, blind, lost) ==
    [pc |-> pc, route |-> c.route, bearer |-> c.bearer, token |-> c.token, scan |-> scan,
     changed |-> changed, entry |-> entry, status |-> status, blind |-> blind, lost |-> lost]

LEMMA WithTypes ==
    ASSUME NEW c \in CallRec, NEW pc \in Places, NEW scan \in SUBSET CsrfToken,
           NEW changed \in BOOLEAN, NEW entry \in Entries, NEW status \in Statuses,
           NEW blind \in BOOLEAN, NEW lost \in BOOLEAN
    PROVE  With(c, pc, scan, changed, entry, status, blind, lost) \in CallRec
BY DEF CallRec, With

LEMMA OwnTypes ==
    ASSUME NEW c \in CallRec
    PROVE  /\ c.pc \in Places /\ c.scan \in SUBSET CsrfToken /\ c.changed \in BOOLEAN
           /\ c.entry \in Entries /\ c.status \in Statuses /\ c.blind \in BOOLEAN /\ c.lost \in BOOLEAN
BY DEF CallRec

LEMMA OneField ==
    ASSUME NEW c \in CallRec, NEW v
    PROVE  /\ [c EXCEPT !.pc = v] = With(c, v, c.scan, c.changed, c.entry, c.status, c.blind, c.lost)
           /\ [c EXCEPT !.changed = v]
                = With(c, c.pc, c.scan, v, c.entry, c.status, c.blind, c.lost)
BY DEF CallRec, With

LEMMA TwoFields ==
    ASSUME NEW c \in CallRec, NEW p, NEW v
    PROVE  /\ [c EXCEPT !.pc = p, !.status = v]
                = With(c, p, c.scan, c.changed, c.entry, v, c.blind, c.lost)
           /\ [c EXCEPT !.pc = p, !.scan = v]
                = With(c, p, v, c.changed, c.entry, c.status, c.blind, c.lost)
           /\ [c EXCEPT !.pc = p, !.blind = v]
                = With(c, p, c.scan, c.changed, c.entry, c.status, v, c.lost)
<1> DEFINE e == [c EXCEPT !.pc = p]
<1>1. e = With(c, p, c.scan, c.changed, c.entry, c.status, c.blind, c.lost)
  BY OneField
<1>2. /\ [c EXCEPT !.pc = p, !.status = v] = [e EXCEPT !.status = v]
      /\ [c EXCEPT !.pc = p, !.scan = v] = [e EXCEPT !.scan = v]
      /\ [c EXCEPT !.pc = p, !.blind = v] = [e EXCEPT !.blind = v]
  OBVIOUS
<1> HIDE DEF e
<1>3. /\ [e EXCEPT !.status = v] = With(c, p, c.scan, c.changed, c.entry, v, c.blind, c.lost)
      /\ [e EXCEPT !.scan = v] = With(c, p, v, c.changed, c.entry, c.status, c.blind, c.lost)
      /\ [e EXCEPT !.blind = v] = With(c, p, c.scan, c.changed, c.entry, c.status, v, c.lost)
  BY <1>1 DEF With
<1> QED
  BY <1>2, <1>3

LEMMA PlaceChangedStatus ==
    ASSUME NEW c \in CallRec, NEW p, NEW u, NEW v
    PROVE  [c EXCEPT !.pc = p, !.changed = u, !.status = v]
             = With(c, p, c.scan, u, c.entry, v, c.blind, c.lost)
<1> DEFINE d == [c EXCEPT !.pc = p]
           e == [c EXCEPT !.pc = p, !.changed = u]
<1>1. d = With(c, p, c.scan, c.changed, c.entry, c.status, c.blind, c.lost)
  BY OneField
<1>2. /\ e = [d EXCEPT !.changed = u]
      /\ [c EXCEPT !.pc = p, !.changed = u, !.status = v] = [e EXCEPT !.status = v]
  OBVIOUS
<1> HIDE DEF d, e
<1>3. e = With(c, p, c.scan, u, c.entry, c.status, c.blind, c.lost)
  BY <1>1, <1>2 DEF With
<1>4. [e EXCEPT !.status = v] = With(c, p, c.scan, u, c.entry, v, c.blind, c.lost)
  BY <1>3 DEF With
<1> QED
  BY <1>2, <1>4

LEMMA ChangedPlaceStatus ==
    ASSUME NEW c \in CallRec, NEW p, NEW u, NEW v
    PROVE  [c EXCEPT !.changed = u, !.pc = p, !.status = v]
             = With(c, p, c.scan, u, c.entry, v, c.blind, c.lost)
<1> DEFINE d == [c EXCEPT !.changed = u]
           e == [c EXCEPT !.changed = u, !.pc = p]
<1>1. d = With(c, c.pc, c.scan, u, c.entry, c.status, c.blind, c.lost)
  BY OneField
<1>2. /\ e = [d EXCEPT !.pc = p]
      /\ [c EXCEPT !.changed = u, !.pc = p, !.status = v] = [e EXCEPT !.status = v]
  OBVIOUS
<1> HIDE DEF d, e
<1>3. e = With(c, p, c.scan, u, c.entry, c.status, c.blind, c.lost)
  BY <1>1, <1>2 DEF With
<1>4. [e EXCEPT !.status = v] = With(c, p, c.scan, u, c.entry, v, c.blind, c.lost)
  BY <1>3 DEF With
<1> QED
  BY <1>2, <1>4

LEMMA LostAndEntry ==
    ASSUME NEW c \in CallRec, NEW p, NEW u, NEW v
    PROVE  [c EXCEPT !.pc = p, !.lost = u, !.entry = v]
             = With(c, p, c.scan, c.changed, v, c.status, c.blind, u)
<1> DEFINE d == [c EXCEPT !.pc = p]
           e == [c EXCEPT !.pc = p, !.lost = u]
<1>1. d = With(c, p, c.scan, c.changed, c.entry, c.status, c.blind, c.lost)
  BY OneField
<1>2. /\ e = [d EXCEPT !.lost = u]
      /\ [c EXCEPT !.pc = p, !.lost = u, !.entry = v] = [e EXCEPT !.entry = v]
  OBVIOUS
<1> HIDE DEF d, e
<1>3. e = With(c, p, c.scan, c.changed, c.entry, c.status, c.blind, u)
  BY <1>1, <1>2 DEF With
<1>4. [e EXCEPT !.entry = v] = With(c, p, c.scan, c.changed, v, c.status, c.blind, u)
  BY <1>3 DEF With
<1> QED
  BY <1>2, <1>4

LEMMA StatusAndEntry ==
    ASSUME NEW c \in CallRec, NEW p, NEW u, NEW v
    PROVE  [c EXCEPT !.pc = p, !.status = u, !.entry = v]
             = With(c, p, c.scan, c.changed, v, u, c.blind, c.lost)
<1> DEFINE d == [c EXCEPT !.pc = p]
           e == [c EXCEPT !.pc = p, !.status = u]
<1>1. d = With(c, p, c.scan, c.changed, c.entry, c.status, c.blind, c.lost)
  BY OneField
<1>2. /\ e = [d EXCEPT !.status = u]
      /\ [c EXCEPT !.pc = p, !.status = u, !.entry = v] = [e EXCEPT !.entry = v]
  OBVIOUS
<1> HIDE DEF d, e
<1>3. e = With(c, p, c.scan, c.changed, c.entry, u, c.blind, c.lost)
  BY <1>1, <1>2 DEF With
<1>4. [e EXCEPT !.entry = v] = With(c, p, c.scan, c.changed, v, u, c.blind, c.lost)
  BY <1>3 DEF With
<1> QED
  BY <1>2, <1>4

-----------------------------------------------------------------------------
(* The steps of a request, one after the other.                            *)

LEMMA CallOf ==
    ASSUME GInv, NEW s \in Server
    PROVE  /\ call[s] \in Sound /\ call[s] \in CallRec /\ call[s].route \in RouteRec
           /\ Loggedout(call[s], known[s])
           /\ s \in late => call[s].bearer \in out /\ Over(call[s].bearer) /\ Stopped(call[s])
BY RoutesTyped DEF GInv, CallInv, PastInv, Sound, CallRec

\* To the next check, or to an answer without having changed a thing.
LEMMA CheckMoves ==
    ASSUME GInv, GatewayHistory, NEW s \in Server, NEW pc \in {"limit", "user", "listed", "answer"},
           NEW status \in Statuses, call[s].pc \in {"csrf", "limit", "user", "listed"},
           UNCHANGED <<unexpired, blacklist, csrf, handed>>,
           call' = [call EXCEPT ![s] = With(call[s], pc, call[s].scan, call[s].changed, call[s].entry,
                                            status, call[s].blind, call[s].lost)]
    PROVE  PastInv' /\ CallInv'
<1> DEFINE c == call[s]
           d == With(c, pc, c.scan, c.changed, c.entry, status, c.blind, c.lost)
<1>1. c \in Sound /\ c \in CallRec /\ (s \in late => Stopped(c))
  BY CallOf
<1>2. d \in CallRec
  BY <1>1, WithTypes, OwnTypes DEF Places
<1>3. d.pc = pc /\ d.bearer = c.bearer /\ d \in Sound /\ (s \in late => Stopped(d))
  BY <1>1, <1>2 DEF With, Sound, Consistent, Stopped
<1> HIDE DEF d
<1> QED
  BY <1>3, PlainMoves DEF d

LEMMA CheckSteps ==
    ASSUME GInv, GatewayHistory, NEW s \in Server, NEW ok \in BOOLEAN,
           ValidateCsrf(s, ok) \/ PassLimiter(s) \/ LoadUser(s) \/ Admit(s, ok)
    PROVE  PastInv' /\ CallInv'
<1> DEFINE c == call[s]
<1>1. c \in Sound /\ c \in CallRec /\ c.route \in RouteRec /\ c.status \in Statuses
      /\ (s \in late => Over(c.bearer) /\ Stopped(c))
  BY CallOf, OwnTypes
<1>2. UNCHANGED <<unexpired, blacklist, csrf, handed>>
  BY DEF ValidateCsrf, PassLimiter, LoadUser, Admit, rest
<1>3. c.pc \in {"csrf", "limit", "user", "listed"}
  BY DEF ValidateCsrf, PassLimiter, LoadUser, Admit, CallAt
<1>4. \/ \E pc \in {"limit", "user", "listed"} : CallTo(s, pc)
      \/ \E status \in Statuses : Answer(s, status)
      \/ /\ call' = [call EXCEPT ![s] = [c EXCEPT !.pc = c.route.name, !.blind = ~ok]]
         /\ c.pc = "listed" /\ (~ok \/ c.bearer \notin blacklist)
  <2>1. 401 \in Statuses /\ 403 \in Statuses /\ 429 \in Statuses
    BY DEF Statuses
  <2> QED
    BY <2>1 DEF ValidateCsrf, PassLimiter, LoadUser, Admit, CallAt
<1> HIDE DEF c
<1>5. ASSUME NEW pc \in {"limit", "user", "listed"}, CallTo(s, pc)
      PROVE  PastInv' /\ CallInv'
  <2>1. [c EXCEPT !.pc = pc] = With(c, pc, c.scan, c.changed, c.entry, c.status, c.blind, c.lost)
    BY <1>1, OneField
  <2> QED
    BY <1>1, <1>2, <1>3, <1>5, <2>1, CheckMoves DEF CallTo, c
<1>6. ASSUME NEW status \in Statuses, Answer(s, status)
      PROVE  PastInv' /\ CallInv'
  <2>1. [c EXCEPT !.pc = "answer", !.status = status]
          = With(c, "answer", c.scan, c.changed, c.entry, status, c.blind, c.lost)
    BY <1>1, TwoFields
  <2> QED
    BY <1>2, <1>3, <1>6, <2>1, CheckMoves DEF Answer, c
<1>7. ASSUME call' = [call EXCEPT ![s] = [c EXCEPT !.pc = c.route.name, !.blind = ~ok]],
             c.pc = "listed", ~ok \/ c.bearer \notin blacklist
      PROVE  PastInv' /\ CallInv'
  <2> DEFINE d == With(c, c.route.name, c.scan, c.changed, c.entry, c.status, ~ok, c.lost)
  <2>1. [c EXCEPT !.pc = c.route.name, !.blind = ~ok] = d
    BY <1>1, TwoFields
  <2>2. c.route.name \in {"other", "csrf_token", "logout"}
    BY <1>1 DEF RouteRec
  <2>3. d \in CallRec
    BY <1>1, <2>2, WithTypes, OwnTypes DEF Places
  <2>4. d.pc = c.route.name /\ d.bearer = c.bearer /\ d \in Sound
    BY <1>1, <1>7, <2>2, <2>3 DEF With, Sound
  <2>5. s \in late => Stopped(d)
    BY <1>1, <1>7 DEF With, Stopped, Over
  <2> HIDE DEF d
  <2> QED
    BY <1>2, <1>3, <1>7, <2>1, <2>2, <2>4, <2>5, PlainMoves DEF c
<1> QED
  BY <1>4, <1>5, <1>6, <1>7

\* The function of the route, up to the response: a late request that comes
\* this far is blind, or its token has expired.
LEMMA HandlerMoves ==
    ASSUME GInv, GatewayHistory, NEW s \in Server, NEW d \in Sound,
           call[s].pc \in {"other", "commit", "reload", "audit", "csrf_token"},
           UNCHANGED <<unexpired, blacklist, csrf, handed>>,
           call' = [call EXCEPT ![s] = d],
           d.pc \notin {"scan", "wipe", "log"}, d.bearer = call[s].bearer, d.blind = call[s].blind
    PROVE  PastInv' /\ CallInv'
<1>1. s \in late => Stopped(d)
  BY CallOf DEF Stopped
<1> QED
  BY <1>1, PlainMoves

LEMMA StatusNumbers == {200, 400, 401, 403, 429, 500} \subseteq Statuses
BY DEF Statuses

ServerError(status) == status = 500

\* The answer of a request that has changed nothing, or could not reload.
LEMMA Refuses ==
    ASSUME GInv, GatewayHistory, NEW s \in Server, NEW status \in Statuses, Answer(s, status),
           \/ call[s].pc \in {"other", "commit", "csrf_token"}
           \/ call[s].pc = "reload" /\ ServerError(status),
           UNCHANGED <<unexpired, blacklist, csrf, handed>>
    PROVE  PastInv' /\ CallInv'
<1> DEFINE c == call[s]
           d == With(c, "answer", c.scan, c.changed, c.entry, status, c.blind, c.lost)
<1>1. c \in Sound /\ c \in CallRec
  BY CallOf
<1>2. d \in CallRec
  BY <1>1, WithTypes, OwnTypes DEF Places
<1>3. d \in Sound /\ d.pc = "answer" /\ d.bearer = c.bearer /\ d.blind = c.blind
  BY <1>1, <1>2 DEF With, Sound, Consistent, ServerError
<1> HIDE DEF c
<1>4. [c EXCEPT !.pc = "answer", !.status = status] = d
  BY <1>1, TwoFields
<1> HIDE DEF d
<1> QED
  BY <1>3, <1>4, HandlerMoves DEF Answer, c

LEMMA HandleStep ==
    ASSUME GInv, GatewayHistory, NEW s \in Server, Handle(s)
    PROVE  PastInv' /\ CallInv'
<1> DEFINE c == call[s]
           d(pc, changed, status) == With(c, pc, c.scan, changed, c.entry, status, c.blind, c.lost)
<1>1. c \in Sound /\ c \in CallRec /\ c.route \in RouteRec /\ c.status \in Statuses
  BY CallOf, OwnTypes
<1>2. c.pc = "other" /\ UNCHANGED <<unexpired, blacklist, csrf, handed>>
  BY DEF Handle, CallAt, rest
<1>3. ASSUME NEW pc \in {"commit", "audit"}, NEW changed \in BOOLEAN, NEW status \in Statuses,
             call' = [call EXCEPT ![s] = d(pc, changed, status)],
             pc = "commit" => ~changed, pc = "audit" /\ ~changed => c.route.changes = "none"
      PROVE  PastInv' /\ CallInv'
  <2>1. d(pc, changed, status) \in CallRec
    BY <1>1, WithTypes, OwnTypes DEF Places
  <2>2. c.route.name = "other" /\ (pc = "audit" /\ ~changed => ~Unsafe(c.route))
    BY <1>1, <1>2, <1>3 DEF Sound, RouteRec, Unsafe
  <2>3. /\ d(pc, changed, status) \in Sound /\ d(pc, changed, status).pc = pc
        /\ d(pc, changed, status).bearer = c.bearer /\ d(pc, changed, status).blind = c.blind
    BY <1>1, <1>2, <1>3, <2>1, <2>2 DEF With, Sound
  <2> HIDE DEF d
  <2> QED
    BY <1>2, <1>3, <2>3, HandlerMoves
<1>4. ASSUME NEW changed, NEW status
      PROVE  /\ [c EXCEPT !.pc = "commit"] = d("commit", c.changed, c.status)
             /\ [c EXCEPT !.pc = "audit", !.changed = changed, !.status = status]
                  = d("audit", changed, status)
             /\ [c EXCEPT !.pc = "audit", !.status = status] = d("audit", c.changed, status)
  <2> HIDE DEF c
  <2>1. [c EXCEPT !.pc = "commit"] = d("commit", c.changed, c.status)
    BY <1>1, OneField
  <2>2. [c EXCEPT !.pc = "audit", !.changed = changed, !.status = status] = d("audit", changed, status)
    BY <1>1, PlaceChangedStatus
  <2>3. [c EXCEPT !.pc = "audit", !.status = status] = d("audit", c.changed, status)
    BY <1>1, TwoFields
  <2> QED
    BY <2>1, <2>2, <2>3
<1>5. 200 \in Statuses /\ 400 \in Statuses
  BY StatusNumbers
<1>6. CASE c.route.refuses /\ Answer(s, 400)
  BY <1>2, <1>5, <1>6, Refuses
<1>7. CASE c.route.changes = "rows" /\ CallTo(s, "commit")
  <2>1. call' = [call EXCEPT ![s] = d("commit", c.changed, c.status)]
    BY <1>4, <1>5, <1>7 DEF CallTo
  <2>2. c.changed = FALSE
    BY <1>1, <1>2 DEF Sound, CallRec
  <2> HIDE DEF d
  <2> QED
    BY <1>1, <1>3, <2>1, <2>2
<1>8. CASE c.route.changes = "redis" /\ call' = [call EXCEPT ![s] = [c EXCEPT !.pc = "audit", !.changed = TRUE, !.status = 200]]
  <2>1. call' = [call EXCEPT ![s] = d("audit", TRUE, 200)]
    BY <1>4, <1>5, <1>8
  <2> HIDE DEF d
  <2> QED
    BY <1>3, <1>5, <2>1
<1>9. CASE c.route.changes \notin {"rows", "redis"} /\ call' = [call EXCEPT ![s] = [c EXCEPT !.pc = "audit", !.status = 200]]
  <2>1. call' = [call EXCEPT ![s] = d("audit", c.changed, 200)]
    BY <1>4, <1>5, <1>9
  <2>2. c.changed = FALSE /\ c.route.changes = "none"
    BY <1>1, <1>2, <1>9 DEF Sound, CallRec, RouteRec
  <2> HIDE DEF d
  <2> QED
    BY <1>3, <1>5, <2>1, <2>2
<1> QED
  BY <1>1, <1>6, <1>7, <1>8, <1>9 DEF Handle, RouteRec

LEMMA CommitStep ==
    ASSUME GInv, GatewayHistory, NEW s \in Server, NEW ok \in BOOLEAN, Commit(s, ok)
    PROVE  PastInv' /\ CallInv'
<1> DEFINE c == call[s]
           d(pc, status) == With(c, pc, c.scan, TRUE, c.entry, status, c.blind, c.lost)
<1>1. c \in Sound /\ c \in CallRec
  BY CallOf
<1>2. c.pc = "commit" /\ UNCHANGED <<unexpired, blacklist, csrf, handed>>
  BY DEF Commit, CallAt, rest
<1>3. 200 \in Statuses /\ 500 \in Statuses
  BY StatusNumbers
<1>4. ASSUME NEW pc \in {"reload", "audit"}, NEW status \in Statuses,
             call' = [call EXCEPT ![s] = [c EXCEPT !.changed = TRUE, !.pc = pc, !.status = status]]
      PROVE  PastInv' /\ CallInv'
  <2>1. d(pc, status) \in CallRec
    BY <1>1, WithTypes, OwnTypes DEF Places
  <2>2. /\ d(pc, status) \in Sound /\ d(pc, status).pc = pc
        /\ d(pc, status).bearer = c.bearer /\ d(pc, status).blind = c.blind
    BY <1>1, <1>2, <2>1 DEF With, Sound
  <2> HIDE DEF c
  <2>3. [c EXCEPT !.changed = TRUE, !.pc = pc, !.status = status] = d(pc, status)
    BY <1>1, ChangedPlaceStatus
  <2> HIDE DEF d
  <2> QED
    BY <1>2, <1>4, <2>2, <2>3, HandlerMoves DEF c
<1>5. CASE ok
  <2>1. \E pc \in {"reload", "audit"} :
          call' = [call EXCEPT ![s] = [c EXCEPT !.changed = TRUE, !.pc = pc, !.status = 200]]
    BY <1>5 DEF Commit
  <2> QED
    BY <1>3, <1>4, <2>1
<1>6. CASE ~ok
  BY <1>2, <1>3, <1>6, Refuses DEF Commit
<1> QED
  BY <1>5, <1>6

LEMMA ReloadStep ==
    ASSUME GInv, GatewayHistory, NEW s \in Server, NEW ok \in BOOLEAN, Reload(s, ok)
    PROVE  PastInv' /\ CallInv'
<1> DEFINE c == call[s]
           d == With(c, "audit", c.scan, c.changed, c.entry, c.status, c.blind, c.lost)
<1>1. c \in Sound /\ c \in CallRec
  BY CallOf
<1>2. c.pc = "reload" /\ UNCHANGED <<unexpired, blacklist, csrf, handed>>
  BY DEF Reload, CallAt, rest
<1>3. 500 \in Statuses /\ ServerError(500)
  BY StatusNumbers DEF ServerError
<1>4. CASE ok
  <2>1. d \in CallRec
    BY <1>1, WithTypes, OwnTypes DEF Places
  <2>2. d \in Sound /\ d.pc = "audit" /\ d.bearer = c.bearer /\ d.blind = c.blind
    BY <1>1, <1>2, <2>1 DEF With, Sound
  <2>3. call' = [call EXCEPT ![s] = [c EXCEPT !.pc = "audit"]]
    BY <1>4 DEF Reload, CallTo
  <2> HIDE DEF c
  <2>4. [c EXCEPT !.pc = "audit"] = d
    BY <1>1, OneField
  <2> HIDE DEF d
  <2> QED
    BY <1>2, <2>2, <2>3, <2>4, HandlerMoves DEF c
<1>5. CASE ~ok
  BY <1>2, <1>3, <1>5, Refuses DEF Reload
<1> QED
  BY <1>4, <1>5

\* The entry says CREATE, UPDATE or DELETE for an unsafe method only, and
\* behind an unsafe method something was changed.
LEMMA WriteEntryStep ==
    ASSUME GInv, GatewayHistory, NEW s \in Server, NEW ok \in BOOLEAN, WriteEntry(s, ok)
    PROVE  PastInv' /\ CallInv'
<1> DEFINE c == call[s]
           entry == IF ok /\ Audited(c.route) THEN Recorded(c.route) ELSE "none"
           lost == ~ok
           d == With(c, "answer", c.scan, c.changed, entry, c.status, c.blind, lost)
<1>1. c \in Sound /\ c \in CallRec /\ c.route \in RouteRec
  BY CallOf
<1>2. c.pc = "audit" /\ UNCHANGED <<unexpired, blacklist, csrf, handed>>
  BY DEF WriteEntry, CallAt, rest
<1>3. /\ entry \in Entries
      /\ entry \in {"CREATE", "UPDATE", "DELETE"} => Unsafe(c.route)
      /\ entry = "none" => ~ok \/ ~Unsafe(c.route)
  BY <1>1 DEF Recorded, Audited, Unsafe, RouteRec, Entries
<1>4. call' = [call EXCEPT ![s] = [c EXCEPT !.pc = "answer", !.lost = lost, !.entry = entry]]
  BY DEF WriteEntry
<1>5. lost \in BOOLEAN /\ lost = ~ok
  OBVIOUS
<1> HIDE DEF entry, lost
<1>6. d \in CallRec
  BY <1>1, <1>3, <1>5, WithTypes, OwnTypes DEF Places
<1>7. d \in Sound /\ d.pc = "answer" /\ d.bearer = c.bearer /\ d.blind = c.blind
  BY <1>1, <1>2, <1>3, <1>5, <1>6 DEF With, Sound, Consistent
<1> HIDE DEF c
<1>8. [c EXCEPT !.pc = "answer", !.lost = lost, !.entry = entry] = d
  BY <1>1, LostAndEntry
<1> HIDE DEF d
<1> QED
  BY <1>2, <1>4, <1>7, <1>8, HandlerMoves DEF c

LEMMA NoCallSound == NoCall \in Sound /\ NoCall.pc = "idle" /\ NoCall \in CallRec
<1>1. get_my_profile \in Routes
  BY DEF Routes
<1>2. 0 \in Statuses
  BY DEF Statuses
<1> HIDE DEF Routes, get_my_profile
<1>3. NoCall \in CallRec
  BY <1>1, <1>2 DEF NoCall, CallRec, Places, Entries
<1>4. NoCall.pc = "idle" /\ NoCall.entry = "none" /\ NoCall.changed = FALSE
  BY DEF NoCall
<1> QED
  BY <1>3, <1>4 DEF Sound

LEMMA EndSteps ==
    ASSUME GInv, GatewayHistory, NEW s \in Server, Respond(s) \/ CallDies(s)
    PROVE  PastInv' /\ CallInv'
<1>1. UNCHANGED <<unexpired, blacklist, csrf, handed>> /\ call' = [call EXCEPT ![s] = NoCall]
      /\ call[s].pc # "idle"
  BY DEF Respond, CallDies, CallAt, rest
<1> QED
  BY <1>1, NoCallSound, PlainMoves

-----------------------------------------------------------------------------
(* GET /auth/csrf, POST /auth/logout.                                      *)

LEMMA LogoutMoves ==
    ASSUME GInv, GatewayHistory, Wears, NEW s \in Server, NEW ok \in BOOLEAN, NEW c, c = call[s],
           NEW pc \in {"scan", "log"}, LogoutTo(s, pc, ok), c.pc \in {"logout", "scan", "wipe"},
           ok /\ ~c.blind => Over(c.bearer)',
           ok /\ ~c.blind /\ pc = "log" => known[s] \cap csrf' = {}
    PROVE  PastInv' /\ CallInv'
<1>1. c \in Sound /\ c \in CallRec /\ (s \in late => Stopped(c))
  BY CallOf
<1>2. PICK blind \in BOOLEAN : blind = (c.blind \/ ~ok)
  BY <1>1 DEF CallRec
<1>3. PICK d : d = With(c, pc, c.scan, c.changed, c.entry, c.status, blind, c.lost)
  OBVIOUS
<1>4. d \in CallRec
  BY <1>1, <1>3, WithTypes, OwnTypes DEF Places
<1>5. d \in Sound /\ d.pc = pc /\ d.bearer = c.bearer /\ d.blind = blind
  BY <1>1, <1>3, <1>4 DEF With, Sound
<1>6. call' = [call EXCEPT ![s] = d]
  <2>1. [c EXCEPT !.pc = pc, !.blind = blind] = d
    BY <1>1, <1>3, TwoFields
  <2> QED
    BY <1>2, <2>1 DEF LogoutTo
<1>7. known'[s] = known[s]
  BY <1>5, <1>6 DEF GatewayHistory, CallAt, GInv, CallInv
<1>8. Loggedout(d, known[s])'
  BY <1>2, <1>5, <1>7 DEF Loggedout
<1>9. s \in late => Stopped(d)'
  BY <1>1, <1>2, <1>5 DEF Stopped, Wears
<1> QED
  BY <1>5, <1>6, <1>8, <1>9, CallMoves

LEMMA BlacklistStep ==
    ASSUME GInv, GatewayHistory, NEW s \in Server, NEW ok \in BOOLEAN, Blacklist(s, ok)
    PROVE  PastInv' /\ CallInv' /\ blacklist' \subseteq unexpired'
<1>1. PICK c \in CallRec : c = call[s]
  BY CallOf
<1>2. c.pc = "logout" /\ UNCHANGED <<unexpired, handed, csrf>> /\ LogoutTo(s, "scan", ok)
      /\ blacklist' = IF ok /\ c.bearer \in unexpired THEN blacklist \cup {c.bearer} ELSE blacklist
  BY <1>1 DEF Blacklist, CallAt, rest
<1>3. Wears /\ blacklist' \subseteq unexpired' /\ (ok => Over(c.bearer)')
  BY <1>2 DEF Wears, Over, GInv, StoreTypes
<1> QED
  BY <1>1, <1>2, <1>3, LogoutMoves

LEMMA ScanStep ==
    ASSUME GInv, GatewayHistory, NEW s \in Server, NEW ok \in BOOLEAN, ScanCsrf(s, ok)
    PROVE  PastInv' /\ CallInv'
<1>1. PICK c \in CallRec : c = call[s]
  BY CallOf
<1>2. c \in Sound /\ (s \in late => Stopped(c)) /\ Loggedout(c, known[s])
  BY <1>1, CallOf
<1>3. c.pc = "scan" /\ UNCHANGED <<unexpired, blacklist, csrf, handed>>
  BY <1>1 DEF ScanCsrf, CallAt, rest
<1>4. Wears /\ Over(c.bearer)' = Over(c.bearer) /\ known'[s] \subseteq handed
  <2>1. Wears /\ Over(c.bearer)' = Over(c.bearer)
    BY <1>3, Unworn DEF Over
  <2> QED
    BY <2>1 DEF GatewayHistory, GInv, PastInv, StoreTypes
<1>5. CASE ok
  <2>1. PICK scan \in SUBSET CsrfToken : scan = csrf
    BY DEF GInv, StoreTypes
  <2>2. PICK d : d = With(c, "wipe", scan, c.changed, c.entry, c.status, c.blind, c.lost)
    OBVIOUS
  <2>3. call' = [call EXCEPT ![s] = d]
    <3>1. [c EXCEPT !.pc = "wipe", !.scan = scan] = d
      BY <2>2, TwoFields
    <3> QED
      BY <1>1, <1>5, <2>1, <3>1 DEF ScanCsrf
  <2>4. d \in CallRec
    BY <2>2, WithTypes, OwnTypes DEF Places
  <2>5. d \in Sound /\ d.pc = "wipe" /\ d.bearer = c.bearer /\ d.blind = c.blind /\ d.scan = scan
        /\ d.changed = c.changed
    BY <1>2, <1>3, <2>2, <2>4 DEF With, Sound
  <2>6. Loggedout(d, known[s])' /\ (s \in late => Stopped(d)')
    BY <1>2, <1>3, <1>4, <2>1, <2>5 DEF Loggedout, Stopped
  <2> QED
    BY <1>1, <1>3, <1>4, <2>3, <2>5, <2>6, CallMoves
<1>6. CASE ~ok
  BY <1>1, <1>3, <1>4, <1>6, LogoutMoves DEF ScanCsrf
<1> QED
  BY <1>5, <1>6

LEMMA WipeStep ==
    ASSUME GInv, GatewayHistory, NEW s \in Server, NEW ok \in BOOLEAN, WipeCsrf(s, ok)
    PROVE  PastInv' /\ CallInv' /\ csrf' \subseteq handed'
<1>1. PICK c \in CallRec : c = call[s]
  BY CallOf
<1>2. c.pc = "wipe" /\ Loggedout(c, known[s])
  BY <1>1, CallOf DEF WipeCsrf, CallAt
<1>3. UNCHANGED <<unexpired, blacklist, handed>> /\ LogoutTo(s, "log", ok) /\ csrf' \subseteq csrf
      /\ (ok => csrf' = csrf \ c.scan)
  BY <1>1 DEF WipeCsrf, rest
<1>4. Wears /\ Over(c.bearer)' = Over(c.bearer)
  BY <1>3 DEF Wears, Over
<1>5. csrf' \subseteq handed'
  BY <1>3 DEF GInv, StoreTypes
<1>6. ok => known[s] \cap csrf' = {}
  BY <1>2, <1>3 DEF Loggedout
<1>7. ~c.blind => Over(c.bearer)'
  BY <1>2, <1>4 DEF Loggedout
<1> QED
  BY <1>1, <1>2, <1>3, <1>4, <1>5, <1>6, <1>7, LogoutMoves

LEMMA LogStep ==
    ASSUME GInv, GatewayHistory, NEW s \in Server, NEW ok \in BOOLEAN, LogLogout(s, ok)
    PROVE  PastInv' /\ CallInv'
<1> DEFINE c == call[s]
           status == IF ok THEN 200 ELSE 500
           entry == IF ok THEN "LOGOUT" ELSE "none"
           d == With(c, "answer", c.scan, c.changed, entry, status, c.blind, c.lost)
<1>1. c \in Sound /\ c \in CallRec /\ (s \in late => Stopped(c))
  BY CallOf
<1>2. c.pc = "log" /\ UNCHANGED <<unexpired, blacklist, csrf, handed>>
      /\ call' = [call EXCEPT ![s] = [c EXCEPT !.pc = "answer", !.status = status, !.entry = entry]]
  BY DEF LogLogout, CallAt, rest
<1>3. status \in Statuses /\ entry \in Entries /\ entry \notin {"CREATE", "UPDATE", "DELETE"}
  BY StatusNumbers DEF Entries
<1> HIDE DEF status, entry
<1>4. d \in CallRec
  BY <1>1, <1>3, WithTypes, OwnTypes DEF Places
<1>5. d \in Sound /\ d.pc = "answer" /\ d.bearer = c.bearer /\ (s \in late => Stopped(d))
  BY <1>1, <1>2, <1>3, <1>4 DEF With, Sound, Consistent, Stopped
<1> HIDE DEF c
<1>6. [c EXCEPT !.pc = "answer", !.status = status, !.entry = entry] = d
  BY <1>1, StatusAndEntry
<1> HIDE DEF d
<1> QED
  BY <1>2, <1>5, <1>6, PlainMoves DEF c

LEMMA StoreStep ==
    ASSUME GInv, GatewayHistory, NEW s \in Server, NEW x \in CsrfToken, NEW ok \in BOOLEAN,
           StoreCsrf(s, x, ok)
    PROVE  PastInv' /\ CallInv' /\ csrf' \subseteq handed'
<1>1. PICK c \in CallRec : c = call[s]
  BY CallOf
<1>2. c \in Sound /\ (s \in late => Stopped(c))
  BY <1>1, CallOf
<1>3. c.pc = "csrf_token" /\ UNCHANGED <<unexpired, blacklist>> /\ x \notin handed
      /\ handed' = handed \cup {x} /\ (csrf' = csrf \cup {x} \/ csrf' = csrf)
  BY <1>1 DEF StoreCsrf, CallAt
<1>4. Wears /\ csrf' \subseteq handed'
  BY <1>3 DEF Wears, Over, GInv, StoreTypes
<1>5. PICK status \in Statuses : Answer(s, status)
  BY StatusNumbers DEF StoreCsrf
<1>6. PICK d : d = With(c, "answer", c.scan, c.changed, c.entry, status, c.blind, c.lost)
  OBVIOUS
<1>7. call' = [call EXCEPT ![s] = d]
  <2>1. [c EXCEPT !.pc = "answer", !.status = status] = d
    BY <1>6, TwoFields
  <2> QED
    BY <1>1, <1>5, <2>1 DEF Answer
<1>8. d \in CallRec
  BY <1>6, WithTypes, OwnTypes DEF Places
<1>9. d \in Sound /\ d.pc = "answer" /\ d.bearer = c.bearer /\ d.blind = c.blind /\ d.changed = c.changed
  BY <1>2, <1>3, <1>6, <1>8 DEF With, Sound, Consistent
<1>10. Loggedout(d, known[s])' /\ (s \in late => Stopped(d)')
  BY <1>2, <1>3, <1>9 DEF Loggedout, Stopped
<1> QED
  BY <1>1, <1>3, <1>4, <1>7, <1>9, <1>10, CallMoves

\* A request that comes in, from n, which is none.
Coming(n, pc, route, bearer, token) ==
    [pc |-> pc, route |-> route, bearer |-> bearer, token |-> token, scan |-> n.scan,
     changed |-> n.changed, entry |-> n.entry, status |-> n.status, blind |-> n.blind, lost |-> n.lost]

\* Its token may have been logged out before.
LEMMA ReceiveStep ==
    ASSUME GInv, GatewayHistory, NEW s \in Server, NEW route \in Routes, NEW b \in Bearer,
           NEW x \in CsrfToken \cup {NoCsrf}, Receive(s, route, b, x)
    PROVE  PastInv' /\ CallInv'
<1>1. PICK pc \in {"limit", "csrf"} :
        call' = [call EXCEPT ![s] = [NoCall EXCEPT !.route = route, !.bearer = b, !.token = x, !.pc = pc]]
  BY DEF Receive
<1>2. PICK d : d = Coming(NoCall, pc, route, b, x)
  OBVIOUS
<1>3. call' = [call EXCEPT ![s] = d]
  <2>1. PICK n \in CallRec : n = NoCall
    BY NoCallSound
  <2> DEFINE e == [n EXCEPT !.route = route]
             f == [n EXCEPT !.route = route, !.bearer = b]
             g == [n EXCEPT !.route = route, !.bearer = b, !.token = x]
             h == [n EXCEPT !.route = route, !.bearer = b, !.token = x, !.pc = pc]
  <2>2. call' = [call EXCEPT ![s] = h]
    BY <1>1, <2>1
  <2>3. f = [e EXCEPT !.bearer = b]
    OBVIOUS
  <2>4. g = [f EXCEPT !.token = x]
    OBVIOUS
  <2>5. h = [g EXCEPT !.pc = pc]
    OBVIOUS
  <2>6. e = Coming(n, n.pc, route, n.bearer, n.token)
    BY DEF Coming, CallRec
  <2> HIDE DEF e, f, g, h
  <2>7. f = Coming(n, n.pc, route, b, n.token)
    BY <2>3, <2>6 DEF Coming
  <2>8. g = Coming(n, n.pc, route, b, x)
    BY <2>4, <2>7 DEF Coming
  <2>9. h = Coming(n, pc, route, b, x)
    BY <2>5, <2>8 DEF Coming
  <2> QED
    BY <1>2, <2>1, <2>2, <2>9
<1>4. d \in CallRec
  BY <1>2, NoCallSound DEF Coming, CallRec, Places
<1>5. d \in Sound /\ d.pc = pc /\ d.changed = FALSE
  <2>1. NoCall.changed = FALSE /\ NoCall.entry = "none"
    BY DEF NoCall
  <2> QED
    BY <1>2, <1>4, <2>1 DEF Sound, Coming
<1>6. /\ call' \in [Server -> Sound] /\ call'[s] = d
      /\ \A v \in Server : v # s => call'[v] = call[v]
  BY <1>3, <1>5 DEF GInv, CallInv
<1>7. CallAt(s, "idle") /\ UNCHANGED <<unexpired, blacklist, csrf, handed>> /\ Wears
  BY Unworn DEF Receive, rest
<1>8. PastInv' /\ \A v \in late' : v \in Server /\ call'[v].pc # "idle" /\ call'[v].bearer \in out'
  BY <1>6, <1>7, PastStep
<1>9. Loggedout(call[s], known[s])' /\ Stopped(call[s])'
  BY <1>5, <1>6 DEF Loggedout, Stopped
<1>10. \A v \in Server : v # s => Loggedout(call[v], known[v])' /\ (v \in late' => Stopped(call[v])')
  BY <1>6, <1>7, OthersStay
<1> QED
  BY <1>6, <1>8, <1>9, <1>10 DEF CallInv

LEMMA ExpiryStep ==
    ASSUME GInv, GatewayHistory, (\E x \in CsrfToken : ExpireCsrf(x)) \/ (\E b \in Bearer : ExpireBearer(b))
    PROVE  GInv'
<1>1. /\ UNCHANGED <<role, handed, failures, call>> /\ unexpired' \subseteq unexpired
      /\ blacklist' \subseteq unexpired' /\ csrf' \subseteq csrf
      /\ \A b : b \in blacklist /\ b \in unexpired' => b \in blacklist'
  BY DEF ExpireCsrf, ExpireBearer, rest, GInv, StoreTypes
<1>2. Wears
  BY <1>1 DEF Wears, Over
<1>3. StoreTypes'
  BY <1>1 DEF GInv, StoreTypes
<1> QED
  BY <1>1, <1>2, <1>3, CallsStay DEF GInv

LEMMA RepliesTyped ==
    ASSUME StoreTypes, NEW ok \in BOOLEAN, Replies(ok)
    PROVE  failures' \in 0..MaxFailures
BY GatewayAssumption DEF Replies, StoreTypes

LEMMA GatewayStep ==
    ASSUME GInv, GatewayNext, GatewayHistory
    PROVE  GInv'
<1> USE DEF rest
<1>1. ASSUME NEW s \in Server, NEW route \in Serves[s], NEW b \in Bearer, NEW x \in handed \cup {NoCsrf},
             Receive(s, route, b, x)
      PROVE  GInv'
  <2>1. route \in Routes /\ x \in CsrfToken \cup {NoCsrf}
    BY GatewayAssumption DEF GInv, StoreTypes
  <2>2. StoreTypes'
    BY <1>1 DEF Receive, GInv, StoreTypes
  <2> QED
    BY <1>1, <2>1, <2>2, ReceiveStep DEF GInv
<1>2. ASSUME NEW s \in Server, NEW ok \in BOOLEAN, CallStep(s, ok)
      PROVE  GInv'
  <2> USE DEF GInv
  <2>1. failures' \in 0..MaxFailures
    BY <1>2, RepliesTyped DEF CallStep, ValidateCsrf, Admit, Commit, Reload, WriteEntry, Blacklist,
       ScanCsrf, WipeCsrf, LogLogout, StoreCsrf
  <2>2. CASE ValidateCsrf(s, ok) \/ Admit(s, ok)
    BY <2>1, <2>2, CheckSteps DEF ValidateCsrf, Admit, StoreTypes
  <2>3. CASE Commit(s, ok) \/ Reload(s, ok) \/ WriteEntry(s, ok)
    BY <2>1, <2>3, CommitStep, ReloadStep, WriteEntryStep DEF Commit, Reload, WriteEntry, StoreTypes
  <2>4. CASE Blacklist(s, ok)
    BY <2>1, <2>4, BlacklistStep DEF Blacklist, StoreTypes
  <2>5. CASE ScanCsrf(s, ok) \/ LogLogout(s, ok)
    BY <2>1, <2>5, ScanStep, LogStep DEF ScanCsrf, LogLogout, StoreTypes
  <2>6. CASE WipeCsrf(s, ok)
    BY <2>1, <2>6, WipeStep DEF WipeCsrf, StoreTypes
  <2>7. ASSUME NEW x \in CsrfToken, StoreCsrf(s, x, ok)
        PROVE  GInv'
    <3>1. PastInv' /\ CallInv' /\ csrf' \subseteq handed'
      BY <2>7, StoreStep
    <3>2. UNCHANGED <<role, unexpired, blacklist>> /\ handed' = handed \cup {x}
      BY <2>7 DEF StoreCsrf
    <3> QED
      BY <2>1, <3>1, <3>2 DEF StoreTypes
  <2> QED
    BY <1>2, <2>2, <2>3, <2>4, <2>5, <2>6, <2>7 DEF CallStep
<1>3. ASSUME NEW s \in Server, PassLimiter(s) \/ LoadUser(s) \/ Handle(s)
      PROVE  GInv'
  BY <1>3, CheckSteps, HandleStep DEF PassLimiter, LoadUser, Handle, GInv, StoreTypes
<1>4. ASSUME NEW s \in Server, Respond(s) \/ CallDies(s)
      PROVE  GInv'
  <2>1. failures' \in 0..MaxFailures
    BY <1>4, GatewayAssumption DEF Respond, CallDies, GInv, StoreTypes
  <2> QED
    BY <1>4, <2>1, EndSteps DEF Respond, CallDies, GInv, StoreTypes
<1> QED
  BY <1>1, <1>2, <1>3, <1>4, ExpiryStep DEF GatewayNext

-----------------------------------------------------------------------------

LEMMA GatewayBegins == AInit => GInv
<1> SUFFICES ASSUME AInit
             PROVE  GInv
  OBVIOUS
<1>1. StoreTypes
  BY GatewayAssumption DEF AInit, GatewayInit, StoreTypes
<1>2. PastInv
  BY DEF AInit, GatewayInit, PastInv
<1>3. CallInv
  BY NoCallSound DEF AInit, GatewayInit, CallInv, Loggedout
<1> QED
  BY <1>1, <1>2, <1>3 DEF GInv

\* The other parts leave the gateway and what is remembered of it alone.
LEMMA GatewayKept == GInv /\ [ANext]_avars => GInv'
<1> SUFFICES ASSUME GInv, [ANext]_avars
             PROVE  GInv'
  OBVIOUS
<1>1. CASE UNCHANGED <<wvars, late, known, out, outdated>>
  BY <1>1 DEF wvars, GInv, StoreTypes, PastInv, CallInv, Over, Loggedout, Stopped
<1>2. CASE GatewayNext /\ GatewayHistory
  BY <1>2, GatewayStep
<1> QED
  BY <1>1, <1>2 DEF ANext, avars, CatalogueHistory, ReferenceHistory

\* What an entry of the trail says was changed has been committed, and a change
\* leaves an entry unless one of the faults the property names kept it out
\* (AuditMiddleware); every handler, whichever its route.
THEOREM AuditTrailAgrees == ASpec => []AuditTrail
<1>1. GInv => AuditTrail
  BY DEF GInv, CallInv, Sound, Consistent, AuditTrail, CallAt
<1> QED
  BY <1>1, GatewayBegins, GatewayKept, PTL DEF ASpec

\* After a logout none of whose commands failed, its access token opens no route
\* and none of the CSRF tokens it found is accepted (revoke_on_logout,
\* revoke_all_csrf_tokens, get_current_user, validate_csrf_token).
THEOREM LogoutEndsTheToken == ASpec => []LogoutHolds
<1>1. GInv => LogoutHolds
  BY DEF GInv, CallInv, PastInv, Stopped, LogoutHolds
<1> QED
  BY <1>1, GatewayBegins, GatewayKept, PTL DEF ASpec

-----------------------------------------------------------------------------
(* Rows that are gone.                                                     *)

\* A request of the catalogue with these fields.
Txn(pc, op, id, key, par, mine, other, put) ==
    [pc |-> pc, op |-> op, id |-> id, key |-> key, par |-> par, mine |-> mine, other |-> other, put |-> put]
Formed(t) == t = Txn(t.pc, t.op, t.id, t.key, t.par, t.mine, t.other, t.put)

\* It names rows that were made, and none that is dead but for a parent that
\* has yet to be looked up.
Fits(t, n, D) ==
    /\ t.id \in 0..n /\ t.par \in 0..n /\ \A w \in t.put : w[1] \in 0..n /\ w[1] \notin D
    /\ t.id \notin D /\ (t.par \in D => t.pc \in {"fill", "check", "parent"})
    /\ t.pc = "fill" => t.put = {} /\ (t.par # 0 => t.op = "move")

DeadInv ==
    /\ made \in Nat /\ gone \subseteq Id \cap 1..made /\ dead \subseteq gone
    /\ tbl = [i \in Id |-> tbl[i]] /\ cached = [i \in Id |-> cached[i]]
    /\ \A i \in Id : tbl[i] # NoRow => i <= made
    /\ \A i \in dead : tbl[i] = NoRow /\ cached[i] = NoRow
    /\ txn = [a \in Author |-> txn[a]] /\ \A a \in Author : Formed(txn[a]) /\ Fits(txn[a], made, dead)

LEMMA TxnFields ==
    ASSUME NEW pc, NEW op, NEW id, NEW key, NEW par, NEW mine, NEW other, NEW put,
           NEW t, t = Txn(pc, op, id, key, par, mine, other, put)
    PROVE  /\ Formed(t) /\ t.pc = pc /\ t.op = op /\ t.id = id /\ t.key = key /\ t.par = par
           /\ t.mine = mine /\ t.other = other /\ t.put = put
BY DEF Txn, Formed

\* The change of one field leaves the others.
LEMMA OneChange ==
    ASSUME NEW t, Formed(t), NEW x, NEW d
    PROVE
           /\ d = [t EXCEPT !.pc = x] =>
                /\ Formed(d) /\ d.pc = x /\ d.op = t.op /\ d.id = t.id /\ d.key = t.key
                /\ d.par = t.par /\ d.mine = t.mine /\ d.other = t.other /\ d.put = t.put
           /\ d = [t EXCEPT !.op = x] =>
                /\ Formed(d) /\ d.pc = t.pc /\ d.op = x /\ d.id = t.id /\ d.key = t.key
                /\ d.par = t.par /\ d.mine = t.mine /\ d.other = t.other /\ d.put = t.put
           /\ d = [t EXCEPT !.id = x] =>
                /\ Formed(d) /\ d.pc = t.pc /\ d.op = t.op /\ d.id = x /\ d.key = t.key
                /\ d.par = t.par /\ d.mine = t.mine /\ d.other = t.other /\ d.put = t.put
           /\ d = [t EXCEPT !.key = x] =>
                /\ Formed(d) /\ d.pc = t.pc /\ d.op = t.op /\ d.id = t.id /\ d.key = x
                /\ d.par = t.par /\ d.mine = t.mine /\ d.other = t.other /\ d.put = t.put
           /\ d = [t EXCEPT !.par = x] =>
                /\ Formed(d) /\ d.pc = t.pc /\ d.op = t.op /\ d.id = t.id /\ d.key = t.key
                /\ d.par = x /\ d.mine = t.mine /\ d.other = t.other /\ d.put = t.put
           /\ d = [t EXCEPT !.mine = x] =>
                /\ Formed(d) /\ d.pc = t.pc /\ d.op = t.op /\ d.id = t.id /\ d.key = t.key
                /\ d.par = t.par /\ d.mine = x /\ d.other = t.other /\ d.put = t.put
           /\ d = [t EXCEPT !.other = x] =>
                /\ Formed(d) /\ d.pc = t.pc /\ d.op = t.op /\ d.id = t.id /\ d.key = t.key
                /\ d.par = t.par /\ d.mine = t.mine /\ d.other = x /\ d.put = t.put
           /\ d = [t EXCEPT !.put = x] =>
                /\ Formed(d) /\ d.pc = t.pc /\ d.op = t.op /\ d.id = t.id /\ d.key = t.key
                /\ d.par = t.par /\ d.mine = t.mine /\ d.other = t.other /\ d.put = x
<1>1. PICK pc, op, id, key, par, mine, other, put : t = Txn(pc, op, id, key, par, mine, other, put)
  BY DEF Formed
<1>2. t.pc = pc /\ t.op = op /\ t.id = id /\ t.key = key /\ t.par = par
      /\ t.mine = mine /\ t.other = other /\ t.put = put
  BY <1>1, TxnFields
<1>3. [t EXCEPT !.pc = x] = Txn(x, op, id, key, par, mine, other, put)
  BY <1>1 DEF Txn
<1>4. [t EXCEPT !.op = x] = Txn(pc, x, id, key, par, mine, other, put)
  BY <1>1 DEF Txn
<1>5. [t EXCEPT !.id = x] = Txn(pc, op, x, key, par, mine, other, put)
  BY <1>1 DEF Txn
<1>6. [t EXCEPT !.key = x] = Txn(pc, op, id, x, par, mine, other, put)
  BY <1>1 DEF Txn
<1>7. [t EXCEPT !.par = x] = Txn(pc, op, id, key, x, mine, other, put)
  BY <1>1 DEF Txn
<1>8. [t EXCEPT !.mine = x] = Txn(pc, op, id, key, par, x, other, put)
  BY <1>1 DEF Txn
<1>9. [t EXCEPT !.other = x] = Txn(pc, op, id, key, par, mine, x, put)
  BY <1>1 DEF Txn
<1>10. [t EXCEPT !.put = x] = Txn(pc, op, id, key, par, mine, other, x)
  BY <1>1 DEF Txn
<1> QED
  BY <1>2, <1>3, <1>4, <1>5, <1>6, <1>7, <1>8, <1>9, <1>10, TxnFields

\* Of a request that moves on, all that is looked at.
SameNames(d, t) == d.op = t.op /\ d.id = t.id /\ d.key = t.key /\ d.par = t.par /\ d.put = t.put

LEMMA Moves ==
    ASSUME NEW t, Formed(t), NEW pc, NEW d, d = [t EXCEPT !.pc = pc]
    PROVE  Formed(d) /\ d.pc = pc /\ SameNames(d, t)
BY OneChange DEF SameNames

LEMMA NoTxnIs ==
    Formed(NoTxn) /\ NoTxn.pc = "idle" /\ NoTxn.op = "none" /\ NoTxn.id = 0 /\ NoTxn.par = 0 /\ NoTxn.put = {}
<1>1. NoTxn = Txn("idle", "none", 0, NoWord, 0, NoCopy, NoCopy, {})
  BY DEF NoTxn, Txn
<1> QED
  BY <1>1, TxnFields

LEMMA RequestIs ==
    ASSUME NEW op, NEW i, NEW k, NEW p, NEW t, t = Request(op, i, k, p)
    PROVE  Formed(t) /\ t.pc = "idle" /\ t.op = op /\ t.id = i /\ t.key = k /\ t.par = p /\ t.put = {}
<1>1. PICK r : r = NoTxn
  OBVIOUS
<1>2. PICK d : d = [r EXCEPT !.op = op]
  OBVIOUS
<1>3. PICK e : e = [d EXCEPT !.id = i]
  OBVIOUS
<1>4. PICK f : f = [e EXCEPT !.key = k]
  OBVIOUS
<1>5. Formed(r) /\ r.pc = "idle" /\ r.put = {}
  BY <1>1, NoTxnIs
<1>6. Formed(d) /\ d.pc = "idle" /\ d.put = {} /\ d.op = op
  BY <1>2, <1>5, OneChange
<1>7. Formed(e) /\ e.pc = "idle" /\ e.put = {} /\ e.op = op /\ e.id = i
  BY <1>3, <1>6, OneChange
<1>8. Formed(f) /\ f.pc = "idle" /\ f.put = {} /\ f.op = op /\ f.id = i /\ f.key = k
  BY <1>4, <1>7, OneChange
<1>9. t = [f EXCEPT !.par = p]
  BY <1>1, <1>2, <1>3, <1>4 DEF Request
<1> QED
  BY <1>8, <1>9, OneChange

\* A transaction that has flushed.
Flushed(put, pc, i) == [NoTxn EXCEPT !.put = put, !.pc = pc, !.id = i]

LEMMA PutIs ==
    ASSUME NEW put, NEW pc, NEW i, NEW t, t = Flushed(put, pc, i)
    PROVE  Formed(t) /\ t.pc = pc /\ t.id = i /\ t.par = 0 /\ t.put = put
<1>1. PICK r : r = NoTxn
  OBVIOUS
<1>2. PICK d : d = [r EXCEPT !.put = put]
  OBVIOUS
<1>3. Formed(r) /\ r.par = 0
  BY <1>1, NoTxnIs
<1>4. Formed(d) /\ d.par = 0 /\ d.put = put
  BY <1>2, <1>3, OneChange
<1>5. PICK e : e = [d EXCEPT !.pc = pc]
  OBVIOUS
<1>6. PICK f : f = [e EXCEPT !.id = i]
  OBVIOUS
<1>7. Formed(e) /\ e.pc = pc /\ e.par = 0 /\ e.put = put
  BY <1>4, <1>5, OneChange
<1>8. Formed(f) /\ f.pc = pc /\ f.id = i /\ f.par = 0 /\ f.put = put
  BY <1>6, <1>7, OneChange
<1>9. f = t
  BY <1>1, <1>2, <1>5, <1>6 DEF Flushed
<1> QED
  BY <1>8, <1>9

\* A request of the catalogue takes a step to t.
LEMMA AuthorStep ==
    ASSUME DeadInv, CatalogueHistory, NEW a \in Author, NEW t, Formed(t), Fits(t, made', dead),
           txn' = [txn EXCEPT ![a] = t], made' \in Nat, made' >= made,
           tbl' = [i \in Id |-> tbl'[i]], cached' = [i \in Id |-> cached'[i]],
           \A i \in Id : tbl'[i] # NoRow => i <= made',
           \A i \in dead : tbl'[i] = NoRow /\ cached'[i] = NoRow
    PROVE  DeadInv'
<1>1. txn' = [b \in Author |-> txn'[b]] /\ txn'[a] = t /\ \A b \in Author \ {a} : txn'[b] = txn[b]
  BY DEF DeadInv
<1>2. gone' \subseteq Id \cap 1..made' /\ dead' \subseteq gone' /\ dead \subseteq dead'
  <2>1. Present \subseteq Id \cap 1..made'
    BY DEF DeadInv, Present, Id
  <2>2. gone' \subseteq gone \cup Present /\ gone \subseteq gone'
    BY DEF CatalogueHistory
  <2>3. dead' \subseteq dead \cup gone' /\ dead \subseteq dead'
    BY DEF CatalogueHistory
  <2> QED
    BY <2>1, <2>2, <2>3 DEF DeadInv
<1>3. \A i \in dead' : i \in dead \/ NothingLeft(i)
  BY DEF CatalogueHistory
<1>4. \A i \in dead' : tbl'[i] = NoRow /\ cached'[i] = NoRow
  BY <1>3 DEF NothingLeft
<1>5. \A b \in Author : Formed(txn'[b]) /\ Fits(txn'[b], made', dead)
  <2>1. ASSUME NEW b \in Author \ {a}
        PROVE  Fits(txn[b], made', dead)
    BY <2>1 DEF DeadInv, Fits
  <2> QED
    BY <1>1, <2>1 DEF DeadInv
<1>6. \A b \in Author : Fits(txn'[b], made', dead')
  BY <1>3, <1>5 DEF Fits, NothingLeft
<1> QED
  BY <1>1, <1>2, <1>4, <1>5, <1>6 DEF DeadInv

LEMMA RequestFits ==
    ASSUME DeadInv, NEW a \in Author
    PROVE  Formed(txn[a]) /\ Fits(txn[a], made, dead) /\ txn[a].id \notin dead
BY DEF DeadInv, Fits

LEMMA DeadAreMade ==
    ASSUME DeadInv
    PROVE  made \in Nat /\ 0 \notin dead /\ dead \subseteq 1..made /\ dead \subseteq Id /\ dead \cap Present = {}
           /\ dead \cap Live = {}
<1>1. NoRow.live = FALSE
  BY DEF NoRow
<1>2. made \in Nat /\ dead \subseteq 1..made /\ dead \subseteq Id
  BY DEF DeadInv
<1>3. dead \cap Present = {} /\ dead \cap Live = {}
  BY <1>1 DEF DeadInv, Present, Live
<1> QED
  BY <1>2, <1>3

\* A request ends.
LEMMA TxnEndsStep ==
    ASSUME DeadInv, CatalogueHistory, NEW a \in Author, TxnEnds(a), made' \in Nat, made' >= made,
           UNCHANGED <<tbl, cached>>
    PROVE  DeadInv'
<1>1. PICK t : t = NoTxn
  OBVIOUS
<1>2. Formed(t) /\ t.pc = "idle" /\ t.id = 0 /\ t.par = 0 /\ t.put = {}
  BY <1>1, NoTxnIs
<1>3. Fits(t, made', dead)
  BY <1>2, DeadAreMade DEF Fits
<1>4. txn' = [txn EXCEPT ![a] = t]
  BY <1>1 DEF TxnEnds, Becomes
<1>5. \A i \in Id : tbl'[i] # NoRow => i <= made'
  BY DEF DeadInv, Id
<1>6. tbl' = [i \in Id |-> tbl'[i]] /\ cached' = [i \in Id |-> cached'[i]] /\ \A i \in dead : tbl'[i] = NoRow /\ cached'[i] = NoRow
  BY DEF DeadInv
<1> QED
  BY <1>2, <1>3, <1>4, <1>5, <1>6, AuthorStep

\* A request moves on, naming the same rows; the cache gains an entry for one
\* of these, if anything.
LEMMA TxnMoves ==
    ASSUME DeadInv, CatalogueHistory, NEW a \in Author, NEW t, Formed(t), Fits(t, made, dead),
           txn' = [txn EXCEPT ![a] = t], UNCHANGED <<tbl, made>>,
           cached' = cached \/ \E i, r : (i \notin dead \/ r = NoRow) /\ cached' = [cached EXCEPT ![i] = r]
    PROVE  DeadInv'
<1>1. tbl' = [i \in Id |-> tbl'[i]] /\ cached' = [i \in Id |-> cached'[i]] /\ \A i \in dead : tbl'[i] = NoRow /\ cached'[i] = NoRow
  BY DEF DeadInv
<1>2. made' \in Nat /\ made' >= made /\ Fits(t, made', dead) /\ \A i \in Id : tbl'[i] # NoRow => i <= made'
  BY DEF DeadInv
<1> QED
  BY <1>1, <1>2, AuthorStep

\* What a handler does with the row it found.
LEMMA GoesFits ==
    ASSUME DeadInv, NEW t, Formed(t), t.id \in 0..made, t.par \in 0..made, t.id \notin dead,
           t.par # 0 => t.op = "move", t.put = {}, NEW d, d = Goes(t)
    PROVE  Formed(d) /\ Fits(d, made, dead)
<1>1. d = NoTxn \/ \E pc \in {"check", "parent", "children", "again", "flush"} :
                      d = [t EXCEPT !.pc = pc] /\ (t.op = "move" /\ t.par # 0 => pc = "parent")
  BY DEF Goes
<1>2. NoTxn.id = 0 /\ NoTxn.par = 0 /\ NoTxn.put = {} /\ NoTxn.pc = "idle" /\ Formed(NoTxn)
  BY NoTxnIs
<1>3. d = NoTxn => Formed(d) /\ Fits(d, made, dead)
  BY <1>2, DeadAreMade DEF Fits
<1>4. ASSUME NEW pc \in {"check", "parent", "children", "again", "flush"}, NEW e, e = [t EXCEPT !.pc = pc],
             t.op = "move" /\ t.par # 0 => pc = "parent"
      PROVE  Formed(e) /\ Fits(e, made, dead)
  <2>1. Formed(e) /\ e.pc = pc /\ SameNames(e, t)
    BY <1>4, Moves
  <2>2. t.par \in dead => pc = "parent"
    BY <1>4, DeadAreMade
  <2>3. e.pc # "fill"
    BY <1>4, <2>1
  <2> QED
    BY <2>1, <2>2, <2>3 DEF Fits, SameNames
<1> QED
  BY <1>1, <1>3, <1>4

\* The requests, up to their first command.
LEMMA FindStep ==
    ASSUME DeadInv, CatalogueHistory, NEW a \in Author, NEW op, NEW i \in 1..made, NEW k, NEW p \in 0..made,
           p # 0 => op = "move", Find(a, Request(op, i, k, p))
    PROVE  DeadInv'
<1>1. PICK t : t = Request(op, i, k, p)
  OBVIOUS
<1>2. Formed(t) /\ t.id = i /\ t.par = p /\ t.put = {} /\ t.op = op
  BY <1>1, RequestIs
<1>3. i \notin dead /\ i \in 0..made /\ made \in Nat
  <2>1. i \in dead => i \notin Visible(t) /\ cached[i] = NoRow
    BY DeadAreMade DEF Visible, DeadInv
  <2>2. cached[i] # NoRow \/ i \in Visible(t)
    BY <1>1, <1>2 DEF Find
  <2> QED
    BY <2>1, <2>2, DeadAreMade
<1>4. ASSUME NEW m, NEW e, e = [t EXCEPT !.mine = m], txn' = [txn EXCEPT ![a] = Goes(e)]
      PROVE  DeadInv'
  <2>1. Formed(e) /\ e.id = i /\ e.par = p /\ e.put = {} /\ e.op = op
    BY <1>2, <1>4, OneChange
  <2>2. PICK d : d = Goes(e)
    OBVIOUS
  <2>3. Formed(d) /\ Fits(d, made, dead)
    BY <1>3, <2>1, <2>2, GoesFits
  <2>4. UNCHANGED <<tbl, cached, made>>
    BY DEF Find
  <2> QED
    BY <1>4, <2>2, <2>3, <2>4, TxnMoves
<1>5. ASSUME NEW m, txn' = [txn EXCEPT ![a] = [t EXCEPT !.pc = "fill", !.mine = m]]
      PROVE  DeadInv'
  <2>1. PICK fill : fill = "fill"
    OBVIOUS
  <2>2. PICK d : d = [t EXCEPT !.pc = fill]
    OBVIOUS
  <2>3. PICK e : e = [d EXCEPT !.mine = m]
    OBVIOUS
  <2>4. Formed(d) /\ d.id = i /\ d.par = p /\ d.put = {} /\ d.op = op /\ d.pc = fill
    BY <1>2, <2>2, OneChange
  <2>5. Formed(e) /\ e.id = i /\ e.par = p /\ e.put = {} /\ e.op = op /\ e.pc = fill
    BY <2>3, <2>4, OneChange
  <2>6. Fits(e, made, dead)
    BY <1>3, <2>1, <2>5 DEF Fits
  <2>7. txn' = [txn EXCEPT ![a] = e]
    BY <1>5, <2>1, <2>2, <2>3
  <2>8. UNCHANGED <<tbl, cached, made>>
    BY DEF Find
  <2> QED
    BY <2>5, <2>6, <2>7, <2>8, TxnMoves
<1> QED
  BY <1>1, <1>4, <1>5 DEF Find, Becomes

LEMMA KeyStep ==
    ASSUME DeadInv, CatalogueHistory, NEW a \in Author, NEW t, Formed(t), t.id \in 0..made, t.par \in 0..made,
           t.id \notin dead, \A w \in t.put : w[1] \in 0..made /\ w[1] \notin dead, CheckKey(a, t)
    PROVE  DeadInv'
<1>1. CASE TxnEnds(a)
  <2>1. UNCHANGED <<tbl, cached, made>>
    BY DEF CheckKey
  <2>2. made' \in Nat /\ made' >= made
    BY <2>1, DeadAreMade
  <2> QED
    BY <1>1, <2>1, <2>2, TxnEndsStep
<1>2. ASSUME ~Taken(t)
      PROVE  DeadInv'
  <2>1. PICK pc : pc = IF t.par = 0 THEN "flush" ELSE "parent"
    OBVIOUS
  <2>2. PICK d : d = [t EXCEPT !.pc = pc]
    OBVIOUS
  <2>3. Formed(d) /\ d.pc = pc /\ SameNames(d, t)
    BY <2>2, Moves
  <2>4. Fits(d, made, dead)
    BY <2>1, <2>3, DeadAreMade DEF Fits, SameNames
  <2>5. txn' = [txn EXCEPT ![a] = d] /\ UNCHANGED <<tbl, cached, made>>
    BY <1>2, <2>1, <2>2 DEF CheckKey, Becomes
  <2> QED
    BY <2>3, <2>4, <2>5, TxnMoves
<1> QED
  BY <1>1, <1>2 DEF CheckKey, TxnEnds

LEMMA CreateStep ==
    ASSUME DeadInv, CatalogueHistory, NEW a \in Author, NEW k, NEW p \in 0..made, Create(a, k, p)
    PROVE  DeadInv'
<1>1. PICK t : t = Request("create", 0, k, p)
  OBVIOUS
<1>2. Formed(t) /\ t.id = 0 /\ t.par = p /\ t.put = {}
  BY <1>1, RequestIs
<1>3. 0 \in 0..made
  BY DeadAreMade
<1> QED
  BY <1>1, <1>2, <1>3, DeadAreMade, KeyStep DEF Create

LEMMA FillStep ==
    ASSUME DeadInv, CatalogueHistory, NEW a \in Author, Fill(a)
    PROVE  DeadInv'
<1>1. PICK t : t = txn[a]
  OBVIOUS
<1>2. PICK d : d = Goes(t)
  OBVIOUS
<1>3. /\ Formed(t) /\ Fits(t, made, dead) /\ t.id \notin dead /\ t.pc = "fill"
  BY <1>1, RequestFits DEF Fill, TxnAt
<1>4. Formed(d) /\ Fits(d, made, dead)
  BY <1>2, <1>3, GoesFits DEF Fits
<1>5. txn' = [txn EXCEPT ![a] = d] /\ UNCHANGED <<tbl, made>> /\ cached' = [cached EXCEPT ![t.id] = t.mine.want]
  BY <1>1, <1>2 DEF Fill, Becomes
<1> QED
  BY <1>3, <1>4, <1>5, TxnMoves

\* A request only goes on, past the point where its parent is looked up.
LEMMA GoesOn ==
    ASSUME DeadInv, CatalogueHistory, NEW a \in Author, NEW pc, pc # "fill", txn[a].par \notin dead,
           TxnTo(a, pc), UNCHANGED <<tbl, made>>,
           cached' = cached \/ \E i, r : (i \notin dead \/ r = NoRow) /\ cached' = [cached EXCEPT ![i] = r]
    PROVE  DeadInv'
<1>1. PICK t : t = txn[a]
  OBVIOUS
<1>2. PICK d : d = [t EXCEPT !.pc = pc]
  OBVIOUS
<1>3. Formed(t) /\ Fits(t, made, dead)
  BY <1>1, RequestFits
<1>4. Formed(d) /\ d.pc = pc /\ SameNames(d, t)
  BY <1>2, <1>3, Moves
<1>5. Fits(d, made, dead)
  BY <1>1, <1>3, <1>4 DEF Fits, SameNames
<1>6. txn' = [txn EXCEPT ![a] = d]
  BY <1>1, <1>2 DEF TxnTo, Becomes
<1> QED
  BY <1>4, <1>5, <1>6, TxnMoves

LEMMA ParentStep ==
    ASSUME DeadInv, CatalogueHistory, NEW a \in Author, CheckParent(a)
    PROVE  DeadInv'
<1>1. UNCHANGED <<tbl, cached, made>>
  BY DEF CheckParent
<1>2. CASE TxnEnds(a)
  BY <1>1, <1>2, TxnEndsStep DEF DeadInv
<1>3. ASSUME ~TxnEnds(a)
      PROVE  DeadInv'
  <2>1. PICK t : t = txn[a]
    OBVIOUS
  <2>2. t.par \notin dead
    <3>1. t.par \in dead => t.par \notin Live /\ cached[t.par] = NoRow
      BY DeadAreMade DEF DeadInv
    <3> QED
      BY <1>3, <2>1, <3>1 DEF CheckParent
  <2>3. PICK pc \in {"flush", "fill_parent"} :
          \E x : txn' = [txn EXCEPT ![a] = [t EXCEPT !.pc = pc, !.other = x]]
    BY <1>3, <2>1 DEF CheckParent, Becomes
  <2>4. PICK x : txn' = [txn EXCEPT ![a] = [t EXCEPT !.pc = pc, !.other = x]]
    BY <2>3
  <2>5. PICK d : d = [t EXCEPT !.pc = pc]
    OBVIOUS
  <2>6. PICK e : e = [d EXCEPT !.other = x]
    OBVIOUS
  <2>7. Formed(t) /\ Fits(t, made, dead)
    BY <2>1, RequestFits
  <2>8. Formed(d) /\ d.pc = pc /\ SameNames(d, t)
    BY <2>5, <2>7, Moves
  <2>9. Formed(e) /\ e.pc = pc /\ SameNames(e, t)
    BY <2>6, <2>8, OneChange DEF SameNames
  <2>10. Fits(e, made, dead)
    BY <2>2, <2>7, <2>9 DEF Fits, SameNames
  <2>11. txn' = [txn EXCEPT ![a] = e]
    BY <2>5, <2>6, <2>4
  <2> QED
    BY <1>1, <2>9, <2>10, <2>11, TxnMoves
<1> QED
  BY <1>2, <1>3

\* The rest of a handler before its flush.
LEMMA OtherSteps ==
    ASSUME DeadInv, CatalogueHistory, NEW a \in Author,
           FillParent(a) \/ CheckChildren(a) \/ FindAgain(a) \/ FillAgain(a)
    PROVE  DeadInv'
<1>1. /\ txn[a].pc \in {"fill_parent", "children", "again", "fill_again"} /\ UNCHANGED <<tbl, made>>
      /\ \/ TxnEnds(a) /\ UNCHANGED cached
         \/ \E pc \in {"flush", "commit", "again", "fill_again"} : TxnTo(a, pc)
  BY DEF FillParent, CheckChildren, FindAgain, FillAgain, TxnAt
<1>2. txn[a].par \notin dead /\ txn[a].id \notin dead
  BY <1>1, RequestFits DEF Fits
<1>3. cached' = cached \/ \E i, r : (i \notin dead \/ r = NoRow) /\ cached' = [cached EXCEPT ![i] = r]
  BY <1>2 DEF FillParent, CheckChildren, FindAgain, FillAgain
<1>4. CASE TxnEnds(a) /\ UNCHANGED cached
  BY <1>1, <1>4, TxnEndsStep DEF DeadInv
<1>5. CASE \E pc \in {"flush", "commit", "again", "fill_again"} : TxnTo(a, pc)
  BY <1>1, <1>2, <1>3, <1>5, GoesOn
<1> QED
  BY <1>1, <1>4, <1>5

\* What a flush writes: no row that is dead.
LEMMA WritesFit ==
    ASSUME DeadInv, NEW a \in Author, txn[a].pc = "flush", NEW w \in Writes(a)
    PROVE  /\ w[1] \notin dead
           /\ w[1] \in 0..made \/ (txn[a].op = "create" /\ w[1] = NewId)
<1>1. PICK t : t = txn[a]
  OBVIOUS
<1>2. w[1] \in {t.id, t.par} \/ (t.op = "create" /\ w[1] = NewId)
  BY <1>1 DEF Writes, Changed
<1>3. t.id \in 0..made \ dead /\ t.par \in 0..made \ dead
  BY <1>1, RequestFits DEF Fits
<1>4. NewId \notin dead
  BY DeadAreMade DEF NewId
<1> QED
  BY <1>1, <1>2, <1>3, <1>4

LEMMA FlushStep ==
    ASSUME DeadInv, CatalogueHistory, NEW a \in Author, Flush(a)
    PROVE  DeadInv'
<1>1. made' = (IF txn[a].op = "create" THEN NewId ELSE made) /\ UNCHANGED <<tbl, cached>> /\ txn[a].pc = "flush"
  BY DEF Flush, TxnAt
<1>2. made \in Nat /\ made' \in Nat /\ made' >= made /\ (txn[a].op = "create" => made' = NewId)
  BY <1>1, DeadAreMade DEF NewId
<1>3. CASE TxnEnds(a)
  BY <1>1, <1>2, <1>3, TxnEndsStep
<1>4. ASSUME ~TxnEnds(a)
      PROVE  DeadInv'
  <2>1. PICK put : put = Writes(a)
    OBVIOUS
  <2>2. PICK pc : pc = IF Invalidates(txn[a].op) THEN "drop" ELSE "commit"
    OBVIOUS
  <2>3. PICK i : i = IF Invalidates(txn[a].op) THEN txn[a].id ELSE 0
    OBVIOUS
  <2>4. PICK t : t = Flushed(put, pc, i)
    OBVIOUS
  <2>5. txn' = [txn EXCEPT ![a] = t]
    BY <1>4, <2>1, <2>2, <2>3, <2>4 DEF Flush, Becomes, Flushed
  <2>6. Formed(t) /\ t.pc = pc /\ t.id = i /\ t.par = 0 /\ t.put = put
    BY <2>4, PutIs
  <2>7. \A w \in put : w[1] \in 0..made' /\ w[1] \notin dead
    <3>1. NewId \in 0..(made + 1) /\ made + 1 \in Nat
      BY <1>2 DEF NewId
    <3> QED
      BY <1>1, <1>2, <2>1, <3>1, WritesFit
  <2>8. i \in 0..made' /\ i \notin dead
    BY <1>2, <2>3, RequestFits, DeadAreMade DEF Fits
  <2>9. Fits(t, made', dead)
    BY <1>2, <2>2, <2>6, <2>7, <2>8, DeadAreMade DEF Fits
  <2>10. \A j \in Id : tbl'[j] # NoRow => j <= made'
    BY <1>1, <1>2 DEF DeadInv, Id
  <2>11. tbl' = [j \in Id |-> tbl'[j]] /\ cached' = [j \in Id |-> cached'[j]] /\ \A j \in dead : tbl'[j] = NoRow /\ cached'[j] = NoRow
    BY <1>1 DEF DeadInv
  <2> QED
    BY <1>2, <2>5, <2>6, <2>9, <2>10, <2>11, AuthorStep
<1> QED
  BY <1>3, <1>4

LEMMA DropStep ==
    ASSUME DeadInv, CatalogueHistory, NEW a \in Author, NEW ok \in BOOLEAN, Drop(a, ok)
    PROVE  DeadInv'
<1>1. PICK t, commit, zero : t = txn[a] /\ commit = "commit" /\ zero = 0
  OBVIOUS
<1>2. PICK d : d = [t EXCEPT !.pc = commit]
  OBVIOUS
<1>3. PICK e : e = [d EXCEPT !.id = zero]
  OBVIOUS
<1>4. Formed(t) /\ Fits(t, made, dead) /\ t.pc = "drop"
  BY <1>1, RequestFits DEF Drop, TxnAt
<1>5. Formed(d) /\ d.pc = commit /\ SameNames(d, t)
  BY <1>2, <1>4, Moves
<1>6. Formed(e) /\ e.pc = commit /\ e.id = zero /\ e.par = t.par /\ e.put = t.put
  BY <1>3, <1>5, OneChange DEF SameNames
<1>7. Fits(e, made, dead)
  BY <1>1, <1>4, <1>6, DeadAreMade DEF Fits
<1>8. txn' = [txn EXCEPT ![a] = e]
  BY <1>1, <1>2, <1>3 DEF Drop, Becomes
<1>9. UNCHANGED <<tbl, made>> /\ (cached' = cached \/ \E i : cached' = [cached EXCEPT ![i] = NoRow])
  BY DEF Drop
<1> QED
  BY <1>6, <1>7, <1>8, <1>9, TxnMoves

LEMMA CommitTxnStep ==
    ASSUME DeadInv, CatalogueHistory, NEW a \in Author, CommitTxn(a)
    PROVE  DeadInv'
<1>1. PICK t, put : t = NoTxn /\ put = txn[a].put
  OBVIOUS
<1>2. tbl' = Landed(put) /\ UNCHANGED <<cached, made>> /\ txn' = [txn EXCEPT ![a] = t]
  BY <1>1 DEF CommitTxn, TxnEnds, Becomes
<1>3. Formed(t) /\ Fits(t, made', dead)
  BY <1>1, <1>2, NoTxnIs, DeadAreMade DEF Fits
<1>4. \A w \in put : w[1] \in 0..made /\ w[1] \notin dead
  BY <1>1, RequestFits DEF Fits
<1>5. tbl' = [i \in Id |-> tbl'[i]]
  BY <1>2 DEF Landed
<1>6. \A i \in Id : tbl'[i] = tbl[i] \/ \E w \in put : w[1] = i
  BY <1>2 DEF Landed
<1>7. /\ \A i \in Id : tbl'[i] # NoRow => i <= made'
      /\ \A i \in dead : tbl'[i] = NoRow /\ cached'[i] = NoRow
  <2>1. \A i \in dead : i \in Id /\ tbl[i] = NoRow /\ cached[i] = NoRow
    BY DEF DeadInv
  <2>2. \A i \in Id : tbl[i] # NoRow => i <= made
    BY DEF DeadInv
  <2> QED
    BY <1>2, <1>4, <1>6, <2>1, <2>2, DeadAreMade DEF Id
<1>8. made' \in Nat /\ made' >= made /\ cached' = [i \in Id |-> cached'[i]]
  BY <1>2 DEF DeadInv
<1> QED
  BY <1>2, <1>3, <1>5, <1>7, <1>8, AuthorStep

\* Nothing of the rows and the requests changes, but that an entry may expire.
LEMMA RowsStay ==
    ASSUME DeadInv, UNCHANGED <<tbl, made, txn>>,
           cached' = cached \/ \E i : cached' = [cached EXCEPT ![i] = NoRow],
           CatalogueHistory \/ UNCHANGED <<gone, dead>>
    PROVE  DeadInv'
<1>1. cached' = [i \in Id |-> cached'[i]] /\ \A i \in dead : tbl'[i] = NoRow /\ cached'[i] = NoRow
  BY DEF DeadInv
<1>2. gone' \subseteq Id \cap 1..made /\ dead' \subseteq gone' /\ dead \subseteq dead'
  <2>1. Present \subseteq Id \cap 1..made
    BY DEF DeadInv, Present, Id
  <2>2. gone' \subseteq gone \cup Present /\ gone \subseteq gone'
    BY DEF CatalogueHistory
  <2>3. dead' \subseteq dead \cup gone' /\ dead \subseteq dead'
    BY DEF CatalogueHistory
  <2> QED
    BY <2>1, <2>2, <2>3 DEF DeadInv
<1>3. \A i \in dead' : i \in dead \/ NothingLeft(i)
  BY DEF CatalogueHistory
<1>4. \A a \in Author : Formed(txn'[a]) /\ Fits(txn'[a], made', dead')
  BY <1>3 DEF DeadInv, Fits, NothingLeft
<1> QED
  BY <1>1, <1>2, <1>3, <1>4 DEF DeadInv, NothingLeft

LEMMA CatalogueStep ==
    ASSUME DeadInv, CatalogueHistory, CatalogueNext
    PROVE  DeadInv'
<1>1. CASE \E a \in Author, k \in Word, p \in 0..made : Create(a, k, p)
  BY <1>1, CreateStep
<1>2. ASSUME NEW a \in Author, NEW i \in 1..made,
             (\E k \in Word \cup {NoWord} : Update(a, i, k)) \/ Get(a, i) \/ SoftDelete(a, i) \/ HardDelete(a, i)
      PROVE  DeadInv'
  <2>1. PICK p \in 0..made : p = 0
    BY DeadAreMade
  <2> QED
    BY <1>2, <2>1, FindStep DEF Update, Get, SoftDelete, HardDelete
<1>3. CASE \E a \in Author, i \in 1..made, p \in 0..made : Move(a, i, p)
  <2>1. PICK op : op = "move"
    OBVIOUS
  <2> QED
    BY <1>3, <2>1, FindStep DEF Move
<1>4. ASSUME NEW a \in Author, TxnStep(a)
      PROVE  DeadInv'
  <2>1. CASE Fill(a) \/ CheckParent(a) \/ Flush(a) \/ CommitTxn(a)
    BY <2>1, FillStep, ParentStep, FlushStep, CommitTxnStep
  <2>2. CASE FillParent(a) \/ CheckChildren(a) \/ FindAgain(a) \/ FillAgain(a)
    BY <2>2, OtherSteps
  <2>3. CASE TxnAt(a, "check") /\ CheckKey(a, txn[a])
    <3>1. PICK t : t = txn[a]
      OBVIOUS
    <3> QED
      BY <2>3, <3>1, RequestFits, KeyStep DEF Fits, TxnAt
  <2>4. CASE Drop(a, TRUE) \/ Drop(a, FALSE)
    <3>1. PICK ok \in BOOLEAN : Drop(a, ok)
      BY <2>4
    <3> QED
      BY <3>1, DropStep
  <2>5. CASE RollBack(a)
    BY <2>5, TxnEndsStep DEF RollBack, DeadInv
  <2> QED
    BY <1>4, <2>1, <2>2, <2>3, <2>4, <2>5 DEF TxnStep
<1>5. CASE \E i \in Id : ExpireEntry(i)
  BY <1>5, RowsStay DEF ExpireEntry
<1> QED
  BY <1>1, <1>2, <1>3, <1>4, <1>5 DEF CatalogueNext

LEMMA RowsBegin == AInit => DeadInv
<1> SUFFICES ASSUME AInit PROVE DeadInv
  OBVIOUS
<1>1. PICK t, r : t = NoTxn /\ r = NoRow
  OBVIOUS
<1>2. /\ made = 0 /\ gone = {} /\ dead = {} /\ tbl = [i \in Id |-> r] /\ cached = [i \in Id |-> r]
      /\ txn = [a \in Author |-> t]
  BY <1>1 DEF AInit, CatalogueInit
<1>3. Formed(t) /\ Fits(t, 0, {})
  BY <1>1, NoTxnIs DEF Fits
<1> QED
  BY <1>1, <1>2, <1>3 DEF DeadInv

LEMMA RowsKept == DeadInv /\ [ANext]_avars => DeadInv'
<1> SUFFICES ASSUME DeadInv, [ANext]_avars PROVE DeadInv'
  OBVIOUS
<1>1. CASE CatalogueNext /\ CatalogueHistory
  BY <1>1, CatalogueStep
<1>2. CASE UNCHANGED <<cvars, gone, dead>>
  BY <1>2, RowsStay DEF cvars
<1> QED
  BY <1>1, <1>2 DEF ANext, ReferenceHistory, GatewayHistory, avars

\* A row that is gone from the table, the cache and every session is gone for
\* good, whatever stale entries are merged and written back, for any number of
\* rows, kinds and requests (hard_delete, remove_item, get_by_id).
THEOREM GoneForGood == ASpec => []RemovedForGood
<1>1. DeadInv => RemovedForGood
  BY DEF DeadInv, RemovedForGood
<1> QED
  BY <1>1, RowsBegin, RowsKept, PTL DEF ASpec

-----------------------------------------------------------------------------
(* The numbers of reservations.                                            *)

\* Among the members of a non-empty collection of subsets of a finite set, one
\* includes no other.
LEMMA SmallestSet ==
    ASSUME NEW S, IsFiniteSet(S), NEW T \in SUBSET (SUBSET S), T # {}
    PROVE  \E s \in T : \A t \in T : t \subseteq s => t = s
<1>1. IsWellFoundedOn(StrictSubsetOrdering(S), FiniteSubsetsOf(S))
  BY FS_StrictSubsetOrderingWellFounded
<1>2. T \subseteq FiniteSubsetsOf(S)
  BY FS_FiniteSubsetsOfFinite
<1>3. \E s \in T : \A t \in T : ~ (<<t, s>> \in StrictSubsetOrdering(S))
  BY ONLY <1>1, <1>2, T # {}, WFMin
<1> QED
  BY <1>3 DEF StrictSubsetOrdering

LEMMA GreatestIs ==
    ASSUME NEW S, S \subseteq 0..LastNumber
    PROVE  Greatest(S) \in 0..LastNumber /\ \A k \in S : k <= Greatest(S)
<1>0. LastNumber \in Nat
  BY ReferenceAssumption
<1>1. CASE S = {}
  BY <1>0, <1>1 DEF Greatest
<1>2. ASSUME S # {}
      PROVE  \E n \in S : \A k \in S : k <= n
  <2> DEFINE e(n) == {k \in S : n <= k}
             T == {e(n) : n \in S}
  <2>1. IsFiniteSet(S)
    <3>1. IsFiniteSet(0..LastNumber)
      BY <1>0, FS_Interval
    <3> QED
      BY <3>1, FS_Subset
  <2>2. T \in SUBSET (SUBSET S) /\ T # {}
    <3>1. \A n \in S : e(n) \subseteq S
      OBVIOUS
    <3> HIDE DEF e
    <3> QED
      BY <1>2, <3>1
  <2>3. \E s \in T : \A t \in T : t \subseteq s => t = s
    <3> HIDE DEF T
    <3> QED
      BY ONLY <2>1, <2>2, SmallestSet
  <2>4. PICK n \in S : \A k \in S : e(k) \subseteq e(n) => e(k) = e(n)
    <3> HIDE DEF e
    <3> QED
      BY <2>3
  <2>5. ASSUME NEW k \in S, ~(k <= n)
        PROVE  FALSE
    <3>1. \A h \in S : h \in Int
      BY <1>0
    <3>2. \A h \in S : k <= h => n <= h
      BY <2>5, <3>1
    <3>3. n <= n
      BY <3>1
    <3>4. e(k) \subseteq e(n) /\ n \in e(n) /\ n \notin e(k)
      BY <2>5, <3>2, <3>3
    <3> QED
      BY <2>4, <3>4
  <2> QED
    BY <2>5
<1>3. CASE S # {}
  <2>1. Greatest(S) \in S /\ \A k \in S : k <= Greatest(S)
    BY <1>2, <1>3 DEF Greatest
  <2> QED
    BY <2>1
<1> QED
  BY <1>1, <1>3

Making == [pc : {"idle", "look", "loop", "add", "insert", "commit"}, most : 0..LastNumber,
           saw : SUBSET (1..LastNumber), ref : 0..LastNumber]

\* A creation during which nothing was committed has read all the numbers, and
\* takes one beyond them.
Beyond(m) ==
    m \notin crossed =>
      /\ make[m].pc \in {"look", "loop"} => \A k \in numbers : k <= make[m].most
      /\ make[m].pc \in {"add", "insert", "commit"} => \A k \in numbers : k < make[m].ref

MakeInv ==
    /\ numbers \subseteq 1..LastNumber /\ given \in [Process -> SUBSET (1..LastNumber)]
    /\ make \in [Maker -> Making]
    /\ \A m \in Maker : make[m].pc \in {"add", "insert", "commit"} => make[m].ref # 0
    /\ \A m \in Maker : subject # "references" => make[m].pc = "idle"
    /\ \A m \in Maker : Beyond(m)

\* The creation of m takes a step to t, and commits no number.
LEMMA MakerStep ==
    ASSUME MakeInv, ReferenceHistory, subject = "references", subject' = subject, NEW m \in Maker,
           NEW t \in Making, make' = [make EXCEPT ![m] = t], UNCHANGED numbers,
           given' \in [Process -> SUBSET (1..LastNumber)],
           t.pc \in {"add", "insert", "commit"} => t.ref # 0,
           m \notin crossed \/ make[m].pc = "idle" =>
             /\ t.pc \in {"look", "loop"} => \A k \in numbers : k <= t.most
             /\ t.pc \in {"add", "insert", "commit"} => \A k \in numbers : k < t.ref
    PROVE  MakeInv'
<1>1. make' \in [Maker -> Making] /\ make'[m] = t /\ \A o \in Maker \ {m} : make'[o] = make[o]
  BY DEF MakeInv
<1>2. \A o \in Maker : o \notin crossed' => make'[o].pc = "idle" \/ o \notin crossed
  BY DEF ReferenceHistory
<1>3. Beyond(m)'
  BY <1>1, <1>2 DEF Beyond
<1>4. \A o \in Maker \ {m} : Beyond(o)'
  BY <1>1, <1>2 DEF Beyond, MakeInv
<1> QED
  BY <1>1, <1>3, <1>4 DEF MakeInv

LEMMA MakeEndsStep ==
    ASSUME MakeInv, ReferenceHistory, subject = "references", subject' = subject, NEW m \in Maker,
           MakeEnds(m), UNCHANGED <<numbers, given>>
    PROVE  MakeInv'
<1>1. PICK t : t = NoMake
  OBVIOUS
<1>2. t \in Making /\ t.pc = "idle"
  BY <1>1, ReferenceAssumption DEF NoMake, Making
<1>3. make' = [make EXCEPT ![m] = t] /\ given' \in [Process -> SUBSET (1..LastNumber)]
  BY <1>1 DEF MakeEnds, MakeInv
<1> QED
  BY <1>2, <1>3, MakerStep

LEMMA ScanRowsStep ==
    ASSUME MakeInv, ReferenceHistory, subject = "references", subject' = subject, NEW m \in Maker,
           ScanRows(m)
    PROVE  MakeInv'
<1>1. PICK n : n = Greatest(numbers)
  OBVIOUS
<1>2. n \in 0..LastNumber /\ \A k \in numbers : k <= n
  <2>1. numbers \subseteq 0..LastNumber
    BY ReferenceAssumption DEF MakeInv
  <2> QED
    BY <1>1, <2>1, GreatestIs
<1>3. PICK t : t = [NoMake EXCEPT !.pc = "look", !.most = n]
  OBVIOUS
<1>4. t \in Making /\ t.pc = "look" /\ t.most = n
  <2>1. t = [pc |-> "look", most |-> n, saw |-> {}, ref |-> 0]
    BY <1>3 DEF NoMake
  <2> QED
    BY <1>2, <2>1, ReferenceAssumption DEF Making
<1>5. make' = [make EXCEPT ![m] = t] /\ UNCHANGED numbers /\ given' \in [Process -> SUBSET (1..LastNumber)]
  BY <1>1, <1>3 DEF ScanRows, MakeInv
<1> QED
  BY <1>2, <1>4, <1>5, MakerStep

LEMMA StartLoopStep ==
    ASSUME MakeInv, ReferenceHistory, subject = "references", subject' = subject, NEW m \in Maker,
           StartLoop(m)
    PROVE  MakeInv'
<1>1. PICK r, S : r = make[m] /\ S = given[ProcessOf[m]]
  OBVIOUS
<1>2. r \in Making /\ r.pc = "look" /\ S \in SUBSET (1..LastNumber)
  BY <1>1 DEF StartLoop, MakeAt, MakeInv, Process
<1>3. PICK t : t = [r EXCEPT !.pc = "loop", !.saw = S]
  OBVIOUS
<1>4. t \in Making /\ t.pc = "loop" /\ t.most = r.most
  BY <1>2, <1>3 DEF Making
<1>5. make' = [make EXCEPT ![m] = t] /\ UNCHANGED numbers /\ given' \in [Process -> SUBSET (1..LastNumber)]
  BY <1>1, <1>3 DEF StartLoop, MakeInv
<1>6. m \notin crossed => \A k \in numbers : k <= t.most
  BY <1>1, <1>2, <1>4 DEF MakeInv, Beyond
<1> QED
  BY <1>1, <1>2, <1>4, <1>5, <1>6, MakerStep

LEMMA LoopSetStep ==
    ASSUME MakeInv, ReferenceHistory, subject = "references", subject' = subject, NEW m \in Maker,
           LoopSet(m)
    PROVE  MakeInv'
<1>1. PICK r, next : r = make[m] /\ next = Greatest({make[m].most} \cup make[m].saw) + 1
  OBVIOUS
<1>2. r \in Making /\ r.pc = "loop" /\ UNCHANGED <<numbers, given>>
  BY <1>1 DEF LoopSet, MakeAt, MakeInv
<1>3. next \in Nat /\ next # 0 /\ r.most < next
  <2>1. {r.most} \cup r.saw \subseteq 0..LastNumber
    BY <1>2 DEF Making
  <2>2. PICK n : n = Greatest({r.most} \cup r.saw)
    OBVIOUS
  <2>3. n \in 0..LastNumber /\ r.most <= n
    BY <2>1, <2>2, GreatestIs
  <2> QED
    BY <1>1, <1>2, <2>2, <2>3, ReferenceAssumption DEF Making
<1>4. CASE MakeEnds(m)
  BY <1>2, <1>4, MakeEndsStep
<1>5. ASSUME next <= LastNumber, NEW t, t = [r EXCEPT !.pc = "add", !.ref = next],
             make' = [make EXCEPT ![m] = t]
      PROVE  MakeInv'
  <2>1. t \in Making /\ t.pc = "add" /\ t.ref = next
    <3>1. next \in 0..LastNumber
      BY <1>3, <1>5, ReferenceAssumption
    <3>2. t = [pc |-> "add", most |-> r.most, saw |-> r.saw, ref |-> next]
      BY <1>2, <1>5 DEF Making
    <3> QED
      BY <1>2, <3>1, <3>2 DEF Making
  <2>2. m \notin crossed => \A k \in numbers : k <= r.most
    BY <1>1, <1>2 DEF MakeInv, Beyond
  <2>3. r.most \in Int /\ \A k \in numbers : k \in Int
    BY <1>2 DEF Making, MakeInv
  <2>4. m \notin crossed => \A k \in numbers : k < t.ref
    BY <1>3, <2>1, <2>2, <2>3
  <2>5. given' \in [Process -> SUBSET (1..LastNumber)]
    BY <1>2 DEF MakeInv
  <2> QED
    BY <1>1, <1>2, <1>3, <1>5, <2>1, <2>4, <2>5, MakerStep
<1> QED
  BY <1>1, <1>4, <1>5 DEF LoopSet

LEMMA AddReferenceStep ==
    ASSUME MakeInv, ReferenceHistory, subject = "references", subject' = subject, NEW m \in Maker,
           AddReference(m)
    PROVE  MakeInv'
<1>1. PICK r, p : r = make[m] /\ p = ProcessOf[m]
  OBVIOUS
<1>2. r \in Making /\ r.pc = "add" /\ r.ref \in 1..LastNumber /\ p \in Process
  BY <1>1, ReferenceAssumption DEF AddReference, MakeAt, MakeInv, Making, Process
<1>3. given' \in [Process -> SUBSET (1..LastNumber)]
  <2>1. given' = [given EXCEPT ![p] = given[p] \cup {r.ref}]
    BY <1>1 DEF AddReference
  <2> QED
    BY <1>2, <2>1 DEF MakeInv
<1>4. PICK t : t = [r EXCEPT !.pc = "insert"]
  OBVIOUS
<1>5. t \in Making /\ t.pc = "insert" /\ t.ref = r.ref /\ t.ref # 0
  BY <1>2, <1>4 DEF Making
<1>6. make' = [make EXCEPT ![m] = t] /\ UNCHANGED numbers
  BY <1>1, <1>4 DEF AddReference
<1>7. m \notin crossed => \A k \in numbers : k < r.ref
  BY <1>1, <1>2 DEF MakeInv, Beyond
<1> QED
  BY <1>1, <1>2, <1>3, <1>5, <1>6, <1>7, MakerStep

LEMMA InsertRowStep ==
    ASSUME MakeInv, ReferenceHistory, subject = "references", subject' = subject, NEW m \in Maker,
           InsertRow(m)
    PROVE  MakeInv'
<1>1. PICK r : r = make[m]
  OBVIOUS
<1>2. r \in Making /\ r.pc = "insert" /\ r.ref # 0 /\ UNCHANGED <<numbers, given>>
  BY <1>1 DEF InsertRow, MakeAt, MakeInv
<1>3. CASE MakeEnds(m)
  BY <1>2, <1>3, MakeEndsStep
<1>4. ASSUME NEW t, t = [r EXCEPT !.pc = "commit"], make' = [make EXCEPT ![m] = t]
      PROVE  MakeInv'
  <2>1. t \in Making /\ t.pc = "commit" /\ t.ref = r.ref
    BY <1>2, <1>4 DEF Making
  <2>2. m \notin crossed => \A k \in numbers : k < r.ref
    BY <1>1, <1>2 DEF MakeInv, Beyond
  <2>3. given' \in [Process -> SUBSET (1..LastNumber)]
    BY <1>2 DEF MakeInv
  <2> QED
    BY <1>1, <1>2, <1>4, <2>1, <2>2, <2>3, MakerStep
<1> QED
  BY <1>1, <1>3, <1>4 DEF InsertRow

\* A commit that adds a number crosses the creations under way.
LEMMA CommitRowStep ==
    ASSUME MakeInv, ReferenceHistory, subject = "references", subject' = subject, NEW m \in Maker,
           CommitRow(m)
    PROVE  MakeInv'
<1>1. PICK r, t : r = make[m] /\ t = NoMake
  OBVIOUS
<1>2. r \in Making /\ r.ref \in 1..LastNumber /\ given' = given /\ numbers' = numbers \cup {r.ref}
  BY <1>1, ReferenceAssumption DEF CommitRow, MakeAt, MakeInv, Making
<1>3. CASE numbers' = numbers
  BY <1>2, <1>3, MakeEndsStep DEF CommitRow
<1>4. CASE numbers' # numbers
  <2>1. t \in Making /\ t.pc = "idle"
    BY <1>1, ReferenceAssumption DEF NoMake, Making
  <2>2. make' = [make EXCEPT ![m] = t]
    BY <1>1 DEF CommitRow, MakeEnds
  <2>3. make' \in [Maker -> Making] /\ make'[m] = t /\ \A o \in Maker \ {m} : make'[o] = make[o]
    BY <2>1, <2>2 DEF MakeInv
  <2>4. \A o \in Maker : o \in crossed' \/ make'[o].pc = "idle"
    BY <1>4 DEF ReferenceHistory
  <2>5. \A o \in Maker : Beyond(o)'
    BY <2>4 DEF Beyond
  <2> QED
    BY <1>2, <2>1, <2>3, <2>5 DEF MakeInv
<1> QED
  BY <1>3, <1>4

LEMMA RestartStep ==
    ASSUME MakeInv, ReferenceHistory, subject = "references", subject' = subject, NEW p \in Process,
           Restart(p)
    PROVE  MakeInv'
<1>1. PICK t : t = NoMake
  OBVIOUS
<1>2. t \in Making /\ t.pc = "idle"
  BY <1>1, ReferenceAssumption DEF NoMake, Making
<1>3. make' = [m \in Maker |-> IF ProcessOf[m] = p THEN t ELSE make[m]] /\ numbers' = numbers
  BY <1>1 DEF Restart
<1>4. given' \in [Process -> SUBSET (1..LastNumber)]
  BY DEF Restart, MakeInv
<1>5. make' \in [Maker -> Making] /\ \A m \in Maker : make'[m] = t \/ make'[m] = make[m]
  BY <1>2, <1>3 DEF MakeInv
<1>6. \A m \in Maker : Beyond(m)'
  <2>1. \A m \in Maker : m \notin crossed' => make'[m].pc = "idle" \/ m \notin crossed
    BY DEF ReferenceHistory
  <2> QED
    BY <1>2, <1>3, <1>5, <2>1 DEF Beyond, MakeInv
<1> QED
  BY <1>2, <1>3, <1>4, <1>5, <1>6 DEF MakeInv

LEMMA NumbersBegin == AInit => MakeInv
<1> SUFFICES ASSUME AInit PROVE MakeInv
  OBVIOUS
<1>1. PICK t : t = NoMake
  OBVIOUS
<1>2. t \in Making /\ t.pc = "idle"
  BY <1>1, ReferenceAssumption DEF NoMake, Making
<1>3. make = [m \in Maker |-> t] /\ numbers = {} /\ given = [p \in Process |-> {}]
  BY <1>1 DEF AInit, ReferencesInit
<1> QED
  BY <1>2, <1>3 DEF MakeInv, Beyond

LEMMA NumbersKept == MakeInv /\ [ANext]_avars => MakeInv'
<1> SUFFICES ASSUME MakeInv, [ANext]_avars PROVE MakeInv'
  OBVIOUS
<1>1. ASSUME subject = "references", subject' = subject, ReferencesNext, ReferenceHistory
      PROVE  MakeInv'
  <2>1. ASSUME NEW m \in Maker, GiveUp(m)
        PROVE  MakeInv'
    BY <1>1, <2>1, MakeEndsStep DEF GiveUp
  <2> QED
    BY <1>1, <2>1, ScanRowsStep, StartLoopStep, LoopSetStep, AddReferenceStep, InsertRowStep,
       CommitRowStep, RestartStep DEF ReferencesNext
<1>2. ASSUME UNCHANGED <<nvars, subject>>, subject # "references" \/ UNCHANGED crossed
      PROVE  MakeInv'
  <2>1. UNCHANGED <<numbers, given, make, subject>>
    BY <1>2 DEF nvars
  <2>2. \A m \in Maker : Beyond(m)'
    BY <1>2, <2>1 DEF MakeInv, Beyond
  <2> QED
    BY <2>1, <2>2 DEF MakeInv
<1> QED
  BY <1>1, <1>2 DEF ANext, avars

-----------------------------------------------------------------------------
(* What requests of the catalogue hold.                                    *)

Pcs == {"idle", "fill", "check", "parent", "fill_parent", "children",
        "again", "fill_again", "flush", "drop", "commit"}
Ops == {"none", "create", "update", "move", "get", "delete", "erase"}
Found == Row \cup {NoRow}

\* A request of the catalogue holds what it found: a row, and perhaps a parent.
Well(t) ==
    /\ t.pc \in Pcs /\ t.op \in Ops /\ t.id \in 0..MaxRows /\ t.key \in Word \cup {NoWord}
    /\ t.par \in 0..MaxRows /\ t.mine \in Copy /\ t.other \in Copy /\ t.put \subseteq Id \X Found
    /\ t.pc \notin {"idle", "drop", "commit"} =>
         \/ t.op = "create" /\ t.id = 0 /\ t.key \in Word /\ t.mine = NoCopy
         \/ t.op \notin {"create", "none"} /\ t.id \in Id /\ t.mine.want \in Row
    /\ t.other = NoCopy \/ (t.other.want \in Row /\ t.par \in Id)
    /\ t.pc = "parent" => t.par \in Id
    /\ t.pc = "fill" => t.other = NoCopy /\ t.op # "create" /\ t.put = {}
    /\ t.pc \in {"children", "again", "fill_again"} => t.op = "delete"

\* The key a request is about to write was free when it looked, and still is
\* when nothing was committed since.
Looked(t) ==
    t.pc \in {"parent", "fill_parent", "flush"} /\ t.op \in {"create", "update"} =>
      t.key \in {NoWord, t.mine.want.key} \/ ~Taken(t)

\* No two rows have the same key.
UniqueKeys == \A i, j \in Present : tbl[i].key = tbl[j].key => i = j

\* What a transaction has written takes no key of another row of its table.
Clean(put) ==
    \A w \in put, i \in Id : w[2] # NoRow /\ i # w[1] => Landed(put)[i].key # w[2].key

\* Two transactions write different rows, and different keys.
Apart(put, other) ==
    \A w \in put, v \in other : w[1] # v[1] /\ (w[2].key # NoWord => w[2].key # v[2].key)

RowsInv ==
    /\ kind \in Kinds /\ made \in 0..MaxRows
    /\ tbl \in [Id -> Found] /\ cached \in [Id -> Found]
    /\ txn = [a \in Author |-> txn[a]]
    /\ \A a \in Author : Formed(txn[a]) /\ Well(txn[a])
    /\ \A a \in Author : subject # "catalogue" => txn[a].pc = "idle"

KeysInv ==
    /\ UniqueKeys
    /\ \A a \in Author : Clean(txn[a].put) /\ (a \in crossed \/ Looked(txn[a]))
    /\ \A a, b \in Author : a # b => Apart(txn[a].put, txn[b].put)

RowOf(key, parent, live) == [key |-> key, parent |-> parent, live |-> live]

LEMMA RowFields ==
    ASSUME NEW k, NEW p, NEW l, NEW r, r = RowOf(k, p, l)
    PROVE  /\ r.key = k /\ r.parent = p /\ r.live = l /\ DOMAIN r = {"key", "parent", "live"}
           /\ r["key"] = k /\ r["parent"] = p /\ r["live"] = l
BY DEF RowOf

LEMMA RowTypes ==
    ASSUME NEW k \in Word, NEW p \in 0..MaxRows, NEW l \in BOOLEAN
    PROVE  RowOf(k, p, l) \in Row
BY Zenon DEF RowOf, Row

LEMMA RowParts ==
    ASSUME NEW r \in Row
    PROVE  r.key \in Word /\ r.parent \in 0..MaxRows /\ r.live \in BOOLEAN /\ r = RowOf(r.key, r.parent, r.live)
<1>1. r.key \in Word /\ r.parent \in 0..MaxRows
  BY DEF Row
<1>2. r.live \in BOOLEAN
  BY Zenon DEF Row
<1>3. r = RowOf(r.key, r.parent, r.live)
  BY DEF Row, RowOf
<1> QED
  BY <1>1, <1>2, <1>3

\* The change of one column leaves the others.
LEMMA OneColumn ==
    ASSUME NEW k, NEW p, NEW l, NEW r, r = RowOf(k, p, l), NEW x, NEW d
    PROVE  /\ d = [r EXCEPT !.key = x] => d = RowOf(x, p, l)
           /\ d = [r EXCEPT !.parent = x] => d = RowOf(k, x, l)
           /\ d = [r EXCEPT !.live = x] => d = RowOf(k, p, x)
BY DEF RowOf

LEMMA NoRowIs == NoRow = RowOf(NoWord, 0, FALSE) /\ NoRow.key = NoWord /\ NoRow.live = FALSE /\ NoRow \notin Row
<1>1. NoRow = RowOf(NoWord, 0, FALSE)
  BY DEF NoRow, RowOf
<1>2. PICK r, no : r = NoRow /\ no = FALSE
  OBVIOUS
<1>3. r = RowOf(NoWord, 0, no)
  BY <1>1, <1>2
<1>4. r.key = NoWord /\ r.live = no
  BY <1>3, RowFields
<1>5. r \notin Row
  BY <1>4, RowParts, CatalogueAssumption
<1> QED
  BY <1>1, <1>2, <1>4, <1>5

\* An UPDATE writes a row, if it finds one.
LEMMA WrittenIs ==
    ASSUME NEW i \in Id, NEW base \in Found, NEW want \in Row, tbl[i] \in Found,
           (base = NoRow) = (tbl[i] = NoRow), NEW r, r = Written(i, base, want)
    PROVE  /\ r \in Row
           /\ r.key = IF base # NoRow /\ want.key = base.key THEN tbl[i].key ELSE want.key
<1>1. CASE base = NoRow
  BY <1>1 DEF Written
<1>2. ASSUME base # NoRow
      PROVE  /\ r \in Row
             /\ r.key = IF want.key = base.key THEN tbl[i].key ELSE want.key
  <2>1. PICK k, p, l : want = RowOf(k, p, l) /\ k \in Word /\ p \in 0..MaxRows /\ l \in BOOLEAN
    BY RowParts
  <2>2. PICK bk, bp, bl : base = RowOf(bk, bp, bl)
    BY <1>2, RowParts DEF Found
  <2>3. PICK tk, tp, tl : tbl[i] = RowOf(tk, tp, tl) /\ tk \in Word /\ tp \in 0..MaxRows /\ tl \in BOOLEAN
    BY <1>2, RowParts DEF Found
  <2>4. PICK row : row = tbl[i]
    OBVIOUS
  <2>5. r = [f \in {"key", "parent", "live"} |-> IF want[f] = base[f] THEN row[f] ELSE want[f]]
    <3>1. r = [f \in DOMAIN want |-> IF want[f] = base[f] THEN row[f] ELSE want[f]]
      BY <1>2, <2>4 DEF Written
    <3>2. DOMAIN want = {"key", "parent", "live"}
      BY <2>1, RowFields
    <3> QED
      BY <3>1, <3>2, Zenon
  <2>6. PICK g : g = RowOf(IF k = bk THEN tk ELSE k, IF p = bp THEN tp ELSE p, IF l = bl THEN tl ELSE l)
    OBVIOUS
  <2>7. r["key"] = (IF k = bk THEN tk ELSE k) /\ r["parent"] = (IF p = bp THEN tp ELSE p)
        /\ r["live"] = (IF l = bl THEN tl ELSE l)
    <3>1. /\ want["key"] = k /\ want["parent"] = p /\ want["live"] = l
          /\ base["key"] = bk /\ base["parent"] = bp /\ base["live"] = bl
          /\ row["key"] = tk /\ row["parent"] = tp /\ row["live"] = tl
      BY <2>1, <2>2, <2>3, <2>4, RowFields
    <3>2. \A f \in {"key", "parent", "live"} : r[f] = IF want[f] = base[f] THEN row[f] ELSE want[f]
      BY <2>5, Zenon
    <3> QED
      BY <3>1, <3>2, Zenon
  <2>8. r = g
    <3>1. g = [f \in {"key", "parent", "live"} |-> g[f]]
      BY <2>6 DEF RowOf
    <3>2. r = [f \in {"key", "parent", "live"} |-> r[f]]
      BY <2>5
    <3>3. \A f \in {"key", "parent", "live"} : r[f] = g[f]
      <4>1. g["key"] = (IF k = bk THEN tk ELSE k) /\ g["parent"] = (IF p = bp THEN tp ELSE p)
            /\ g["live"] = (IF l = bl THEN tl ELSE l)
        BY <2>6, RowFields
      <4> QED
        BY <2>7, <4>1, Zenon
    <3> QED
      BY <3>1, <3>2, <3>3, Zenon
  <2>9. r \in Row
    <3>1. PICK k1, p1, l1 : k1 = (IF k = bk THEN tk ELSE k) /\ p1 = (IF p = bp THEN tp ELSE p)
                            /\ l1 = (IF l = bl THEN tl ELSE l)
      OBVIOUS
    <3>2. k1 \in Word /\ p1 \in 0..MaxRows
      BY <2>1, <2>3, <3>1
    <3>3. l1 \in BOOLEAN
      BY <2>1, <2>3, <3>1, Zenon
    <3> QED
      BY <2>6, <2>8, <3>1, <3>2, <3>3, RowTypes, Zenon
  <2>10. r.key = (IF k = bk THEN tk ELSE k) /\ want.key = k /\ base.key = bk /\ tbl[i].key = tk
    BY <2>1, <2>2, <2>3, <2>6, <2>8, RowFields
  <2> QED
    BY <2>9, <2>10
<1> QED
  BY <1>1, <1>2

-----------------------------------------------------------------------------
(* Steps that commit nothing.                                              *)

\* A request goes on to t, having written nothing that clashes.
LEMMA PutTurn ==
    ASSUME RowsInv, KeysInv, CatalogueHistory, subject = "catalogue", NEW a \in Author,
           NEW t, Formed(t), Well(t), a \in crossed \/ Looked(t), Clean(t.put),
           \A b \in Author \ {a} : Apart(t.put, txn[b].put),
           txn' = [txn EXCEPT ![a] = t], made' \in 0..MaxRows, cached' \in [Id -> Found],
           UNCHANGED <<subject, kind, tbl>>
    PROVE  RowsInv' /\ KeysInv'
<1>1. txn' = [b \in Author |-> txn'[b]] /\ txn'[a] = t /\ \A b \in Author \ {a} : txn'[b] = txn[b]
  BY DEF RowsInv
<1>2. RowsInv'
  BY <1>1 DEF RowsInv, Well, Formed, Copy, Found
<1>3. \A b \in Author : b \in crossed' \/ b \notin crossed \/ txn'[b].pc \in {"idle", "drop", "commit"}
  BY DEF CatalogueHistory
<1>4. \A b \in Author : (b \in crossed \/ Looked(txn[b])) /\ Clean(txn[b].put)
  BY DEF KeysInv
<1>5. ASSUME NEW r, NEW b \in Author, r = txn'[b]
      PROVE  /\ Looked(r) => Looked(txn[b])'
             /\ r.pc \in {"idle", "drop", "commit"} => Looked(txn[b])'
             /\ Clean(r.put) => Clean(txn[b].put)'
    BY <1>5 DEF Looked, Taken, Live, Clean, Landed
<1>6. \A b \in Author : (b \in crossed \/ Looked(txn[b]))'
  <2>1. \A b \in Author : b \in crossed \/ Looked(txn[b])'
    BY <1>1, <1>4, <1>5
  <2> QED
    BY <1>3, <1>5, <2>1
<1>7. \A b \in Author : Clean(txn[b].put)'
  BY <1>1, <1>4, <1>5
<1>8. UniqueKeys'
  BY DEF KeysInv, UniqueKeys, Present
<1>9. \A b, c \in Author : b # c => Apart(txn'[b].put, txn'[c].put)
  <2>1. \A b, c \in Author : b # c => Apart(txn[b].put, txn[c].put)
    BY DEF KeysInv
  <2>2. \A S, T : Apart(S, T) => Apart(T, S)
    BY DEF Apart
  <2> QED
    BY <1>1, <2>1, <2>2
<1> QED
  BY <1>2, <1>6, <1>7, <1>8, <1>9 DEF KeysInv

\* A request goes on to t, with what it has written before, if anything.
LEMMA CatalogueTurn ==
    ASSUME RowsInv, KeysInv, CatalogueHistory, subject = "catalogue", NEW a \in Author,
           NEW t, Formed(t), Well(t), t.put = {} \/ t.put = txn[a].put, a \in crossed \/ Looked(t),
           txn' = [txn EXCEPT ![a] = t], made' \in 0..MaxRows, cached' \in [Id -> Found],
           UNCHANGED <<subject, kind, tbl>>
    PROVE  RowsInv' /\ KeysInv'
<1>1. Clean({}) /\ \A S : Apart({}, S)
  BY DEF Clean, Apart
<1>2. Clean(txn[a].put) /\ \A b \in Author \ {a} : Apart(txn[a].put, txn[b].put)
  BY DEF KeysInv
<1>3. Clean(t.put) /\ \A b \in Author \ {a} : Apart(t.put, txn[b].put)
  BY <1>1, <1>2
<1> QED
  BY <1>3, PutTurn

LEMMA NoTxnWell == Formed(NoTxn) /\ Well(NoTxn) /\ NoTxn.put = {} /\ Looked(NoTxn)
<1>1. PICK t, c : t = NoTxn /\ c = NoCopy
  OBVIOUS
<1>2. t = Txn("idle", "none", 0, NoWord, 0, c, c, {})
  BY <1>1 DEF NoTxn, Txn
<1>3. /\ Formed(t) /\ t.pc = "idle" /\ t.op = "none" /\ t.id = 0 /\ t.key = NoWord /\ t.par = 0
      /\ t.mine = c /\ t.other = c /\ t.put = {}
  BY <1>2, TxnFields
<1>4. c \in Copy
  BY <1>1 DEF NoCopy, Copy
<1>5. 0 \in 0..MaxRows
  BY CatalogueAssumption
<1>6. Well(t)
  BY <1>1, <1>3, <1>4, <1>5 DEF Well, Pcs, Ops
<1>7. Looked(t)
  BY <1>3 DEF Looked
<1> QED
  BY <1>1, <1>3, <1>6, <1>7

LEMMA TxnEndsTurn ==
    ASSUME RowsInv, KeysInv, CatalogueHistory, subject = "catalogue", NEW a \in Author, TxnEnds(a),
           made' \in 0..MaxRows, UNCHANGED <<subject, kind, tbl, cached>>
    PROVE  RowsInv' /\ KeysInv'
<1>1. PICK t : t = NoTxn
  OBVIOUS
<1>2. txn' = [txn EXCEPT ![a] = t] /\ cached' \in [Id -> Found]
  BY <1>1 DEF TxnEnds, Becomes, RowsInv
<1> QED
  BY <1>1, <1>2, NoTxnWell, CatalogueTurn

\* What a request that looks for a row has in hand.
Asking(t) ==
    /\ Formed(t) /\ t.op \in Ops \ {"create", "none"} /\ t.id \in Id /\ t.key \in Word \cup {NoWord}
    /\ t.par \in 0..MaxRows /\ t.mine \in Copy /\ t.other = NoCopy /\ t.put = {}

LEMMA IdIs == Id \subseteq 0..MaxRows /\ 0 \notin Id /\ \A n \in 0..MaxRows : n # 0 => n \in Id
BY CatalogueAssumption DEF Id

LEMMA NoCopyIs == NoCopy \in Copy /\ NoCopy.base = NoRow /\ NoCopy.want = NoRow
BY DEF NoCopy, Copy

LEMMA GoesWell ==
    ASSUME NEW t, Asking(t), t.mine.want \in Row, NEW d, d = Goes(t)
    PROVE  Formed(d) /\ Well(d) /\ d.put = {} /\ Looked(d)
<1>1. CASE d = NoTxn
  BY <1>1, NoTxnWell
<1>2. ASSUME NEW pc \in {"check", "parent", "children", "again", "flush"}, d = [t EXCEPT !.pc = pc],
             pc = "parent" => t.par # 0, pc \in {"children", "again"} => t.op = "delete",
             pc = "flush" /\ t.op = "update" => t.key \in {NoWord, t.mine.want.key},
             pc = "parent" => t.op = "move"
      PROVE  Formed(d) /\ Well(d) /\ d.put = {} /\ Looked(d)
  <2>0. d = [t EXCEPT !.pc = pc] /\ Formed(t)
    BY <1>2 DEF Asking
  <2>1. /\ Formed(d) /\ d.pc = pc /\ d.op = t.op /\ d.id = t.id /\ d.key = t.key
        /\ d.par = t.par /\ d.mine = t.mine /\ d.other = t.other /\ d.put = t.put
    BY <2>0, OneChange
  <2>2. Looked(d)
    BY <1>2, <2>1 DEF Looked, Asking, Ops
  <2>3. pc \in Pcs /\ d.id \in 0..MaxRows /\ (pc = "parent" => d.par \in Id)
    BY <1>2, <2>1, IdIs DEF Asking, Pcs
  <2>4. Well(d)
    BY <1>2, <2>1, <2>3, NoCopyIs DEF Well, Asking
  <2> QED
    BY <2>1, <2>2, <2>4 DEF Asking
<1>3. \/ d = NoTxn
      \/ \E pc \in {"check", "parent", "children", "again", "flush"} :
           /\ d = [t EXCEPT !.pc = pc]
           /\ pc = "parent" => t.par # 0 /\ t.op = "move"
           /\ pc \in {"children", "again"} => t.op = "delete"
           /\ pc = "flush" /\ t.op = "update" => t.key \in {NoWord, t.mine.want.key}
  BY DEF Goes
<1> QED
  BY <1>1, <1>2, <1>3

LEMMA FindTurn ==
    ASSUME RowsInv, KeysInv, CatalogueHistory, subject = "catalogue", UNCHANGED subject, NEW a \in Author,
           NEW op \in Ops \ {"create", "none"}, NEW i \in 1..made, NEW k \in Word \cup {NoWord},
           NEW p \in 0..made, Find(a, Request(op, i, k, p))
    PROVE  RowsInv' /\ KeysInv'
<1>1. PICK t : t = Request(op, i, k, p)
  OBVIOUS
<1>2. Formed(t) /\ t.id = i /\ t.par = p /\ t.put = {} /\ t.op = op /\ t.key = k /\ t.other = NoCopy
  <2>1. t.other = NoCopy
    BY <1>1 DEF Request, NoTxn
  <2> QED
    BY <1>1, <2>1, RequestIs
<1>3. i \in Id /\ p \in 0..MaxRows
  BY CatalogueAssumption DEF RowsInv, Id
<1>4. UNCHANGED <<kind, tbl, made>> /\ cached' \in [Id -> Found] /\ made' \in 0..MaxRows
  BY DEF Find, RowsInv
<1>5. tbl[i] \in Found /\ cached[i] \in Found
  BY <1>3 DEF RowsInv
<1>6. ASSUME NEW m \in Copy, m.want \in Row, NEW e, e = [t EXCEPT !.mine = m],
             txn' = [txn EXCEPT ![a] = Goes(e)]
      PROVE  RowsInv' /\ KeysInv'
  <2>1. Asking(e) /\ e.mine = m
    BY <1>2, <1>3, <1>6, OneChange DEF Asking
  <2>2. PICK d : d = Goes(e)
    OBVIOUS
  <2>3. Formed(d) /\ Well(d) /\ d.put = {} /\ Looked(d)
    BY <1>6, <2>1, <2>2, GoesWell
  <2> QED
    BY <1>4, <1>6, <2>2, <2>3, CatalogueTurn
<1>7. ASSUME NEW m \in Copy, m.want \in Row, txn' = [txn EXCEPT ![a] = [t EXCEPT !.pc = "fill", !.mine = m]]
      PROVE  RowsInv' /\ KeysInv'
  <2>1. PICK fill : fill = "fill"
    OBVIOUS
  <2>2. PICK d : d = [t EXCEPT !.pc = fill]
    OBVIOUS
  <2>3. PICK e : e = [d EXCEPT !.mine = m]
    OBVIOUS
  <2>4. /\ Formed(d) /\ d.id = i /\ d.par = p /\ d.put = {} /\ d.op = op /\ d.pc = fill
        /\ d.key = k /\ d.other = NoCopy
    BY <1>2, <2>2, OneChange
  <2>5. /\ Formed(e) /\ e.id = i /\ e.par = p /\ e.put = {} /\ e.op = op /\ e.pc = fill
        /\ e.key = k /\ e.other = NoCopy /\ e.mine = m
    BY <2>3, <2>4, OneChange
  <2>6. Looked(e)
    BY <2>1, <2>5 DEF Looked
  <2>7. Well(e)
    BY <1>3, <1>7, <2>1, <2>5, IdIs, NoCopyIs DEF Well, Pcs
  <2>8. txn' = [txn EXCEPT ![a] = e]
    BY <1>7, <2>1, <2>2, <2>3
  <2> QED
    BY <1>4, <2>5, <2>6, <2>7, <2>8, CatalogueTurn
<1>8. CASE cached[i] # NoRow
  <2>1. PICK m : m = [base |-> tbl[i], want |-> cached[i]]
    OBVIOUS
  <2>2. m \in Copy /\ m.want \in Row
    BY <1>5, <1>8, <2>1 DEF Copy, Found
  <2>3. PICK e : e = [t EXCEPT !.mine = m]
    OBVIOUS
  <2>4. txn' = [txn EXCEPT ![a] = Goes(e)]
    BY <1>1, <1>2, <1>8, <2>1, <2>3 DEF Find, Becomes
  <2> QED
    BY <1>6, <2>2, <2>3, <2>4
<1>9. CASE cached[i] = NoRow
  <2>1. PICK m : m = Loaded(tbl[i])
    OBVIOUS
  <2>2. tbl[i] # NoRow
    <3>1. i \in Visible(t)
      BY <1>1, <1>2, <1>9 DEF Find
    <3> QED
      BY <3>1, NoRowIs DEF Visible, Present, Live
  <2>3. m \in Copy /\ m.want \in Row
    BY <1>5, <2>1, <2>2 DEF Copy, Found, Loaded
  <2>4. txn' = [txn EXCEPT ![a] = [t EXCEPT !.pc = "fill", !.mine = m]]
    BY <1>1, <1>2, <1>9, <2>1 DEF Find, Becomes
  <2> QED
    BY <1>7, <2>3, <2>4
<1> QED
  BY <1>8, <1>9

-----------------------------------------------------------------------------
(* The checks of a handler.                                                *)

\* Well of a request between two of its steps.
Holds(t) ==
    /\ Formed(t) /\ t.op \in Ops /\ t.id \in 0..MaxRows /\ t.key \in Word \cup {NoWord}
    /\ t.par \in 0..MaxRows /\ t.mine \in Copy /\ t.other \in Copy /\ t.put \subseteq Id \X Found
    /\ \/ t.op = "create" /\ t.id = 0 /\ t.key \in Word /\ t.mine = NoCopy
       \/ t.op \notin {"create", "none"} /\ t.id \in Id /\ t.mine.want \in Row
    /\ t.other = NoCopy \/ (t.other.want \in Row /\ t.par \in Id)

LEMMA TxnHolds ==
    ASSUME RowsInv, NEW a \in Author, txn[a].pc \notin {"idle", "drop", "commit"}
    PROVE  Holds(txn[a])
BY DEF RowsInv, Well, Holds

\* It comes to another place.
LEMMA HoldsWell ==
    ASSUME NEW t, Holds(t), NEW pc \in Pcs \ {"idle", "fill"}, NEW d, d = [t EXCEPT !.pc = pc],
           pc = "parent" => t.par # 0, pc \in {"children", "again", "fill_again"} => t.op = "delete",
           pc \in {"parent", "fill_parent", "flush"} /\ t.op \in {"create", "update"} =>
             t.key \in {NoWord, t.mine.want.key} \/ ~Taken(t)
    PROVE  Formed(d) /\ Well(d) /\ d.put = t.put /\ Looked(d)
<1>0. Formed(t) /\ d = [t EXCEPT !.pc = pc]
  BY DEF Holds
<1>1. /\ Formed(d) /\ d.pc = pc /\ d.op = t.op /\ d.id = t.id /\ d.key = t.key
      /\ d.par = t.par /\ d.mine = t.mine /\ d.other = t.other /\ d.put = t.put
  BY <1>0, OneChange
<1>2. Taken(d) = Taken(t)
  BY <1>1 DEF Taken
<1>3. Looked(d)
  BY <1>1, <1>2 DEF Looked
<1>4. pc = "parent" => d.par \in Id
  BY <1>1, IdIs DEF Holds
<1>5. Well(d)
  BY <1>1, <1>4 DEF Holds, Well
<1> QED
  BY <1>1, <1>3, <1>5

\* A request that has looked up its key and its parent only goes on.
LEMMA GoesOnTurn ==
    ASSUME RowsInv, KeysInv, CatalogueHistory, subject = "catalogue", NEW a \in Author,
           txn[a].pc \notin {"idle", "drop", "commit"}, NEW pc \in Pcs \ {"idle", "fill", "parent"},
           pc \in {"again", "children", "fill_again"} => txn[a].op = "delete",
           txn[a].op \in {"create", "update"} => txn[a].pc \in {"parent", "fill_parent", "flush"},
           TxnTo(a, pc), cached' \in [Id -> Found], UNCHANGED <<subject, kind, tbl, made>>
    PROVE  RowsInv' /\ KeysInv'
<1>1. PICK t : t = txn[a]
  OBVIOUS
<1>2. PICK d : d = [t EXCEPT !.pc = pc]
  OBVIOUS
<1>3. Holds(t)
  BY <1>1, TxnHolds
<1>4. CASE a \notin crossed
  <2>1. t.op \in {"create", "update"} => t.key \in {NoWord, t.mine.want.key} \/ ~Taken(t)
    BY <1>1, <1>4 DEF KeysInv, Looked
  <2>2. Formed(d) /\ Well(d) /\ d.put = t.put /\ Looked(d)
    BY <1>1, <1>2, <1>3, <2>1, HoldsWell
  <2> QED
    BY <1>1, <1>2, <2>2, CatalogueTurn DEF TxnTo, Becomes, RowsInv
<1>5. CASE a \in crossed
  <2>0. Formed(t) /\ d = [t EXCEPT !.pc = pc]
    BY <1>2, <1>3 DEF Holds
  <2>1. /\ Formed(d) /\ d.pc = pc /\ d.op = t.op /\ d.id = t.id /\ d.key = t.key
        /\ d.par = t.par /\ d.mine = t.mine /\ d.other = t.other /\ d.put = t.put
    BY <2>0, OneChange
  <2>2. Well(d)
    BY <1>1, <1>3, <2>1 DEF Holds, Well
  <2> QED
    BY <1>1, <1>2, <1>5, <2>1, <2>2, CatalogueTurn DEF TxnTo, Becomes, RowsInv
<1> QED
  BY <1>4, <1>5

LEMMA KeyTurn ==
    ASSUME RowsInv, KeysInv, CatalogueHistory, subject = "catalogue", UNCHANGED subject, NEW a \in Author,
           NEW t, Holds(t), t.put = {} \/ t.put = txn[a].put, CheckKey(a, t)
    PROVE  RowsInv' /\ KeysInv'
<1>1. UNCHANGED <<kind, tbl, cached, made>> /\ made' \in 0..MaxRows /\ cached' \in [Id -> Found]
  BY DEF CheckKey, RowsInv
<1>2. CASE TxnEnds(a)
  BY <1>1, <1>2, TxnEndsTurn
<1>3. ASSUME ~Taken(t)
      PROVE  RowsInv' /\ KeysInv'
  <2>1. PICK pc : pc = IF t.par = 0 THEN "flush" ELSE "parent"
    OBVIOUS
  <2>2. PICK d : d = [t EXCEPT !.pc = pc]
    OBVIOUS
  <2>3. pc \in Pcs \ {"idle", "fill"} /\ (pc = "parent" => t.par # 0)
        /\ pc \notin {"children", "again", "fill_again"}
    BY <2>1 DEF Pcs
  <2>4. Formed(d) /\ Well(d) /\ d.put = t.put /\ Looked(d)
    BY <1>3, <2>2, <2>3, HoldsWell
  <2>5. txn' = [txn EXCEPT ![a] = d]
    BY <1>3, <2>1, <2>2 DEF CheckKey, Becomes
  <2> QED
    BY <1>1, <2>4, <2>5, CatalogueTurn
<1> QED
  BY <1>2, <1>3 DEF CheckKey, TxnEnds

LEMMA CreateTurn ==
    ASSUME RowsInv, KeysInv, CatalogueHistory, subject = "catalogue", UNCHANGED subject, NEW a \in Author,
           NEW k \in Word, NEW p \in 0..made, Create(a, k, p)
    PROVE  RowsInv' /\ KeysInv'
<1>1. PICK t : t = Request("create", 0, k, p)
  OBVIOUS
<1>2. t.mine = NoCopy /\ t.other = NoCopy
  BY <1>1 DEF Request, NoTxn
<1>3. p \in 0..MaxRows /\ 0 \in 0..MaxRows
  BY CatalogueAssumption DEF RowsInv
<1>4. Holds(t) /\ t.put = {}
  BY <1>1, <1>2, <1>3, RequestIs, NoCopyIs DEF Holds, Ops
<1>5. CheckKey(a, t)
  BY <1>1 DEF Create
<1> QED
  BY <1>4, <1>5, KeyTurn

LEMMA FillTurn ==
    ASSUME RowsInv, KeysInv, CatalogueHistory, subject = "catalogue", UNCHANGED subject, NEW a \in Author,
           Fill(a)
    PROVE  RowsInv' /\ KeysInv'
<1>1. PICK t : t = txn[a]
  OBVIOUS
<1>2. PICK d : d = Goes(t)
  OBVIOUS
<1>3. t.pc = "fill" /\ Holds(t) /\ t.other = NoCopy /\ t.op # "create" /\ t.put = {}
  BY <1>1, TxnHolds DEF Fill, TxnAt, RowsInv, Well
<1>4. Formed(d) /\ Well(d) /\ d.put = {} /\ Looked(d)
  BY <1>2, <1>3, GoesWell DEF Asking, Holds
<1>5. txn' = [txn EXCEPT ![a] = d] /\ UNCHANGED <<kind, tbl, made>> /\ cached' = [cached EXCEPT ![t.id] = t.mine.want]
  BY <1>1, <1>2 DEF Fill, Becomes
<1>6. made' \in 0..MaxRows /\ cached' \in [Id -> Found]
  BY <1>3, <1>5 DEF RowsInv, Holds, Copy, Found
<1> QED
  BY <1>4, <1>5, <1>6, CatalogueTurn

LEMMA CopyIs ==
    ASSUME NEW r \in Found, NEW s \in Found, NEW x, x = [base |-> r, want |-> s]
    PROVE  x \in Copy /\ x.base = r /\ x.want = s
BY DEF Copy, Found

LEMMA CheckParentTurn ==
    ASSUME RowsInv, KeysInv, CatalogueHistory, subject = "catalogue", UNCHANGED subject, NEW a \in Author,
           CheckParent(a)
    PROVE  RowsInv' /\ KeysInv'
<1>1. UNCHANGED <<kind, tbl, cached, made>> /\ made' \in 0..MaxRows /\ cached' \in [Id -> Found]
  BY DEF CheckParent, RowsInv
<1>2. CASE TxnEnds(a)
  BY <1>1, <1>2, TxnEndsTurn
<1>3. ASSUME ~TxnEnds(a)
      PROVE  RowsInv' /\ KeysInv'
  <2>1. PICK t, p : t = txn[a] /\ p = txn[a].par
    OBVIOUS
  <2>2. t.pc = "parent" /\ Holds(t) /\ p \in Id
    BY <2>1, TxnHolds DEF CheckParent, TxnAt, RowsInv, Well
  <2>3. tbl[p] \in Found /\ cached[p] \in Found
    BY <2>2 DEF RowsInv
  <2>4. \E pc \in {"flush", "fill_parent"}, x \in Copy :
           x.want \in Row /\ txn' = [txn EXCEPT ![a] = [t EXCEPT !.pc = pc, !.other = x]]
    <3>1. CASE cached[p] # NoRow
      <4>1. PICK x : x = [base |-> tbl[p], want |-> cached[p]]
        OBVIOUS
      <4>2. x \in Copy /\ x.want \in Row
        BY <2>3, <3>1, <4>1, CopyIs DEF Found
      <4>3. txn' = [txn EXCEPT ![a] = [t EXCEPT !.pc = "flush", !.other = x]]
        BY <1>3, <2>1, <3>1, <4>1 DEF CheckParent, Becomes
      <4> QED
        BY <4>2, <4>3
    <3>2. CASE cached[p] = NoRow
      <4>1. PICK x : x = Loaded(tbl[p])
        OBVIOUS
      <4>2. p \in Live
        BY <1>3, <2>1, <3>2 DEF CheckParent
      <4>3. tbl[p] # NoRow
        BY <4>2, NoRowIs DEF Live
      <4>4. x \in Copy /\ x.want \in Row
        BY <2>3, <4>1, <4>3, CopyIs DEF Found, Loaded
      <4>5. txn' = [txn EXCEPT ![a] = [t EXCEPT !.pc = "fill_parent", !.other = x]]
        BY <1>3, <2>1, <3>2, <4>1, <4>2 DEF CheckParent, Becomes
      <4> QED
        BY <4>4, <4>5
    <3> QED
      BY <3>1, <3>2
  <2>5. PICK pc \in {"flush", "fill_parent"} : \E x \in Copy :
           x.want \in Row /\ txn' = [txn EXCEPT ![a] = [t EXCEPT !.pc = pc, !.other = x]]
    BY <2>4
  <2>6. PICK x \in Copy : x.want \in Row /\ txn' = [txn EXCEPT ![a] = [t EXCEPT !.pc = pc, !.other = x]]
    BY <2>5
  <2>7. PICK d : d = [t EXCEPT !.pc = pc]
    OBVIOUS
  <2>8. PICK e : e = [d EXCEPT !.other = x]
    OBVIOUS
  <2>9. Formed(t)
    BY <2>2 DEF Holds
  <2>10. /\ Formed(d) /\ d.pc = pc /\ d.op = t.op /\ d.id = t.id /\ d.key = t.key
         /\ d.par = t.par /\ d.mine = t.mine /\ d.other = t.other /\ d.put = t.put
    BY <2>7, <2>9, OneChange
  <2>11. /\ Formed(e) /\ e.pc = pc /\ e.op = t.op /\ e.id = t.id /\ e.key = t.key
         /\ e.par = t.par /\ e.mine = t.mine /\ e.other = x /\ e.put = t.put
    BY <2>8, <2>10, OneChange
  <2>12. Well(e)
    <3>1. pc \in Pcs /\ pc \notin {"idle", "drop", "commit", "fill", "parent", "children", "again", "fill_again"}
      BY <2>5 DEF Pcs
    <3>2. e.other \in Copy /\ e.other.want \in Row /\ e.par \in Id
      BY <2>1, <2>2, <2>6, <2>11
    <3> QED
      BY <2>2, <2>11, <3>1, <3>2 DEF Holds, Well
  <2>13. a \in crossed \/ Looked(e)
    <3>1. Taken(e) = Taken(t)
      BY <2>11 DEF Taken
    <3>2. a \in crossed \/ Looked(t)
      BY <2>1 DEF KeysInv
    <3> QED
      BY <2>2, <2>11, <3>1, <3>2 DEF Looked
  <2>14. txn' = [txn EXCEPT ![a] = e]
    BY <2>6, <2>7, <2>8
  <2> QED
    BY <1>1, <2>1, <2>11, <2>12, <2>13, <2>14, CatalogueTurn
<1> QED
  BY <1>2, <1>3

\* The rest of a handler before its flush.
LEMMA OtherTurns ==
    ASSUME RowsInv, KeysInv, CatalogueHistory, subject = "catalogue", UNCHANGED subject, NEW a \in Author,
           FillParent(a) \/ CheckChildren(a) \/ FindAgain(a) \/ FillAgain(a)
    PROVE  RowsInv' /\ KeysInv'
<1>1. PICK t : t = txn[a]
  OBVIOUS
<1>2. t.pc \in {"fill_parent", "children", "again", "fill_again"} /\ UNCHANGED <<kind, tbl, made>>
  BY <1>1 DEF FillParent, CheckChildren, FindAgain, FillAgain, TxnAt
<1>3. Holds(t) /\ (t.pc \in {"children", "again", "fill_again"} => t.op = "delete")
  BY <1>1, <1>2, TxnHolds DEF RowsInv, Well
<1>4. cached' \in [Id -> Found] /\ made' \in 0..MaxRows
  <2>1. t.mine.want \in Found /\ t.other.want \in Found
    BY <1>3 DEF Holds, Copy, Found
  <2>2. \/ cached' = cached \/ cached' = [cached EXCEPT ![t.id] = t.mine.want]
        \/ cached' = [cached EXCEPT ![t.par] = t.other.want]
    BY <1>1 DEF FillParent, CheckChildren, FindAgain, FillAgain
  <2> QED
    BY <1>2, <2>1, <2>2 DEF RowsInv
<1>5. ASSUME NEW pc \in {"flush", "commit", "again", "fill_again"}, TxnTo(a, pc),
             pc \in {"again", "fill_again"} => t.pc # "fill_parent"
      PROVE  RowsInv' /\ KeysInv'
  <2>1. pc \in Pcs \ {"idle", "fill", "parent"} /\ pc # "children"
    BY <1>5 DEF Pcs
  <2>2. pc \in {"again", "children", "fill_again"} => t.op = "delete"
    BY <1>2, <1>3, <1>5, <2>1
  <2>3. t.op \in {"create", "update"} => t.pc \in {"parent", "fill_parent", "flush"}
    BY <1>2, <1>3
  <2>4. t.pc \notin {"idle", "drop", "commit"}
    BY <1>2
  <2> QED
    BY <1>1, <1>2, <1>4, <1>5, <2>1, <2>2, <2>3, <2>4, GoesOnTurn
<1>6. \/ TxnEnds(a) /\ UNCHANGED cached
      \/ \E pc \in {"flush", "commit", "again", "fill_again"} :
            TxnTo(a, pc) /\ (pc \in {"again", "fill_again"} => t.pc # "fill_parent")
  BY <1>1 DEF FillParent, CheckChildren, FindAgain, FillAgain, TxnAt
<1>7. CASE TxnEnds(a) /\ UNCHANGED cached
  BY <1>2, <1>4, <1>7, TxnEndsTurn
<1> QED
  BY <1>5, <1>6, <1>7

LEMMA DropTurn ==
    ASSUME RowsInv, KeysInv, CatalogueHistory, subject = "catalogue", UNCHANGED subject, NEW a \in Author,
           NEW ok \in BOOLEAN, Drop(a, ok)
    PROVE  RowsInv' /\ KeysInv'
<1>1. PICK t, commit, zero : t = txn[a] /\ commit = "commit" /\ zero = 0
  OBVIOUS
<1>2. PICK d : d = [t EXCEPT !.pc = commit]
  OBVIOUS
<1>3. PICK e : e = [d EXCEPT !.id = zero]
  OBVIOUS
<1>4. Formed(t) /\ Well(t) /\ t.pc = "drop"
  BY <1>1 DEF Drop, TxnAt, RowsInv
<1>5. /\ Formed(d) /\ d.pc = commit /\ d.op = t.op /\ d.id = t.id /\ d.key = t.key
      /\ d.par = t.par /\ d.mine = t.mine /\ d.other = t.other /\ d.put = t.put
  BY <1>2, <1>4, OneChange
<1>6. /\ Formed(e) /\ e.pc = commit /\ e.op = t.op /\ e.id = zero /\ e.key = t.key
      /\ e.par = t.par /\ e.mine = t.mine /\ e.other = t.other /\ e.put = t.put
  BY <1>3, <1>5, OneChange
<1>7. Well(e)
  <2>1. commit \in Pcs /\ commit \in {"idle", "drop", "commit"} /\ zero \in 0..MaxRows
        /\ commit \notin {"parent", "fill", "children", "again", "fill_again"}
    BY <1>1, CatalogueAssumption DEF Pcs
  <2> QED
    BY <1>4, <1>6, <2>1 DEF Well
<1>8. Looked(e)
  BY <1>1, <1>6 DEF Looked
<1>9. txn' = [txn EXCEPT ![a] = e]
  BY <1>1, <1>2, <1>3 DEF Drop, Becomes
<1>10. UNCHANGED <<kind, tbl, made>> /\ made' \in 0..MaxRows /\ cached' \in [Id -> Found]
  <2>1. cached' = cached \/ cached' = [cached EXCEPT ![t.id] = NoRow]
    BY <1>1 DEF Drop
  <2> QED
    BY <2>1 DEF Drop, RowsInv, Found
<1> QED
  BY <1>1, <1>6, <1>7, <1>8, <1>9, <1>10, CatalogueTurn

\* Nothing of the rows and the requests changes, but that an entry may expire.
LEMMA StillTurn ==
    ASSUME RowsInv, KeysInv, UNCHANGED <<subject, kind, tbl, made, txn>>,
           cached' = cached \/ \E i : cached' = [cached EXCEPT ![i] = NoRow],
           CatalogueHistory \/ UNCHANGED crossed \/ subject # "catalogue"
    PROVE  RowsInv' /\ KeysInv'
<1>1. cached' \in [Id -> Found]
  BY DEF RowsInv, Found
<1>2. RowsInv'
  BY <1>1 DEF RowsInv, Well, Formed, Copy, Found
<1>3. ASSUME NEW r, NEW b \in Author, r = txn[b]
      PROVE  (Looked(r) => Looked(txn[b])') /\ (Clean(r.put) => Clean(txn[b].put)')
             /\ (r.pc \in {"idle", "drop", "commit"} => Looked(txn[b])')
    BY <1>3 DEF Looked, Taken, Live, Clean, Landed
<1>4. \A b \in Author : b \in crossed' \/ b \notin crossed \/ txn[b].pc \in {"idle", "drop", "commit"}
  BY DEF CatalogueHistory, RowsInv
<1>5. \A b \in Author : (b \in crossed \/ Looked(txn[b]))'
  BY <1>3, <1>4 DEF KeysInv
<1>6. \A b \in Author : Clean(txn[b].put)'
  BY <1>3 DEF KeysInv
<1>7. UniqueKeys' /\ \A b, c \in Author : b # c => Apart(txn'[b].put, txn'[c].put)
  BY DEF KeysInv, UniqueKeys, Present
<1> QED
  BY <1>2, <1>5, <1>6, <1>7 DEF KeysInv

-----------------------------------------------------------------------------
(* Flush and commit.                                                       *)

LEMMA WantedIs ==
    ASSUME NEW t, Holds(t), t.op # "create", NEW r, r = Wanted(t)
    PROVE  /\ r \in Row
           /\ r.key = IF t.op = "update" /\ t.key # NoWord THEN t.key ELSE t.mine.want.key
<1>1. PICK want : want = t.mine.want
  OBVIOUS
<1>2. PICK k \in Word, p \in 0..MaxRows, l \in BOOLEAN : want = RowOf(k, p, l)
  BY <1>1, RowParts DEF Holds
<1>3. want.key = k
  BY <1>2, RowFields
<1>4. CASE t.op = "update" /\ t.key # NoWord
  <2>1. PICK key \in Word : key = t.key
    BY <1>4 DEF Holds
  <2>2. r = RowOf(key, p, l)
    <3>1. r = [want EXCEPT !.key = key]
      BY <1>1, <1>4, <2>1 DEF Wanted
    <3> QED
      BY <1>2, <3>1, OneColumn
  <2> QED
    BY <1>4, <2>1, <2>2, RowFields, RowTypes
<1>5. CASE t.op = "move"
  <2>1. PICK par \in 0..MaxRows : par = t.par
    BY DEF Holds
  <2>2. r = RowOf(k, par, l)
    <3>1. r = [want EXCEPT !.parent = par]
      BY <1>1, <1>5, <2>1 DEF Wanted
    <3> QED
      BY <1>2, <3>1, OneColumn
  <2> QED
    BY <1>1, <1>3, <1>5, <2>2, RowFields, RowTypes
<1>6. CASE t.op = "delete"
  <2>1. PICK no \in BOOLEAN : no = FALSE
    OBVIOUS
  <2>2. r = RowOf(k, p, no)
    <3>1. r = [want EXCEPT !.live = no]
      BY <1>1, <1>6, <2>1 DEF Wanted
    <3> QED
      BY <1>2, <3>1, OneColumn
  <2> QED
    BY <1>1, <1>3, <1>6, <2>2, RowFields, RowTypes
<1>7. CASE ~(t.op = "update" /\ t.key # NoWord) /\ t.op # "move" /\ t.op # "delete"
  <2>1. r = want
    BY <1>1, <1>7 DEF Wanted
  <2> QED
    BY <1>1, <1>7, <2>1 DEF Holds
<1> QED
  BY <1>4, <1>5, <1>6, <1>7

\* What a flush finds changed are rows.
LEMMA ChangedAre ==
    ASSUME NEW t, Holds(t), NEW c \in Changed(t)
    PROVE  /\ \/ c = <<t.id, t.mine.base, Wanted(t)>> /\ t.op # "create"
              \/ c = <<t.par, t.other.base, t.other.want>>
           /\ c[1] \in Id /\ c[2] \in Found /\ c[3] \in Row
<1>1. c[2] # c[3] /\ (c = <<t.id, t.mine.base, Wanted(t)>> \/ c = <<t.par, t.other.base, t.other.want>>)
  BY DEF Changed
<1>2. CASE c = <<t.par, t.other.base, t.other.want>>
  <2>1. t.other # NoCopy
    BY <1>1, <1>2, NoCopyIs
  <2>2. t.par \in Id /\ t.other.base \in Found /\ t.other.want \in Row
    BY <2>1 DEF Holds, Copy, Found
  <2> QED
    BY <1>2, <2>2
<1>3. CASE c = <<t.id, t.mine.base, Wanted(t)>>
  <2>1. t.op # "create"
    <3>1. t.op = "create" => t.mine.base = NoRow /\ Wanted(t) = NoRow
      BY NoCopyIs DEF Holds, Wanted
    <3> QED
      BY <1>1, <1>3, <3>1
  <2>2. PICK r : r = Wanted(t)
    OBVIOUS
  <2>3. t.id \in Id /\ t.mine.base \in Found /\ r \in Row
    BY <2>1, <2>2, WantedIs DEF Holds, Copy, Found
  <2> QED
    BY <1>3, <2>1, <2>2, <2>3
<1> QED
  BY <1>1, <1>2, <1>3

LEMMA WritesAre ==
    ASSUME RowsInv, NEW a \in Author, txn[a].pc = "flush", ~RowClash(a),
           txn[a].op = "create" => NewId <= MaxRows, NEW w \in Writes(a)
    PROVE  w \in Id \X Found
<1>1. PICK t : t = txn[a]
  OBVIOUS
<1>2. Holds(t)
  BY <1>1, TxnHolds
<1>3. CASE t.op = "erase"
  <2>1. w = <<t.id, NoRow>>
    BY <1>1, <1>3 DEF Writes
  <2> QED
    BY <1>2, <1>3, <2>1 DEF Holds, Found
<1>4. ASSUME NEW c \in Changed(t), t.op # "erase", w = <<c[1], Written(c[1], c[2], c[3])>>
      PROVE  w \in Id \X Found
  <2>1. c[1] \in Id /\ c[2] \in Found /\ c[3] \in Row
    BY <1>2, <1>4, ChangedAre
  <2>2. (c[2] = NoRow) = (tbl[c[1]] = NoRow)
    BY <1>1, <1>4 DEF RowClash
  <2>3. PICK i, base, want : i = c[1] /\ base = c[2] /\ want = c[3]
    OBVIOUS
  <2>4. PICK r : r = Written(i, base, want)
    OBVIOUS
  <2>5. i \in Id /\ base \in Found /\ want \in Row /\ tbl[i] \in Found /\ (base = NoRow) = (tbl[i] = NoRow)
    BY <2>1, <2>2, <2>3 DEF RowsInv
  <2>6. r \in Row
    BY <2>4, <2>5, WrittenIs
  <2>7. w = <<i, r>>
    BY <1>4, <2>3, <2>4
  <2> QED
    BY <2>5, <2>6, <2>7 DEF Found
<1>5. CASE t.op = "create" /\ w = <<NewId, [key |-> t.key, parent |-> t.par, live |-> TRUE]>>
  <2>1. NewId \in Id
    BY <1>1, <1>5, CatalogueAssumption DEF RowsInv, Id, NewId
  <2>2. PICK k, p, yes : k = t.key /\ p = t.par /\ yes = TRUE /\ yes \in BOOLEAN
    BY Zenon
  <2>3. k \in Word /\ p \in 0..MaxRows
    BY <1>2, <1>5, <2>2 DEF Holds
  <2>4. w = <<NewId, RowOf(k, p, yes)>>
    BY <1>5, <2>2 DEF RowOf
  <2>5. RowOf(k, p, yes) \in Row
    BY <2>2, <2>3, RowTypes, Zenon
  <2> QED
    BY <2>1, <2>4, <2>5 DEF Found
<1> QED
  BY <1>1, <1>3, <1>4, <1>5 DEF Writes

LEMMA FlushedWell ==
    ASSUME NEW put, put \subseteq Id \X Found, NEW pc \in {"drop", "commit"}, NEW i \in 0..MaxRows,
           NEW t, t = Flushed(put, pc, i)
    PROVE  Formed(t) /\ Well(t) /\ Looked(t) /\ t.put = put
<1>1. PICK c : c = NoCopy
  OBVIOUS
<1>2. t = Txn(pc, "none", i, NoWord, 0, c, c, put)
  BY <1>1 DEF Flushed, NoTxn, Txn
<1>3. /\ Formed(t) /\ t.pc = pc /\ t.op = "none" /\ t.id = i /\ t.key = NoWord /\ t.par = 0
      /\ t.mine = c /\ t.other = c /\ t.put = put
  BY <1>2, TxnFields
<1>4. c \in Copy /\ 0 \in 0..MaxRows /\ pc \in Pcs
  BY <1>1, NoCopyIs, CatalogueAssumption DEF Pcs
<1>5. Well(t)
  BY <1>1, <1>3, <1>4 DEF Well, Ops
<1>6. Looked(t)
  BY <1>3 DEF Looked
<1> QED
  BY <1>3, <1>5, <1>6

LEMMA FlushTurn ==
    ASSUME RowsInv, KeysInv, CatalogueHistory, subject = "catalogue", UNCHANGED subject, NEW a \in Author,
           Flush(a)
    PROVE  RowsInv' /\ KeysInv'
<1>1. /\ txn[a].pc = "flush" /\ ~Blocked(a) /\ UNCHANGED <<kind, tbl, cached>>
      /\ txn[a].op = "create" => NewId <= MaxRows
  BY DEF Flush, TxnAt
<1>2. made' \in 0..MaxRows /\ cached' \in [Id -> Found]
  <2>1. made' = IF txn[a].op = "create" THEN NewId ELSE made
    BY DEF Flush
  <2> QED
    BY <1>1, <2>1, CatalogueAssumption DEF RowsInv, NewId
<1>3. CASE TxnEnds(a)
  BY <1>1, <1>2, <1>3, TxnEndsTurn
<1>4. ASSUME ~TxnEnds(a)
      PROVE  RowsInv' /\ KeysInv'
  <2>1. PICK put : put = Writes(a)
    OBVIOUS
  <2>2. PICK pc : pc = IF Invalidates(txn[a].op) THEN "drop" ELSE "commit"
    OBVIOUS
  <2>3. PICK i : i = IF Invalidates(txn[a].op) THEN txn[a].id ELSE 0
    OBVIOUS
  <2>4. PICK t : t = Flushed(put, pc, i)
    OBVIOUS
  <2>5. ~KeyClash(a) /\ ~RowClash(a) /\ txn' = [txn EXCEPT ![a] = t]
    BY <1>4, <2>1, <2>2, <2>3, <2>4 DEF Flush, Becomes, Flushed
  <2>6. put \subseteq Id \X Found
    BY <1>1, <2>1, <2>5, WritesAre
  <2>7. pc \in {"drop", "commit"} /\ i \in 0..MaxRows
    BY <2>2, <2>3, CatalogueAssumption DEF RowsInv, Well
  <2>8. Formed(t) /\ Well(t) /\ Looked(t) /\ t.put = put
    BY <2>4, <2>6, <2>7, FlushedWell
  <2>9. Clean(put)
    BY <2>1, <2>5 DEF KeyClash, Rivals, Clean
  <2>10. \A b \in Author \ {a} : Apart(put, txn[b].put)
    BY <1>1, <2>1 DEF Blocked, Apart
  <2> QED
    BY <1>1, <1>2, <2>5, <2>8, <2>9, <2>10, PutTurn
<1> QED
  BY <1>3, <1>4

\* The table T with these writes in it.
LandedIn(T, writes) ==
    [i \in Id |-> IF \E w \in writes : w[1] = i THEN (CHOOSE w \in writes : w[1] = i)[2] ELSE T[i]]

LEMMA LandedIs ==
    ASSUME NEW T, NEW put, NEW i \in Id
    PROVE  \/ \E w \in put : w[1] = i /\ LandedIn(T, put)[i] = w[2]
           \/ (\A w \in put : w[1] # i) /\ LandedIn(T, put)[i] = T[i]
<1>1. CASE \E w \in put : w[1] = i
  <2>1. PICK c : c = CHOOSE w \in put : w[1] = i
    OBVIOUS
  <2>2. c \in put /\ c[1] = i
    BY <1>1, <2>1
  <2>3. LandedIn(T, put)[i] = c[2]
    BY <1>1, <2>1 DEF LandedIn
  <2> QED
    BY <2>2, <2>3
<1>2. CASE ~\E w \in put : w[1] = i
  BY <1>2 DEF LandedIn
<1> QED
  BY <1>1, <1>2

LEMMA LandsThere ==
    ASSUME NEW T, NEW U, NEW put, NEW i \in Id, NEW w \in put, w[1] = i
    PROVE  LandedIn(T, put)[i] = LandedIn(U, put)[i]
BY DEF LandedIn

LEMMA FoundKey ==
    ASSUME NEW r \in Found
    PROVE  r # NoRow => r.key \in Word /\ r.key # NoWord
BY RowParts, CatalogueAssumption DEF Found

LEMMA CommitTurn ==
    ASSUME RowsInv, KeysInv, CatalogueHistory, subject = "catalogue", UNCHANGED subject, NEW a \in Author,
           CommitTxn(a)
    PROVE  RowsInv' /\ KeysInv'
<1>1. PICK t, put, T : t = NoTxn /\ put = txn[a].put /\ T = tbl'
  OBVIOUS
<1>2. /\ T = LandedIn(tbl, put) /\ UNCHANGED <<kind, cached, made>>
      /\ txn' = [b \in Author |-> txn'[b]] /\ txn'[a] = t /\ \A b \in Author \ {a} : txn'[b] = txn[b]
  BY <1>1 DEF CommitTxn, TxnEnds, Becomes, Landed, LandedIn, RowsInv
<1>3. put \subseteq Id \X Found /\ tbl \in [Id -> Found] /\ Clean(put)
  BY <1>1 DEF RowsInv, KeysInv, Well
<1>4. Formed(t) /\ Well(t) /\ t.put = {} /\ t.pc = "idle"
  BY <1>1, NoTxnWell, NoTxnIs
<1>5. \A i \in Id : \/ \E w \in put : w[1] = i /\ T[i] = w[2]
                    \/ (\A w \in put : w[1] # i) /\ T[i] = tbl[i]
  BY <1>2, LandedIs
<1>6. T \in [Id -> Found]
  <2>1. T = [i \in Id |-> T[i]]
    BY <1>2 DEF LandedIn
  <2>2. \A i \in Id : T[i] \in Found
    BY <1>3, <1>5
  <2> QED
    BY <2>1, <2>2
<1>7. RowsInv'
  <2>1. tbl' \in [Id -> Found] /\ cached' \in [Id -> Found]
    BY <1>1, <1>2, <1>6 DEF RowsInv, Found
  <2>2. \A b \in Author : Formed(txn'[b]) /\ Well(txn'[b])
    BY <1>2, <1>4 DEF RowsInv
  <2> QED
    BY <1>2, <2>1, <2>2 DEF RowsInv, Well, Formed, Copy, Found
<1>8. \A w \in put, i \in Id : w[2] # NoRow /\ i # w[1] => T[i].key # w[2].key
  BY <1>2, <1>3 DEF Clean, Landed, LandedIn
<1>9. \A i, j \in Id : T[i] # NoRow /\ T[j] # NoRow /\ T[i].key = T[j].key => i = j
  <2>1. SUFFICES ASSUME NEW i \in Id, NEW j \in Id, T[i] # NoRow, T[j] # NoRow, T[i].key = T[j].key, i # j
                 PROVE  FALSE
    OBVIOUS
  <2>2. T[i] = tbl[i] /\ T[j] = tbl[j]
    BY <1>5, <1>8, <2>1
  <2> QED
    BY <2>1, <2>2 DEF KeysInv, UniqueKeys, Present
<1>10. ASSUME NEW b \in Author \ {a}, NEW P, P = txn[b].put
       PROVE  \A w \in P, i \in Id : w[2] # NoRow /\ i # w[1] => LandedIn(T, P)[i].key # w[2].key
  <2>1. SUFFICES ASSUME NEW w \in P, NEW i \in Id, w[2] # NoRow, i # w[1],
                        LandedIn(T, P)[i].key = w[2].key
                 PROVE  FALSE
    OBVIOUS
  <2>2. LandedIn(tbl, P)[i].key # w[2].key
    <3>1. Clean(P)
      BY <1>10 DEF KeysInv
    <3>2. Landed(P) = LandedIn(tbl, P)
      BY DEF Landed, LandedIn
    <3> QED
      BY <2>1, <3>1, <3>2 DEF Clean
  <2>3. ~\E v \in P : v[1] = i
    BY <2>1, <2>2, LandsThere
  <2>4. LandedIn(T, P)[i] = T[i] /\ LandedIn(tbl, P)[i] = tbl[i]
    BY <2>3 DEF LandedIn
  <2>5. w[2].key # NoWord
    <3>1. w[2] \in Found
      BY <1>10, <2>1 DEF RowsInv, Well
    <3> QED
      BY <2>1, <3>1, FoundKey
  <2>6. Apart(P, put)
    BY <1>1, <1>10 DEF KeysInv
  <2>7. PICK v \in put : v[1] = i /\ T[i] = v[2]
    BY <1>5, <2>1, <2>2, <2>4
  <2> QED
    BY <2>1, <2>4, <2>5, <2>6, <2>7 DEF Apart
<1>11. UniqueKeys'
  BY <1>1, <1>9 DEF UniqueKeys, Present
<1>12. \A b \in Author : Clean(txn[b].put)'
  <2>1. Clean({})'
    BY DEF Clean
  <2>2. ASSUME NEW b \in Author \ {a}
        PROVE  Clean(txn[b].put)'
    <3>1. PICK P : P = txn[b].put
      OBVIOUS
    <3>2. \A w \in P, i \in Id : w[2] # NoRow /\ i # w[1] => LandedIn(T, P)[i].key # w[2].key
      BY <1>10, <2>2, <3>1
    <3>3. txn'[b].put = P
      BY <1>2, <2>2, <3>1
    <3> QED
      BY <1>1, <3>2, <3>3 DEF Clean, Landed, LandedIn
  <2>3. Clean(txn[a].put)'
    BY <1>2, <1>4, <2>1 DEF Clean
  <2> QED
    BY <2>2, <2>3
<1>13. \A b, c \in Author : b # c => Apart(txn'[b].put, txn'[c].put)
  <2>1. \A b, c \in Author : b # c => Apart(txn[b].put, txn[c].put)
    BY DEF KeysInv
  <2>2. \A S : Apart({}, S) /\ Apart(S, {})
    BY DEF Apart
  <2> QED
    BY <1>2, <1>4, <2>1, <2>2
<1>14. \A b \in Author : (b \in crossed \/ Looked(txn[b]))'
  <2>1. \A b \in Author : b \in crossed' \/ (b \notin crossed /\ tbl' = tbl)
                          \/ txn'[b].pc \in {"idle", "drop", "commit"}
    BY DEF CatalogueHistory
  <2>2. ASSUME NEW b \in Author, NEW r, r = txn'[b]
        PROVE  /\ r.pc \in {"idle", "drop", "commit"} => Looked(txn[b])'
               /\ tbl' = tbl /\ Looked(r) => Looked(txn[b])'
    BY <1>2, <2>2 DEF Looked, Taken, Live
  <2>3. Looked(t)
    BY <1>4 DEF Looked
  <2> QED
    BY <1>2, <2>1, <2>2, <2>3 DEF KeysInv
<1> QED
  BY <1>7, <1>11, <1>12, <1>13, <1>14 DEF KeysInv

-----------------------------------------------------------------------------
(* Why a unique constraint strikes.                                        *)

LEMMA CatalogueTurns ==
    ASSUME RowsInv, KeysInv, CatalogueHistory, CatalogueNext, subject = "catalogue", UNCHANGED subject
    PROVE  RowsInv' /\ KeysInv'
<1>0. 0 \in 0..made
  BY CatalogueAssumption DEF RowsInv
<1>1. CASE \E a \in Author, k \in Word, p \in 0..made : Create(a, k, p)
  BY <1>1, CreateTurn
<1>2. ASSUME NEW a \in Author, NEW i \in 1..made,
             \/ \E k \in Word \cup {NoWord} : Update(a, i, k)
             \/ \E p \in 0..made : Move(a, i, p)
             \/ Get(a, i) \/ SoftDelete(a, i) \/ HardDelete(a, i)
      PROVE  RowsInv' /\ KeysInv'
  <2>1. PICK op \in Ops \ {"create", "none"}, k \in Word \cup {NoWord}, p \in 0..made :
           Find(a, Request(op, i, k, p))
    BY <1>0, <1>2 DEF Update, Move, Get, SoftDelete, HardDelete, Ops
  <2> QED
    BY <2>1, FindTurn
<1>3. ASSUME NEW a \in Author, TxnStep(a)
      PROVE  RowsInv' /\ KeysInv'
  <2>1. CASE Fill(a) \/ CheckParent(a) \/ Flush(a) \/ CommitTxn(a)
    BY <2>1, FillTurn, CheckParentTurn, FlushTurn, CommitTurn
  <2>2. CASE FillParent(a) \/ CheckChildren(a) \/ FindAgain(a) \/ FillAgain(a)
    BY <2>2, OtherTurns
  <2>3. CASE TxnAt(a, "check") /\ CheckKey(a, txn[a])
    <3>1. PICK t : t = txn[a]
      OBVIOUS
    <3>2. Holds(t)
      BY <2>3, <3>1, TxnHolds DEF TxnAt
    <3> QED
      BY <2>3, <3>1, <3>2, KeyTurn
  <2>4. CASE Drop(a, TRUE) \/ Drop(a, FALSE)
    <3>1. PICK ok \in BOOLEAN : Drop(a, ok)
      BY <2>4
    <3> QED
      BY <3>1, DropTurn
  <2>5. CASE RollBack(a)
    <3>1. TxnEnds(a) /\ UNCHANGED <<kind, tbl, cached, made>> /\ made' \in 0..MaxRows
      BY <2>5 DEF RollBack, RowsInv
    <3> QED
      BY <3>1, TxnEndsTurn
  <2> QED
    BY <1>3, <2>1, <2>2, <2>3, <2>4, <2>5 DEF TxnStep
<1>4. CASE \E i \in Id : ExpireEntry(i)
  BY <1>4, StillTurn DEF ExpireEntry
<1> QED
  BY <1>1, <1>2, <1>3, <1>4 DEF CatalogueNext

LEMMA KeysBegin == AInit => RowsInv /\ KeysInv
<1> SUFFICES ASSUME AInit PROVE RowsInv /\ KeysInv
  OBVIOUS
<1>1. PICK t, r : t = NoTxn /\ r = NoRow
  OBVIOUS
<1>2. /\ kind \in Kinds /\ made = 0 /\ tbl = [i \in Id |-> r] /\ cached = [i \in Id |-> r]
      /\ txn = [a \in Author |-> t]
  BY <1>1 DEF AInit, CatalogueInit
<1>3. Formed(t) /\ Well(t) /\ t.put = {} /\ t.pc = "idle" /\ Looked(t)
  BY <1>1, NoTxnWell, NoTxnIs
<1>4. RowsInv
  BY <1>1, <1>2, <1>3, CatalogueAssumption DEF RowsInv, Found
<1>5. UniqueKeys
  BY <1>1, <1>2 DEF UniqueKeys, Present
<1>6. \A S : Clean({}) /\ Apart({}, S)
  BY DEF Clean, Apart
<1> QED
  BY <1>2, <1>3, <1>4, <1>5, <1>6 DEF KeysInv

LEMMA KeysKept == RowsInv /\ KeysInv /\ [ANext]_avars => (RowsInv /\ KeysInv)'
<1> SUFFICES ASSUME RowsInv, KeysInv, [ANext]_avars PROVE RowsInv' /\ KeysInv'
  OBVIOUS
<1>1. CASE subject = "catalogue" /\ UNCHANGED subject /\ CatalogueNext /\ CatalogueHistory
  BY <1>1, CatalogueTurns
<1>2. CASE UNCHANGED <<cvars, subject>> /\ (subject # "catalogue" \/ UNCHANGED crossed)
  BY <1>2, StillTurn DEF cvars
<1> QED
  BY <1>1, <1>2 DEF ANext, avars

\* The key an UPDATE writes, whatever became of its row.
LEMMA WrittenKey ==
    ASSUME NEW i, NEW base \in Row, NEW want \in Row, NEW r, r = Written(i, base, want)
    PROVE  r.key = IF want.key = base.key THEN tbl[i].key ELSE want.key
<1>1. base # NoRow
  BY NoRowIs
<1>2. DOMAIN want = {"key", "parent", "live"}
  BY DEF Row
<1>3. r = [f \in DOMAIN want |-> IF want[f] = base[f] THEN tbl[i][f] ELSE want[f]]
  BY <1>1 DEF Written
<1>4. r["key"] = IF want["key"] = base["key"] THEN tbl[i]["key"] ELSE want["key"]
  BY <1>2, <1>3, Zenon
<1> QED
  BY <1>4

\* A row that a lone write takes the key of was there when the request looked.
LEMMA RivalIsNew ==
    ASSUME RowsInv, KeysInv, NEW a \in Author, TxnAt(a, "flush"), ~Stale(a), a \notin crossed,
           NEW i \in Rivals(a), i \in Live
    PROVE  FALSE
<1>1. PICK t : t = txn[a]
  OBVIOUS
<1>2. Holds(t) /\ t.pc = "flush"
  BY <1>1, TxnHolds DEF TxnAt
<1>3. Looked(t) /\ t.mine.base = t.mine.want /\ t.other.base = t.other.want
  BY <1>1 DEF KeysInv, Stale
<1>4. i \in Id /\ tbl[i] # NoRow /\ tbl[i] \in Row /\ tbl[i].key \in Word /\ tbl[i].key # NoWord
  <2>1. i \in Id /\ tbl[i].live
    BY DEF Live
  <2>2. tbl[i] # NoRow
    BY <2>1, NoRowIs
  <2>3. tbl[i] \in Found
    BY <2>1 DEF RowsInv
  <2> QED
    BY <2>1, <2>2, <2>3, FoundKey DEF Found
<1>5. PICK w \in Writes(a) : w[1] # i /\ w[2] # NoRow /\ Landed(Writes(a))[i].key = w[2].key
  BY DEF Rivals
<1>6. ASSUME NEW k, \A v \in Writes(a) : v[1] = k
      PROVE  w[1] = k /\ w[2].key = tbl[i].key
  <2>1. w[1] = k /\ \A v \in Writes(a) : v[1] # i
    BY <1>5, <1>6
  <2>2. Landed(Writes(a))[i] = tbl[i]
    BY <1>4, <2>1 DEF Landed
  <2> QED
    BY <1>5, <2>1, <2>2
<1>7. \A c \in Changed(t) : t.op # "create" /\ c = <<t.id, t.mine.base, Wanted(t)>>
  <2>1. SUFFICES ASSUME NEW c \in Changed(t)
                 PROVE  t.op # "create" /\ c = <<t.id, t.mine.base, Wanted(t)>>
    OBVIOUS
  <2>2. c[2] # c[3]
    BY DEF Changed
  <2> QED
    BY <1>2, <1>3, <2>2, ChangedAre
<1>8. CASE t.op = "erase"
  <2>1. \A v \in Writes(a) : v = <<t.id, NoRow>>
    BY <1>1, <1>8 DEF Writes
  <2> QED
    BY <1>5, <2>1
<1>9. CASE t.op = "create"
  <2>1. PICK n, r : n = NewId /\ r = [key |-> t.key, parent |-> t.par, live |-> TRUE]
    OBVIOUS
  <2>2. w[2].key = t.key /\ t.key = tbl[i].key
    <3>1. r.key = t.key
      BY <2>1
    <3>2. \A v \in Writes(a) : v = <<n, r>>
      BY <1>1, <1>7, <1>9, <2>1 DEF Writes
    <3>3. \A v \in Writes(a) : v[1] = n /\ v[2] = r
      BY <3>2
    <3>4. w[2].key = tbl[i].key
      BY <1>6, <3>3
    <3> QED
      BY <1>5, <3>1, <3>3, <3>4
  <2>3. t.key \notin {NoWord, t.mine.want.key}
    BY <1>2, <1>4, <1>9, <2>2, NoCopyIs, NoRowIs DEF Holds
  <2>4. ~Taken(t)
    BY <1>2, <1>3, <1>9, <2>3 DEF Looked
  <2>5. t.id # i
    BY <1>2, <1>4, <1>9, IdIs DEF Holds
  <2> QED
    BY <2>2, <2>4, <2>5 DEF Taken
<1>10. CASE t.op \notin {"erase", "create"}
  <2>1. PICK want, base : want = Wanted(t) /\ base = t.mine.base
    OBVIOUS
  <2>2. want \in Row /\ base \in Row
        /\ want.key = IF t.op = "update" /\ t.key # NoWord THEN t.key ELSE base.key
    BY <1>2, <1>3, <1>10, <2>1, WantedIs DEF Holds
  <2>3. PICK r : r = Written(t.id, base, want)
    OBVIOUS
  <2>4. \A v \in Writes(a) : v = <<t.id, r>>
    BY <1>1, <1>7, <1>10, <2>1, <2>3 DEF Writes
  <2>5. t.id # i /\ t.id \in Id /\ r.key = tbl[i].key
    <3>1. PICK n : n = t.id
      OBVIOUS
    <3>2. \A v \in Writes(a) : v[1] = n /\ v[2] = r
      BY <2>4, <3>1
    <3>3. w[1] = n /\ w[2].key = tbl[i].key
      BY <1>6, <3>2
    <3>4. t.id \in Id
      BY <1>2, <1>10 DEF Holds
    <3> QED
      BY <1>5, <3>1, <3>2, <3>3, <3>4
  <2>6. r.key = IF want.key = base.key THEN tbl[t.id].key ELSE want.key
    <3>1. base \in Row /\ want \in Row
      BY <2>2
    <3>2. PICK n : n = t.id
      OBVIOUS
    <3>3. r = Written(n, base, want)
      BY <2>3, <3>2
    <3>4. r.key = IF want.key = base.key THEN tbl[n].key ELSE want.key
      BY <3>1, <3>3, WrittenKey
    <3> QED
      BY <3>2, <3>4
  <2>7. CASE want.key = base.key
    <3>1. tbl[t.id].key = tbl[i].key
      BY <2>5, <2>6, <2>7
    <3>2. tbl[t.id] # NoRow
      BY <1>4, <3>1, NoRowIs
    <3> QED
      BY <1>4, <2>5, <3>1, <3>2 DEF KeysInv, UniqueKeys, Present
  <2>8. CASE want.key # base.key
    <3>1. t.op = "update" /\ t.key # NoWord /\ t.key # base.key /\ t.key = tbl[i].key
      BY <2>2, <2>5, <2>6, <2>8
    <3>2. ~Taken(t)
      BY <1>2, <1>3, <2>1, <3>1 DEF Looked
    <3> QED
      BY <2>5, <3>1, <3>2 DEF Taken
  <2> QED
    BY <2>7, <2>8
<1> QED
  BY <1>8, <1>9, <1>10

\* No two rows ever have the same key, committed or about to be, though the
\* checks see active committed rows only: the constraint and the locks of the
\* flushes see to it (the unique indexes of categories, bundles, items and
\* customers).
THEOREM KeysAreUnique == ASpec => []UniqueKeys
<1>1. KeysInv => UniqueKeys
  BY DEF KeysInv
<1> QED
  BY <1>1, KeysBegin, KeysKept, PTL DEF ASpec

\* A unique constraint refuses what the checks let through only because of a
\* commit in between, a deleted row or a stale copy, for any number of rows,
\* keys, numbers and requests (slug_exists, name_exists, email_exists,
\* get_by_bundle_and_product, generate_reference).
THEOREM ClashesAreExplained == ASpec => []ClashesExplained
<1>1. RowsInv /\ KeysInv /\ MakeInv => ClashesExplained
  <2> SUFFICES ASSUME RowsInv, KeysInv, MakeInv PROVE ClashesExplained
    OBVIOUS
  <2>1. \A a \in Author : TxnAt(a, "flush") /\ KeyClash(a) =>
           a \in crossed \/ Stale(a) \/ Rivals(a) \cap Live = {}
    BY RivalIsNew
  <2>2. ASSUME NEW m \in Maker, MakeAt(m, "insert"), Clashes(m), m \notin crossed
        PROVE  FALSE
    <3>1. make[m].pc = "insert" /\ make[m].ref \in numbers
      BY <2>2 DEF MakeAt, Clashes
    <3>2. make[m].ref < make[m].ref
      BY <2>2, <3>1 DEF MakeInv, Beyond
    <3>3. make[m].ref \in Int
      BY DEF MakeInv, Making
    <3> QED
      BY <3>2, <3>3
  <2> QED
    BY <2>1, <2>2 DEF ClashesExplained
<1> QED
  BY <1>1, KeysBegin, KeysKept, NumbersBegin, NumbersKept, PTL DEF ASpec

-----------------------------------------------------------------------------
(* Typing.                                                                 *)

TxnRec == [pc : Pcs, op : Ops, id : 0..MaxRows, key : Word \cup {NoWord}, par : 0..MaxRows,
           mine : Copy, other : Copy, put : SUBSET (Id \X Found)]

LEMMA TxnTyped ==
    ASSUME NEW pc \in Pcs, NEW op \in Ops, NEW id \in 0..MaxRows, NEW key \in Word \cup {NoWord},
           NEW par \in 0..MaxRows, NEW mine \in Copy, NEW other \in Copy,
           NEW put \in SUBSET (Id \X Found), NEW t, t = Txn(pc, op, id, key, par, mine, other, put)
    PROVE  t \in TxnRec
BY Zenon DEF Txn, TxnRec

LEMMA CatalogueTyped == RowsInv => CatalogueTypeOK
<1> SUFFICES ASSUME RowsInv PROVE CatalogueTypeOK
  OBVIOUS
<1>2. \A a \in Author : txn[a] \in TxnRec
  <2>1. ASSUME NEW a \in Author, NEW t, t = txn[a]
        PROVE  t \in TxnRec
    <3>1. Well(t) /\ t = Txn(t.pc, t.op, t.id, t.key, t.par, t.mine, t.other, t.put)
      BY <2>1 DEF RowsInv, Formed
    <3>2. /\ t.pc \in Pcs /\ t.op \in Ops /\ t.id \in 0..MaxRows /\ t.key \in Word \cup {NoWord}
          /\ t.par \in 0..MaxRows /\ t.mine \in Copy /\ t.other \in Copy
          /\ t.put \in SUBSET (Id \X Found)
      BY <3>1 DEF Well
    <3> QED
      BY <3>1, <3>2, TxnTyped
  <2> QED
    BY <2>1
<1>3. txn \in [Author -> TxnRec]
  <2>1. txn = [a \in Author |-> txn[a]]
    BY DEF RowsInv
  <2> QED
    BY <1>2, <2>1, Zenon
<1> QED
  BY <1>3, Zenon DEF RowsInv, CatalogueTypeOK, TxnRec, Pcs, Ops, Found

\* Every variable keeps its type, for any number of rows, requests, servers and
\* routes: no request writes half a row, no number lies beyond the last one.
THEOREM TypeCorrect == ASpec => []TypeOK
<1>1. MakeInv => ReferencesTypeOK
  BY DEF MakeInv, Making, ReferencesTypeOK
<1>2. GInv => GatewayTypeOK
  <2> SUFFICES ASSUME GInv PROVE GatewayTypeOK
    OBVIOUS
  <2>1. call \in [Server -> CallRec]
    BY DEF GInv, CallInv, Sound
  <2> QED
    BY <2>1, Zenon DEF GInv, StoreTypes, GatewayTypeOK, CallRec, Places, Entries, Statuses
<1>3. RowsInv /\ MakeInv /\ GInv => TypeOK
  BY <1>1, <1>2, CatalogueTyped DEF TypeOK
<1> QED
  BY <1>3, KeysBegin, KeysKept, NumbersBegin, NumbersKept, GatewayBegins, GatewayKept, PTL DEF ASpec

-----------------------------------------------------------------------------
(* What a set grows to, level by level.                                    *)

\* A non-empty set of natural numbers has a least one.
LEMMA LeastIs ==
    ASSUME NEW T, T \subseteq Nat, T # {}
    PROVE  \E n \in T : \A k \in T : n <= k
<1>1. PICK x \in T : TRUE
  OBVIOUS
<1> DEFINE D == {k \in T : k <= x}
           upTo(n) == {k \in T : k <= n}
           U == {upTo(n) : n \in D}
<1>2. \A k \in T : k \in Nat
  OBVIOUS
<1>3. IsFiniteSet(D) /\ x \in D
  <2>1. IsFiniteSet(0..x)
    BY <1>2, FS_Interval
  <2>2. ASSUME NEW k \in D
        PROVE  k \in 0..x
    <3>1. k \in Nat /\ x \in Nat /\ k <= x
      BY <1>2
    <3> QED
      BY <3>1
  <2>3. x \in D
    <3>1. x \in Nat
      BY <1>2
    <3> QED
      BY <3>1
  <2>4. D \in SUBSET (0..x)
    BY <2>2
  <2> HIDE DEF D
  <2> QED
    BY <2>1, <2>3, <2>4, FS_Subset
<1>4. U \in SUBSET (SUBSET D) /\ U # {}
  <2>1. ASSUME NEW n \in D, NEW k \in upTo(n)
        PROVE  k \in D
    <3>1. k \in Nat /\ n \in Nat /\ x \in Nat /\ k <= n /\ n <= x
      BY <1>2, <2>1
    <3> QED
      BY <3>1
  <2>2. \A n \in D : upTo(n) \subseteq D
    BY <2>1
  <2> HIDE DEF upTo, D
  <2> QED
    BY <1>3, <2>2
<1>5. PICK n \in T : n <= x /\ \A k \in T : k <= x /\ upTo(k) \subseteq upTo(n) => upTo(k) = upTo(n)
  <2>1. \E s \in U : \A t \in U : t \subseteq s => t = s
    <3> HIDE DEF U, D
    <3>1. IsFiniteSet(D)
      BY <1>3
    <3> QED
      BY ONLY <1>4, <3>1, SmallestSet
  <2>2. PICK n \in D : \A k \in D : upTo(k) \subseteq upTo(n) => upTo(k) = upTo(n)
    <3> HIDE DEF upTo, D
    <3> QED
      BY <2>1
  <2> QED
    BY <2>2
<1>6. ASSUME NEW k \in T, ~(n <= k)
      PROVE  FALSE
  <2>1. \A h \in T : h \in Nat
    OBVIOUS
  <2>2. k <= x /\ k <= n /\ n <= n
    BY <1>5, <1>6, <2>1
  <2>3. \A h \in T : h <= k => h <= n
    BY <2>1, <2>2
  <2>4. upTo(k) \subseteq upTo(n) /\ n \in upTo(n) /\ n \notin upTo(k)
    BY <1>6, <2>2, <2>3
  <2> QED
    BY <1>5, <2>2, <2>4
<1> QED
  BY <1>6

\* g begins with base at m, and takes one step at a time from there to n.
Levels(g, m, n, base, step) == g = [k \in m..n |-> IF k = m THEN base ELSE step[g[k - 1]]]

LEMMA LevelsAt ==
    ASSUME NEW m \in Nat, NEW n \in Nat, m <= n, NEW base, NEW step, NEW g, Levels(g, m, n, base, step)
    PROVE  g[m] = base /\ \A k \in m..n : k # m => k - 1 \in m..n /\ g[k] = step[g[k - 1]]
<1>1. \A k \in m..n : g[k] = IF k = m THEN base ELSE step[g[k - 1]]
  BY DEF Levels
<1>2. m \in m..n /\ \A k \in m..n : k # m => k - 1 \in m..n
  OBVIOUS
<1> QED
  BY <1>1, <1>2

LEMMA LevelsExist ==
    ASSUME NEW m \in Nat, NEW count \in Nat, NEW base, NEW step
    PROVE  \E g : Levels(g, m, m + count, base, step)
<1> DEFINE T == {k \in Nat : ~ \E g : Levels(g, m, m + k, base, step)}
<1>1. ASSUME T # {}
      PROVE  FALSE
  <2>1. PICK k \in T : \A j \in T : k <= j
    <3>1. T \subseteq Nat
      OBVIOUS
    <3> HIDE DEF T
    <3> QED
      BY <1>1, <3>1, LeastIs
  <2>2. CASE k = 0
    <3>1. Levels([i \in m..(m + k) |-> base], m, m + k, base, step)
      BY <2>2 DEF Levels
    <3> QED
      BY <3>1
  <2>3. CASE k # 0
    <3>1. k - 1 \in Nat /\ k - 1 \notin T
      BY <2>1, <2>3
    <3>2. PICK g : Levels(g, m, m + (k - 1), base, step)
      BY <3>1
    <3>3. PICK h : h = [i \in m..(m + k) |-> IF i = m THEN base ELSE step[g[i - 1]]]
      OBVIOUS
    <3>4. ASSUME NEW i \in m..(m + k), i # m
          PROVE  h[i - 1] = g[i - 1]
      <4>1. i - 1 \in m..(m + k) /\ i - 1 \in m..(m + (k - 1))
        BY <3>4, <3>1
      <4>2. g[i - 1] = IF i - 1 = m THEN base ELSE step[g[(i - 1) - 1]]
        BY <3>2, <4>1 DEF Levels
      <4>3. h[i - 1] = IF i - 1 = m THEN base ELSE step[g[(i - 1) - 1]]
        BY <3>3, <4>1
      <4> QED
        BY <4>2, <4>3
    <3>5. h = [i \in m..(m + k) |-> IF i = m THEN base ELSE step[h[i - 1]]]
      BY <3>3, <3>4
    <3> QED
      BY <3>5 DEF Levels
  <2> QED
    BY <2>2, <2>3
<1> QED
  BY <1>1

\* ... among the subsets of S.
Climb(S, g, m, n, base, step) ==
    /\ m \in Nat /\ n \in Nat /\ m <= n /\ Levels(g, m, n, base, step)
    /\ base \in SUBSET S /\ \A X \in SUBSET S : step[X] \in SUBSET S

LEMMA ClimbAt ==
    ASSUME NEW S, NEW m, NEW n, NEW base, NEW step, NEW g, Climb(S, g, m, n, base, step)
    PROVE  g[m] = base /\ m \in m..n /\ \A k \in m..n : k # m => k - 1 \in m..n /\ g[k] = step[g[k - 1]]
<1>1. m \in Nat /\ n \in Nat /\ m <= n /\ Levels(g, m, n, base, step)
  BY DEF Climb
<1>2. m \in m..n
  BY <1>1
<1> QED
  BY <1>1, <1>2, LevelsAt

LEMMA LevelsIn ==
    ASSUME NEW S, NEW m, NEW n, NEW base, NEW step, NEW g, Climb(S, g, m, n, base, step)
    PROVE  \A k \in m..n : g[k] \in SUBSET S
<1>0. m \in Nat /\ n \in Nat /\ base \in SUBSET S /\ \A X \in SUBSET S : step[X] \in SUBSET S
  BY DEF Climb
<1> DEFINE T == {k \in m..n : g[k] \notin SUBSET S}
<1>1. ASSUME T # {}
      PROVE  FALSE
  <2>1. PICK k \in T : \A j \in T : k <= j
    <3>1. T \subseteq Nat
      BY <1>0
    <3> HIDE DEF T
    <3> QED
      BY <1>1, <3>1, LeastIs
  <2>2. k # m
    BY <1>0, <2>1, ClimbAt
  <2>3. k - 1 \in m..n /\ g[k] = step[g[k - 1]]
    BY <2>1, <2>2, ClimbAt
  <2>4. g[k - 1] \in SUBSET S
    BY <2>1, <2>3
  <2> QED
    BY <1>0, <2>1, <2>3, <2>4
<1> QED
  BY <1>1

\* From a base within B, steps that stay within B stay within B.
LEMMA LevelsWithin ==
    ASSUME NEW S, NEW m, NEW n, NEW base, NEW step, NEW g, Climb(S, g, m, n, base, step),
           NEW B \in SUBSET S, base \subseteq B, \A X \in SUBSET B : step[X] \subseteq B
    PROVE  g[n] \subseteq B
<1>0. m \in Nat /\ n \in Nat /\ n \in m..n
  BY DEF Climb
<1> DEFINE T == {k \in m..n : ~(g[k] \subseteq B)}
<1>1. ASSUME T # {}
      PROVE  FALSE
  <2>1. PICK k \in T : \A j \in T : k <= j
    <3>1. T \subseteq Nat
      BY <1>0
    <3> HIDE DEF T
    <3> QED
      BY <1>1, <3>1, LeastIs
  <2>2. k # m
    BY <2>1, ClimbAt
  <2>3. k - 1 \in m..n /\ g[k] = step[g[k - 1]]
    BY <2>1, <2>2, ClimbAt
  <2>4. g[k - 1] \in SUBSET B
    BY <2>1, <2>3
  <2> QED
    BY <2>1, <2>3, <2>4
<1> QED
  BY <1>0, <1>1

\* Steps that only add are over when there have been as many as there are
\* elements.
LEMMA LevelsEnd ==
    ASSUME NEW S, IsFiniteSet(S), NEW m, NEW n, NEW base, NEW step, NEW g,
           Climb(S, g, m, n, base, step), Cardinality(S) <= n - m,
           \A X \in SUBSET S : X \subseteq step[X]
    PROVE  base \subseteq g[n] /\ step[g[n]] = g[n]
<1>0. m \in Nat /\ n \in Nat /\ n \in m..n
  BY DEF Climb
<1>1. \A k \in m..n : g[k] \in SUBSET S /\ IsFiniteSet(g[k]) /\ Cardinality(g[k]) \in Nat
  <2>1. \A k \in m..n : g[k] \in SUBSET S
    BY LevelsIn
  <2> QED
    BY <2>1, FS_Subset, FS_CardinalityType
<1> DEFINE Good(k) == base \subseteq g[k] /\ (step[g[k]] = g[k] \/ Cardinality(g[k]) >= k - m)
           T == {k \in m..n : ~Good(k)}
<1>2. ASSUME T # {}
      PROVE  FALSE
  <2>1. PICK k \in T : \A j \in T : k <= j
    <3>1. T \subseteq Nat
      BY <1>0
    <3> HIDE DEF T
    <3> QED
      BY <1>2, <3>1, LeastIs
  <2>2. k \in m..n /\ ~Good(k)
    BY <2>1
  <2>3. k # m
    <3>1. g[m] = base /\ m \in m..n
      BY ClimbAt
    <3>2. Cardinality(g[m]) >= m - m
      BY <1>0, <1>1, <3>1
    <3> QED
      BY <2>2, <3>1, <3>2
  <2>4. k - 1 \in m..n /\ g[k] = step[g[k - 1]]
    BY <1>0, <2>2, <2>3, ClimbAt
  <2>5. Good(k - 1)
    BY <2>1, <2>4
  <2>6. base \subseteq g[k]
    BY <1>1, <2>4, <2>5
  <2>7. CASE step[g[k - 1]] = g[k - 1]
    BY <2>2, <2>4, <2>5, <2>7
  <2>8. CASE step[g[k - 1]] # g[k - 1]
    <3>1. Cardinality(g[k - 1]) >= (k - 1) - m
      BY <2>5, <2>8
    <3>2. g[k - 1] \subseteq g[k] /\ g[k - 1] # g[k]
      BY <1>1, <2>4, <2>8
    <3>3. PICK c, d : c = Cardinality(g[k - 1]) /\ d = Cardinality(g[k])
      OBVIOUS
    <3>4. c \in Nat /\ d \in Nat /\ c <= d /\ c # d
      BY <1>1, <2>2, <2>4, <3>2, <3>3, FS_Subset
    <3>5. d >= k - m
      BY <1>0, <2>2, <3>1, <3>3, <3>4
    <3> QED
      BY <2>2, <2>6, <3>3, <3>5
  <2> QED
    BY <2>7, <2>8
<1>3. n \in m..n /\ Good(n)
  BY <1>0, <1>2
<1>4. CASE Cardinality(g[n]) >= n - m
  <2>1. Cardinality(g[n]) = Cardinality(S)
    <3>1. Cardinality(g[n]) <= Cardinality(S) /\ Cardinality(g[n]) \in Nat /\ Cardinality(S) \in Nat
      BY <1>1, <1>3, FS_Subset, FS_CardinalityType
    <3>2. PICK b, c, d : b = Cardinality(g[n]) /\ c = Cardinality(S) /\ d = n - m
      OBVIOUS
    <3>3. b <= c /\ b >= d /\ c <= d /\ b \in Nat /\ c \in Nat /\ d \in Int
      BY <1>0, <1>4, <3>1, <3>2
    <3>4. b = c
      BY ONLY <3>3
    <3> QED
      BY ONLY <3>2, <3>4
  <2>2. g[n] = S
    BY <1>1, <1>3, <2>1, FS_Subset
  <2>3. step[S] \in SUBSET S /\ S \subseteq step[S]
    BY DEF Climb
  <2> QED
    BY <1>3, <2>2, <2>3
<1> QED
  BY <1>3, <1>4

-----------------------------------------------------------------------------
(* What the tree shows, and what is above a category.                      *)

LEMMA LiveIs == IsFiniteSet(Live) /\ Cardinality(Live) <= MaxRows
<1>1. IsFiniteSet(Id) /\ Cardinality(Id) = MaxRows
  <2>1. 1 \in Int /\ MaxRows \in Int /\ MaxRows \in Nat
    BY CatalogueAssumption
  <2>2. IsFiniteSet(1..MaxRows) /\ Cardinality(1..MaxRows) = IF 1 > MaxRows THEN 0 ELSE MaxRows - 1 + 1
    BY <2>1, FS_Interval
  <2> QED
    BY <2>1, <2>2 DEF Id
<1>2. Live \in SUBSET Id
  BY DEF Live
<1> QED
  BY <1>1, <1>2, FS_Subset

LEMMA ShownIs ==
    /\ Shown \in SUBSET Live /\ Roots \subseteq Shown
    /\ \A c \in Live : tbl[c].parent \in Shown => c \in Shown
<1> DEFINE grow(X) == {c \in Live : tbl[c].parent \in X}
           Def(f) == f = [n \in 0..MaxRows |-> IF n = 0 THEN Roots ELSE f[n - 1] \cup grow(f[n - 1])]
           g == CHOOSE f : Def(f)
<1>1. Shown = g[MaxRows]
  BY DEF Shown
<1>2. MaxRows \in Nat /\ 0 \in Nat /\ 0 <= MaxRows /\ MaxRows = 0 + MaxRows /\ MaxRows - 0 = MaxRows
  BY CatalogueAssumption
<1>3. PICK step : step = [X \in SUBSET Live |-> X \cup grow(X)]
  OBVIOUS
<1>4. /\ \A X \in SUBSET Live : step[X] \in SUBSET Live
      /\ \A X \in SUBSET Live : X \subseteq step[X]
      /\ \A X \in SUBSET Live : step[X] = X \cup grow(X)
  BY <1>3
<1>5. Roots \in SUBSET Live
  BY DEF Roots
<1>6. \E f : Def(f)
  <2>1. PICK f : Levels(f, 0, MaxRows, Roots, step)
    BY <1>2, LevelsExist
  <2>2. \A k \in 0..MaxRows : f[k] \in SUBSET Live
    <3>1. Climb(Live, f, 0, MaxRows, Roots, step)
      BY ONLY <1>2, <1>4, <1>5, <2>1 DEF Climb
    <3> QED
      BY ONLY <3>1, LevelsIn
  <2>3. \A k \in 0..MaxRows : k # 0 => k - 1 \in 0..MaxRows
    BY <1>2
  <2>4. \A k \in 0..MaxRows : k # 0 => step[f[k - 1]] = f[k - 1] \cup grow(f[k - 1])
    BY <1>4, <2>2, <2>3
  <2>5. f = [n \in 0..MaxRows |-> IF n = 0 THEN Roots ELSE step[f[n - 1]]]
    BY <2>1 DEF Levels
  <2>6. Def(f)
    <3> HIDE DEF grow
    <3> QED
      BY ONLY <2>4, <2>5
  <2> QED
    BY ONLY <2>6
<1>7. Def(g)
  <2> HIDE DEF Def
  <2> QED
    BY ONLY <1>6
<1> HIDE DEF g
<1>8. \A k \in 0..MaxRows : g[k] \in SUBSET Live
  <2> DEFINE T == {k \in 0..MaxRows : g[k] \notin SUBSET Live}
  <2>1. ASSUME T # {}
        PROVE  FALSE
    <3>1. PICK k \in T : \A j \in T : k <= j
      <4>1. T \subseteq Nat
        OBVIOUS
      <4> HIDE DEF T
      <4> QED
        BY <2>1, <4>1, LeastIs
    <3>2. k # 0 /\ k - 1 \in 0..MaxRows /\ g[k] = g[k - 1] \cup grow(g[k - 1])
      BY <1>2, <1>5, <1>7
    <3>3. g[k - 1] \in SUBSET Live
      BY <3>1, <3>2
    <3> QED
      BY <3>2, <3>3
  <2> QED
    BY <2>1
<1>9. Levels(g, 0, MaxRows, Roots, step)
  <2>1. \A k \in 0..MaxRows : k # 0 => k - 1 \in 0..MaxRows
    BY <1>2
  <2>2. \A k \in 0..MaxRows : k # 0 => step[g[k - 1]] = g[k - 1] \cup grow(g[k - 1])
    BY <1>4, <1>8, <2>1
  <2> QED
    BY <1>7, <2>2 DEF Levels
<1>10. Roots \subseteq g[MaxRows] /\ step[g[MaxRows]] = g[MaxRows]
  <2>1. IsFiniteSet(Live) /\ Cardinality(Live) <= MaxRows - 0
    BY <1>2, LiveIs
  <2> HIDE DEF g
  <2> QED
    <3>1. Climb(Live, g, 0, MaxRows, Roots, step)
      BY ONLY <1>2, <1>4, <1>5, <1>9 DEF Climb
    <3> QED
      BY ONLY <1>4, <2>1, <3>1, LevelsEnd
<1>11. g[MaxRows] \in SUBSET Live
  BY <1>2, <1>8
<1>12. grow(g[MaxRows]) \subseteq g[MaxRows]
  BY <1>4, <1>10, <1>11
<1> QED
  BY <1>1, <1>10, <1>11, <1>12

\* The parent of every category of B that has one in the tree is in B.
Upward(B) == \A d \in B : tbl[d].parent \in Live => tbl[d].parent \in B

LEMMA AboveIs ==
    ASSUME NEW c
    PROVE  /\ Above(c) \in SUBSET Live /\ Upward(Above(c))
           /\ tbl[c].parent \in Live => tbl[c].parent \in Above(c)
           /\ \A B \in SUBSET Live :
                Upward(B) /\ (tbl[c].parent \in Live => tbl[c].parent \in B) => Above(c) \subseteq B
<1> DEFINE up(S) == {tbl[d].parent : d \in S} \cap Live
           Def(f) == f = [n \in 1..(MaxRows + 1) |-> IF n = 1 THEN up({c}) ELSE f[n - 1] \cup up(f[n - 1])]
           g == CHOOSE f : Def(f)
<1>0. PICK last : last = MaxRows + 1
  OBVIOUS
<1>1. Above(c) = g[last]
  BY <1>0 DEF Above
<1>2. MaxRows \in Nat /\ 1 \in Nat /\ last \in Nat /\ 1 <= last /\ last = 1 + MaxRows /\ last - 1 = MaxRows
      /\ last \in 1..last
  BY <1>0, CatalogueAssumption
<1>3. PICK step : step = [X \in SUBSET Live |-> X \cup up(X)]
  OBVIOUS
<1>4. /\ \A X \in SUBSET Live : step[X] \in SUBSET Live
      /\ \A X \in SUBSET Live : X \subseteq step[X]
      /\ \A X \in SUBSET Live : step[X] = X \cup up(X)
  BY <1>3
<1>5. PICK base : base = up({c})
  OBVIOUS
<1>6. base \in SUBSET Live
  BY <1>5
<1>7. \E f : Def(f)
  <2>1. PICK f : Levels(f, 1, last, base, step)
    BY ONLY <1>2, LevelsExist
  <2>2. \A k \in 1..last : f[k] \in SUBSET Live
    <3>1. Climb(Live, f, 1, last, base, step)
      BY ONLY <1>2, <1>4, <1>6, <2>1 DEF Climb
    <3> QED
      BY ONLY <3>1, LevelsIn
  <2>3. \A k \in 1..last : k # 1 => k - 1 \in 1..last
    BY <1>2
  <2>4. \A k \in 1..last : k # 1 => step[f[k - 1]] = f[k - 1] \cup up(f[k - 1])
    BY <1>4, <2>2, <2>3
  <2>5. f = [n \in 1..last |-> IF n = 1 THEN base ELSE step[f[n - 1]]]
    BY ONLY <2>1 DEF Levels
  <2>6. Def(f)
    <3> HIDE DEF up
    <3> QED
      BY ONLY <1>0, <1>5, <2>4, <2>5
  <2> QED
    BY ONLY <2>6
<1>8. Def(g)
  <2> HIDE DEF Def
  <2> QED
    BY ONLY <1>7
<1> HIDE DEF g
<1>9. \A k \in 1..last : g[k] \in SUBSET Live
  <2> DEFINE T == {k \in 1..last : g[k] \notin SUBSET Live}
  <2>1. ASSUME T # {}
        PROVE  FALSE
    <3>1. PICK k \in T : \A j \in T : k <= j
      <4>1. T \subseteq Nat
        OBVIOUS
      <4> HIDE DEF T
      <4> QED
        BY <2>1, <4>1, LeastIs
    <3>2. k # 1 /\ k - 1 \in 1..last /\ g[k] = g[k - 1] \cup up(g[k - 1])
      BY <1>0, <1>2, <1>5, <1>6, <1>8
    <3>3. g[k - 1] \in SUBSET Live
      BY <3>1, <3>2
    <3> QED
      BY <3>2, <3>3
  <2> QED
    BY <2>1
<1>10. Levels(g, 1, last, base, step)
  <2>1. \A k \in 1..last : k # 1 => k - 1 \in 1..last
    BY <1>2
  <2>2. \A k \in 1..last : k # 1 => step[g[k - 1]] = g[k - 1] \cup up(g[k - 1])
    BY <1>4, <1>9, <2>1
  <2> HIDE DEF up
  <2> QED
    BY ONLY <1>0, <1>5, <1>8, <2>2 DEF Levels
<1>11. Climb(Live, g, 1, last, base, step)
  BY ONLY <1>2, <1>4, <1>6, <1>10 DEF Climb
<1>12. base \subseteq g[last] /\ step[g[last]] = g[last]
  <2>1. IsFiniteSet(Live) /\ Cardinality(Live) <= last - 1
    BY <1>2, LiveIs
  <2> QED
    BY ONLY <1>4, <1>11, <2>1, LevelsEnd
<1>13. g[last] \in SUBSET Live
  BY <1>2, <1>9
<1>14. up(g[last]) \subseteq g[last]
  <2> HIDE DEF up
  <2> QED
    BY <1>4, <1>12, <1>13
<1>15. ASSUME NEW B \in SUBSET Live, Upward(B), tbl[c].parent \in Live => tbl[c].parent \in B
       PROVE  g[last] \subseteq B
  <2>1. base \subseteq B
    BY <1>5, <1>15
  <2>2. \A X \in SUBSET B : step[X] \subseteq B
    <3>1. \A X \in SUBSET B : X \in SUBSET Live /\ up(X) \subseteq B
      BY <1>15 DEF Upward
    <3> HIDE DEF up
    <3> QED
      BY <1>4, <3>1
  <2>3. B \in SUBSET Live
    OBVIOUS
  <2> QED
    BY ONLY <1>11, <2>1, <2>2, <2>3, LevelsWithin
<1> QED
  <2>1. Upward(g[last])
    BY <1>14 DEF Upward
  <2>2. tbl[c].parent \in Live => tbl[c].parent \in g[last]
    BY <1>5, <1>12
  <2> QED
    BY <1>1, <1>13, <1>15, <2>1, <2>2

-----------------------------------------------------------------------------
(* Only a category that was moved closes a loop.                           *)

\* A category is never without its row, and nothing else has a parent.
Rooted(i, r) == IF kind = "category" THEN i \in Id /\ r # NoRow => tbl[i] # NoRow ELSE r.parent = 0

\* What a request holds of the tree: it moves categories only, creates below a
\* row that is there already, and writes an older number as parent of a new row.
Planted(t) ==
    /\ Rooted(t.id, t.mine.want) /\ Rooted(t.par, t.other.want)
    /\ kind = "category" =>
         /\ t.mine.base = NoRow => t.mine.want = NoRow
         /\ t.other.base = NoRow => t.other.want = NoRow
         /\ t.op # "erase"
    /\ kind # "category" => t.op # "move" /\ t.par = 0
    /\ t.op = "create" => t.par \in 0..made
    /\ \A w \in t.put :
         /\ IF kind = "category" THEN w[2] # NoRow ELSE w[2].parent = 0
         /\ tbl[w[1]] # NoRow \/ w[2].parent < w[1]

TreeInv ==
    /\ \A i \in Id : Rooted(i, cached[i]) /\ Rooted(i, tbl[i]) /\ (i \in moved \/ tbl[i].parent < i)
    /\ \A a \in Author : Planted(txn[a])

\* Above a category that the tree leaves out there is a loop; the least number
\* on it has a parent that is no less.
LEMMA HiddenIsLooped ==
    ASSUME TreeInv, NEW c \in Live \ Shown
    PROVE  \E d \in Above(c) \cap moved : d \in Above(d)
<1>1. PICK H : H = Live \ Shown
  OBVIOUS
<1>2. \A d \in H : tbl[d].parent \in Live /\ tbl[d].parent \in H
  BY <1>1, ShownIs DEF Roots
<1>3. H \in SUBSET Live /\ Upward(H) /\ c \in H
  BY <1>1, <1>2 DEF Upward
<1>4. \A d \in H : Above(d) \in SUBSET H /\ tbl[d].parent \in Above(d)
  <2> TAKE d \in H
  <2>1. tbl[d].parent \in Live /\ tbl[d].parent \in H
    BY <1>2
  <2> QED
    BY <1>3, <2>1, AboveIs
<1>5. ASSUME NEW d \in H, NEW e \in Above(d)
      PROVE  Above(e) \subseteq Above(d)
  <2>1. Above(d) \in SUBSET Live /\ Upward(Above(d))
    BY AboveIs
  <2>2. tbl[e].parent \in Live => tbl[e].parent \in Above(d)
    BY <1>5, <2>1 DEF Upward
  <2> QED
    BY <2>1, <2>2, AboveIs
<1>6. PICK d \in Above(c) : \A e \in Above(c) : Above(e) \subseteq Above(d) => Above(e) = Above(d)
  <2>1. PICK T : T = {Above(e) : e \in Above(c)}
    OBVIOUS
  <2>2. T \in SUBSET (SUBSET Live) /\ T # {}
    BY <1>3, <1>4, <2>1
  <2>3. PICK s \in T : \A t \in T : t \subseteq s => t = s
    BY ONLY <2>2, LiveIs, SmallestSet
  <2> QED
    BY <2>1, <2>3
<1>7. d \in H /\ Above(d) \subseteq H /\ Above(d) \subseteq Above(c) /\ Above(d) # {}
  BY <1>3, <1>4, <1>5
<1>8. \A e \in Above(d) : Above(e) = Above(d) /\ tbl[e].parent \in Above(d)
  BY <1>4, <1>5, <1>6, <1>7
<1>9. PICK e \in Above(d) : \A k \in Above(d) : e <= k
  <2>1. Above(d) \subseteq Nat
    <3>1. Id \subseteq Nat /\ Live \subseteq Id
      BY CatalogueAssumption DEF Id, Live
    <3> QED
      BY <1>3, <1>7, <3>1
  <2> QED
    BY <1>7, <2>1, LeastIs
<1>10. e \in moved
  <2>1. tbl[e].parent \in Above(d) /\ e <= tbl[e].parent
    BY <1>8, <1>9
  <2>2. e \in Id /\ tbl[e].parent \in Id
    BY <1>3, <1>7, <2>1 DEF Live
  <2>3. e \in moved \/ tbl[e].parent < e
    BY <2>2 DEF TreeInv
  <2> QED
    BY <2>1, <2>2, <2>3 DEF Id
<1> QED
  BY <1>7, <1>8, <1>9, <1>10

-----------------------------------------------------------------------------
(* The steps of the tree.                                                  *)

\* All of a request but its place.
SameHeld(d, t) ==
    /\ d.op = t.op /\ d.id = t.id /\ d.par = t.par
    /\ d.mine = t.mine /\ d.other = t.other /\ d.put = t.put

LEMMA PlantedSame ==
    ASSUME NEW t, Planted(t), NEW d, SameHeld(d, t)
    PROVE  Planted(d)
BY DEF Planted, SameHeld

LEMMA PlaceOnly ==
    ASSUME NEW t, Formed(t), Planted(t), NEW pc, NEW d, d = [t EXCEPT !.pc = pc]
    PROVE  Formed(d) /\ Planted(d)
<1>1. Formed(d) /\ SameHeld(d, t)
  BY OneChange DEF SameHeld
<1> QED
  BY <1>1, PlantedSame

\* A request that holds nothing yet.
LEMMA BarePlanted ==
    ASSUME NEW t, t.mine = NoCopy, t.other = NoCopy, t.put = {}, t.op # "erase" \/ kind # "category",
           t.op = "move" => kind = "category", t.par # 0 => kind = "category",
           t.op = "create" => t.par \in 0..made
    PROVE  Planted(t)
<1>1. NoRow.parent = 0
  BY DEF NoRow
<1>2. \A i : Rooted(i, NoRow)
  BY <1>1 DEF Rooted
<1> QED
  BY <1>2, NoCopyIs DEF Planted

LEMMA NoTxnPlanted == Planted(NoTxn)
<1>1. PICK t, c : t = NoTxn /\ c = NoCopy
  OBVIOUS
<1>2. t = Txn("idle", "none", 0, NoWord, 0, c, c, {})
  BY <1>1 DEF NoTxn, Txn
<1>3. t.op = "none" /\ t.par = 0 /\ t.mine = c /\ t.other = c /\ t.put = {}
  BY <1>2, TxnFields
<1> QED
  BY <1>1, <1>3, BarePlanted

\* A request goes on to t; the cache may gain or lose an entry.
LEMMA TreeTurn ==
    ASSUME RowsInv, TreeInv, CatalogueHistory, NEW a \in Author, NEW t, Planted(t),
           txn' = [txn EXCEPT ![a] = t], made' \in 0..MaxRows, made' >= made, UNCHANGED <<kind, tbl>>,
           cached' = cached \/ \E i, r : Rooted(i, r) /\ cached' = [cached EXCEPT ![i] = r]
    PROVE  TreeInv'
<1>1. txn'[a] = t /\ \A b \in Author \ {a} : txn'[b] = txn[b]
  BY DEF RowsInv
<1>2. \A i \in Id : Rooted(i, cached[i]) /\ Rooted(i, tbl[i]) /\ (i \in moved \/ tbl[i].parent < i)
  BY DEF TreeInv
<1>3. \A i \in Id : Rooted(i, cached'[i])
  BY <1>2 DEF RowsInv
<1>4. moved \subseteq moved'
  BY DEF CatalogueHistory
<1>5. ASSUME NEW r, Planted(r), NEW b, r = txn'[b]
      PROVE  Planted(txn[b])'
  <2>1. made \in Int /\ made' \in Int /\ made <= made'
    BY CatalogueAssumption DEF RowsInv
  <2>2. r.op = "create" => r.par \in 0..made'
    <3>1. r.op = "create" => r.par \in 0..made
      BY <1>5 DEF Planted
    <3> QED
      BY <2>1, <3>1
  <2> QED
    BY <1>5, <2>2 DEF Planted, Rooted
<1>6. \A b \in Author : Planted(txn[b])'
  <2>1. \A b \in Author : Planted(txn'[b])
    BY <1>1 DEF TreeInv
  <2> QED
    BY <1>5, <2>1
<1> QED
  BY <1>2, <1>3, <1>4, <1>6 DEF TreeInv, Rooted

LEMMA TreeEnds ==
    ASSUME RowsInv, TreeInv, CatalogueHistory, NEW a \in Author, TxnEnds(a), made' \in 0..MaxRows,
           made' >= made, UNCHANGED <<kind, tbl, cached>>
    PROVE  TreeInv'
<1>1. PICK t : t = NoTxn
  OBVIOUS
<1>2. txn' = [txn EXCEPT ![a] = t]
  BY <1>1 DEF TxnEnds, Becomes
<1> QED
  BY <1>1, <1>2, NoTxnPlanted, TreeTurn

LEMMA TreeGoes ==
    ASSUME RowsInv, TreeInv, CatalogueHistory, NEW a \in Author, NEW pc, NEW t, Formed(t), Planted(t),
           txn' = [txn EXCEPT ![a] = [t EXCEPT !.pc = pc]], UNCHANGED <<kind, tbl, made>>,
           cached' = cached \/ \E i, r : Rooted(i, r) /\ cached' = [cached EXCEPT ![i] = r]
    PROVE  TreeInv'
<1>1. PICK d : d = [t EXCEPT !.pc = pc]
  OBVIOUS
<1>2. Planted(d)
  BY <1>1, PlaceOnly
<1>3. made' \in 0..MaxRows /\ made' >= made
  BY CatalogueAssumption DEF RowsInv
<1> QED
  BY <1>1, <1>2, <1>3, TreeTurn

LEMMA TreeHandled ==
    ASSUME RowsInv, TreeInv, CatalogueHistory, NEW a \in Author, NEW t, Formed(t), Planted(t),
           txn' = [txn EXCEPT ![a] = Goes(t)], UNCHANGED <<kind, tbl, made>>,
           cached' = cached \/ \E i, r : Rooted(i, r) /\ cached' = [cached EXCEPT ![i] = r]
    PROVE  TreeInv'
<1>1. Goes(t) = NoTxn \/ \E pc : Goes(t) = [t EXCEPT !.pc = pc]
  BY DEF Goes
<1>2. CASE Goes(t) = NoTxn
  <2>1. PICK d : d = NoTxn
    OBVIOUS
  <2>2. made' \in 0..MaxRows /\ made' >= made
    BY CatalogueAssumption DEF RowsInv
  <2> QED
    BY <1>2, <2>1, <2>2, NoTxnPlanted, TreeTurn
<1>3. CASE \E pc : Goes(t) = [t EXCEPT !.pc = pc]
  <2>1. PICK pc : Goes(t) = [t EXCEPT !.pc = pc]
    BY <1>3
  <2>2. txn' = [txn EXCEPT ![a] = [t EXCEPT !.pc = pc]]
    BY <2>1
  <2> QED
    BY <2>2, TreeGoes
<1> QED
  BY <1>1, <1>2, <1>3

\* A copy of what is there, and of what the cache has of it.
Grown(i, x) ==
    /\ Rooted(i, x.want)
    /\ kind = "category" => (x.base = NoRow => x.want = NoRow)

LEMMA GrownIs ==
    ASSUME TreeInv, NEW i \in Id
    PROVE  /\ \A x : x = [base |-> tbl[i], want |-> cached[i]] => Grown(i, x)
           /\ \A x : x = Loaded(tbl[i]) => Grown(i, x)
<1>1. Rooted(i, cached[i]) /\ Rooted(i, tbl[i])
  BY DEF TreeInv
<1>2. ASSUME NEW r, Rooted(i, r), NEW x, x = [base |-> tbl[i], want |-> r]
      PROVE  Grown(i, x)
  <2>1. x.base = tbl[i] /\ x.want = r
    BY <1>2
  <2> QED
    BY <1>2, <2>1 DEF Grown, Rooted
<1> QED
  BY <1>1, <1>2 DEF Loaded

\* A request that looks for a row.
LEMMA TreeFind ==
    ASSUME RowsInv, TreeInv, CatalogueHistory, NEW a \in Author, NEW op \in Ops \ {"create", "none"},
           NEW i \in 1..made, NEW k, NEW p \in 0..made, op = "move" \/ p # 0 => kind = "category",
           op = "erase" => kind # "category", Find(a, Request(op, i, k, p))
    PROVE  TreeInv'
<1>1. PICK t : t = Request(op, i, k, p)
  OBVIOUS
<1>2. Formed(t) /\ t.id = i /\ t.par = p /\ t.put = {} /\ t.op = op /\ t.mine = NoCopy /\ t.other = NoCopy
  <2>1. t.mine = NoCopy /\ t.other = NoCopy
    BY <1>1 DEF Request, NoTxn
  <2> QED
    BY <1>1, <2>1, RequestIs
<1>3. i \in Id
  BY CatalogueAssumption DEF RowsInv, Id
<1>4. Planted(t)
  BY <1>2, BarePlanted DEF Ops
<1>5. UNCHANGED <<kind, tbl, cached, made>>
  BY DEF Find
<1>6. ASSUME NEW m, Grown(i, m), NEW e, e = [t EXCEPT !.mine = m]
      PROVE  Formed(e) /\ Planted(e)
  <2>1. Formed(e) /\ e.op = t.op /\ e.id = t.id /\ e.par = t.par /\ e.mine = m /\ e.other = t.other /\ e.put = t.put
    BY <1>2, <1>6, OneChange
  <2> QED
    BY <1>2, <1>4, <1>6, <2>1 DEF Planted, Grown
<1>7. CASE cached[i] # NoRow
  <2>1. PICK m : m = [base |-> tbl[i], want |-> cached[i]]
    OBVIOUS
  <2>2. PICK e : e = [t EXCEPT !.mine = m]
    OBVIOUS
  <2>3. Formed(e) /\ Planted(e)
    BY <1>3, <1>6, <2>1, <2>2, GrownIs
  <2>4. txn' = [txn EXCEPT ![a] = Goes(e)]
    BY <1>1, <1>2, <1>7, <2>1, <2>2 DEF Find, Becomes
  <2> QED
    BY <1>5, <2>3, <2>4, TreeHandled
<1>8. CASE cached[i] = NoRow
  <2>1. PICK m, fill : m = Loaded(tbl[i]) /\ fill = "fill"
    OBVIOUS
  <2>2. PICK e : e = [t EXCEPT !.mine = m]
    OBVIOUS
  <2>3. Formed(e) /\ Planted(e)
    BY <1>3, <1>6, <2>1, <2>2, GrownIs
  <2>4. txn' = [txn EXCEPT ![a] = [t EXCEPT !.pc = fill, !.mine = m]]
    BY <1>1, <1>2, <1>8, <2>1 DEF Find, Becomes
  <2>5. [t EXCEPT !.pc = fill, !.mine = m] = [e EXCEPT !.pc = fill]
    <3>1. t = Txn(t.pc, t.op, t.id, t.key, t.par, t.mine, t.other, t.put)
      BY <1>2 DEF Formed
    <3> QED
      BY <2>2, <3>1 DEF Txn
  <2>6. txn' = [txn EXCEPT ![a] = [e EXCEPT !.pc = fill]]
    BY <2>4, <2>5
  <2> QED
    BY <1>5, <2>3, <2>6, TreeGoes
<1> QED
  BY <1>7, <1>8

LEMMA TreeKey ==
    ASSUME RowsInv, TreeInv, CatalogueHistory, NEW a \in Author, NEW t, Formed(t), Planted(t), CheckKey(a, t)
    PROVE  TreeInv'
<1>1. UNCHANGED <<kind, tbl, cached, made>>
  BY DEF CheckKey
<1>2. CASE TxnEnds(a)
  <2>1. made' \in 0..MaxRows /\ made' >= made
    BY <1>1, CatalogueAssumption DEF RowsInv
  <2> QED
    BY <1>1, <1>2, <2>1, TreeEnds
<1>3. CASE ~Taken(t)
  <2>1. PICK pc : pc = IF t.par = 0 THEN "flush" ELSE "parent"
    OBVIOUS
  <2>2. txn' = [txn EXCEPT ![a] = [t EXCEPT !.pc = pc]]
    BY <1>3, <2>1 DEF CheckKey, Becomes
  <2> QED
    BY <1>1, <2>2, TreeGoes
<1> QED
  BY <1>2, <1>3 DEF CheckKey, TxnEnds

LEMMA TreeCreate ==
    ASSUME RowsInv, TreeInv, CatalogueHistory, NEW a \in Author, NEW k, NEW p \in 0..made, Create(a, k, p)
    PROVE  TreeInv'
<1>1. PICK t : t = Request("create", 0, k, p)
  OBVIOUS
<1>2. Formed(t) /\ t.par = p /\ t.put = {} /\ t.op = "create" /\ t.mine = NoCopy /\ t.other = NoCopy
  <2>1. t.mine = NoCopy /\ t.other = NoCopy
    BY <1>1 DEF Request, NoTxn
  <2> QED
    BY <1>1, <2>1, RequestIs
<1>3. CheckKey(a, t) /\ (kind # "category" => p = 0)
  BY <1>1 DEF Create
<1>4. Planted(t)
  BY <1>2, <1>3, BarePlanted
<1> QED
  BY <1>2, <1>3, <1>4, TreeKey

LEMMA RequestPlanted ==
    ASSUME RowsInv, TreeInv, NEW a \in Author
    PROVE  Formed(txn[a]) /\ Planted(txn[a]) /\ made \in 0..MaxRows /\ made >= made
<1>1. made >= made
  BY CatalogueAssumption DEF RowsInv
<1> QED
  BY <1>1 DEF RowsInv, TreeInv

LEMMA TreeParent ==
    ASSUME RowsInv, TreeInv, CatalogueHistory, NEW a \in Author, CheckParent(a)
    PROVE  TreeInv'
<1>1. UNCHANGED <<kind, tbl, cached, made>>
  BY DEF CheckParent
<1>2. PICK t, p : t = txn[a] /\ p = txn[a].par
  OBVIOUS
<1>3. Formed(t) /\ Planted(t) /\ made' \in 0..MaxRows /\ made' >= made /\ t.par = p
  BY <1>1, <1>2, RequestPlanted
<1>4. p \in Id
  BY <1>2 DEF CheckParent, TxnAt, RowsInv, Well
<1>5. ASSUME NEW x, Grown(p, x), NEW pc, txn' = [txn EXCEPT ![a] = [t EXCEPT !.pc = pc, !.other = x]]
      PROVE  TreeInv'
  <2>1. PICK e : e = [t EXCEPT !.other = x]
    OBVIOUS
  <2>2. Formed(e) /\ e.op = t.op /\ e.id = t.id /\ e.par = p /\ e.mine = t.mine /\ e.other = x /\ e.put = t.put
    BY <1>3, <2>1, OneChange
  <2>3. Planted(e)
    BY <1>3, <1>5, <2>2 DEF Planted, Grown
  <2>4. [t EXCEPT !.pc = pc, !.other = x] = [e EXCEPT !.pc = pc]
    <3>1. t = Txn(t.pc, t.op, t.id, t.key, t.par, t.mine, t.other, t.put)
      BY <1>3 DEF Formed
    <3> QED
      BY <2>1, <3>1 DEF Txn
  <2>5. txn' = [txn EXCEPT ![a] = [e EXCEPT !.pc = pc]]
    BY <1>5, <2>4
  <2> QED
    BY <1>1, <2>2, <2>3, <2>5, TreeGoes
<1>6. CASE TxnEnds(a)
  BY <1>1, <1>3, <1>6, TreeEnds
<1>7. CASE ~TxnEnds(a) /\ cached[p] # NoRow
  <2>1. PICK x, pc : x = [base |-> tbl[p], want |-> cached[p]] /\ pc = "flush"
    OBVIOUS
  <2>2. txn' = [txn EXCEPT ![a] = [t EXCEPT !.pc = pc, !.other = x]]
    BY <1>2, <1>7, <2>1 DEF CheckParent, Becomes
  <2>3. Grown(p, x)
    BY <1>4, <2>1, GrownIs
  <2> QED
    BY <1>5, <2>2, <2>3
<1>8. CASE ~TxnEnds(a) /\ cached[p] = NoRow
  <2>1. PICK x, pc : x = Loaded(tbl[p]) /\ pc = "fill_parent"
    OBVIOUS
  <2>2. txn' = [txn EXCEPT ![a] = [t EXCEPT !.pc = pc, !.other = x]]
    BY <1>2, <1>8, <2>1 DEF CheckParent, Becomes
  <2>3. Grown(p, x)
    BY <1>4, <2>1, GrownIs
  <2> QED
    BY <1>5, <2>2, <2>3
<1> QED
  BY <1>6, <1>7, <1>8

LEMMA TreeOthers ==
    ASSUME RowsInv, TreeInv, CatalogueHistory, NEW a \in Author,
           FillParent(a) \/ CheckChildren(a) \/ FindAgain(a) \/ FillAgain(a)
    PROVE  TreeInv'
<1>1. PICK t : t = txn[a]
  OBVIOUS
<1>2. UNCHANGED <<kind, tbl, made>> /\ Formed(t) /\ Planted(t) /\ made' \in 0..MaxRows /\ made' >= made
  BY <1>1, RequestPlanted DEF FillParent, CheckChildren, FindAgain, FillAgain
<1>3. \/ TxnEnds(a) /\ UNCHANGED cached
      \/ \E pc : txn' = [txn EXCEPT ![a] = [t EXCEPT !.pc = pc]]
  BY <1>1 DEF FillParent, CheckChildren, FindAgain, FillAgain, TxnTo, Becomes
<1>4. \/ cached' = cached \/ cached' = [cached EXCEPT ![t.id] = t.mine.want]
      \/ cached' = [cached EXCEPT ![t.par] = t.other.want]
  BY <1>1 DEF FillParent, CheckChildren, FindAgain, FillAgain
<1>5. Rooted(t.id, t.mine.want) /\ Rooted(t.par, t.other.want)
  BY <1>2 DEF Planted
<1>6. CASE TxnEnds(a) /\ UNCHANGED cached
  BY <1>2, <1>6, TreeEnds
<1>7. ASSUME NEW pc, txn' = [txn EXCEPT ![a] = [t EXCEPT !.pc = pc]]
      PROVE  TreeInv'
  <2>1. cached' = cached \/ \E i, r : Rooted(i, r) /\ cached' = [cached EXCEPT ![i] = r]
    BY <1>4, <1>5
  <2> QED
    BY <1>2, <1>7, <2>1, TreeGoes
<1> QED
  BY <1>3, <1>6, <1>7

LEMMA TreeFill ==
    ASSUME RowsInv, TreeInv, CatalogueHistory, NEW a \in Author, Fill(a)
    PROVE  TreeInv'
<1>1. PICK t : t = txn[a]
  OBVIOUS
<1>2. UNCHANGED <<kind, tbl, made>> /\ Formed(t) /\ Planted(t)
  BY <1>1, RequestPlanted DEF Fill
<1>3. txn' = [txn EXCEPT ![a] = Goes(t)] /\ cached' = [cached EXCEPT ![t.id] = t.mine.want]
  BY <1>1 DEF Fill, Becomes
<1>4. Rooted(t.id, t.mine.want)
  BY <1>2 DEF Planted
<1> QED
  BY <1>2, <1>3, <1>4, TreeHandled

LEMMA TreeDrop ==
    ASSUME RowsInv, TreeInv, CatalogueHistory, NEW a \in Author, NEW ok, Drop(a, ok)
    PROVE  TreeInv'
<1>1. PICK t, commit, zero : t = txn[a] /\ commit = "commit" /\ zero = 0
  OBVIOUS
<1>2. UNCHANGED <<kind, tbl, made>> /\ Formed(t) /\ Planted(t) /\ made' \in 0..MaxRows /\ made' >= made
  BY <1>1, RequestPlanted DEF Drop
<1>3. PICK d : d = [t EXCEPT !.pc = commit]
  OBVIOUS
<1>4. PICK e : e = [d EXCEPT !.id = zero]
  OBVIOUS
<1>5. Formed(d) /\ Planted(d)
  BY <1>2, <1>3, PlaceOnly
<1>6. e.op = d.op /\ e.id = zero /\ e.par = d.par /\ e.mine = d.mine /\ e.other = d.other /\ e.put = d.put
  BY <1>4, <1>5, OneChange
<1>7. Planted(e)
  <2>1. zero \notin Id
    BY <1>1, IdIs
  <2>2. Rooted(zero, d.mine.want)
    BY <1>5, <2>1 DEF Planted, Rooted
  <2> QED
    BY <1>5, <1>6, <2>2 DEF Planted
<1>8. txn' = [txn EXCEPT ![a] = e]
  BY <1>1, <1>3, <1>4 DEF Drop, Becomes
<1>9. Rooted(t.id, NoRow)
  <2>1. NoRow.parent = 0
    BY DEF NoRow
  <2> QED
    BY <2>1 DEF Rooted
<1>10. cached' = cached \/ cached' = [cached EXCEPT ![t.id] = NoRow]
  BY <1>1 DEF Drop
<1> QED
  BY <1>2, <1>7, <1>8, <1>9, <1>10, TreeTurn

\* The parent an UPDATE writes.
LEMMA WrittenParent ==
    ASSUME NEW i, NEW base, NEW want \in Row, NEW r, r = Written(i, base, want)
    PROVE  r.parent \in {tbl[i].parent, want.parent}
<1>1. CASE base = NoRow
  BY <1>1 DEF Written
<1>2. CASE base # NoRow
  <2>1. PICK row : row = tbl[i]
    OBVIOUS
  <2>2. r = [f \in DOMAIN want |-> IF want[f] = base[f] THEN row[f] ELSE want[f]]
    BY <1>2, <2>1 DEF Written
  <2>3. PICK k, p, l : want = RowOf(k, p, l)
    BY RowParts
  <2>4. DOMAIN want = {"key", "parent", "live"}
    BY <2>3, RowFields
  <2>5. "parent" \in DOMAIN want
    BY <2>4
  <2>6. r["parent"] = row["parent"] \/ r["parent"] = want["parent"]
    BY <2>2, <2>5, Zenon
  <2> QED
    BY <2>1, <2>6
<1> QED
  BY <1>1, <1>2

\* Without a move, the parent of the row a handler wants is the one it found.
LEMMA WantedParent ==
    ASSUME NEW t, Holds(t), t.op \notin {"create", "move"}
    PROVE  Wanted(t).parent = t.mine.want.parent
<1>1. PICK want : want = t.mine.want
  OBVIOUS
<1>2. PICK k, p, l : want = RowOf(k, p, l)
  BY <1>1, RowParts DEF Holds
<1>3. want.parent = p
  BY <1>2, RowFields
<1>4. Wanted(t) = want \/ (\E x : Wanted(t) = [want EXCEPT !.key = x]) \/ \E x : Wanted(t) = [want EXCEPT !.live = x]
  BY <1>1 DEF Wanted
<1>5. \A x, d : d = [want EXCEPT !.key = x] => d.parent = p
  <2> TAKE x, d
  <2> HAVE d = [want EXCEPT !.key = x]
  <2>1. d = RowOf(x, p, l)
    BY <1>2, OneColumn
  <2> QED
    BY <2>1, RowFields
<1>6. \A x, d : d = [want EXCEPT !.live = x] => d.parent = p
  <2> TAKE x, d
  <2> HAVE d = [want EXCEPT !.live = x]
  <2>1. d = RowOf(k, p, x)
    BY <1>2, OneColumn
  <2> QED
    BY <2>1, RowFields
<1> QED
  BY <1>1, <1>3, <1>4, <1>5, <1>6

\* What a flush writes hangs on what is there.
LEMMA WritesPlanted ==
    ASSUME RowsInv, TreeInv, NEW a \in Author, txn[a].pc = "flush", ~RowClash(a),
           txn[a].op = "create" => NewId <= MaxRows, NEW w \in Writes(a)
    PROVE  /\ IF kind = "category" THEN w[2] # NoRow ELSE w[2].parent = 0
           /\ tbl[w[1]] # NoRow \/ w[2].parent < w[1]
<1>1. PICK t : t = txn[a]
  OBVIOUS
<1>2. Holds(t) /\ Planted(t)
  BY <1>1, TxnHolds, RequestPlanted
<1>3. w[1] \in Id /\ w[1] \in Nat /\ 0 < w[1]
  <2>1. w[1] \in Id
    BY WritesAre
  <2> QED
    BY <2>1, CatalogueAssumption DEF Id
<1>4. NoRow.parent = 0
  BY DEF NoRow
<1>5. CASE t.op = "erase"
  <2>1. w = <<t.id, NoRow>> /\ kind # "category"
    BY <1>1, <1>2, <1>5 DEF Writes, Planted
  <2> QED
    BY <1>3, <1>4, <2>1
<1>6. ASSUME NEW c \in Changed(t), t.op # "erase", w = <<c[1], Written(c[1], c[2], c[3])>>
      PROVE  /\ IF kind = "category" THEN w[2] # NoRow ELSE w[2].parent = 0
             /\ tbl[w[1]] # NoRow \/ w[2].parent < w[1]
  <2>1. PICK i, base, want : i = c[1] /\ base = c[2] /\ want = c[3]
    OBVIOUS
  <2>2. i \in Id /\ base \in Found /\ want \in Row /\ (base = NoRow) = (tbl[i] = NoRow) /\ tbl[i] \in Found
    BY <1>1, <1>2, <1>6, <2>1, ChangedAre DEF RowClash, RowsInv
  <2>3. PICK r : r = Written(i, base, want)
    OBVIOUS
  <2>4. w[1] = i /\ w[2] = r
    BY <1>6, <2>1, <2>3
  <2>5. CASE kind = "category"
    <3>1. base # NoRow
      <4>1. CASE c = <<t.id, t.mine.base, Wanted(t)>> /\ t.op # "create"
        BY <1>2, <2>1, <2>5, <4>1, NoRowIs DEF Holds, Planted
      <4>2. CASE c = <<t.par, t.other.base, t.other.want>>
        BY <1>2, <2>1, <2>2, <2>5, <4>2, NoRowIs DEF Planted
      <4> QED
        BY <1>2, <4>1, <4>2, ChangedAre
    <3>2. r \in Row
      BY <2>2, <2>3, WrittenIs
    <3> QED
      BY <2>2, <2>4, <2>5, <3>1, <3>2, NoRowIs
  <2>6. CASE kind # "category"
    <3>1. want.parent = 0
      <4>1. CASE c = <<t.id, t.mine.base, Wanted(t)>> /\ t.op # "create"
        <5>1. t.op # "move" /\ t.mine.want.parent = 0
          BY <1>2, <2>6 DEF Planted, Rooted
        <5>2. want = Wanted(t)
          BY <2>1, <4>1
        <5> QED
          BY <1>2, <4>1, <5>1, <5>2, WantedParent
      <4>2. CASE c = <<t.par, t.other.base, t.other.want>>
        BY <1>2, <2>1, <2>6, <4>2 DEF Planted, Rooted
      <4> QED
        BY <1>2, <4>1, <4>2, ChangedAre
    <3>2. tbl[i].parent = 0
      BY <2>2, <2>6 DEF TreeInv, Rooted
    <3>3. r.parent = 0
      BY <2>2, <2>3, <3>1, <3>2, WrittenParent
    <3> QED
      BY <1>3, <2>4, <2>6, <3>3
  <2> QED
    BY <2>5, <2>6
<1>7. CASE t.op = "create" /\ w = <<NewId, [key |-> t.key, parent |-> t.par, live |-> TRUE]>>
  <2>1. PICK r : r = [key |-> t.key, parent |-> t.par, live |-> TRUE]
    OBVIOUS
  <2>2. w[1] = NewId /\ w[2] = r /\ r.key = t.key /\ r.parent = t.par
    BY <1>7, <2>1
  <2>3. r # NoRow
    BY <1>2, <1>7, <2>2, NoRowIs, CatalogueAssumption DEF Holds
  <2>4. t.par \in 0..made /\ made \in Nat
    BY <1>2, <1>7, CatalogueAssumption DEF Planted, RowsInv
  <2>5. t.par < NewId
    BY <2>4 DEF NewId
  <2>6. kind # "category" => t.par = 0
    BY <1>2 DEF Planted
  <2> QED
    BY <2>2, <2>3, <2>5, <2>6
<1> QED
  BY <1>1, <1>5, <1>6, <1>7 DEF Writes

LEMMA TreeFlush ==
    ASSUME RowsInv, TreeInv, CatalogueHistory, NEW a \in Author, Flush(a)
    PROVE  TreeInv'
<1>1. /\ txn[a].pc = "flush" /\ UNCHANGED <<kind, tbl, cached>>
      /\ txn[a].op = "create" => NewId <= MaxRows
  BY DEF Flush, TxnAt
<1>2. made' \in 0..MaxRows /\ made' >= made
  <2>1. made' = IF txn[a].op = "create" THEN NewId ELSE made
    BY DEF Flush
  <2> QED
    BY <1>1, <2>1, CatalogueAssumption DEF RowsInv, NewId
<1>3. CASE TxnEnds(a)
  BY <1>1, <1>2, <1>3, TreeEnds
<1>4. CASE ~TxnEnds(a)
  <2>1. PICK put, pc, i : /\ put = Writes(a)
                          /\ pc = IF Invalidates(txn[a].op) THEN "drop" ELSE "commit"
                          /\ i = IF Invalidates(txn[a].op) THEN txn[a].id ELSE 0
    OBVIOUS
  <2>2. PICK t : t = Flushed(put, pc, i)
    OBVIOUS
  <2>3. ~RowClash(a) /\ txn' = [txn EXCEPT ![a] = t]
    BY <1>4, <2>1, <2>2 DEF Flush, Becomes, Flushed
  <2>4. t.op = "none" /\ t.par = 0 /\ t.mine = NoCopy /\ t.other = NoCopy /\ t.put = put
    BY <2>2 DEF Flushed, NoTxn
  <2>5. PICK d : d = NoTxn
    OBVIOUS
  <2>6. \A w \in put : /\ IF kind = "category" THEN w[2] # NoRow ELSE w[2].parent = 0
                       /\ tbl[w[1]] # NoRow \/ w[2].parent < w[1]
    BY <1>1, <2>1, <2>3, WritesPlanted
  <2>7. NoRow.parent = 0
    BY DEF NoRow
  <2>8. Planted(t)
    BY <2>4, <2>6, <2>7, NoCopyIs DEF Planted, Rooted
  <2> QED
    BY <1>1, <1>2, <2>3, <2>8, TreeTurn
<1> QED
  BY <1>3, <1>4

LEMMA TreeCommit ==
    ASSUME RowsInv, TreeInv, CatalogueHistory, NEW a \in Author, CommitTxn(a)
    PROVE  TreeInv'
<1>1. PICK t, put, T : t = NoTxn /\ put = txn[a].put /\ T = tbl'
  OBVIOUS
<1>2. /\ T = LandedIn(tbl, put) /\ UNCHANGED <<kind, cached, made>>
      /\ txn'[a] = t /\ \A b \in Author \ {a} : txn'[b] = txn[b]
  BY <1>1 DEF CommitTxn, TxnEnds, Becomes, Landed, LandedIn, RowsInv
<1>3. \A i \in Id : \/ \E w \in put : w[1] = i /\ T[i] = w[2]
                    \/ (\A w \in put : w[1] # i) /\ T[i] = tbl[i]
  BY <1>2, LandedIs
<1>4. \A w \in put : /\ IF kind = "category" THEN w[2] # NoRow ELSE w[2].parent = 0
                     /\ tbl[w[1]] # NoRow \/ w[2].parent < w[1]
  BY <1>1 DEF TreeInv, Planted
<1>5. \A i \in Id : Rooted(i, cached[i]) /\ Rooted(i, tbl[i]) /\ (i \in moved \/ tbl[i].parent < i)
  BY DEF TreeInv
<1>6. \A i \in Id : IF kind = "category" THEN tbl[i] # NoRow => T[i] # NoRow ELSE T[i].parent = 0
  BY <1>3, <1>4, <1>5 DEF Rooted
<1>7. ASSUME NEW i, NEW r, Rooted(i, r)
      PROVE  Rooted(i, r)'
  BY <1>1, <1>2, <1>6, <1>7 DEF Rooted
<1>8. ASSUME NEW i \in Id
      PROVE  (Rooted(i, cached[i]) /\ Rooted(i, tbl[i]))'
  BY <1>1, <1>2, <1>5, <1>6, <1>7 DEF Rooted
<1>9. ASSUME NEW i \in Id
      PROVE  i \in moved' \/ T[i].parent < i
  <2>1. moved \subseteq moved' /\ (tbl[i] # NoRow /\ T[i].parent # tbl[i].parent => i \in moved')
    BY <1>1 DEF CatalogueHistory, Present
  <2> QED
    BY <1>3, <1>4, <1>5, <2>1
<1>10. ASSUME NEW r, Planted(r), r.put \subseteq Id \X Found, NEW b, r = txn'[b]
       PROVE  Planted(txn[b])'
  <2>1. \A w \in r.put : w[1] \in Id
    BY <1>10
  <2>2. \A w \in r.put : T[w[1]] # NoRow \/ w[2].parent < w[1]
    <3> TAKE w \in r.put
    <3>1. CASE kind = "category"
      BY <1>6, <1>10, <2>1, <3>1 DEF Planted
    <3>2. CASE kind # "category"
      <4>1. w[2].parent = 0 /\ w[1] \in Id
        BY <1>10, <2>1, <3>2 DEF Planted
      <4> QED
        BY <4>1, CatalogueAssumption DEF Id
    <3> QED
      BY <3>1, <3>2
  <2>3. Rooted(r.id, r.mine.want)' /\ Rooted(r.par, r.other.want)'
    BY <1>2, <1>6, <1>7, <1>10 DEF Planted, Rooted
  <2> QED
    BY <1>1, <1>2, <1>10, <2>2, <2>3 DEF Planted, Rooted
<1>11. \A b \in Author : Planted(txn[b])'
  <2>1. ASSUME NEW b \in Author
        PROVE  Planted(txn'[b]) /\ txn'[b].put \subseteq Id \X Found
    <3>1. Planted(t) /\ t.put = {}
      BY <1>1, NoTxnPlanted, NoTxnIs
    <3>2. b # a => Planted(txn[b]) /\ txn[b].put \subseteq Id \X Found
      BY DEF TreeInv, RowsInv, Well
    <3> QED
      BY <1>2, <3>1, <3>2
  <2> QED
    BY <1>10, <2>1
<1> QED
  BY <1>1, <1>8, <1>9, <1>11 DEF TreeInv

LEMMA TreeSteps ==
    ASSUME RowsInv, TreeInv, CatalogueHistory, CatalogueNext
    PROVE  TreeInv'
<1>0. 0 \in 0..made
  BY CatalogueAssumption DEF RowsInv
<1>1. CASE \E a \in Author, k \in Word, p \in 0..made : Create(a, k, p)
  BY <1>1, TreeCreate
<1>2. ASSUME NEW a \in Author, NEW i \in 1..made,
             \/ \E k \in Word \cup {NoWord} : Update(a, i, k)
             \/ \E p \in 0..made : Move(a, i, p)
             \/ Get(a, i) \/ SoftDelete(a, i) \/ HardDelete(a, i)
      PROVE  TreeInv'
  <2>1. \E op \in Ops \ {"create", "none"}, k \in Word \cup {NoWord}, p \in 0..made :
           /\ op = "move" \/ p # 0 => kind = "category"
           /\ op = "erase" => kind # "category"
           /\ Find(a, Request(op, i, k, p))
    BY <1>0, <1>2 DEF Update, Move, Get, SoftDelete, HardDelete, Ops
  <2> QED
    BY <2>1, TreeFind
<1>3. ASSUME NEW a \in Author, TxnStep(a)
      PROVE  TreeInv'
  <2>1. CASE Fill(a) \/ CheckParent(a) \/ Flush(a) \/ CommitTxn(a)
    BY <2>1, TreeFill, TreeParent, TreeFlush, TreeCommit
  <2>2. CASE FillParent(a) \/ CheckChildren(a) \/ FindAgain(a) \/ FillAgain(a)
    BY <2>2, TreeOthers
  <2>3. CASE TxnAt(a, "check") /\ CheckKey(a, txn[a])
    <3>1. PICK t : t = txn[a]
      OBVIOUS
    <3>2. Formed(t) /\ Planted(t)
      BY <3>1, RequestPlanted
    <3> QED
      BY <2>3, <3>1, <3>2, TreeKey
  <2>4. CASE Drop(a, TRUE) \/ Drop(a, FALSE)
    BY <2>4, TreeDrop
  <2>5. CASE RollBack(a)
    <3>1. TxnEnds(a) /\ UNCHANGED <<kind, tbl, cached, made>>
      BY <2>5 DEF RollBack
    <3>2. made' \in 0..MaxRows /\ made' >= made
      BY <3>1, RequestPlanted
    <3> QED
      BY <3>1, <3>2, TreeEnds
  <2> QED
    BY <1>3, <2>1, <2>2, <2>3, <2>4, <2>5 DEF TxnStep
<1>4. CASE \E i \in Id : ExpireEntry(i)
  <2>1. PICK i \in Id : cached' = [cached EXCEPT ![i] = NoRow] /\ UNCHANGED <<kind, tbl, made, txn>>
    BY <1>4 DEF ExpireEntry
  <2>2. Rooted(i, NoRow)
    <3>1. NoRow.parent = 0
      BY DEF NoRow
    <3> QED
      BY <3>1 DEF Rooted
  <2>3. \A j \in Id : Rooted(j, cached'[j])
    BY <2>1, <2>2 DEF TreeInv, RowsInv
  <2>4. moved \subseteq moved'
    BY DEF CatalogueHistory
  <2> QED
    BY <2>1, <2>3, <2>4 DEF TreeInv, Planted, Rooted
<1> QED
  BY <1>1, <1>2, <1>3, <1>4 DEF CatalogueNext

LEMMA TreeBegins == AInit => TreeInv
<1> SUFFICES ASSUME AInit PROVE TreeInv
  OBVIOUS
<1>1. PICK t, r : t = NoTxn /\ r = NoRow
  OBVIOUS
<1>2. tbl = [i \in Id |-> r] /\ cached = [i \in Id |-> r] /\ txn = [a \in Author |-> t]
  BY <1>1 DEF AInit, CatalogueInit
<1>3. r.parent = 0
  BY <1>1 DEF NoRow
<1>4. \A i \in Id : 0 < i
  BY CatalogueAssumption DEF Id
<1> QED
  BY <1>1, <1>2, <1>3, <1>4, NoTxnPlanted DEF TreeInv, Rooted

LEMMA TreeKept == RowsInv /\ TreeInv /\ [ANext]_avars => TreeInv'
<1> SUFFICES ASSUME RowsInv, TreeInv, [ANext]_avars PROVE TreeInv'
  OBVIOUS
<1>1. CASE CatalogueNext /\ CatalogueHistory
  BY <1>1, TreeSteps
<1>2. CASE UNCHANGED <<cvars, moved>>
  BY <1>2 DEF cvars, TreeInv, Planted, Rooted
<1> QED
  BY <1>1, <1>2 DEF ANext, avars, ReferenceHistory, GatewayHistory

\* The category tree leaves out only what is on a loop of parents or below one,
\* and every such loop has a category that was moved on it: creation, deletion
\* and stale copies merged back close none (get_tree, update_category).
THEOREM TreeIsWhole == ASpec => []TreeHidesOnlyLoops
<1>1. AInit => RowsInv /\ KeysInv /\ TreeInv
  BY KeysBegin, TreeBegins
<1>2. RowsInv /\ KeysInv /\ TreeInv /\ [ANext]_avars => (RowsInv /\ KeysInv /\ TreeInv)'
  BY KeysKept, TreeKept
<1>3. RowsInv /\ KeysInv /\ TreeInv => TreeHidesOnlyLoops
  BY HiddenIsLooped DEF TreeHidesOnlyLoops
<1> QED
  BY <1>1, <1>2, <1>3, PTL DEF ASpec

=============================================================================
