------------------------------ MODULE Gateway -------------------------------
(***************************************************************************)
(* The way of an authenticated request through the program: the CSRF       *)
(* check, the rate limiter, get_current_user with the black list of access *)
(* tokens, the permission, the handler with its commit, the audit entry,   *)
(* the response; and the two handlers that change what the others check,   *)
(* GET /auth/csrf and POST /auth/logout.                                   *)
(*                                                                         *)
(* A route is known by what its function does here; what its service does  *)
(* to the tables is in the other modules.  What /auth/logout does to the   *)
(* refresh token and the session is in AuthSessions.                       *)
(***************************************************************************)
EXTENDS Integers, FiniteSets

CONSTANTS
    Server,         \* threads serving requests
    Serves,         \* Serves[s]: bound: the routes asked of that thread
    Bearer,         \* access tokens of the user
    CsrfToken,
    MaxFailures,    \* bound: Redis commands and transactions that fail
    NoBearer, NoCsrf

-----------------------------------------------------------------------------
(* Roles and permissions.                                                  *)

Hierarchy == <<"staff", "manager", "admin">>

\* ROLE_PERMISSIONS: what each role adds, of the permissions some route asks.
Adds == [staff |-> {}, manager |-> {},
         admin |-> {"products:write", "products:delete", "categories:write", "categories:delete",
                    "bundles:write", "bundles:delete", "audit:read"}]

Effective(role) ==
    UNION {Adds[Hierarchy[n]] : n \in {m \in 1..3 : \E k \in m..3 : Hierarchy[k] = role}}

\* require_permission; "login" is get_current_user alone.
Allowed(role, needs) == needs = "login" \/ needs \in Effective(role)

-----------------------------------------------------------------------------
(* Routes: method, permission, what the function changes ("rows" by a      *)
(* commit, "redis", "none"), whether it reloads the row after the commit,  *)
(* whether it may refuse (404, 400), and whether reading it is sensitive.  *)

Route(method, needs, changes, reloads) ==
    [method |-> method, needs |-> needs, changes |-> changes, reloads |-> reloads,
     refuses |-> TRUE, sensitive |-> FALSE, name |-> "other"]
Lists(needs) == [Route("GET", needs, "none", FALSE) EXCEPT !.refuses = FALSE]
Reads(needs) == Route("GET", needs, "none", FALSE)
Creates(needs) == Route("POST", needs, "rows", TRUE)
Updates(needs) == Route("PATCH", needs, "rows", TRUE)
Deletes(needs) == Route("DELETE", needs, "rows", FALSE)
Sensitive(route) == [route EXCEPT !.sensitive = TRUE]
Named(name, route) == [route EXCEPT !.name = name]

list_products == Lists("login")
get_product == Reads("login")
create_product == Creates("products:write")
update_product == Updates("products:write")
delete_product == Deletes("products:delete")

list_categories == Lists("login")
get_category_tree == Lists("login")
get_category == Reads("login")
create_category == Creates("categories:write")
update_category == Updates("categories:write")
delete_category == Deletes("categories:delete")

list_bundles == Lists("login")
get_bundle == Reads("login")
create_bundle == Creates("bundles:write")
update_bundle == Updates("bundles:write")
delete_bundle == Deletes("bundles:delete")
add_bundle_item == Creates("bundles:write")
update_bundle_item == Updates("bundles:write")
remove_bundle_item == Deletes("bundles:delete")
calculate_bundle_price == Reads("login")

list_customers == Lists("login")
get_customer == Sensitive(Reads("login"))
create_customer == Creates("login")
update_customer == Updates("login")
delete_customer == Deletes("login")

list_reservations == Lists("login")
get_reservation == Reads("login")
create_reservation == Creates("login")
update_reservation == Updates("login")
confirm_reservation == Creates("login")
cancel_reservation == Creates("login")

list_invoices == Lists("login")
\* A GET that commits: the invoices found overdue are marked so.
list_overdue_invoices == [Route("GET", "login", "rows", FALSE) EXCEPT !.refuses = FALSE]
get_invoice == Sensitive(Reads("login"))
create_invoice == Creates("login")
update_invoice == Updates("login")
add_payment == Creates("login")
cancel_invoice == Creates("login")

get_my_profile == Lists("login")
update_my_profile == Updates("login")

list_sessions == Lists("login")
revoke_session == Route("DELETE", "login", "redis", FALSE)
revoke_all_sessions == [revoke_session EXCEPT !.refuses = FALSE]

setup_mfa == Route("POST", "login", "rows", FALSE)
verify_setup == Route("POST", "login", "rows", FALSE)
mfa_status == Lists("login")
disable_mfa == Route("DELETE", "login", "rows", FALSE)

list_audit_logs == Lists("audit:read")
get_user_audit_trail == Lists("audit:read")
get_entity_audit_trail == Lists("audit:read")

get_current_user_info == Lists("login")
get_csrf_token == Named("csrf_token", Lists("login"))
logout == Named("logout", Route("POST", "login", "none", FALSE))

Routes == {
    list_products, get_product, create_product, update_product, delete_product,
    list_categories, get_category_tree, get_category, create_category, update_category,
    delete_category, list_bundles, get_bundle, create_bundle, update_bundle, delete_bundle,
    add_bundle_item, update_bundle_item, remove_bundle_item, calculate_bundle_price,
    list_customers, get_customer, create_customer, update_customer, delete_customer,
    list_reservations, get_reservation, create_reservation, update_reservation,
    confirm_reservation, cancel_reservation, list_invoices, list_overdue_invoices,
    get_invoice, create_invoice, update_invoice, add_payment, cancel_invoice,
    get_my_profile, update_my_profile, list_sessions, revoke_session, revoke_all_sessions,
    setup_mfa, verify_setup, mfa_status, disable_mfa, list_audit_logs, get_user_audit_trail,
    get_entity_audit_trail, get_current_user_info, get_csrf_token, logout}

ASSUME GatewayAssumption ==
    /\ Serves \in [Server -> SUBSET Routes] /\ MaxFailures \in Nat
    /\ NoBearer \notin Bearer /\ NoCsrf \notin CsrfToken

-----------------------------------------------------------------------------

VARIABLES
    role,           \* of the user
    unexpired,      \* access tokens that have not expired
    blacklist,      \* access tokens in the black list
    csrf,           \* CSRF tokens of the user in Redis
    handed,         \* CSRF tokens generated so far
    failures,       \* commands and transactions that failed so far
    call            \* the request of each thread

wvars == <<role, unexpired, blacklist, csrf, handed, failures, call>>
rest == <<role, unexpired, handed>>

NoCall == [pc |-> "idle", route |-> get_my_profile, bearer |-> NoBearer, token |-> NoCsrf,
           scan |-> {}, changed |-> FALSE, entry |-> "none", status |-> 0,
           blind |-> FALSE, lost |-> FALSE]

GatewayInit ==
    /\ role \in {Hierarchy[n] : n \in 1..3}
    /\ unexpired = Bearer /\ blacklist = {} /\ csrf = {} /\ handed = {} /\ failures = 0
    /\ call = [s \in Server |-> NoCall]

CallAt(s, pc) == call[s].pc = pc
CallTo(s, pc) == call' = [call EXCEPT ![s] = [call[s] EXCEPT !.pc = pc]]
Answer(s, status) == call' = [call EXCEPT ![s] = [call[s] EXCEPT !.pc = "answer", !.status = status]]

\* A command either answers or fails.  In a request, blind: Redis failed where
\* the answer was taken for a no; lost: the audit entry could not be written.
Replies(ok) == IF ok THEN UNCHANGED failures ELSE failures < MaxFailures /\ failures' = failures + 1

Unsafe(route) == route.method # "GET"
CsrfExempt(route) == ~Unsafe(route) \/ route.name = "logout"

\* CSRFProtectionMiddleware.dispatch: a token that does not decode is left to
\* get_current_user; x is the X-CSRF-Token header.
Receive(s, route, b, x) ==
    /\ CallAt(s, "idle")
    /\ call' = [call EXCEPT ![s] = [NoCall EXCEPT
          !.route = route, !.bearer = b, !.token = x,
          !.pc = IF CsrfExempt(route) \/ b \notin unexpired THEN "limit" ELSE "csrf"]]
    /\ UNCHANGED <<rest, blacklist, csrf, failures>>

\* validate_csrf_token: no header, an unknown token and an error are a 403.
ValidateCsrf(s, ok) ==
    /\ CallAt(s, "csrf") /\ Replies(ok)
    /\ IF ok /\ call[s].token \in csrf THEN CallTo(s, "limit") ELSE Answer(s, 403)
    /\ UNCHANGED <<rest, blacklist, csrf>>

\* RateLimitMiddleware, the subject of RateLimiter.
PassLimiter(s) ==
    /\ CallAt(s, "limit")
    /\ CallTo(s, "user") \/ Answer(s, 429)
    /\ UNCHANGED <<rest, blacklist, csrf, failures>>

\* get_current_user up to the row of the user: an expired token is a 401.
LoadUser(s) ==
    /\ CallAt(s, "user")
    /\ IF call[s].bearer \in unexpired THEN CallTo(s, "listed") ELSE Answer(s, 401)
    /\ UNCHANGED <<rest, blacklist, csrf, failures>>

\* is_access_blacklisted answers False on an error; then the permission.
Admit(s, ok) ==
    /\ CallAt(s, "listed") /\ Replies(ok)
    /\ IF ok /\ call[s].bearer \in blacklist THEN Answer(s, 401)
       ELSE IF ~Allowed(role, call[s].route.needs) THEN Answer(s, 403)
       ELSE call' = [call EXCEPT ![s] = [call[s] EXCEPT !.pc = call[s].route.name, !.blind = ~ok]]
    /\ UNCHANGED <<rest, blacklist, csrf>>

-----------------------------------------------------------------------------
(* The function of the route, and the audit entry.                         *)

\* The service refuses, or there is nothing to change, or it goes on.
Handle(s) ==
    /\ CallAt(s, "other")
    /\ \/ call[s].route.refuses /\ Answer(s, 400)
       \/ CASE call[s].route.changes = "rows" -> CallTo(s, "commit")
            [] call[s].route.changes = "redis" ->
                 call' = [call EXCEPT ![s] = [call[s] EXCEPT !.pc = "audit", !.changed = TRUE, !.status = 200]]
            [] OTHER -> call' = [call EXCEPT ![s] = [call[s] EXCEPT !.pc = "audit", !.status = 200]]
    /\ UNCHANGED <<rest, blacklist, csrf, failures>>

\* Mutant of Commit: the error is swallowed.
CommitAnyway(s, ok) ==
    /\ CallAt(s, "commit") /\ Replies(ok)
    /\ call' = [call EXCEPT ![s] = [call[s] EXCEPT
          !.changed = ok, !.pc = IF ok /\ call[s].route.reloads THEN "reload" ELSE "audit", !.status = 200]]
    /\ UNCHANGED <<rest, blacklist, csrf>>

\* db.commit: an error of the flush or the commit is a 500, a 400 for a clash in
\* some functions.
Commit(s, ok) ==
    /\ CallAt(s, "commit") /\ Replies(ok)
    /\ IF ok THEN call' = [call EXCEPT ![s] = [call[s] EXCEPT
                              !.changed = TRUE, !.pc = IF call[s].route.reloads THEN "reload" ELSE "audit",
                              !.status = 200]]
       ELSE Answer(s, 500)
    /\ UNCHANGED <<rest, blacklist, csrf>>

\* db.refresh: a 500 for what is committed.
Reload(s, ok) ==
    /\ CallAt(s, "reload") /\ Replies(ok)
    /\ IF ok THEN CallTo(s, "audit") ELSE Answer(s, 500)
    /\ UNCHANGED <<rest, blacklist, csrf>>

\* AuditMiddleware after the response: an entry for an unsafe method and a
\* sensitive read, not for /auth/csrf and /auth/logout; an error is swallowed.
Audited(route) == Unsafe(route) \/ route.sensitive

\* log_action, log_read_sensitive: the action recorded is that of the method.
Recorded(route) ==
    CASE route.method = "POST" -> "CREATE" [] route.method = "PATCH" -> "UPDATE"
      [] route.method = "DELETE" -> "DELETE" [] OTHER -> "READ_SENSITIVE"

WriteEntry(s, ok) ==
    /\ CallAt(s, "audit") /\ Replies(ok)
    /\ call' = [call EXCEPT ![s] = [call[s] EXCEPT
          !.pc = "answer", !.lost = ~ok,
          !.entry = IF ok /\ Audited(call[s].route) THEN Recorded(call[s].route) ELSE "none"]]
    /\ UNCHANGED <<rest, blacklist, csrf>>

Respond(s) ==
    /\ CallAt(s, "answer")
    /\ call' = [call EXCEPT ![s] = NoCall]
    /\ UNCHANGED <<rest, blacklist, csrf, failures>>

CallDies(s) ==
    /\ ~CallAt(s, "idle") /\ failures < MaxFailures /\ failures' = failures + 1
    /\ call' = [call EXCEPT ![s] = NoCall]
    /\ UNCHANGED <<rest, blacklist, csrf>>

-----------------------------------------------------------------------------
(* GET /auth/csrf, POST /auth/logout.                                      *)

\* secrets.token_urlsafe and SETEX; a failure is a 500.
StoreCsrf(s, x, ok) ==
    /\ CallAt(s, "csrf_token") /\ x \notin handed /\ Replies(ok)
    /\ handed' = handed \cup {x}
    /\ IF ok THEN csrf' = csrf \cup {x} /\ Answer(s, 200) ELSE UNCHANGED csrf /\ Answer(s, 500)
    /\ UNCHANGED <<role, unexpired, blacklist>>

ExpireCsrf(x) ==
    /\ x \in csrf /\ csrf' = csrf \ {x}
    /\ UNCHANGED <<rest, blacklist, failures, call>>

LogoutTo(s, pc, ok) ==
    call' = [call EXCEPT ![s] = [call[s] EXCEPT !.pc = pc, !.blind = call[s].blind \/ ~ok]]

\* revoke_on_logout: SETEX for the time the token has left; one that expired
\* in the meantime does not decode, and is left alone.
Blacklist(s, ok) ==
    /\ CallAt(s, "logout") /\ Replies(ok)
    /\ blacklist' = IF ok /\ call[s].bearer \in unexpired THEN blacklist \cup {call[s].bearer} ELSE blacklist
    /\ LogoutTo(s, "scan", ok)
    /\ UNCHANGED <<rest, csrf>>

\* revoke_all_csrf_tokens: SCAN, then DELETE of the keys found.
ScanCsrf(s, ok) ==
    /\ CallAt(s, "scan") /\ Replies(ok)
    /\ IF ok THEN call' = [call EXCEPT ![s] = [call[s] EXCEPT !.pc = "wipe", !.scan = csrf]]
       ELSE LogoutTo(s, "log", ok)
    /\ UNCHANGED <<rest, blacklist, csrf>>

\* Mutant of WipeCsrf: only the token sent with the request is deleted.
WipeOwn(s, ok) ==
    /\ CallAt(s, "wipe") /\ Replies(ok)
    /\ csrf' = csrf \ {call[s].token}
    /\ LogoutTo(s, "log", ok)
    /\ UNCHANGED <<rest, blacklist>>

WipeCsrf(s, ok) ==
    /\ CallAt(s, "wipe") /\ Replies(ok)
    /\ csrf' = IF ok THEN csrf \ call[s].scan ELSE csrf
    /\ LogoutTo(s, "log", ok)
    /\ UNCHANGED <<rest, blacklist>>

\* log_logout and the commit, in the handler: its failure fails the logout.
LogLogout(s, ok) ==
    /\ CallAt(s, "log") /\ Replies(ok)
    /\ call' = [call EXCEPT ![s] = [call[s] EXCEPT
          !.pc = "answer", !.status = IF ok THEN 200 ELSE 500, !.entry = IF ok THEN "LOGOUT" ELSE "none"]]
    /\ UNCHANGED <<rest, blacklist, csrf>>

\* An entry of the black list lives as long as its token.
ExpireBearer(b) ==
    /\ b \in unexpired /\ unexpired' = unexpired \ {b} /\ blacklist' = blacklist \ {b}
    /\ UNCHANGED <<role, csrf, handed, failures, call>>

CallStep(s, ok) ==
    \/ ValidateCsrf(s, ok) \/ Admit(s, ok) \/ Commit(s, ok) \/ Reload(s, ok) \/ WriteEntry(s, ok)
    \/ Blacklist(s, ok) \/ ScanCsrf(s, ok) \/ WipeCsrf(s, ok) \/ LogLogout(s, ok)
    \/ \E x \in CsrfToken : StoreCsrf(s, x, ok)

GatewayNext ==
    \/ \E s \in Server :
          \/ \E route \in Serves[s], b \in Bearer, x \in handed \cup {NoCsrf} :
                (CsrfExempt(route) => x = NoCsrf) /\ Receive(s, route, b, x)
          \/ \E ok \in BOOLEAN : CallStep(s, ok)
          \/ PassLimiter(s) \/ LoadUser(s) \/ Handle(s) \/ Respond(s) \/ CallDies(s)
    \/ \E x \in CsrfToken : ExpireCsrf(x)
    \/ \E b \in Bearer : ExpireBearer(b)

-----------------------------------------------------------------------------

GatewayTypeOK ==
    /\ role \in {Hierarchy[n] : n \in 1..3}
    /\ blacklist \subseteq unexpired /\ unexpired \subseteq Bearer
    /\ csrf \subseteq handed /\ handed \subseteq CsrfToken /\ failures \in 0..MaxFailures
    /\ call \in [Server -> [pc : {"idle", "csrf", "limit", "user", "listed", "other", "commit", "reload",
                                  "audit", "answer", "csrf_token", "logout", "scan", "wipe", "log"},
                            route : Routes, bearer : Bearer \cup {NoBearer},
                            token : CsrfToken \cup {NoCsrf}, scan : SUBSET CsrfToken,
                            changed : BOOLEAN,
                            entry : {"none", "CREATE", "UPDATE", "DELETE", "READ_SENSITIVE", "LOGOUT"},
                            status : {0, 200, 400, 401, 403, 429, 500},
                            blind : BOOLEAN, lost : BOOLEAN]]

\* What an entry of the trail says was changed has been committed; and a change
\* that is committed leaves an entry, unless the entry itself failed, the row
\* could not be reloaded after the commit, or a GET made the change
\* (AuditMiddleware, which looks at the method and the status only).
AuditTrail ==
    \A s \in Server : CallAt(s, "answer") =>
        /\ call[s].entry \in {"CREATE", "UPDATE", "DELETE"} => call[s].changed
        /\ call[s].changed /\ call[s].entry = "none" =>
              call[s].lost \/ call[s].status = 500 \/ ~Unsafe(call[s].route)
=============================================================================
