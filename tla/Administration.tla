--------------------------- MODULE Administration ---------------------------
(***************************************************************************)
(* The rest of the program: the rows administrators keep, the numbers of   *)
(* reservations, and the way of a request with its audit entry.  The parts *)
(* share no state here; a behaviour follows one of them, its `subject'.    *)
(* The history variables remember what the properties speak of.            *)
(***************************************************************************)
EXTENDS Catalogue, References, Gateway

CONSTANT MaxRequests    \* bound: requests of the catalogue that take more than one step

ASSUME AdministrationAssumption == MaxRequests \in Nat

VARIABLES
    asked,          \* how many of them there have been
    subject,        \* the part this behaviour is about
    crossed,        \* requests during which another one committed
    moved,          \* categories whose parent was changed
    gone,           \* rows that were removed
    dead,           \* ... of which, at some time, nothing was left anywhere
    late,           \* requests received after the logout of their token
    known,          \* known[s]: CSRF tokens stored when the request of s came in
    out,            \* access tokens logged out
    outdated        \* CSRF tokens known before a logout that was answered

avars == <<cvars, nvars, wvars, subject, asked, crossed, moved, gone, dead, late, known, out, outdated>>

AInit ==
    /\ CatalogueInit /\ ReferencesInit /\ GatewayInit
    /\ subject \in {"catalogue", "references", "gateway"}
    /\ subject # "catalogue" => kind = CHOOSE k \in Kinds : TRUE
    /\ subject # "gateway" => role = "staff"
    /\ asked = 0 /\ crossed = {} /\ moved = {} /\ gone = {} /\ dead = {}
    /\ late = {} /\ known = [s \in Server |-> {}] /\ out = {} /\ outdated = {}

\* The cached copy of a row this request loaded was not what the table has.
Stale(a) == txn[a].mine.base # txn[a].mine.want \/ txn[a].other.base # txn[a].other.want

\* Row i is gone, from the cache as well, and no request holds a copy of it.
NothingLeft(i) ==
    /\ tbl'[i] = NoRow /\ cached'[i] = NoRow
    /\ \A a \in Author : txn'[a].id # i /\ txn'[a].par # i /\ \A w \in txn'[a].put : w[1] # i

CatalogueHistory ==
    /\ asked' = IF \E a \in Author : Idle(a) /\ txn'[a].pc # "idle" THEN asked + 1 ELSE asked
    /\ asked' <= MaxRequests
    /\ crossed' = {a \in Author : txn'[a].pc \notin {"idle", "drop", "commit"} /\ (a \in crossed \/ tbl' # tbl)}
    /\ moved' = moved \cup {i \in Present : tbl'[i].parent # tbl[i].parent}
    /\ gone' = gone \cup {i \in Present : tbl'[i] = NoRow}
    /\ dead' = dead \cup {i \in gone' : NothingLeft(i)}
    /\ UNCHANGED <<late, known, out, outdated>>

ReferenceHistory ==
    /\ crossed' = {m \in Maker : make'[m].pc # "idle" /\ (m \in crossed \/ numbers' # numbers)}
    /\ UNCHANGED <<asked, moved, gone, dead, late, known, out, outdated>>

\* Logouts answered in this step whose commands all went well.
LoggedOut == {s \in Server : CallAt(s, "log") /\ call'[s].status = 200 /\ ~call[s].blind}

GatewayHistory ==
    /\ late' = {s \in Server : /\ call'[s].pc # "idle"
                               /\ s \in late \/ (CallAt(s, "idle") /\ call'[s].bearer \in out)}
    /\ known' = [s \in Server |-> IF call'[s].pc = "idle" THEN {}
                                  ELSE IF CallAt(s, "idle") THEN csrf ELSE known[s]]
    /\ out' = out \cup {call[s].bearer : s \in LoggedOut}
    /\ outdated' = outdated \cup UNION {known[s] : s \in LoggedOut}
    /\ UNCHANGED <<asked, crossed, moved, gone, dead>>

ANext ==
    /\ UNCHANGED subject
    /\ \/ /\ subject = "catalogue" /\ CatalogueNext /\ CatalogueHistory /\ UNCHANGED <<nvars, wvars>>
       \/ /\ subject = "references" /\ ReferencesNext /\ ReferenceHistory /\ UNCHANGED <<cvars, wvars>>
       \/ /\ subject = "gateway" /\ GatewayNext /\ GatewayHistory /\ UNCHANGED <<cvars, nvars>>

ASpec == AInit /\ [][ANext]_avars

TypeOK == CatalogueTypeOK /\ ReferencesTypeOK /\ GatewayTypeOK

-----------------------------------------------------------------------------
(* Properties.                                                             *)

\* A unique constraint only refuses what the checks let through when another
\* request committed since this one began, when the key is that of a deleted
\* row, which the checks do not see, or when the row came from the cache
\* (slug_exists, name_exists, email_exists, get_by_bundle_and_product); and a
\* new reservation only when another was committed since the numbers were read
\* (generate_reference).
ClashesExplained ==
    /\ \A a \in Author : TxnAt(a, "flush") /\ KeyClash(a) =>
          a \in crossed \/ Stale(a) \/ Rivals(a) \cap Live = {}
    /\ \A m \in Maker : MakeAt(m, "insert") /\ Clashes(m) => m \in crossed

\* The tree shows every active category, but those on a loop and below one; and
\* only a category that was moved closes a loop (get_tree, update_category).
TreeHidesOnlyLoops ==
    \A c \in Live \ Shown : \E d \in Above(c) \cap moved : d \in Above(d)

\* A row that was removed comes back from a cached copy and from nothing else:
\* once it is gone from the table, the cache and every session, it is gone for
\* good (remove_item, hard_delete, get_by_id).
RemovedForGood == \A i \in dead : tbl[i] = NoRow /\ cached[i] = NoRow

\* After a logout that no failing command spoilt, its access token opens no
\* route, unless it expires while it is being checked: its entry of the black
\* list ends with it.  And no CSRF token that was there when the logout came in
\* is accepted (revoke_on_logout, revoke_all_csrf_tokens, get_current_user).
LogoutHolds ==
    /\ \A s \in late : call[s].blind \/ call[s].bearer \notin unexpired \/
          (~call[s].changed /\ call[s].pc \in {"csrf", "limit", "user", "listed", "answer"})
    /\ csrf \cap outdated = {}
=============================================================================
