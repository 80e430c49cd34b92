# Marveline / CaroCorp: TLA+ model of the back end

The repository is a rental back office: a FastAPI application over PostgreSQL
(SQLAlchemy 2) with Redis for caching, tokens, sessions and counters, and a React
client. This directory models the parts whose correctness depends on the order in
which requests, transactions and Redis commands interleave.

## 1. The system

Every HTTP request runs in a thread of the server's pool (several processes may
serve), with a database session of its own (`core/database.py`: `autocommit=False`,
`autoflush=False`, READ COMMITTED). The endpoint commits; any exception leaves without a
commit and closing the session rolls back. Redis commands are outside the transaction.

| Component | State it keeps | Operations | What makes it correct |
|---|---|---|---|
| Reservation workflow (`services/reservation.py`) | `reservations.status`, lines, amounts | create (draft), confirm, cancel, update dates | status follows the workflow; a confirmed reservation holds its stock, a cancelled one none; all lines or none |
| Product stock (`services/product.py`, `repositories/product.py`) | `stock_quantity`, `available_quantity`, `is_active` | reserve, release, PATCH, DELETE, GET | `0 <= available <= stock`; no unit reserved twice |
| Generic repository and cache (`repositories/base.py`, `services/cache.py`) | Redis entries `product:{tenant}:{id}` with a TTL | get_by_id (read-through), create, update, soft and hard delete | an entry is a committed row; a mutation invalidates it; a stale entry never reaches the database |
| Reference numbers (`generate_reference`, `generate_invoice_number`) | references in the tables, a set in process memory | next number of the year | a number is refused only when another request took it meanwhile; none beyond 9999 |
| Invoices (`services/invoice.py`) | `paid_amount`, `status` | generate, pay, update, cancel, mark overdue | every payment counted once; PAID exactly when paid; PAID and CANCELLED exclude each other |
| Refresh tokens (`services/token.py`, `core/redis.py`) | white list of JTIs, families, access black list | issue, rotate, revoke, replay detection | one working token per family; only a used token is a replay; a dead family stays dead |
| User sessions (`services/session.py`) | session keys and a set per user | create with eviction, list, revoke, revoke all | at most five; whoever can refresh is listed; revoke-all leaves no device behind |
| Login, brute force (`services/auth.py`, `services/bruteforce.py`) | password hash; counters and locks with a TTL | login, rehash, change of password; count, lock, reset | failures are bounded; a lock ends; no password is undone |
| Rate limits (`core/rate_limiter.py`, `middleware/security.py`) | counters with a TTL | INCR, EXPIRE, TTL per request | a refused client is served again |
| MFA (`services/mfa.py`) | device, last TOTP window, recovery hashes, login session in Redis | set up, verify, consume, disable | a code and a login session are used once; an enabled device stays |
| Categories, bundles and items, customers | rows over the generic repository and its cache | create, update, move, soft and hard delete, tree | unique keys; no row lost from the tree; a removed row stays removed |
| Request path (`middleware/*`, `core/deps.py`, `core/permissions.py`) | CSRF tokens, access black list | CSRF check, limiter, current user, permission | a logout takes effect |
| Audit (`middleware/audit.py`, `services/audit.py`) | append-only log | write after the response | an entry for every committed change, and for nothing else |

How they interact: the reservation workflow calls `ProductService`, which calls
`ProductRepository`, whose `get_by_id` goes through the cache; invoices copy the total
of a reservation; sessions own a token family and revoking one revokes the other;
`get_current_user` consults the access black list on every request. The hard
behaviours are listed, with the line where each one bites, in `PROJECT.json` under
"hazards".

## 2. Modules

| Module | What it is |
|---|---|
| `StockReservation` | the core: reservation workflow, product handlers, sessions, row locks, cache |
| `StockHistory` | the same with two history variables, and the properties that need them |
| `StockLedger` | abstract specification: what the workflow promises |
| `MCStockHistory` | values of the constants for TLC |
| `StockReservation_proofs` | typing and bounds of every row, atomic confirmation, committed rows in the cache, deleted products, for all constants |
| `StockConservation_proofs` | stock adds up, and the refinement of `StockLedger`, for all constants |
| `Invoices` | invoices: numbers, payments, PATCH, cancellation, overdue check |
| `InvoiceHistory` | the same with what the clients were told, and the properties that need it |
| `MCInvoices`, `MCInvoiceHistory` | values of the constants for TLC |
| `Invoices_proofs` | typing, payments within the total, numbering, for all constants; of `InvoiceHistory`, payments that add up and settled invoices that are final, off the races |
| `AuthSessions` | refresh tokens, token families and user sessions, one Redis command per action |
| `AuthHistory`, `MCAuthHistory` | the same with the overlaps that matter, and the properties; values for TLC |
| `AuthSessions_proofs` | typing, and dead families stay dead, for all constants |
| `AuthHistory_proofs` | one working token per family, replays are reuses, for all constants |
| `SessionList_proofs` | who can refresh is listed, revoke-all reaches all, the limit of sessions, for all constants |
| `RateLimiter` | the fixed-window limiter and the middleware's two checks |
| `LoginGuard` | login: locks and counters, password, rehash, change of password |
| `Mfa` | the second factor: device, codes, MFA sessions |
| `AccountAccess`, `MCAccountAccess` | these three with their histories and properties; values for TLC |
| `AccountAccess_proofs` | tickets, codes, enabled devices and passwords, bounded failures, typing, for all constants |
| `Gateway` | every authenticated route on its way through CSRF, limiter, user, permission, handler, commit and audit |
| `Catalogue` | categories, bundles, items and customers over the repository and its cache |
| `References` | numbers of reservations: table, process memory, unique constraint |
| `Administration`, `MCAdministration` | these three with their histories and properties; values for TLC |
| `Administration_proofs` | audit trail, logout, removed rows, unique keys, explained clashes, the category tree, typing, for all constants |

### StockReservation

One worker is one thread serving one request at a time; `tx[w]` is the request and its
SQLAlchemy session.

| Variable | In the system |
|---|---|
| `stable[p]` | the committed version of product row `p`, what every other READ COMMITTED statement reads |
| `row[p]`, `plock[p]` | its newest version, which only the holder of the row lock may have changed |
| `stableStatus[r]`, `status[r]`, `rlock[r]` | the same for a reservation's status; the status "absent" is a reservation not inserted yet |
| `cache[p]` | the Redis entry of the product |
| `tx[w].seen[p]` | the attributes of the instance in the identity map |
| `tx[w].base[p]` | what the session believes is in the database; a flush writes the columns in which `seen` differs |
| `tx[w].pc` | `next`: choose a line; `fill`: row selected, cache not written yet; `flush`: about to write; `status`: lines done; `commit`: all flushed |

| Action | Code |
|---|---|
| `BeginConfirm`, `BeginCancel` | `get_by_id_with_relations` and the status check of `confirm_reservation`, `cancel_reservation`; a refusal has no effect and is no step |
| `CheckAvailability`, `RefuseLine` | `ProductService.reserve_stock` up to `check_availability`: the identity-map path of `get_by_id` after a hit, SELECT and cache fill after a miss |
| `ReserveStock`, `ReleaseStock` | `_get_for_update`, the arithmetic on the instance already in the session, and the flush; no row or a broken CHECK ends the request |
| `FlushStatus` | `repo.update(reservation)` at the end of either |
| `BeginCreate` | `create_reservation` up to the INSERT |
| `GetByIdHit`, `GetByIdSelect`, `GetByIdMissing`, `FillCache` | the paths of `BaseRepository.get_by_id`: merge of the cached row, SELECT, 404, cache fill |
| `FlushProduct`, `RefuseProduct`, `RespondRead` | the flush of a create's line, of a PATCH or DELETE with the cache deletion that follows it (before the commit), the refusals, and GET |
| `RefusedHardDelete` | DELETE `?hard_delete=true` of a product with lines, which only leaves the row in the cache, inactive or not |
| `Commit`, `Rollback` | `db.commit()` of the endpoint; `db.close()` of `get_db` |
| `Evict`, `Crash`, `DeadlockVictim` | TTL or eviction; death of the process; PostgreSQL's detector |

Abstractions, all of data: a product has three columns, so a PATCH or a merge that changes
others only is a write of the same three values, and a merge whose cached entry agrees
in the three columns is not dirty; the lines of a reservation are a set taken in any
order (the relationship has no ORDER BY; a line's product is unique); the UPDATE is
merged with the SELECT FOR UPDATE before it, which already holds the lock; the foreign
key's KEY SHARE locks, compatible with these updates, are left out; statuses DELIVERED
and RETURNED are set by no endpoint. A hard delete of a product without lines and the
creation of a product are not modelled. Quantities patched are natural numbers and line
quantities are positive because the schemas reject others.

`StockHistory` adds `disturbed`, the products for which a value was used that was no
longer the committed one, and `past`, the versions of each row ever committed. They are
computed from the step, and constrain nothing.

`StockLedger` has four actions: open, book, drop, release. Booking takes every line at
once and only when all are available, releasing gives all of them back.

### Invoices

The database and the sessions are those of `StockReservation` (`stable`, `row`, `lock`,
`tx[w].base`, `tx[w].seen`), without the cache: an invoice has dates, `to_dict` leaves them
unserialisable, and every `get_by_id` is a SELECT. An invoice that does not exist has
the status "absent" and the number 0. A handler is a `Begin`, which loads and decides; one
`Insert` or `Flush` per row it writes, under the row lock; and the endpoint's `Commit`.

| Action | Code |
|---|---|
| `BeginCreate`, `Insert` | `generate_from_reservation` with the scan of `generate_invoice_number`; the INSERT waits for an uncommitted row that clashes on `reservation_id` or on tenant and number, and fails on a committed one |
| `BeginPay` | `add_payment`: not cancelled, not beyond the total; PAID when the total is reached |
| `BeginPatch`, `BeginCancel` | `update_invoice`, `cancel_invoice`: anything not PAID |
| `BeginOverdue` | `list_overdue` and the loop of `check_overdue_invoices`, one flush per invoice |
| `Flush` | `BaseRepository.update`: UPDATE of the changed columns, whatever the row has become |

Abstractions: the dates are left out, so any unpaid invoices may be the late ones and two
checks may lock them in different orders; the payment's method and date follow its
amount; the year is fixed; the total of a reservation does not change. Refused requests
have no effect and are no step. The CHECK on `paid_amount` is left out on purpose:
`PaidWithinTotal` shows that the handlers never meet it.

`InvoiceHistory` adds `received`, the sum of the payments acknowledged, and `raced`, the
invoices a request committed after they had changed since it loaded them.

What the model says about PAID, without any race: a PATCH may set it on an unpaid invoice
(which can then be paid, or become overdue) and may revive a cancelled one, and an invoice
of total 0 never gets it from a payment. The numbers are unique in a tenant only:
the scan looks at all tenants, the constraint does not.

### AuthSessions

Nothing here holds a lock: a handler is a sequence of Redis commands. Each is an action
with a parameter `ok`; with `ok = FALSE` the command fails and the wrapper of `core/redis.py`
answers False, None, 0 or [] (`Reply`). A family is one login, its tokens `<<f, n>>` are the pairs
it minted, its session bears its name.

| Variable | In the system |
|---|---|
| `refresh` | keys `refresh_jti:{jti}`, the white list |
| `family[f]` | `token_family:{id}`: absent, active, inactive |
| `session`, `index` | `session:{id}` and the members of `session_idx:{user}` |
| `minted[f]`, `held` | pairs signed so far, and those a client received |
| `since[f]` | order of `created_at`, which decides who is evicted |
| `faults`, `failed` | the bound on failures; whether a command failed |
| `tx[w]` | the request of a thread, with what it read |

| Actions | Code |
|---|---|
| `IssueTokens`, `StoreRefreshJti`, `StoreTokenFamily` | `issue_tokens` |
| `EnforceMaxSessions`, `StoreSessionKey`, `StoreSessionIndex` | `create_session` with `_enforce_max_sessions` |
| `BeginRefresh`, `CheckWhitelist`, `CheckFamily`, `RotateOld`, `DetectReplay`, `RevokeAllRefreshTokens` | `rotate_refresh_token`, replay included |
| `BeginLogout`, `RevokeRefreshJti`, `FindSession` | `/auth/logout`, the refresh token and the session |
| `BeginRevokeSession`, `GetSession`, `BeginRevokeAll`, `ListForRevokeAll`, `DeleteAllUserSessions`, `DeleteUserIndex` | `/sessions` |
| `RevokeFamily`, `DropSession` | `_revoke_token_family`, `delete_session`, shared by the above |
| `ListSessions`, `ExpireFamily`, `Crash` | GET `/sessions`, which tidies the index; TTL; death of a process |

A client may send any pair it ever received, at any time: a retry after a lost answer is such a
request. Abstractions: the SCAN of `revoke_all_refresh_tokens` with its deletions is one step, and so
are the read and the write of a family record; a family expires with its first pair and its session
(same TTL, stored together) and, a bound, only while no request of the user is under way.

What the model says besides its properties: a detected replay deletes the tokens of all the user's
devices, each of which then looks like a replay itself; a change of password revokes no session.

### RateLimiter, LoginGuard, Mfa (AccountAccess)

The three share no state, so a behaviour of `AccountAccess` follows one of them, its `subject`.

| Module | State | Actions |
|---|---|---|
| `RateLimiter` | `hits`, `ttl`: the counters `rate_limit:{scope}:{client}`; `rq`: the request of a thread | `Dispatch` (which keys), `Incr`, `Expire`, `ReadTtl`, `Heal` (`check_rate_limit`), `Respond`, `CommandFails` (any error lets the request through), `RequestDies`, `LimiterTick` |
| `LoginGuard` | `fails`, `window`, `lock`, `alert`: keys of `bruteforce.py` with their time to live; `hash`: the committed password row; `lg` | `Login`, `IsLocked`, `CountEmail`, `CountIp` (`check_and_enforce`); `VerifyPassword`, `Rehash`, `CheckActive`, `CommitLogin` (`login`); `ForgetEmail`, `ForgetIp`; `FailEmail`, `FailIp`, `SetLock`, `SetAlertSent`; `ChangePassword`, `LoginDies`, `GuardTick` |
| `Mfa` | `device`: the row `mfa_devices`; `ticket`: `mfa_session:{token}`; `clock`: the TOTP window; `mf` | `SetupTotp`, `WriteSetup`, `VerifySetup`, `WriteEnable`, `DisableMfa`; `CreateMfaSession`, `VerifyMfa`, `ConsumeMfaSession`, `CheckCode`, `WriteTotp`, `WriteRecovery`, `GrantTokens`; `NextWindow`, `ExpireMfaSession`, `HandlerDies` |

A handler of `Mfa` reads the row in one step and writes what it computed in a later one, without a
lock, as the code does. A process may die between a code that is spent and the tokens it was spent
for; the user then needs another code. Abstractions: time is a tick that moves every TTL; captcha and
progressive delay are hints of the answer and refuse nothing; `MAX_VERIFY_ATTEMPTS` is read nowhere;
the TOTP check accepts the codes of neighbouring windows and compares, and stores, the window of the
clock, so a code is identified with that window.

What the model says besides its properties: the alert level (ten failures) that
`services/bruteforce.py:36-50` and `constants/security.py:142-161` describe as the step after the lock
is reached only by overlapping requests or after a failing command, because the lock refuses the
attempts before they are counted.

### Gateway, Catalogue, References (Administration)

Again one `subject` per behaviour.

`Gateway` follows a request through the middleware and the dependencies in the order of the code:
`Receive`, `ValidateCsrf`, `PassLimiter`, `LoadUser`, `Admit` (black list, permission), then the
function of the route (`Handle`, `Commit`, `Reload`; `StoreCsrf`; `Blacklist`, `ScanCsrf`, `WipeCsrf`,
`LogLogout`), `WriteEntry` (`AuditMiddleware`) and `Respond`. A route is a record: method, permission,
what it changes, whether the row is reloaded after the commit, whether it may refuse, whether
reading it is sensitive. All routes of `api/v1` behind `get_current_user` are there (health
probes, the root, and login, MFA verification and refresh, which have no user yet, are not). `role`
is any of the three, with the permissions it inherits. As in the code, the routes of customers, invoices
and reservations ask for a logged-in user and nothing more; GET `/invoices/overdue` commits, without
CSRF check and without an entry; the action recorded is that of the method, so that a confirmation
is a CREATE.

`Catalogue` has one table for four kinds with the same shape: a unique key that deleted rows keep, an
active flag, and for categories a parent. `Find`, `Fill`, `CheckKey`, `CheckParent`, `FillParent`,
`CheckChildren`, `FindAgain`, `FillAgain`, `Flush`, `Drop`, `CommitTxn` are the statements and
commands of a handler in order, `Create`, `Update`, `Move`, `Get`, `SoftDelete`, `HardDelete` the requests;
`base` and `want` are `tx.base` and `tx.seen` of `StockReservation`. What differs by kind, because it does in
the code: only categories check children and read the row twice when deleting; only customers leave
their own row in the e-mail check; `remove_item` deletes without touching the cache; the second read of
`soft_delete` may find nothing, and the answer is 204 all the same. Abstractions: a flush takes
its row locks at once; foreign keys that refuse a hard delete are left out, as are columns without a
constraint; the children of a bundle are rows of the kind item.

`References` is `generate_reference` and its INSERT. The set in memory belongs to the process, is shared by its threads
without a lock (an addition during the loop raises) and keeps the numbers of creations that were rolled
back; the constraint is over all tenants. The year is fixed.

## 3. Runs

| Run | Question | Instance | Result |
|---|---|---|---|
| `stock_locks` | two workers, locks, deadlocks, crashes, a shrinking PATCH | 2 workers, 2 products (stock 1), 2 drafts that both need both products, no Redis | holds |
| `stock_cache` | every handler with an unreliable cache | 2 workers, 1 product (stock 1), 2 reservations, flaky Redis | holds |
| `stock_ledger` | refinement of the ledger | 1 worker, 2 products (stock 2), 2 reservations, deletion of one product, no Redis | holds |
| `invoices` | payments, PATCH, cancellation and overdue checks on one invoice | 2 workers, 1 invoice of total 2, payments of 1 and 2, PATCH to draft, sent, paid | holds |
| `invoice_numbers` | numbers, uniqueness, waits | 2 workers, 3 invoices of 2 tenants, 2 numbers | holds |
| `auth_sessions` | tokens, families and sessions against replays, overlaps and failures | 2 workers, 1 user with 2 logins, 3 pairs, at most 1 session, 1 failure or crash | holds |
| `account_access` | limits, locks, codes | per subject 2 threads and 1 failure or crash; limits 2 (address) and 1 (login), lock at 2 failures, alert at 3; 2 recovery codes, 2 TOTP windows, 2 tickets, 2 set-ups | holds |
| `administration` | rows, numbers, routes | 2 administrators, 3 rows, 2 keys, 4 kinds, 5 requests of more than one step; 3 threads in 2 processes, 3 numbers; all 53 routes against a logout, 1 failure | holds |
| `invoice_lost_payment` | every acknowledged payment is counted | 2 workers, 1 invoice, payments of 1 | violated |
| `stock_oversold` | confirmed reservations never exceed the stock | 2 workers, 1 product, 2 drafts | violated |
| `stock_cancelled` | CANCELLED is final | 2 workers, 1 product, 1 draft | violated |
| `stock_stale_cache` | a committed mutation leaves no old entry | 1 worker, 1 product, Redis that never fails | violated |

Properties.

* `StockBounds`: `0 <= available <= stock` in every version of every row. Only the right
  half is a database constraint.
* `ConservedUnlessDisturbed`: on a product no stale value touched, availability plus what
  confirmed reservations hold is the initial stock. Together with `stock_oversold` it says
  exactly which requests lose stock: those that use a value which is no longer committed.
* `ConfirmTakesEveryLine`: a reservation becomes confirmed only in a commit that takes each
  of its lines from the quantity the request loaded.
* `EveryRequestEnds`: no request is blocked forever, though locks are taken in any order.
* `CacheHoldsCommittedRows`: an entry is a version that was committed once.
* `DeletedUnlessDisturbed`: a soft-deleted product reappears only through a stale value.
* `ImplementsLedger`: one request at a time, without the cache, the code is the ledger.

* `PaidWithinTotal`: no version of an invoice is paid beyond its total.
* `PaymentsAddUpUnlessRaced`: off the races, `paid_amount` is the sum acknowledged.
* `SettledIsFinalUnlessRaced`: off the races, an invoice paid in full never changes again.
* `Numbering`: committed numbers are 1, 2, ... without a hole, distinct within a tenant.
  Two numbers for three invoices, so that the end of the counter (9999) is reached.
* `EveryRequestEnds` (invoices): two overdue checks may deadlock, and an INSERT waits for
  another; nobody stays blocked.

* `OneLiveToken`: a family has one refresh token that works, unless two requests used one token at
  once or a command failed. `ReplayOnlyAfterUse`: only a used token is treated as a replay, with the
  exceptions it names. `DeadFamiliesStayDead`: a revoked or expired family that no request is working on
  is never active again and mints nothing, whatever fails.
* `SessionLimit`, `ActiveFamilyIsListed`, `RevokeAllIsComplete`: what users see of their
  devices and can do to them, off the overlaps that `crowded` and `raced` name.
* `AttemptsBounded`: concurrent failures overshoot the threshold by at most one per further thread.
  `LockEnds`, `RefusalEnds`: no lock and no refusal lasts forever, though a request may die between
  INCR and EXPIRE.
* `PasswordKept`: only an overlapping rehash undoes a change of password. `EnabledUntilDisabled`,
  `UsedStaysUsed`, `TicketOpensOnce`: the second factor, off the overlaps they name.
* `ClashesExplained`: a unique constraint strikes only because of another commit, a deleted row or a
  stale copy. `TreeHidesOnlyLoops`: the tree hides a category only below a loop, and only a move closes
  one. `RemovedForGood`: a row that is gone everywhere never returns (ids are not used again).
* `LogoutHolds`: after a logout its token opens nothing. `AuditTrail`: entries and
  commits agree, with the exceptions the code has: a GET that commits, a reload that fails after the
  commit, an entry that fails.

Many of these have the form "unless": the code takes no lock there, and TLC found the
overlap that breaks the plain statement. The exception says how much the overlap may cost, and that nothing
else costs anything.

The four violations are recorded under "findings". `stock_oversold`: both confirmations load
the product with the reservation; the second waits for the lock, then
`SELECT ... FOR UPDATE` without `populate_existing` answers with the instance loaded before
the wait, so both write the same quantity. `stock_cancelled`: the confirmation loaded the
draft, the cancellation commits, the confirmation writes its status over it.
`stock_stale_cache`: `reserve_stock` and `release_stock` flush without deleting the entry.

`invoice_lost_payment`: two payments load the same `paid_amount`, both are answered 200,
the second UPDATE overwrites the first.

Bounds. The hazards need two requests and at most one more read: two workers interleave in
every way; two products are needed for a deadlock and for a partial confirmation, and one
is enough for everything the cache does, since entries and identity-map slots of different
products do not interact. With stock 1 the two reservations compete for the last
unit; `stock_ledger` has stock 2 and different quantities. The cache runs have no PATCH
and the lock run no DELETE: the product of all of them exceeds the time of a run.
Redis "down" in the lock runs removes the cache paths, which `stock_cache` covers.

A race on an invoice needs two requests and involves no other invoice; total 2 gives partial
and full payments. Numbers involve nothing but creation, so that run has no payment
and no PATCH; three invoices let two of one tenant compete while the other tenant's
takes a number.

Two requests of one user cover the overlaps of `auth_sessions`, with a limit of one session (five
in the code) so that the second login evicts; one family rotates, once, which gives a used, a
current and a lost pair. Counters and locks need the thresholds reached and
overtaken: 2 failures lock, 3 alert, and time to live 1 and 2 so that a counter may end before a lock (both
are 15 minutes in the code). Three categories make a loop with a node below; two keys clash; 5
multi-step requests are two creations, two changes and an overlap. `MaxCount`, `Windows`, `Setups`,
`MaxErrors`, `MaxMishaps`, `MaxFailures`, `MaxFaults`, `MaxRows`, `MaxRequests`, `Serves` and
`MaxTokens` are bounds and named so where they are declared. Threads are
interchangeable where a run has a SYMMETRY set; the run with liveness properties has none.

Deadlock checking is on in the stock runs: a worker can always start a request or a step.
It is off in the invoice runs, where the system may stop: when every invoice is settled,
or cancelled with no PATCH to revive it, all requests are refused. It is off in the three last runs as
well, whose logins, tickets, counts and requests are bounded and run out.

Fairness (`FairSpec`): strong for the steps of a worker, weak for the deadlock detector.
A thread that holds what its next statement needs runs on. A waiter is granted the lock in
turn, because PostgreSQL queues waiters: a step enabled again and again is taken, which is
the strong form. The detector runs after `deadlock_timeout`. Nothing obliges a client to
send a request, a process to crash or an entry to expire.

In `AccountAccess` time passes (weak fairness of `LimiterTick` and `GuardTick`) and a thread of the limiter
that is not killed goes on (weak fairness of `RequestStep`). Nothing is assumed of logins: `LockEnds`
holds even if every login hangs.

## 4. Proofs

For every set of workers, products and reservations, every quantity and every behaviour
of Redis, from the assumptions named in `StockReservation`:

* `TypeCorrect`: `Spec => []TypeOK`.
* `RowsWithinBounds`: `Spec => []StockBounds`.
* `ConfirmationIsAtomic`: `Spec => ConfirmTakesEveryLine`.
* `CacheIsCommitted`: `HSpec => []CacheHoldsCommittedRows`; `DeletedStays`:
  `HSpec => DeletedUnlessDisturbed`.
* `StockConserved`: `HSpec => []ConservedUnlessDisturbed`, for finitely many reservations
  (`ReservationAssumption`), since it speaks of a sum over them.
* `LedgerUnlessDisturbed`: `HSpec /\ [](disturbed = {}) => ImplementsLedger`, whatever the
  concurrency, the cache and the failures; `LedgerOneAtATime`: the same of requests served one
  at a time, without the cache and without PATCH (`ServedOneAtATime`, the setting of
  `stock_ledger`), which never use a stale value.

`StockBounds` is not inductive: a request computes with remembered values. `IInv` types
everything more finely: database rows are `Sound` (bounded on both sides), the cache, `base`
and `seen` hold `Kept` rows (never negative; a merged or patched instance need not fit
its stock yet), and a confirmation about to flush has checked the very quantity it
subtracts, which no step of another worker can change since it is in its session. The one
place where a row is built is `Update`, whose lemma says that an UPDATE which passes the
CHECK constraint mixes two such rows into a sound one. One lemma per action follows.

`ConfirmTakesEveryLine` speaks of the commit. `LInv` says what led there: the lines a
confirmation is done with are locked by it and hold exactly what was loaded less the
quantity (`Taken`), and a locked reservation is one its holder created or has just given its
final status (`Held`). `Frame` reduces each action to what it does to its own worker,
once it is shown to leave alone what others have locked.

What the cache holds depends on what a request may still send it: `PInv` adds that the row
loaded by a confirmation, or selected and not cached yet, was committed. A confirmation
caches the instance of its session, which is the loaded one as long as the line is not
done: that is `Taken` again. For the deleted products `DInv` adds that a row nobody
locks is the committed one, and that neither a pending row nor an instance about to be
flushed makes an undisturbed product active again; the only handler that could is
`get_by_id` after a cache hit, and then the product is disturbed.

`ConservedUnlessDisturbed` compares committed rows with committed statuses, while a commit
publishes rows that were written line by line, long after they were loaded. `CInv` keeps an account of every
request: a row it has locked differs from the committed one by what its operation moves
(`Moved`), creating and deleting move nothing (`Copied`), a status about to change is still the one
it was loaded as (`Known`), and a cancellation loaded a row into which what it gives
back fits, because the balance holds and its reservation is one of those that hold stock (`Plan`). That is
why `release_stock`, which caps at `stock_quantity`, never caps an undisturbed product, the step
on which the refinement rests. The sum is a fold over a set, whose value the prover cannot compute by
induction; the few facts needed of it (a term may be taken out, terms that agree give
the same sum) are found on a smallest set that would not have them (`WFMin`), so nothing
is assumed of it.

The refinement maps the ledger's state to committed rows and committed statuses. Only `Commit`
changes those (`CInv` says how), and it is a ledger step or a stutter; every other step
is a stutter. For requests one at a time, `Alone` says that what is loaded is what is
committed, so that nothing is ever disturbed.

For every set of workers, invoices and tenants, all totals, amounts and statuses patched, from the
assumptions named in `Invoices`:

* `TypeCorrect`, `NeverOverpaid` (`Spec => []PaidWithinTotal`), `NumberingHolds`
  (`Spec => []Numbering`).
* `PaymentsAddUp` and `SettledIsFinal`, of `HSpec`.

The invariant of `Invoices_proofs` follows a value from the moment a handler computes it
(`Prepared`) to the UPDATE: pending amounts are within the total (`Bounded`), a pending
number has its predecessors issued (`Placed`), which stays true because committed
rows keep theirs (`Lasting`), and a row nobody else sees belongs to a transaction that only
has to commit (`Hidden`), so that an INSERT that awaits nobody clashes with nobody. Every
request is shown to be a `Begin`; four lemmas, one for each kind of step, do the rest.
The second half of `Invoices_proofs`, about `InvoiceHistory`, adds what a lock says (`Held`): the row is what its holder
loaded with its changes, unless the row had changed in between, which is a race.

For every set of threads, users and logins, all limits, from the assumptions named in
`AuthSessions`, whatever commands fail and whoever crashes:

* `TypeCorrect`: `Spec => []TypeOK`.
* `DeadFamilies`: `Spec => DeadFamiliesStayDead`.
* `OneTokenPerFamily`: `HSpec => []OneLiveToken`; `ReplaysAreReuses`:
  `HSpec => []ReplayOnlyAfterUse`.
* `ActiveIsListed`, `RevokeAllReachesAll`, `SessionsAreLimited`: `HSpec` implies that
  `ActiveFamilyIsListed`, `RevokeAllIsComplete` and `SessionLimit` always hold, for finitely
  many families (`FamilyAssumption`).

The invariant of `AuthSessions_proofs` (`IInv`) types the store and restricts the requests to the `Wired`
ones: at each place of the code only some operations can be, with a token of their own
family in hand. `DeadFamilies` then needs no other invariant: for each step, a family that is `Quiet` is
neither activated (only a login does, and it is `Minting`) nor minted or listed (only a rotation past
the check of the family, which is `Minting` too). `OneLiveToken` is not inductive: `Sole` adds the tokens
that are about to be listed or deleted, so that requests which use a family use the same token and the
one that lists a new one is alone. `Plain` is the shape of all steps but four, which can only
shrink the white list and leave the tokens in hand alone (`StepShape`); login, check, rotation and
listing have a lemma each.

The other properties rest on `LifeInv`, the life of a login: a family has one login, which gives it a pair, a
session and a place in the list in this order, and no two sessions have the same `created_at`.
`ReplayInv` says that every token signed is listed or `Spent` (rotated, used twice or wiped), so that
a request that finds it unlisted is a replay; a token is in hand before it is listed, which is why the
invariant also speaks of requests.

What a user sees is true between requests only: a family is created before its session is
listed, and revoked before it is taken off the list. `TasksInv` says which sessions a request is still
going to revoke; `Dropping`, `Listing`, `Storing` and `Sweeping` say what holds already while a request
stands between two commands on a family. For the limit, `Alone` says that an uncrowded login
is the only one of its user past the count, and `Room` that the sessions it is not about to revoke
leave room for its own. That the eviction loop takes enough sessions is `OldestLeaveRoom`: sessions
sorted by `created_at` have as many predecessors as their rank, again by a smallest
set that would not have it.

For every set of threads, tickets and codes, all numbers of windows and set-ups, from
`MfaAssumption` (among others, a recovery code is not the number of a window):

* `TicketOpensOneLogin` (`TicketOpensOnce`), `UsedOnce` (`UsedStaysUsed`), `EnabledStays`
  (`EnabledUntilDisabled`), all of `ASpec`.

None is inductive. A used code stays used only if no request is about to bring back an older column:
the invariant of `AccountAccess_proofs` extends what is used to `Done`, which counts the uses that are
about to be granted, and `UsedInv` says of every request about to write that its column has them used
too, unless it raced. `RowInv` relates the row to what was read of it (a request that checked a code
read an enabled device; a set-up about to write read a pending one), `TicketInv` says that a request past
the deletion holds a ticket that is gone. `PasswordStays` (`PasswordKept`) follows a password: a login that
may still write a hash holds the account's password (`Right`), unless the account's password changed
since, and then it is `stale`; it assumes `AccountAssumption` only.

* `AttemptsAreBounded`: `ASpec => []AttemptsBounded`, for finitely many threads; no e-mail is
  an address (`KeyAssumption`; the keys of the two differ in the code by their prefix).
* `TypeCorrect`: `ASpec => []TypeOK`, of the three modules.

Nothing makes the check of a lock and the count of a failure one step. What bounds the counter is that a
request may only become one that counts (`Pending`) while the counter is below the threshold,
so that a counter with its pending requests never exceeds the threshold less one and the number of threads
(`Bound`). The alert takes a request that was let in below the threshold and found the counter beyond it:
while at most one request is in doubt at any time (`OneInDoubt`), what it read of the counters is still
true (`Knows`), so it can reach the threshold, not pass it (`Unalarmed`).

For every set of routes, servers, tokens, rows, keys and administrators, from the assumptions named in
`Gateway` and `Catalogue`:

* `AuditTrailAgrees` (`AuditTrail`) and `LogoutEndsTheToken` (`LogoutHolds`): `GInv` says for each place of
  the code what a request has done there (`Sound`: nothing committed before the commit, no entry before the
  answer), what a logout has achieved so far (`Loggedout`: the token is over, the CSRF tokens of its user are
  listed or gone), and that a request which came after a logout is `Stopped`, because a token that is over
  is over for good (`Wears`).
* `GoneForGood` (`RemovedForGood`): `DeadInv` says that no request names a dead row, neither to write nor to
  cache it, except as a parent it has yet to look up (`Fits`), and that the table never gives an id twice.
* `KeysAreUnique`: `ASpec => []UniqueKeys`, no two committed rows share their key, deleted rows included.
  PostgreSQL checks the key of a row when it is flushed, against rows that others may have flushed and not
  committed; so the invariant is about those too: what a transaction has flushed agrees with the table
  (`Clean`), and what two transactions have flushed touches different rows and different keys (`Apart`).
* `ClashesAreExplained` (`ClashesExplained`): a request past its check found its key free, and so it
  still is unless somebody committed since (`Looked`); a maker of a number has seen a greatest number and takes
  the next, which nobody has (`Beyond`, in `MakeInv`). That a finite set of numbers has a greatest one is
  proved from well-founded sets, not assumed.
* `TreeIsWhole` (`TreeHidesOnlyLoops`): a category that was never moved has a parent made before it, by
  `TreeInv`. It is inductive because of what a request holds (`Planted`): it only creates below a row that is
  there already, and its stale copy of a category is of one that still is in the table, so that what it
  writes back is a change of parent, not a category made anew. What `Shown` and `Above` compute is proved
  in two steps: a function that grows one level at a time from a base (`Levels`, `Climb`) has reached its end
  once it had as many levels as there are rows (`LevelsEnd`, by the first level that would be an exception);
  so nothing hidden has a shown parent (`ShownIs`), and `Above` is the least set that is closed under
  parents (`AboveIs`). Then a hidden category has, above it, one with a smallest set above, in which
  everybody is above everybody; the least id there has a parent that is no less, and so it was moved
  (`HiddenIsLooped`).
* `TypeCorrect`: `ASpec => []TypeOK`, from `RowsInv` (the shape of rows, copies and transactions at each
  place of the code), `MakeInv` and `GInv`.

The auxiliary invariants live in the modules of the proofs, since only the proofs need them.

Only model-checked: liveness (`EveryRequestEnds` of reservations and invoices, `LockEnds`, `RefusalEnds`), out of
the prover's reach, which knows neither fairness nor ENABLED. Every other property of a passing run is a
theorem. Where an argument is an induction, the proof takes a smallest counterexample instead (`WFMin`): the
induction theorems of the library have an operator for a parameter, which the provers cannot instantiate.

## 5. Not modelled

* Functions without a caller: `change_password` and `create_user` of `AuthService`, `update_activity`,
  `log_create`, `log_update`, `log_delete`, `restore`, the decorators of `services/cache.py`,
  `get_by_slug`, `list_by_parent`, `list_by_type`.
* The creation of a product and a hard delete of one without lines: no other request can
  name the row yet, or any more. `update_reservation` (dates and notes) is a route of `Gateway` only.
* Reads: lists, counts, availability, the price of a bundle over decimal amounts. They change nothing
  that another request uses, except the cache entries, which are modelled.
* Formatting, parsing and cryptography: tokens, hashes and codes are names; schemas are the assumptions
  named above.
* Security headers, request context, metrics, timing, logging, health probes, configuration: no state a
  request depends on.
* The Celery application declares a debug task only; migrations and scripts are not part of the
  running program; the web client is a program of its own, and the server's modules let it send anything.
