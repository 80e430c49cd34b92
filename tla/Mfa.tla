-------------------------------- MODULE Mfa ---------------------------------
(***************************************************************************)
(* The second factor of one user: the row mfa_devices (set up, enabled,    *)
(* used and deleted by the handlers of /mfa) and the Redis keys            *)
(* mfa_session:{token} that carry a login from the password to the code.   *)
(*                                                                         *)
(* A handler reads the row, computes and writes it in one transaction,     *)
(* without a lock: what it writes comes from what it read.  A session      *)
(* token is read by GET and deleted by a second command.  A TOTP code is   *)
(* named by the window it was shown in; the code of a neighbouring window  *)
(* is accepted too, and the window of the clock is what is remembered.     *)
(***************************************************************************)
EXTENDS Integers, FiniteSets

CONSTANTS
    Handler,        \* threads serving requests
    Ticket,         \* tokens of MFA sessions
    Code,           \* recovery codes of a setup
    Windows,        \* bound: the clock shows windows 1..Windows
    Setups,         \* bound: devices created
    NoTicket, NoCode

ASSUME MfaAssumption ==
    /\ Windows \in Nat \ {0} /\ Setups \in Nat
    /\ NoTicket \notin Ticket /\ NoCode \notin Code
    /\ Code \cap 0..Windows = {}    \* a code is not taken for a window

\* A row: `id' tells its secret and codes from those of earlier rows; `last'
\* is last_totp_window, 0 for NULL.
NoDevice == [id |-> 0, enabled |-> FALSE, codes |-> {}, last |-> 0]

VARIABLES
    device,         \* the committed row, NoDevice without one
    created,        \* rows created so far
    ticket,         \* MFA sessions in Redis
    issued,         \* tickets ever handed out
    clock,          \* current TOTP window
    mf              \* the request of each thread

mvars == <<device, created, ticket, issued, clock, mf>>

NoRequest == [pc |-> "idle", op |-> "none", tk |-> NoTicket, code |-> NoCode,
              shown |-> 0, seen |-> NoDevice]

MfaInit ==
    /\ device = NoDevice /\ created = 0 /\ ticket = {} /\ issued = {} /\ clock = 1
    /\ mf = [h \in Handler |-> NoRequest]

HandlerAt(h, op, pc) == mf[h].op = op /\ mf[h].pc = pc
HandlerTo(h, pc) == mf' = [mf EXCEPT ![h] = [mf[h] EXCEPT !.pc = pc]]
HandlerEnds(h) == mf' = [mf EXCEPT ![h] = NoRequest]

-----------------------------------------------------------------------------
(* Set up, disable.                                                        *)

\* Mutant of SetupTotp: an enabled device is replaced as well.
SetupAnyway(h) ==
    /\ mf[h].pc = "idle" /\ created < Setups
    /\ mf' = [mf EXCEPT ![h] = [NoRequest EXCEPT !.op = "setup", !.pc = "write", !.seen = device]]
    /\ UNCHANGED <<device, created, ticket, issued, clock>>

\* setup_totp: refused for an enabled device, a pending one is replaced.
SetupTotp(h) ==
    /\ mf[h].pc = "idle" /\ created < Setups /\ ~device.enabled
    /\ mf' = [mf EXCEPT ![h] = [NoRequest EXCEPT !.op = "setup", !.pc = "write", !.seen = device]]
    /\ UNCHANGED <<device, created, ticket, issued, clock>>

\* DELETE of the row read (a row that is gone deletes nothing), INSERT: unique
\* on (tenant, user), a row another setup inserted refuses it.
WriteSetup(h) ==
    /\ HandlerAt(h, "setup", "write")
    /\ IF device.id \in {0, mf[h].seen.id} /\ created < Setups
         THEN /\ created' = created + 1
              /\ device' = [id |-> created', enabled |-> FALSE, codes |-> Code, last |-> 0]
         ELSE UNCHANGED <<device, created>>
    /\ HandlerEnds(h)
    /\ UNCHANGED <<ticket, issued, clock>>

\* verify_setup: a code of the pending device's secret, checked on read.
VerifySetup(h) ==
    /\ mf[h].pc = "idle" /\ device.id > 0 /\ ~device.enabled
    /\ mf' = [mf EXCEPT ![h] = [NoRequest EXCEPT !.op = "enable", !.pc = "write",
                                                 !.seen = device, !.shown = clock]]
    /\ UNCHANGED <<device, created, ticket, issued, clock>>

\* UPDATE by primary key: of a row that is gone it fails, the request with it.
WriteEnable(h) ==
    /\ HandlerAt(h, "enable", "write")
    /\ device' = IF device.id = mf[h].seen.id
                   THEN [device EXCEPT !.enabled = TRUE, !.last = mf[h].shown] ELSE device
    /\ HandlerEnds(h)
    /\ UNCHANGED <<created, ticket, issued, clock>>

\* disable_mfa, read and DELETE in one step: whichever row is there goes.
DisableMfa ==
    /\ device.id > 0
    /\ device' = NoDevice
    /\ UNCHANGED <<created, ticket, issued, clock, mf>>

-----------------------------------------------------------------------------
(* Login with a second factor.                                             *)

\* login, after the password: create_mfa_session for an enabled device.
CreateMfaSession(k) ==
    /\ device.enabled /\ k \notin issued
    /\ ticket' = ticket \cup {k} /\ issued' = issued \cup {k}
    /\ UNCHANGED <<device, created, clock, mf>>

ExpireMfaSession(k) ==
    /\ k \in ticket /\ ticket' = ticket \ {k}
    /\ UNCHANGED <<device, created, issued, clock, mf>>

\* validate_mfa_session, the GET.
VerifyMfa(h, k, op, c) ==
    /\ mf[h].pc = "idle" /\ k \in ticket
    /\ op = "recovery" <=> c \in Code
    /\ mf' = [mf EXCEPT ![h] = [NoRequest EXCEPT !.op = op, !.pc = "consume", !.tk = k, !.code = c]]
    /\ UNCHANGED <<device, created, ticket, issued, clock>>

\* Mutant of ConsumeMfaSession: the session outlives the request.
KeepMfaSession(h) ==
    /\ mf[h].pc = "consume"
    /\ HandlerTo(h, "read")
    /\ UNCHANGED <<device, created, ticket, issued, clock>>

\* ... and the DELETE, whose answer is not looked at.
ConsumeMfaSession(h) ==
    /\ mf[h].pc = "consume"
    /\ ticket' = ticket \ {mf[h].tk}
    /\ HandlerTo(h, "read")
    /\ UNCHANGED <<device, created, issued, clock>>

\* The row is read and the code checked against it; a wrong code, a used
\* window or no device is a 401.
Passes(op, c) ==
    /\ device.enabled
    /\ IF op = "totp" THEN clock > device.last ELSE c \in device.codes

CheckCode(h) ==
    /\ mf[h].pc = "read"
    /\ IF Passes(mf[h].op, mf[h].code)
         THEN mf' = [mf EXCEPT ![h] = [mf[h] EXCEPT !.pc = "write", !.seen = device,
                                                    !.shown = IF mf[h].op = "totp" THEN clock ELSE 0]]
         ELSE HandlerEnds(h)
    /\ UNCHANGED <<device, created, ticket, issued, clock>>

\* The commit; of a row that is gone the UPDATE fails, and the request.
Accept(h) == IF device.id = mf[h].seen.id THEN HandlerTo(h, "grant") ELSE HandlerEnds(h)

\* UPDATE of the window.
WriteTotp(h) ==
    /\ HandlerAt(h, "totp", "write")
    /\ device' = IF device.id = mf[h].seen.id THEN [device EXCEPT !.last = mf[h].shown] ELSE device
    /\ Accept(h)
    /\ UNCHANGED <<created, ticket, issued, clock>>

\* Mutant of WriteRecovery: the code is checked but not removed.
WriteAllCodes(h) ==
    /\ HandlerAt(h, "recovery", "write")
    /\ device' = IF device.id = mf[h].seen.id THEN [device EXCEPT !.codes = mf[h].seen.codes] ELSE device
    /\ Accept(h)
    /\ UNCHANGED <<created, ticket, issued, clock>>

\* UPDATE of the list of codes: the list read, without the code.
WriteRecovery(h) ==
    /\ HandlerAt(h, "recovery", "write")
    /\ device' = IF device.id = mf[h].seen.id
                   THEN [device EXCEPT !.codes = mf[h].seen.codes \ {mf[h].code}] ELSE device
    /\ Accept(h)
    /\ UNCHANGED <<created, ticket, issued, clock>>

\* issue_tokens and create_session, once the code is spent.
GrantTokens(h) ==
    /\ mf[h].pc = "grant" /\ HandlerEnds(h)
    /\ UNCHANGED <<device, created, ticket, issued, clock>>

NextWindow ==
    /\ clock < Windows /\ clock' = clock + 1
    /\ UNCHANGED <<device, created, ticket, issued, mf>>

HandlerDies(h) ==
    /\ mf[h].pc # "idle" /\ HandlerEnds(h)
    /\ UNCHANGED <<device, created, ticket, issued, clock>>

MfaNext ==
    \/ \E h \in Handler :
          \/ SetupTotp(h) \/ WriteSetup(h) \/ VerifySetup(h) \/ WriteEnable(h)
          \/ \E k \in Ticket : \/ VerifyMfa(h, k, "totp", NoCode)
                               \/ \E c \in Code : VerifyMfa(h, k, "recovery", c)
          \/ ConsumeMfaSession(h) \/ CheckCode(h) \/ WriteTotp(h) \/ WriteRecovery(h)
          \/ GrantTokens(h) \/ HandlerDies(h)
    \/ DisableMfa \/ NextWindow
    \/ \E k \in Ticket : CreateMfaSession(k) \/ ExpireMfaSession(k)

-----------------------------------------------------------------------------

Device == [id : 0..Setups, enabled : BOOLEAN, codes : SUBSET Code, last : 0..Windows]

MfaTypeOK ==
    /\ device \in Device /\ created \in 0..Setups
    /\ ticket \subseteq issued /\ issued \subseteq Ticket /\ clock \in 1..Windows
    /\ mf \in [Handler -> [pc : {"idle", "consume", "read", "write", "grant"},
                           op : {"none", "setup", "enable", "totp", "recovery"},
                           tk : Ticket \cup {NoTicket}, code : Code \cup {NoCode},
                           shown : 0..Windows, seen : Device]]
=============================================================================
