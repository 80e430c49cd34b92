------------------------- MODULE AccountAccess_proofs --------------------------
(***************************************************************************)
(* Proofs about AccountAccess.  The second factor: a ticket opens one      *)
(* login, what opened a login opens no other, and MFA stays enabled.  The  *)
(* login: only an overlapping rehash undoes a change of password.          *)
(* Failed logins: their counters are bounded though nothing makes the      *)
(* check and the count one step, and all variables of the three keep their *)
(* types.                                                                  *)
(***************************************************************************)
EXTENDS AccountAccess, FiniteSetTheorems, TLAPS

-----------------------------------------------------------------------------
(* The invariant.                                                          *)

Holding(h) == mf[h].pc \in {"consume", "read", "grant"} \/ (mf[h].pc = "write" /\ mf[h].op \in {"totp", "recovery"})

Req == [pc : {"idle", "consume", "read", "write", "grant"},
        op : {"none", "setup", "enable", "totp", "recovery"},
        tk : Ticket \cup {NoTicket}, code : Code \cup {NoCode},
        shown : 0..Windows, seen : Device]

Types ==
    /\ device \in Device /\ created \in 0..Setups
    /\ ticket \subseteq issued /\ issued \subseteq Ticket /\ clock \in 1..Windows
    /\ mf \in [Handler -> Req]

\* Which operation a request at each place is, and what it holds.
Places ==
    \A h \in Handler :
        /\ mf[h].pc \in {"consume", "read", "grant"} => mf[h].op \in {"totp", "recovery"}
        /\ mf[h].pc = "write" => mf[h].op \in {"setup", "enable", "totp", "recovery"}
        /\ mf[h].pc # "idle" /\ mf[h].op \in {"totp", "recovery"} => mf[h].tk \in issued
        /\ mf[h].pc # "idle" /\ mf[h].op = "recovery" => mf[h].code \in Code
        /\ mf[h].op \in {"none", "setup", "enable"} => mf[h].tk = NoTicket
        /\ mf[h].pc = "idle" => mf[h].tk = NoTicket

TicketInv ==
    /\ opened \subseteq issued /\ opened \cap ticket = {}
    /\ \A h \in Handler :
         /\ mf[h].pc \in {"read", "write", "grant"} => mf[h].tk \notin ticket
         /\ mf[h].tk \in opened => mf[h].tk \in shared
         /\ \A g \in Handler \ {h} : mf[h].tk = mf[g].tk /\ mf[h].tk \in Ticket => mf[h].tk \in shared

\* What has opened a login, or is about to, without a race.
Done == (spent \cup {Used(h) : h \in {g \in Handler : mf[g].pc = "grant"}}) \ raced

\* The row and what was read of it.
RowInv ==
    /\ device.id <= created /\ (device.enabled => device.id > 0)
    /\ \A h \in Handler :
         /\ mf[h].seen.id <= created
         /\ mf[h].pc \in {"write", "grant"} /\ mf[h].op \in {"totp", "recovery"} =>
               /\ mf[h].seen.enabled /\ mf[h].seen.id > 0
               /\ mf[h].seen.id = device.id => device.enabled
               /\ mf[h].op = "totp" => mf[h].shown > 0
         /\ mf[h].pc = "write" /\ mf[h].op = "setup" => ~mf[h].seen.enabled
         /\ mf[h].pc = "write" /\ mf[h].op = "enable" => mf[h].seen.id > 0

UsedInv ==
    \A u \in Done :
        /\ u[1] \in 1..created
        /\ u[1] = device.id => device.enabled /\ u[2] \notin device.codes
                               /\ (u[2] \in 1..Windows => u[2] <= device.last)
        /\ \A h \in Handler : mf[h].pc = "write" /\ mf[h].seen.id = u[1] =>
              /\ mf[h].op = "recovery" => u[2] \notin mf[h].seen.codes
              /\ mf[h].op \in {"totp", "enable"} /\ u[2] \in 1..Windows => u[2] <= mf[h].shown

IInv == Types /\ Places /\ TicketInv /\ RowInv /\ UsedInv

-----------------------------------------------------------------------------
(* Facts about one step.                                                   *)

\* A request with these fields.
Asks(pc, op, tk, code, shown, seen) ==
    [pc |-> pc, op |-> op, tk |-> tk, code |-> code, shown |-> shown, seen |-> seen]

LEMMA NobodyAsks == NoRequest = Asks("idle", "none", NoTicket, NoCode, 0, NoDevice)
BY DEF NoRequest, Asks

LEMMA DeviceTypes == NoDevice \in Device /\ NoDevice.id = 0 /\ ~NoDevice.enabled
BY MfaAssumption DEF NoDevice, Device

LEMMA AsksTypes ==
    ASSUME NEW pc \in {"idle", "consume", "read", "write", "grant"},
           NEW op \in {"none", "setup", "enable", "totp", "recovery"}, NEW tk \in Ticket \cup {NoTicket},
           NEW code \in Code \cup {NoCode}, NEW shown \in 0..Windows, NEW seen \in Device
    PROVE  Asks(pc, op, tk, code, shown, seen) \in Req
BY DEF Asks, Req

LEMMA ReqFields ==
    ASSUME NEW r \in Req
    PROVE  /\ r.op \in {"none", "setup", "enable", "totp", "recovery"} /\ r.tk \in Ticket \cup {NoTicket}
           /\ r.code \in Code \cup {NoCode} /\ r.shown \in 0..Windows /\ r.seen \in Device
BY DEF Req

\* What the handlers write.
LEMMA GoesOn ==
    ASSUME NEW r \in Req, NEW pc
    PROVE  [r EXCEPT !.pc = pc] = Asks(pc, r.op, r.tk, r.code, r.shown, r.seen)
BY DEF Req, Asks

LEMMA Checked ==
    ASSUME NEW r \in Req, NEW seen, NEW shown
    PROVE  [r EXCEPT !.pc = "write", !.seen = seen, !.shown = shown]
             = Asks("write", r.op, r.tk, r.code, shown, seen)
<1> DEFINE d == [r EXCEPT !.pc = "write"]
           e == [r EXCEPT !.pc = "write", !.seen = seen]
           f == [r EXCEPT !.pc = "write", !.seen = seen, !.shown = shown]
<1>1. e = [d EXCEPT !.seen = seen]
  OBVIOUS
<1>2. f = [e EXCEPT !.shown = shown]
  OBVIOUS
<1>3. d = Asks("write", r.op, r.tk, r.code, r.shown, r.seen)
  BY DEF Asks, Req
<1> HIDE DEF d, e, f
<1>4. e = Asks("write", r.op, r.tk, r.code, r.shown, seen)
  BY <1>1, <1>3 DEF Asks
<1>5. f = Asks("write", r.op, r.tk, r.code, shown, seen)
  BY <1>2, <1>4 DEF Asks
<1> QED
  BY <1>5 DEF f

LEMMA SetsUp ==
    ASSUME NEW r \in Req, NEW op, NEW seen
    PROVE  [r EXCEPT !.op = op, !.pc = "write", !.seen = seen]
             = Asks("write", op, r.tk, r.code, r.shown, seen)
<1> DEFINE d == [r EXCEPT !.op = op]
           e == [r EXCEPT !.op = op, !.pc = "write"]
           f == [r EXCEPT !.op = op, !.pc = "write", !.seen = seen]
<1>1. e = [d EXCEPT !.pc = "write"]
  OBVIOUS
<1>2. f = [e EXCEPT !.seen = seen]
  OBVIOUS
<1>3. d = Asks(r.pc, op, r.tk, r.code, r.shown, r.seen)
  BY DEF Asks, Req
<1> HIDE DEF d, e, f
<1>4. e = Asks("write", op, r.tk, r.code, r.shown, r.seen)
  BY <1>1, <1>3 DEF Asks
<1>5. f = Asks("write", op, r.tk, r.code, r.shown, seen)
  BY <1>2, <1>4 DEF Asks
<1> QED
  BY <1>5 DEF f

LEMMA Enables ==
    ASSUME NEW r \in Req, NEW op, NEW seen, NEW shown
    PROVE  [r EXCEPT !.op = op, !.pc = "write", !.seen = seen, !.shown = shown]
             = Asks("write", op, r.tk, r.code, shown, seen)
<1> DEFINE d == [r EXCEPT !.op = op]
           e == [r EXCEPT !.op = op, !.pc = "write"]
           f == [r EXCEPT !.op = op, !.pc = "write", !.seen = seen]
           g == [r EXCEPT !.op = op, !.pc = "write", !.seen = seen, !.shown = shown]
<1>1. e = [d EXCEPT !.pc = "write"]
  OBVIOUS
<1>2. f = [e EXCEPT !.seen = seen]
  OBVIOUS
<1>3. g = [f EXCEPT !.shown = shown]
  OBVIOUS
<1>4. d = Asks(r.pc, op, r.tk, r.code, r.shown, r.seen)
  BY DEF Asks, Req
<1> HIDE DEF d, e, f, g
<1>5. e = Asks("write", op, r.tk, r.code, r.shown, r.seen)
  BY <1>1, <1>4 DEF Asks
<1>6. f = Asks("write", op, r.tk, r.code, r.shown, seen)
  BY <1>2, <1>5 DEF Asks
<1>7. g = Asks("write", op, r.tk, r.code, shown, seen)
  BY <1>3, <1>6 DEF Asks
<1> QED
  BY <1>7 DEF g

LEMMA Verifies ==
    ASSUME NEW r \in Req, NEW op, NEW tk, NEW code
    PROVE  [r EXCEPT !.op = op, !.pc = "consume", !.tk = tk, !.code = code]
             = Asks("consume", op, tk, code, r.shown, r.seen)
<1> DEFINE d == [r EXCEPT !.op = op]
           e == [r EXCEPT !.op = op, !.pc = "consume"]
           f == [r EXCEPT !.op = op, !.pc = "consume", !.tk = tk]
           g == [r EXCEPT !.op = op, !.pc = "consume", !.tk = tk, !.code = code]
<1>1. e = [d EXCEPT !.pc = "consume"]
  OBVIOUS
<1>2. f = [e EXCEPT !.tk = tk]
  OBVIOUS
<1>3. g = [f EXCEPT !.code = code]
  OBVIOUS
<1>4. d = Asks(r.pc, op, r.tk, r.code, r.shown, r.seen)
  BY DEF Asks, Req
<1> HIDE DEF d, e, f, g
<1>5. e = Asks("consume", op, r.tk, r.code, r.shown, r.seen)
  BY <1>1, <1>4 DEF Asks
<1>6. f = Asks("consume", op, tk, r.code, r.shown, r.seen)
  BY <1>2, <1>5 DEF Asks
<1>7. g = Asks("consume", op, tk, code, r.shown, r.seen)
  BY <1>3, <1>6 DEF Asks
<1> QED
  BY <1>7 DEF g

\* One request moves.
LEMMA OneMoves ==
    ASSUME Types, NEW h \in Handler, NEW r \in Req, mf' = [mf EXCEPT ![h] = r]
    PROVE  mf' \in [Handler -> Req] /\ mf'[h] = r /\ \A g \in Handler : g # h => mf'[g] = mf[g]
BY DEF Types

LEMMA TicketStep ==
    ASSUME IInv, MfaHistory, mf' \in [Handler -> Req], issued \subseteq issued',
           ticket' \cap issued \subseteq ticket,
           \A h \in Handler : /\ mf'[h].tk \in {mf[h].tk, NoTicket} \cup ticket
                              /\ mf[h].pc = "grant" => mf'[h] = mf[h] \/ mf'[h].tk = NoTicket
                              /\ mf'[h].pc \in {"read", "write", "grant"} => mf'[h].tk \notin ticket',
           \A h, g \in Handler : h = g \/ mf'[h] = mf[h] \/ mf'[g] = mf[g]
    PROVE  TicketInv'
<1> USE DEF IInv, TicketInv, Types
<1>1. \A h \in Handler : mf[h].pc = "grant" => mf[h].tk \in issued /\ mf[h].tk \notin ticket
  BY DEF Places
<1>2. opened \subseteq opened' /\ opened' \subseteq issued /\ shared \subseteq shared' /\ NoTicket \notin opened'
  BY <1>1, MfaAssumption DEF MfaHistory
<1>3. opened' \cap ticket' = {}
  BY <1>1, <1>2 DEF MfaHistory
<1>4. ASSUME NEW h \in Handler, NEW g \in Handler, h # g, mf'[h].tk = mf'[g].tk, mf'[h].tk \in Ticket
      PROVE  mf'[h].tk \in shared'
  BY <1>4 DEF MfaHistory
<1>5. ASSUME NEW h \in Handler, mf'[h].tk \in opened'
      PROVE  mf'[h].tk \in shared'
  <2>1. CASE mf'[h].tk \in opened
    BY <1>2, <1>5, <2>1
  <2>2. CASE mf'[h].tk \notin opened
    <3>1. PICK g \in Handler : mf[g].pc = "grant" /\ mf'[g] # mf[g] /\ mf'[h].tk = mf[g].tk
      BY <1>5, <2>2 DEF MfaHistory
    <3>2. mf'[g].tk = NoTicket /\ mf'[h].tk # NoTicket
      BY <1>2, <1>5, <3>1
    <3>3. h # g /\ mf'[h] = mf[h] /\ mf[g].tk \in Ticket
      BY <1>1, <3>1, <3>2
    <3> QED
      BY <1>2, <3>1, <3>3
  <2> QED
    BY <2>1, <2>2
<1> QED
  BY <1>2, <1>3, <1>4, <1>5

LEMMA DoneStep ==
    ASSUME MfaHistory
    PROVE  Done' \subseteq Done \cup {Used(h)' : h \in {g \in Handler : mf'[g].pc = "grant" /\ mf'[g] # mf[g]}}
<1>1. raced \subseteq raced' /\ spent' \subseteq spent \cup {Used(h) : h \in {g \in Handler : mf[g].pc = "grant"}}
  BY DEF MfaHistory
<1>2. \A g \in Handler : mf'[g] = mf[g] => Used(g)' = Used(g)
  BY DEF Used
<1> QED
  BY <1>1, <1>2 DEF Done

LEMMA RequestOf ==
    ASSUME IInv, NEW h \in Handler
    PROVE  /\ mf[h] \in Req /\ mf[h].seen \in Device /\ mf[h].code \in Code \cup {NoCode}
           /\ mf[h].tk \in Ticket \cup {NoTicket} /\ mf[h].shown \in 0..Windows
           /\ mf[h].op \in {"none", "setup", "enable", "totp", "recovery"}
BY DEF IInv, Types, Req

LEMMA NobodyTyped == NoRequest \in Req /\ NoRequest.pc = "idle" /\ NoRequest.op = "none" /\ NoRequest.tk = NoTicket
                     /\ NoRequest.seen = NoDevice /\ NoRequest.seen.id = 0
<1>1. 0 \in 0..Windows
  BY MfaAssumption
<1>2. NoRequest \in Req
  BY <1>1, NobodyAsks, AsksTypes, DeviceTypes
<1> QED
  BY <1>2, DeviceTypes DEF NoRequest

\* Nobody comes to have opened a login.
LEMMA NothingDone ==
    ASSUME IInv, MfaHistory, \A h \in Handler : mf'[h] = mf[h] \/ mf'[h].pc # "grant"
    PROVE  Done' \subseteq Done
BY DoneStep

\* A request ends, and the row is left alone.
LEMMA EndStep ==
    ASSUME IInv, MfaHistory, NEW h \in Handler, mf' = [mf EXCEPT ![h] = NoRequest],
           UNCHANGED <<device, created, ticket, issued, clock>>
    PROVE  IInv'
<1>1. mf' \in [Handler -> Req] /\ mf'[h] = NoRequest /\ \A g \in Handler : g # h => mf'[g] = mf[g]
  BY OneMoves, NobodyTyped DEF IInv
<1> HIDE DEF NoRequest
<1>2. Types' /\ Places'
  BY <1>1, NobodyTyped DEF IInv, Types, Places
<1>3. TicketInv'
  <2>1. \A g \in Handler : mf[g].tk \in Ticket \cup {NoTicket}
    BY RequestOf
  <2> QED
    BY <1>1, <2>1, NobodyTyped, TicketStep DEF IInv, TicketInv
<1>4. RowInv'
  BY <1>1, NobodyTyped DEF IInv, RowInv, Types
<1>5. UsedInv'
  BY <1>1, NobodyTyped, NothingDone DEF IInv, UsedInv
<1> QED
  BY <1>2, <1>3, <1>4, <1>5 DEF IInv

\* A request moves on to d, short of opening a login, and the row is left alone;
\* what it is to write rests on the row as it is now.
LEMMA MoveStep ==
    ASSUME IInv, MfaHistory, NEW h \in Handler, NEW d \in Req, mf' = [mf EXCEPT ![h] = d],
           UNCHANGED <<device, created, issued, clock>>, ticket' \subseteq ticket,
           mf[h].pc # "grant", d.pc \in {"consume", "read", "write"},
           d.op \in (IF d.pc = "write" THEN {"setup", "enable", "totp", "recovery"} ELSE {"totp", "recovery"}),
           d.op \in {"totp", "recovery"} => d.tk \in issued, d.op = "recovery" => d.code \in Code,
           d.op \in {"setup", "enable"} => d.tk = NoTicket,
           d.tk \in {mf[h].tk, NoTicket} \cup ticket, d.pc \in {"read", "write"} => d.tk \notin ticket',
           d.seen \in {device, mf[h].seen, NoDevice},
           d.pc = "write" => /\ d.seen = device /\ (device.enabled <=> d.op \in {"totp", "recovery"})
                             /\ d.op = "totp" => d.shown > device.last
                             /\ d.op = "enable" => device.id > 0
    PROVE  IInv'
<1>1. mf' \in [Handler -> Req] /\ mf'[h] = d /\ \A g \in Handler : g # h => mf'[g] = mf[g]
  BY OneMoves DEF IInv
<1>2. Types' /\ Places'
  BY <1>1 DEF IInv, Types, Places
<1>3. TicketInv'
  <2>1. \A g \in Handler : mf[g].tk \in Ticket \cup {NoTicket}
    BY RequestOf
  <2> QED
    BY <1>1, <2>1, TicketStep DEF IInv, TicketInv
<1>4. RowInv'
  <2>1. d.seen.id <= created
    BY DeviceTypes DEF IInv, RowInv, Types
  <2>2. d.pc = "write" /\ d.op \in {"totp", "recovery"} => d.seen.enabled /\ d.seen.id > 0
    BY DEF IInv, RowInv
  <2>3. d.pc = "write" /\ d.op = "totp" => d.shown > 0
    BY DEF IInv, Types, Device, Req
  <2> QED
    BY <1>1, <2>1, <2>2, <2>3 DEF IInv, RowInv
<1>5. UsedInv'
  <2>1. Done' \subseteq Done
    BY <1>1, NothingDone
  <2>2. ASSUME NEW u \in Done, d.pc = "write", d.seen.id = u[1]
        PROVE  /\ d.op = "recovery" => u[2] \notin d.seen.codes
               /\ d.op \in {"totp", "enable"} /\ u[2] \in 1..Windows => u[2] <= d.shown
    <3>1. device.enabled /\ u[2] \notin device.codes /\ (u[2] \in 1..Windows => u[2] <= device.last)
      BY <2>2 DEF IInv, UsedInv
    <3>2. device.last \in Int /\ d.shown \in Int
      BY DEF IInv, Types, Device, Req
    <3> QED
      BY <2>2, <3>1, <3>2
  <2> QED
    BY <1>1, <2>1, <2>2 DEF IInv, UsedInv
<1> QED
  BY <1>2, <1>3, <1>4, <1>5 DEF IInv

LEMMA SetupStep ==
    ASSUME IInv, MfaHistory, NEW h \in Handler, SetupTotp(h)
    PROVE  IInv'
<1>1. PICK r \in Req : r = NoRequest
  BY NobodyTyped
<1>2. PICK d : d = Asks("write", "setup", r.tk, r.code, r.shown, device)
  OBVIOUS
<1>3. [r EXCEPT !.op = "setup", !.pc = "write", !.seen = device] = d
  BY <1>2, SetsUp
<1>4. mf' = [mf EXCEPT ![h] = d] /\ mf[h].pc = "idle" /\ ~device.enabled
      /\ UNCHANGED <<device, created, ticket, issued, clock>>
  BY <1>1, <1>3 DEF SetupTotp
<1>5. d \in Req
  BY <1>2, AsksTypes, ReqFields DEF IInv, Types
<1>6. d.pc = "write" /\ d.op = "setup" /\ d.tk = NoTicket /\ d.seen = device
  BY <1>1, <1>2, NobodyTyped DEF Asks
<1>7. d.tk \notin ticket'
  BY <1>4, <1>6, MfaAssumption DEF IInv, Types
<1> QED
  BY <1>4, <1>5, <1>6, <1>7, MoveStep

LEMMA VerifySetupStep ==
    ASSUME IInv, MfaHistory, NEW h \in Handler, VerifySetup(h)
    PROVE  IInv'
<1>1. PICK r \in Req : r = NoRequest
  BY NobodyTyped
<1>2. PICK d : d = Asks("write", "enable", r.tk, r.code, clock, device)
  OBVIOUS
<1>3. [r EXCEPT !.op = "enable", !.pc = "write", !.seen = device, !.shown = clock] = d
  BY <1>2, Enables
<1>4. mf' = [mf EXCEPT ![h] = d] /\ mf[h].pc = "idle" /\ ~device.enabled /\ device.id > 0
      /\ UNCHANGED <<device, created, ticket, issued, clock>>
  BY <1>1, <1>3 DEF VerifySetup
<1>5. d \in Req
  <2>1. clock \in 0..Windows
    BY DEF IInv, Types
  <2> QED
    BY <1>2, <2>1, AsksTypes, ReqFields DEF IInv, Types
<1>6. d.pc = "write" /\ d.op = "enable" /\ d.tk = NoTicket /\ d.seen = device
  BY <1>1, <1>2, NobodyTyped DEF Asks
<1>7. d.tk \notin ticket'
  BY <1>4, <1>6, MfaAssumption DEF IInv, Types
<1> QED
  BY <1>4, <1>5, <1>6, <1>7, MoveStep

LEMMA VerifyMfaStep ==
    ASSUME IInv, MfaHistory, NEW h \in Handler, NEW k \in Ticket, NEW op \in {"totp", "recovery"},
           NEW c \in Code \cup {NoCode}, VerifyMfa(h, k, op, c)
    PROVE  IInv'
<1>1. PICK r \in Req : r = NoRequest
  BY NobodyTyped
<1>2. PICK d : d = Asks("consume", op, k, c, r.shown, r.seen)
  OBVIOUS
<1>3. [r EXCEPT !.op = op, !.pc = "consume", !.tk = k, !.code = c] = d
  BY <1>2, Verifies
<1>4. /\ mf' = [mf EXCEPT ![h] = d] /\ mf[h].pc = "idle" /\ k \in ticket /\ (op = "recovery" => c \in Code)
      /\ UNCHANGED <<device, created, ticket, issued, clock>>
  BY <1>1, <1>3 DEF VerifyMfa
<1>5. d \in Req
  BY <1>2, AsksTypes, ReqFields
<1>6. d.pc = "consume" /\ d.op = op /\ d.tk = k /\ d.code = c /\ d.seen = NoDevice
  BY <1>1, <1>2, NobodyTyped DEF Asks
<1>7. k \in issued
  BY <1>4 DEF IInv, Types
<1> QED
  BY <1>4, <1>5, <1>6, <1>7, MoveStep

LEMMA ConsumeStep ==
    ASSUME IInv, MfaHistory, NEW h \in Handler, ConsumeMfaSession(h)
    PROVE  IInv'
<1>1. PICK r \in Req : r = mf[h]
  BY RequestOf
<1>2. PICK d : d = Asks("read", r.op, r.tk, r.code, r.shown, r.seen)
  OBVIOUS
<1>3. [r EXCEPT !.pc = "read"] = d
  BY <1>2, GoesOn
<1>4. /\ mf' = [mf EXCEPT ![h] = d] /\ r.pc = "consume" /\ ticket' = ticket \ {r.tk}
      /\ UNCHANGED <<device, created, issued, clock>>
  <2>1. mf' = [mf EXCEPT ![h] = d]
    BY <1>1, <1>3 DEF ConsumeMfaSession, HandlerTo
  <2>2. r.pc = "consume" /\ ticket' = ticket \ {r.tk} /\ UNCHANGED <<device, created, issued, clock>>
    BY <1>1 DEF ConsumeMfaSession
  <2> QED
    BY <2>1, <2>2
<1>5. d \in Req
  BY <1>2, AsksTypes, ReqFields
<1>6. d.pc = "read" /\ d.op = r.op /\ d.tk = r.tk /\ d.code = r.code /\ d.seen = r.seen
  BY <1>2 DEF Asks
<1>7. r.op \in {"totp", "recovery"} /\ r.tk \in issued /\ (r.op = "recovery" => r.code \in Code)
  BY <1>1, <1>4 DEF IInv, Places
<1> QED
  BY <1>1, <1>4, <1>5, <1>6, <1>7, MoveStep

LEMMA CodePasses ==
    ASSUME IInv, MfaHistory, NEW h \in Handler, CheckCode(h), Passes(mf[h].op, mf[h].code)
    PROVE  IInv'
<1>1. PICK r \in Req : r = mf[h]
  BY RequestOf
<1>2. r.pc = "read" /\ UNCHANGED <<device, created, ticket, issued, clock>>
  BY <1>1 DEF CheckCode
<1>3. /\ r.op \in {"totp", "recovery"} /\ r.tk \in issued /\ r.tk \notin ticket
      /\ r.op = "recovery" => r.code \in Code
  BY <1>1, <1>2 DEF IInv, Places, TicketInv
<1>4. PICK shown \in 0..Windows : shown = IF r.op = "totp" THEN clock ELSE 0
  BY MfaAssumption DEF IInv, Types
<1>5. PICK d : d = Asks("write", r.op, r.tk, r.code, shown, device)
  OBVIOUS
<1>6. [r EXCEPT !.pc = "write", !.seen = device, !.shown = shown] = d
  BY <1>5, Checked
<1>7. mf' = [mf EXCEPT ![h] = d]
  BY <1>1, <1>4, <1>6 DEF CheckCode
<1>8. d \in Req
  BY <1>5, AsksTypes, ReqFields DEF IInv, Types
<1>9. /\ d.pc = "write" /\ d.op = r.op /\ d.tk = r.tk /\ d.code = r.code /\ d.seen = device
      /\ d.shown = shown
  BY <1>5 DEF Asks
<1>10. device.enabled /\ (r.op = "totp" => shown > device.last)
  BY <1>1, <1>4 DEF Passes
<1> QED
  BY <1>1, <1>2, <1>3, <1>7, <1>8, <1>9, <1>10, MoveStep

LEMMA CodeStep ==
    ASSUME IInv, MfaHistory, NEW h \in Handler, CheckCode(h)
    PROVE  IInv'
<1>1. ~Passes(mf[h].op, mf[h].code) => IInv'
  BY EndStep DEF CheckCode, HandlerEnds
<1> QED
  BY <1>1, CodePasses

\* A row with these columns.
Columns(id, enabled, codes, last) == [id |-> id, enabled |-> enabled, codes |-> codes, last |-> last]

LEMMA ColumnTypes ==
    ASSUME NEW id \in 0..Setups, NEW enabled \in BOOLEAN, NEW codes \in SUBSET Code, NEW last \in 0..Windows
    PROVE  Columns(id, enabled, codes, last) \in Device
BY DEF Columns, Device

LEMMA ColumnsOf ==
    ASSUME NEW v \in Device
    PROVE  v.id \in 0..Setups /\ v.enabled \in BOOLEAN /\ v.codes \in SUBSET Code /\ v.last \in 0..Windows
BY DEF Device

LEMMA OneColumn ==
    ASSUME NEW v \in Device, NEW x
    PROVE  /\ [v EXCEPT !.enabled = x] = Columns(v.id, x, v.codes, v.last)
           /\ [v EXCEPT !.codes = x] = Columns(v.id, v.enabled, x, v.last)
           /\ [v EXCEPT !.last = x] = Columns(v.id, v.enabled, v.codes, x)
BY DEF Columns, Device

LEMMA TwoColumns ==
    ASSUME NEW v \in Device, NEW x, NEW y
    PROVE  [v EXCEPT !.enabled = x, !.last = y] = Columns(v.id, x, v.codes, y)
<1> DEFINE d == [v EXCEPT !.enabled = x]
           e == [v EXCEPT !.enabled = x, !.last = y]
<1>1. e = [d EXCEPT !.last = y]
  OBVIOUS
<1>2. d = Columns(v.id, x, v.codes, v.last)
  BY OneColumn
<1> HIDE DEF d, e
<1>3. e = Columns(v.id, x, v.codes, y)
  BY <1>1, <1>2 DEF Columns
<1> QED
  BY <1>3 DEF e

\* An UPDATE of the row read, or of none: what it writes keeps what was used
\* used, and MFA enabled.
LEMMA EnableWrites ==
    ASSUME IInv, MfaHistory, NEW h \in Handler, WriteEnable(h)
    PROVE  IInv'
<1>1. PICK r \in Req : r = mf[h]
  BY RequestOf
<1>2. /\ mf' = [mf EXCEPT ![h] = NoRequest] /\ UNCHANGED <<created, ticket, issued, clock>>
      /\ r.op = "enable" /\ r.pc = "write"
  BY <1>1 DEF WriteEnable, HandlerAt, HandlerEnds
<1>3. device.id # r.seen.id => IInv'
  BY <1>1, <1>2, EndStep DEF WriteEnable
<1>4. ASSUME device.id = r.seen.id
      PROVE  IInv'
  <2>1. PICK yes \in BOOLEAN : yes = TRUE
    OBVIOUS
  <2>2. PICK d : d = Columns(device.id, yes, device.codes, r.shown)
    OBVIOUS
  <2>3. device' = d
    <3>1. [device EXCEPT !.enabled = yes, !.last = r.shown] = d
      BY <2>2, TwoColumns DEF IInv, Types
    <3>2. device' = [device EXCEPT !.enabled = yes, !.last = r.shown]
      BY <1>1, <1>4, <2>1 DEF WriteEnable
    <3> QED
      BY <3>1, <3>2
  <2>4. d.id = device.id /\ d.enabled = TRUE /\ d.codes = device.codes /\ d.last = r.shown /\ d \in Device
    <3>1. d \in Device
      BY <2>2, ReqFields, ColumnsOf, ColumnTypes DEF IInv, Types
    <3> QED
      BY <2>1, <2>2, <3>1 DEF Columns
  <2>5. mf' \in [Handler -> Req] /\ mf'[h] = NoRequest /\ \A g \in Handler : g # h => mf'[g] = mf[g]
    BY <1>2, OneMoves, NobodyTyped DEF IInv
  <2> HIDE DEF NoRequest
  <2>6. Types' /\ Places'
    BY <1>2, <2>3, <2>4, <2>5, NobodyTyped DEF IInv, Types, Places
  <2>7. TicketInv'
    <3>1. \A g \in Handler : mf[g].tk \in Ticket \cup {NoTicket}
      BY RequestOf
    <3> QED
      BY <1>2, <2>5, <3>1, NobodyTyped, TicketStep DEF IInv, TicketInv
  <2>8. RowInv'
    BY <1>1, <1>2, <1>4, <2>3, <2>4, <2>5, NobodyTyped DEF IInv, RowInv, Types
  <2>9. UsedInv'
    <3>1. Done' \subseteq Done
      BY <2>5, NobodyTyped, NothingDone
    <3> QED
      BY <1>1, <1>2, <1>4, <2>3, <2>4, <2>5, <3>1, NobodyTyped DEF IInv, UsedInv
  <2> QED
    BY <2>6, <2>7, <2>8, <2>9 DEF IInv
<1> QED
  BY <1>3, <1>4

\* The UPDATE of a code: e is the row it leaves.  Nobody else was about to write
\* the column, or the use is one of the raced ones.
LEMMA CodeWritten ==
    ASSUME IInv, MfaHistory, NEW h \in Handler, NEW r \in Req, r = mf[h], NEW e \in Device,
           r.pc = "write", r.op \in {"totp", "recovery"}, device.id = r.seen.id,
           device' = e, e.id = device.id, e.enabled = device.enabled,
           r.op = "totp" => e.codes = device.codes /\ e.last = r.shown /\ r.shown > 0,
           r.op = "recovery" => e.last = device.last /\ e.codes = r.seen.codes \ {r.code},
           mf' = [mf EXCEPT ![h] = [r EXCEPT !.pc = "grant"]],
           UNCHANGED <<created, ticket, issued, clock>>
    PROVE  IInv'
<1>1. PICK d : d = Asks("grant", r.op, r.tk, r.code, r.shown, r.seen)
  OBVIOUS
<1>2. mf' = [mf EXCEPT ![h] = d]
  <2>1. [r EXCEPT !.pc = "grant"] = d
    BY <1>1, GoesOn
  <2> QED
    BY <2>1
<1>3. d \in Req
  BY <1>1, AsksTypes, ReqFields
<1>4. /\ d.pc = "grant" /\ d.op = r.op /\ d.tk = r.tk /\ d.code = r.code /\ d.shown = r.shown
      /\ d.seen = r.seen
  BY <1>1 DEF Asks
<1>5. mf' \in [Handler -> Req] /\ mf'[h] = d /\ \A g \in Handler : g # h => mf'[g] = mf[g]
  BY <1>2, <1>3, OneMoves DEF IInv
<1>6. Types' /\ Places'
  BY <1>4, <1>5 DEF IInv, Types, Places
<1>7. TicketInv'
  <2>1. \A g \in Handler : mf[g].tk \in Ticket \cup {NoTicket}
    BY RequestOf
  <2> QED
    BY <1>4, <1>5, <2>1, TicketStep DEF IInv, TicketInv
<1>8. RowInv'
  BY <1>4, <1>5 DEF IInv, RowInv
<1>9. UsedInv'
  <2>1. PICK w : w = <<r.seen.id, IF r.op = "recovery" THEN r.code ELSE r.shown>>
    OBVIOUS
  <2>2. Used(h) = w /\ Used(h)' = w
    BY <1>4, <1>5, <2>1 DEF Used
  <2>3. Done' \subseteq Done \cup {w}
    BY <1>4, <1>5, <2>2, DoneStep
  <2>4. w \in Done' => \A g \in Handler : mf[g].pc = "write" /\ mf[g].op \in Column(r.op) => g = h
    <3>1. r # d
      BY <1>4
    <3>2. Writing(r.op) = {h} \/ w \in raced'
      BY <1>5, <2>2, <3>1 DEF MfaHistory
    <3> QED
      BY <3>2 DEF Writing, Done
  <2>5. /\ w[1] = device.id /\ w[1] \in 1..created /\ device.enabled
        /\ w[2] = IF r.op = "recovery" THEN r.code ELSE r.shown
        /\ r.op = "recovery" => r.code \in Code
    BY <2>1 DEF IInv, RowInv, Types, Device, Places
  <2>6. \A c \in Code : c \notin 1..Windows
    BY MfaAssumption
  <2>7. /\ w[2] \notin e.codes /\ (w[2] \in 1..Windows => w[2] <= e.last)
    <3>1. CASE r.op = "recovery"
      BY <2>5, <2>6, <3>1
    <3>2. CASE r.op = "totp"
      <4>1. r.shown \in 1..Windows
        BY <3>2, ReqFields, MfaAssumption
      <4>2. e.codes \subseteq Code
        BY ColumnsOf
      <4> QED
        BY <2>5, <2>6, <3>2, <4>1, <4>2
    <3> QED
      BY <3>1, <3>2
  <2>8. ASSUME NEW g \in Handler, w \in Done', mf'[g].pc = "write"
        PROVE  /\ mf'[g].op = "recovery" => w[2] \notin mf'[g].seen.codes
               /\ mf'[g].op \in {"totp", "enable"} /\ w[2] \in 1..Windows => w[2] <= mf'[g].shown
    <3>1. g # h /\ mf'[g] = mf[g] /\ mf[g].op \notin Column(r.op)
      BY <1>4, <1>5, <2>4, <2>8
    <3>2. mf[g].seen.codes \subseteq Code
      BY RequestOf, ColumnsOf
    <3>3. CASE r.op = "recovery"
      BY <2>5, <2>6, <3>1, <3>3 DEF Column
    <3>4. CASE r.op = "totp"
      <4>1. r.shown \in 1..Windows
        BY <3>4, ReqFields, MfaAssumption
      <4> QED
        BY <2>5, <2>6, <3>1, <3>2, <3>4, <4>1 DEF Column
    <3> QED
      BY <3>3, <3>4
  <2>9. ASSUME NEW u \in Done
        PROVE  /\ u[1] \in 1..created
               /\ u[1] = e.id => e.enabled /\ u[2] \notin e.codes /\ (u[2] \in 1..Windows => u[2] <= e.last)
               /\ \A g \in Handler : mf'[g].pc = "write" /\ mf'[g].seen.id = u[1] =>
                    /\ mf'[g].op = "recovery" => u[2] \notin mf'[g].seen.codes
                    /\ mf'[g].op \in {"totp", "enable"} /\ u[2] \in 1..Windows => u[2] <= mf'[g].shown
    <3>1. \A g \in Handler : mf'[g].pc = "write" => mf'[g] = mf[g]
      BY <1>4, <1>5
    <3>2. u[1] = device.id => /\ u[2] \notin device.codes /\ (u[2] \in 1..Windows => u[2] <= device.last)
                              /\ r.op = "recovery" => u[2] \notin r.seen.codes
                              /\ r.op = "totp" /\ u[2] \in 1..Windows => u[2] <= r.shown
      BY DEF IInv, UsedInv
    <3> QED
      BY <2>5, <3>1, <3>2 DEF IInv, UsedInv
  <2> QED
    BY <2>3, <2>5, <2>7, <2>8, <2>9 DEF UsedInv
<1> QED
  BY <1>6, <1>7, <1>8, <1>9 DEF IInv

LEMMA CodeWrites ==
    ASSUME IInv, MfaHistory, NEW h \in Handler, WriteTotp(h) \/ WriteRecovery(h)
    PROVE  IInv'
<1>1. PICK r \in Req : r = mf[h]
  BY RequestOf
<1>2. r.pc = "write" /\ r.op \in {"totp", "recovery"} /\ UNCHANGED <<created, ticket, issued, clock>>
  BY <1>1 DEF WriteTotp, WriteRecovery, HandlerAt
<1>3. device.id # r.seen.id => IInv'
  BY <1>1, <1>2, EndStep DEF WriteTotp, WriteRecovery, Accept, HandlerEnds
<1>4. ASSUME device.id = r.seen.id
      PROVE  IInv'
  <2>1. mf' = [mf EXCEPT ![h] = [r EXCEPT !.pc = "grant"]]
    BY <1>1, <1>4 DEF WriteTotp, WriteRecovery, Accept, HandlerTo
  <2>3. ASSUME WriteTotp(h)
        PROVE  IInv'
    <3>1. PICK e : e = Columns(device.id, device.enabled, device.codes, r.shown)
      OBVIOUS
    <3>2. [device EXCEPT !.last = r.shown] = e
      BY <3>1, OneColumn DEF IInv, Types
    <3>3. device' = e /\ r.op = "totp"
      BY <1>1, <1>4, <2>3, <3>2 DEF WriteTotp, HandlerAt
    <3>4. e \in Device
      BY <3>1, ReqFields, ColumnsOf, ColumnTypes DEF IInv, Types
    <3>5. e.id = device.id /\ e.enabled = device.enabled /\ e.codes = device.codes /\ e.last = r.shown
      BY <3>1 DEF Columns
    <3>6. r.shown > 0
      BY <1>1, <1>2, <3>3 DEF IInv, RowInv
    <3> QED
      BY <1>1, <1>2, <1>4, <2>1, <3>3, <3>4, <3>5, <3>6, CodeWritten
  <2>4. ASSUME WriteRecovery(h)
        PROVE  IInv'
    <3>1. PICK codes : codes = r.seen.codes \ {r.code}
      OBVIOUS
    <3>2. PICK e : e = Columns(device.id, device.enabled, codes, device.last)
      OBVIOUS
    <3>3. [device EXCEPT !.codes = codes] = e
      BY <3>2, OneColumn DEF IInv, Types
    <3>4. device' = e /\ r.op = "recovery"
      BY <1>1, <1>4, <2>4, <3>1, <3>3 DEF WriteRecovery, HandlerAt
    <3>5. codes \in SUBSET Code
      BY <3>1, ReqFields, ColumnsOf
    <3>6. e \in Device
      BY <3>2, <3>5, ColumnsOf, ColumnTypes DEF IInv, Types
    <3>7. e.id = device.id /\ e.enabled = device.enabled /\ e.codes = codes /\ e.last = device.last
      BY <3>2 DEF Columns
    <3> QED
      BY <1>1, <1>2, <1>4, <2>1, <3>1, <3>4, <3>6, <3>7, CodeWritten
  <2> QED
    BY <2>3, <2>4
<1> QED
  BY <1>3, <1>4

\* The row is replaced or deleted: its successor has an id of its own, or none.
LEMMA RowGoes ==
    ASSUME IInv, MfaHistory, NEW v \in Device, device' = v, ~v.enabled, created' \in 0..Setups,
           created' >= created, v.id = 0 \/ v.id > created, v.id <= created',
           mf' = mf \/ \E h \in Handler : mf' = [mf EXCEPT ![h] = NoRequest],
           UNCHANGED <<ticket, issued, clock>>
    PROVE  IInv'
<1>1. PICK r : r = NoRequest
  OBVIOUS
<1>2. /\ r \in Req /\ r.pc = "idle" /\ r.op = "none" /\ r.tk = NoTicket
      /\ r.seen.id = 0
  BY <1>1, NobodyTyped
<1>3. mf' \in [Handler -> Req] /\ \A g \in Handler : mf'[g] = mf[g] \/ mf'[g] = r
  BY <1>1, <1>2, OneMoves DEF IInv, Types
<1>4. \A h, g \in Handler : h = g \/ mf'[h] = mf[h] \/ mf'[g] = mf[g]
  BY <1>1, <1>2, OneMoves DEF IInv, Types
<1>5. created \in Int /\ created' \in Int /\ v.id \in Int /\ v.enabled \in BOOLEAN
  BY DEF IInv, Types, Device
<1>6. \A g \in Handler : mf[g].seen.id \in Int /\ mf[g].seen.id <= created
  BY RequestOf, ColumnsOf DEF IInv, RowInv
<1>7. Types' /\ Places'
  BY <1>2, <1>3 DEF IInv, Types, Places
<1>8. TicketInv'
  <2>1. \A g \in Handler : mf[g].tk \in Ticket \cup {NoTicket}
    BY RequestOf
  <2>2. \A g \in Handler : mf'[g].pc \in {"read", "write", "grant"} => mf'[g].tk \notin ticket'
    BY <1>2, <1>3 DEF IInv, TicketInv
  <2> QED
    BY <1>2, <1>3, <1>4, <2>1, <2>2, TicketStep DEF IInv, TicketInv
<1>9. RowInv'
  BY <1>2, <1>3, <1>5, <1>6 DEF IInv, RowInv
<1>10. UsedInv'
  <2>1. Done' \subseteq Done
    BY <1>2, <1>3, NothingDone
  <2>2. \A u \in Done : u[1] \in 1..created' /\ u[1] # v.id
    BY <1>5 DEF IInv, UsedInv
  <2> QED
    BY <1>2, <1>3, <2>1, <2>2 DEF IInv, UsedInv
<1> QED
  BY <1>7, <1>8, <1>9, <1>10 DEF IInv

LEMMA SetupWrites ==
    ASSUME IInv, MfaHistory, NEW h \in Handler, WriteSetup(h)
    PROVE  IInv'
<1>1. mf' = [mf EXCEPT ![h] = NoRequest] /\ UNCHANGED <<ticket, issued, clock>>
  BY DEF WriteSetup, HandlerEnds
<1>2. UNCHANGED <<device, created>> => IInv'
  BY <1>1, EndStep
<1>3. ASSUME created < Setups, created' = created + 1,
             device' = [id |-> created', enabled |-> FALSE, codes |-> Code, last |-> 0]
      PROVE  IInv'
  <2>1. PICK no \in BOOLEAN : no = FALSE
    OBVIOUS
  <2>2. PICK v : v = Columns(created', no, Code, 0)
    OBVIOUS
  <2>3. device' = v
    BY <1>3, <2>1, <2>2 DEF Columns
  <2>4. created' \in 0..Setups /\ created' > created /\ 0 \in 0..Windows
    BY <1>3, MfaAssumption DEF IInv, Types
  <2>5. v \in Device
    BY <2>2, <2>4, ColumnTypes
  <2>6. v.id = created' /\ ~v.enabled
    BY <2>1, <2>2 DEF Columns
  <2>7. created' >= created /\ v.id > created /\ v.id <= created'
    BY <2>4, <2>6 DEF IInv, Types
  <2>8. \E g \in Handler : mf' = [mf EXCEPT ![g] = NoRequest]
    BY <1>1
  <2> HIDE DEF NoRequest
  <2> QED
    BY <1>1, <2>3, <2>4, <2>5, <2>6, <2>7, <2>8, RowGoes
<1> QED
  BY <1>2, <1>3 DEF WriteSetup

LEMMA DisableStep ==
    ASSUME IInv, MfaHistory, DisableMfa
    PROVE  IInv'
<1>1. device' = NoDevice /\ UNCHANGED <<created, ticket, issued, clock, mf>>
  BY DEF DisableMfa
<1>2. created \in 0..Setups /\ 0 <= created /\ created' \in 0..Setups /\ created' >= created
  BY <1>1 DEF IInv, Types
<1>3. NoDevice \in Device /\ NoDevice.id = 0 /\ ~NoDevice.enabled
  BY DeviceTypes
<1> QED
  BY <1>1, <1>2, <1>3, RowGoes

\* The row and the requests stay: only the clock or the tickets change.
LEMMA StayStep ==
    ASSUME IInv, MfaHistory, UNCHANGED <<device, created, mf>>, clock' \in 1..Windows,
           ticket' \subseteq issued', issued \subseteq issued', issued' \subseteq Ticket,
           ticket' \cap issued \subseteq ticket
    PROVE  IInv'
<1>1. Types' /\ Places' /\ RowInv'
  BY DEF IInv, Types, Places, RowInv
<1>2. TicketInv'
  <2>1. \A h \in Handler : mf[h].tk \in Ticket \cup {NoTicket}
    BY RequestOf
  <2>2. \A h \in Handler : mf[h].pc \in {"read", "write", "grant"} => mf[h].tk \in issued \cup {NoTicket}
    BY RequestOf DEF IInv, Places
  <2>3. \A h \in Handler : mf[h].pc \in {"read", "write", "grant"} => mf[h].tk \notin ticket'
    BY <2>2, MfaAssumption DEF IInv, TicketInv
  <2>4. mf' \in [Handler -> Req]
    BY DEF IInv, Types
  <2> QED
    BY <2>1, <2>3, <2>4, TicketStep
<1>3. UsedInv'
  BY NothingDone DEF IInv, UsedInv
<1> QED
  BY <1>1, <1>2, <1>3 DEF IInv

LEMMA MfaStep ==
    ASSUME IInv, MfaHistory, MfaNext
    PROVE  IInv'
<1>1. CASE \E h \in Handler : SetupTotp(h) \/ WriteSetup(h) \/ VerifySetup(h) \/ WriteEnable(h)
  BY <1>1, SetupStep, SetupWrites, VerifySetupStep, EnableWrites
<1>2. CASE \E h \in Handler, k \in Ticket : VerifyMfa(h, k, "totp", NoCode)
  <2>1. PICK op \in {"totp", "recovery"} : op = "totp"
    OBVIOUS
  <2> QED
    BY <1>2, <2>1, VerifyMfaStep
<1>3. CASE \E h \in Handler, k \in Ticket, c \in Code : VerifyMfa(h, k, "recovery", c)
  <2>1. PICK op \in {"totp", "recovery"} : op = "recovery"
    OBVIOUS
  <2> QED
    BY <1>3, <2>1, VerifyMfaStep
<1>4. CASE \E h \in Handler : ConsumeMfaSession(h) \/ CheckCode(h) \/ WriteTotp(h) \/ WriteRecovery(h)
  BY <1>4, ConsumeStep, CodeStep, CodeWrites
<1>5. CASE \E h \in Handler : GrantTokens(h) \/ HandlerDies(h)
  BY <1>5, EndStep DEF GrantTokens, HandlerDies, HandlerEnds
<1>6. CASE DisableMfa
  BY <1>6, DisableStep
<1>7. CASE NextWindow
  <2>1. UNCHANGED <<device, created, ticket, issued, mf>> /\ clock' \in 1..Windows
    BY <1>7, MfaAssumption DEF NextWindow, IInv, Types
  <2> QED
    BY <2>1, StayStep DEF IInv, Types
<1>8. CASE \E k \in Ticket : CreateMfaSession(k) \/ ExpireMfaSession(k)
  BY <1>8, StayStep DEF CreateMfaSession, ExpireMfaSession, IInv, Types
<1> QED
  BY <1>1, <1>2, <1>3, <1>4, <1>5, <1>6, <1>7, <1>8 DEF MfaNext

\* Steps of the other parts, and none at all.
LEMMA OthersStep ==
    ASSUME IInv, UNCHANGED <<mvars, opened, shared, spent, raced>>
    PROVE  IInv'
<1>1. UNCHANGED <<device, created, ticket, issued, clock, mf>>
  BY DEF mvars
<1>2. Types' /\ Places' /\ TicketInv' /\ RowInv'
  BY <1>1 DEF IInv, Types, Places, TicketInv, RowInv
<1>3. Done' = Done
  BY <1>1 DEF Done, Used
<1>4. UsedInv'
  BY <1>1, <1>3 DEF IInv, UsedInv
<1> QED
  BY <1>2, <1>4 DEF IInv

-----------------------------------------------------------------------------
(* The theorems.                                                           *)

LEMMA InvInit == AInit => IInv
<1> SUFFICES ASSUME AInit PROVE IInv
  OBVIOUS
<1>1. /\ device = NoDevice /\ created = 0 /\ ticket = {} /\ issued = {} /\ clock = 1
      /\ opened = {} /\ shared = {} /\ spent = {} /\ raced = {}
  BY DEF AInit, MfaInit
<1>2. mf \in [Handler -> Req] /\ \A h \in Handler : mf[h] = NoRequest
  BY NobodyTyped DEF AInit, MfaInit
<1> HIDE DEF NoRequest
<1>3. Types
  BY <1>1, <1>2, DeviceTypes, MfaAssumption DEF Types
<1>4. Places /\ TicketInv
  BY <1>1, <1>2, NobodyTyped, MfaAssumption DEF Places, TicketInv
<1>5. RowInv
  BY <1>1, <1>2, NobodyTyped, DeviceTypes DEF RowInv
<1>6. Done = {}
  BY <1>1, <1>2, NobodyTyped DEF Done
<1> QED
  BY <1>3, <1>4, <1>5, <1>6 DEF IInv, UsedInv

LEMMA InvNext == IInv /\ [ANext]_avars => IInv'
<1> SUFFICES ASSUME IInv, [ANext]_avars PROVE IInv'
  OBVIOUS
<1>1. CASE MfaNext /\ MfaHistory
  BY <1>1, MfaStep
<1>2. CASE UNCHANGED <<mvars, opened, shared, spent, raced>>
  BY <1>2, OthersStep
<1> QED
  BY <1>1, <1>2 DEF ANext, LoginHistory, NoHistory, avars

LEMMA InvAlways == ASpec => []IInv
BY InvInit, InvNext, PTL DEF ASpec

\* An MFA session opens one login and is gone with it, whatever the number of
\* requests, sessions and set-ups: a second login takes two requests that held
\* it at once (validate_mfa_session).
THEOREM TicketOpensOneLogin == ASpec => []TicketOpensOnce
<1>1. IInv => TicketOpensOnce
  BY DEF IInv, TicketInv, TicketOpensOnce
<1> QED
  BY <1>1, InvAlways, PTL

\* A recovery code or a window that opened a login opens no other one, unless
\* another request was about to write the same column (verify_recovery_code,
\* verify_totp).
THEOREM UsedOnce == ASpec => []UsedStaysUsed
<1>1. IInv => UsedStaysUsed
  BY DEF IInv, UsedInv, UsedStaysUsed, Done
<1> QED
  BY <1>1, InvAlways, PTL

LEMMA StaysEnabled ==
    ASSUME IInv, ANext, device.enabled, ~device'.enabled, mf' # mf
    PROVE  \E h \in Handler : /\ HandlerAt(h, "setup", "write") /\ mf'[h] # mf[h]
                              /\ mf[h].seen.id = device.id /\ ~mf[h].seen.enabled
<1>1. MfaNext /\ device' # device
  BY DEF ANext, mvars
<1>2. PICK h \in Handler : WriteSetup(h) \/ WriteEnable(h) \/ WriteTotp(h) \/ WriteRecovery(h)
  BY <1>1 DEF MfaNext, SetupTotp, VerifySetup, VerifyMfa, ConsumeMfaSession, CheckCode, GrantTokens,
              HandlerDies, DisableMfa, NextWindow, CreateMfaSession, ExpireMfaSession
<1>3. device \in Device
  BY DEF IInv, Types
<1>4. ~WriteEnable(h) /\ ~WriteTotp(h) /\ ~WriteRecovery(h)
  <2>1. \A x : [device EXCEPT !.last = x].enabled = device.enabled
               /\ [device EXCEPT !.codes = x].enabled = device.enabled
    BY <1>3, OneColumn DEF Columns
  <2>2. ~WriteEnable(h)
    <3> SUFFICES ASSUME WriteEnable(h) PROVE FALSE
      OBVIOUS
    <3>1. PICK yes \in BOOLEAN : yes = TRUE
      OBVIOUS
    <3>2. device' = [device EXCEPT !.enabled = yes, !.last = mf[h].shown]
      BY <1>1, <3>1 DEF WriteEnable
    <3> QED
      BY <1>3, <3>1, <3>2, TwoColumns DEF Columns
  <2>3. ~WriteTotp(h) /\ ~WriteRecovery(h)
    BY <1>1, <2>1 DEF WriteTotp, WriteRecovery
  <2> QED
    BY <2>2, <2>3
<1>5. WriteSetup(h)
  BY <1>2, <1>4
<1>6. mf[h].op = "setup" /\ mf[h].pc = "write" /\ device.id \in {0, mf[h].seen.id}
  BY <1>1, <1>5 DEF WriteSetup, HandlerAt
<1>7. device.id = mf[h].seen.id /\ ~mf[h].seen.enabled
  BY <1>6 DEF IInv, RowInv
<1>8. mf'[h] # mf[h]
  <2>1. mf'[h] = NoRequest
    BY <1>5 DEF WriteSetup, HandlerEnds, IInv, Types
  <2> QED
    BY <1>6, <2>1, NobodyTyped
<1> QED
  BY <1>6, <1>7, <1>8 DEF HandlerAt

\* MFA that a user enabled stays enabled until disabled, unless a second set-up
\* read the device while it was still pending (setup_totp).
THEOREM EnabledStays == ASpec => EnabledUntilDisabled
<1>1. IInv /\ [ANext]_avars =>
        [device.enabled /\ ~device'.enabled =>
           \/ mf' = mf
           \/ \E h \in Handler : HandlerAt(h, "setup", "write") /\ mf'[h] # mf[h]
                                 /\ mf[h].seen.id = device.id /\ ~mf[h].seen.enabled]_avars
  BY StaysEnabled
<1> QED
  BY <1>1, InvAlways, PTL DEF ASpec, EnabledUntilDisabled

-----------------------------------------------------------------------------
(* Passwords.  A login that goes to overwrite the hash of an account, or   *)
(* may still, holds the password of that account, unless it is stale.      *)

Attempt(pc, e, i, p, n, dirty) ==
    [pc |-> pc, email |-> e, ip |-> i, pass |-> p, n |-> n, dirty |-> dirty]

Late == {"active", "forget", "forget_ip", "commit"}

\* The password of t was found right, though t may be about to fail.
Trusted(t) == t.pc \in {"rehash", "active", "forget", "forget_ip"} \/ t.dirty

Attempted(t) ==
    /\ \E pc, e, i, p, n : \E dirty \in BOOLEAN : t = Attempt(pc, e, i, p, n, dirty)
    /\ t.dirty => t.pc \in Late
    /\ Trusted(t) => t.email \in Account

Right(t) == t.pass = hash[t.email].pass

KInv ==
    /\ hash = [e \in Account |-> hash[e]] /\ lg = [c \in Clerk |-> lg[c]]
    /\ \A c \in Clerk : Attempted(lg[c])
    /\ \A c \in Clerk \ stale : Trusted(lg[c]) => Right(lg[c])

LEMMA AttemptFields ==
    ASSUME NEW pc, NEW e, NEW i, NEW p, NEW n, NEW dirty, NEW t,
           t = Attempt(pc, e, i, p, n, dirty)
    PROVE  t.pc = pc /\ t.email = e /\ t.ip = i /\ t.pass = p /\ t.n = n /\ t.dirty = dirty
BY DEF Attempt

LEMMA NobodyLogsIn ==
    /\ NoLogin = Attempt("idle", NoEmail, NoIp, NoPassword, 0, FALSE)
    /\ Attempted(NoLogin) /\ ~Trusted(NoLogin) /\ NoLogin.pc = "idle"
<1>1. NoLogin = Attempt("idle", NoEmail, NoIp, NoPassword, 0, FALSE)
  BY DEF NoLogin, Attempt
<1>2. PICK t : t = NoLogin
  OBVIOUS
<1>3. t.pc = "idle" /\ t.dirty = FALSE
  BY <1>2 DEF NoLogin
<1>4. Attempted(t) /\ ~Trusted(t)
  BY <1>1, <1>2, <1>3 DEF Attempted, Trusted
<1> QED
  BY <1>1, <1>2, <1>3, <1>4

\* A field set leaves the others.
LEMMA FieldSet ==
    ASSUME NEW pc, NEW e, NEW i, NEW p, NEW n, NEW dirty, NEW x, NEW t, NEW d,
           t = Attempt(pc, e, i, p, n, dirty)
    PROVE  /\ d = [t EXCEPT !.pc = x] => d = Attempt(x, e, i, p, n, dirty)
           /\ d = [t EXCEPT !.n = x] => d = Attempt(pc, e, i, p, x, dirty)
           /\ d = [t EXCEPT !.dirty = x] => d = Attempt(pc, e, i, p, n, x)
BY DEF Attempt

LEMMA TwoFieldsSet ==
    ASSUME NEW t, Attempted(t), NEW x, NEW y, NEW d
    PROVE  /\ d = [t EXCEPT !.pc = x] => d = Attempt(x, t.email, t.ip, t.pass, t.n, t.dirty)
           /\ d = [t EXCEPT !.pc = x, !.n = y] =>
                d = Attempt(x, t.email, t.ip, t.pass, y, t.dirty)
<1>1. PICK pc, e, i, p, n, dirty : t = Attempt(pc, e, i, p, n, dirty)
  BY DEF Attempted
<1>2. t.pc = pc /\ t.email = e /\ t.ip = i /\ t.pass = p /\ t.n = n /\ t.dirty = dirty
  BY <1>1, AttemptFields
<1>3. PICK s : s = [t EXCEPT !.pc = x]
  OBVIOUS
<1>4. s = Attempt(x, e, i, p, n, dirty)
  BY <1>1, <1>3, FieldSet
<1>5. d = [t EXCEPT !.pc = x] => d = Attempt(x, e, i, p, n, dirty)
  BY <1>3, <1>4
<1>6. d = [t EXCEPT !.pc = x, !.n = y] => d = Attempt(x, e, i, p, y, dirty)
  <2>1. d = [t EXCEPT !.pc = x, !.n = y] => d = [s EXCEPT !.n = y]
    BY <1>3
  <2> QED
    BY <1>4, <2>1, FieldSet
<1> QED
  BY <1>2, <1>5, <1>6

\* A login moves on to t.
LEMMA LoginMoves ==
    ASSUME KInv, LoginHistory, NEW c \in Clerk, NEW t, Attempted(t),
           lg' = [lg EXCEPT ![c] = t], UNCHANGED hash,
           c \notin stale /\ Trusted(t) => Right(t)
    PROVE  KInv'
<1>1. lg'[c] = t /\ \A d \in Clerk \ {c} : lg'[d] = lg[d]
  BY DEF KInv
<1>2. lg' = [d \in Clerk |-> lg'[d]]
  BY DEF KInv
<1>3. \A d \in Clerk : Attempted(lg'[d])
  BY <1>1 DEF KInv
<1>4. \A x : Right(x)' <=> Right(x)
  BY DEF Right
<1>5. \A x : Attempted(x) /\ Trusted(x) => x.pc # "idle"
  BY DEF Attempted, Trusted, Late
<1>6. ASSUME NEW d \in Clerk \ stale', Trusted(lg'[d]) PROVE Right(lg'[d])
  <2>1. lg'[d].pc # "idle"
    BY <1>3, <1>5, <1>6
  <2>2. d \notin stale
    BY <1>6, <2>1 DEF LoginHistory
  <2> QED
    BY <1>1, <1>6, <2>2 DEF KInv
<1>7. \A d \in Clerk \ stale' : Trusted(lg'[d]) => lg'[d].pass = hash'[lg'[d].email].pass
  BY <1>6 DEF Right
<1>8. hash' = [e \in Account |-> hash'[e]]
  BY DEF KInv
<1> QED
  BY <1>2, <1>3, <1>7, <1>8 DEF KInv, Right, Attempted, Trusted

\* ... keeping what it knows.
LEMMA LoginGoesOn ==
    ASSUME KInv, LoginHistory, NEW c \in Clerk, NEW pc, NEW n, NEW t,
           t = Attempt(pc, lg[c].email, lg[c].ip, lg[c].pass, n, lg[c].dirty),
           lg' = [lg EXCEPT ![c] = t], UNCHANGED hash,
           lg[c].dirty => pc \in Late,
           pc \in {"rehash", "active", "forget", "forget_ip"} => Trusted(lg[c])
    PROVE  KInv'
<1>1. /\ t.pc = pc /\ t.email = lg[c].email /\ t.pass = lg[c].pass /\ t.dirty = lg[c].dirty
  BY AttemptFields
<1>2. Attempted(lg[c])
  BY DEF KInv
<1>3. lg[c].dirty \in BOOLEAN
  BY <1>2, AttemptFields DEF Attempted
<1>4. Trusted(t) => Trusted(lg[c])
  BY <1>1 DEF Trusted
<1>5. Attempted(t)
  BY <1>1, <1>2, <1>3, <1>4 DEF Attempted
<1>6. c \notin stale /\ Trusted(t) => Right(t)
  BY <1>1, <1>4 DEF KInv, Right
<1> QED
  BY <1>5, <1>6, LoginMoves

LEMMA LoginOver ==
    ASSUME KInv, LoginHistory, NEW c \in Clerk, LoginEnds(c), UNCHANGED hash
    PROVE  KInv'
BY NobodyLogsIn, LoginMoves DEF LoginEnds

LEMMA LoginComes ==
    ASSUME KInv, LoginHistory, NEW c \in Clerk, NEW e \in Email, NEW i \in Ip,
           NEW p \in Password, Login(c, e, i, p)
    PROVE  KInv'
<1>1. PICK t : t = [NoLogin EXCEPT !.pc = "locked", !.email = e, !.ip = i, !.pass = p]
  OBVIOUS
<1>2. t = Attempt("locked", e, i, p, 0, FALSE)
  BY <1>1 DEF NoLogin, Attempt
<1>3. t.pc = "locked" /\ t.dirty = FALSE
  BY <1>2 DEF Attempt
<1>4. Attempted(t) /\ ~Trusted(t)
  BY <1>2, <1>3 DEF Attempted, Trusted
<1> QED
  BY <1>1, <1>4, LoginMoves DEF Login

\* The steps that set the place and, perhaps, the counter.
Recorded(c, pc, n) == lg' = [lg EXCEPT ![c] = [lg[c] EXCEPT !.pc = pc, !.n = n]]

LEMMA LoginPlaces ==
    ASSUME KInv, LoginHistory, NEW c \in Clerk, NEW pc, NEW n, UNCHANGED hash,
           LoginTo(c, pc) \/ Recorded(c, pc, n),
           lg[c].dirty => pc \in Late,
           pc \in {"rehash", "active", "forget", "forget_ip"} => Trusted(lg[c])
    PROVE  KInv'
<1>1. Attempted(lg[c])
  BY DEF KInv
<1>2. CASE LoginTo(c, pc)
  <2>1. PICK t : t = [lg[c] EXCEPT !.pc = pc]
    OBVIOUS
  <2>2. lg' = [lg EXCEPT ![c] = t]
    BY <1>2, <2>1 DEF LoginTo
  <2>3. t = Attempt(pc, lg[c].email, lg[c].ip, lg[c].pass, lg[c].n, lg[c].dirty)
    BY <1>1, <2>1, TwoFieldsSet
  <2> QED
    BY <2>2, <2>3, LoginGoesOn
<1>3. CASE Recorded(c, pc, n)
  <2>1. PICK t : t = [lg[c] EXCEPT !.pc = pc, !.n = n]
    OBVIOUS
  <2>2. lg' = [lg EXCEPT ![c] = t]
    BY <1>3, <2>1 DEF Recorded
  <2>3. t = Attempt(pc, lg[c].email, lg[c].ip, lg[c].pass, n, lg[c].dirty)
    BY <1>1, <2>1, TwoFieldsSet
  <2> QED
    BY <2>2, <2>3, LoginGoesOn
<1> QED
  BY <1>2, <1>3

LEMMA Clean ==
    ASSUME KInv, NEW c \in Clerk, lg[c].pc \notin Late
    PROVE  ~lg[c].dirty
BY DEF KInv, Attempted

LEMMA ProgressKeeps ==
    ASSUME KInv, LoginHistory, NEW c \in Clerk, NEW ok \in BOOLEAN,
           CheckStep(c, ok) \/ SuccessStep(c, ok) \/ FailureStep(c, ok)
    PROVE  KInv'
<1>1. CASE IsLocked(c, ok)
  <2>1. ~lg[c].dirty
    BY <1>1, Clean DEF IsLocked, LoginAt, Late
  <2> QED
    BY <1>1, <2>1, LoginOver, LoginPlaces DEF IsLocked
<1>2. CASE CountEmail(c, ok)
  <2>1. ~lg[c].dirty
    BY <1>2, Clean DEF CountEmail, LoginAt, Late
  <2>2. PICK n : n = IF ok THEN fails[lg[c].email] ELSE 0
    OBVIOUS
  <2>3. Recorded(c, "count_ip", n) /\ UNCHANGED hash
    BY <1>2, <2>2 DEF CountEmail, Recorded
  <2> QED
    BY <2>1, <2>3, LoginPlaces
<1>3. CASE CountIp(c, ok)
  <2>1. ~lg[c].dirty
    BY <1>3, Clean DEF CountIp, LoginAt, Late
  <2>2. PICK zero : zero = 0
    OBVIOUS
  <2>3. LoginEnds(c) \/ Recorded(c, "verify", zero)
    BY <1>3, <2>2 DEF CountIp, Recorded
  <2>4. UNCHANGED hash
    BY <1>3 DEF CountIp
  <2> QED
    BY <2>1, <2>3, <2>4, LoginOver, LoginPlaces
<1>4. CASE ForgetEmail(c, ok)
  BY <1>4, LoginPlaces DEF ForgetEmail, LoginAt, Trusted, Late
<1>5. CASE ForgetIp(c, ok)
  BY <1>5, LoginPlaces DEF ForgetIp, LoginAt, Trusted, Late
<1>6. CASE FailEmail(c, ok)
  <2>1. ~lg[c].dirty
    BY <1>6, Clean DEF FailEmail, LoginAt, Late
  <2>2. PICK n : n = IF ok THEN fails[lg[c].email] + 1 ELSE 0
    OBVIOUS
  <2>3. Recorded(c, "fail_ip", n) /\ UNCHANGED hash
    BY <1>6, <2>2 DEF FailEmail, Recorded
  <2> QED
    BY <2>1, <2>3, LoginPlaces
<1>7. CASE FailIp(c, ok)
  <2>1. ~lg[c].dirty
    BY <1>7, Clean DEF FailIp, LoginAt, Late
  <2>2. PICK n : n = Counted(c, IF ok THEN fails[lg[c].ip] + 1 ELSE 0)
    OBVIOUS
  <2>3. Recorded(c, "lock", n) \/ LoginTo(c, "commit")
    BY <1>7, <2>2 DEF FailIp, Recorded
  <2>4. UNCHANGED hash
    BY <1>7 DEF FailIp
  <2> QED
    BY <2>1, <2>3, <2>4, LoginPlaces
<1>8. CASE SetLock(c, ok) \/ SetAlertSent(c, ok)
  <2>1. ~lg[c].dirty
    BY <1>8, Clean DEF SetLock, SetAlertSent, LoginAt, Late
  <2>2. PICK pc \in {"alert", "commit"} : LoginTo(c, pc)
    BY <1>8 DEF SetLock, SetAlertSent
  <2>3. UNCHANGED hash
    BY <1>8 DEF SetLock, SetAlertSent
  <2> QED
    BY <2>1, <2>2, <2>3, LoginPlaces
<1> QED
  BY <1>1, <1>2, <1>3, <1>4, <1>5, <1>6, <1>7, <1>8 DEF CheckStep, SuccessStep, FailureStep

LEMMA VerifyKeeps ==
    ASSUME KInv, LoginHistory, NEW c \in Clerk, VerifyPassword(c)
    PROVE  KInv'
<1>0. ~lg[c].dirty /\ UNCHANGED hash /\ Attempted(lg[c])
  BY Clean DEF VerifyPassword, LoginAt, Late, KInv
<1>1. PICK pc \in {"fail", "rehash", "active"} :
        LoginTo(c, pc) /\ (pc # "fail" => lg[c].email \in Account /\ Right(lg[c]))
  BY DEF VerifyPassword, Right
<1>2. CASE pc = "fail"
  BY <1>0, <1>1, <1>2, LoginPlaces
<1>3. CASE pc # "fail"
  <2>1. PICK t : t = [lg[c] EXCEPT !.pc = pc]
    OBVIOUS
  <2>2. t = Attempt(pc, lg[c].email, lg[c].ip, lg[c].pass, lg[c].n, lg[c].dirty)
    BY <1>0, <2>1, TwoFieldsSet
  <2>3. t.email = lg[c].email /\ t.pass = lg[c].pass /\ t.dirty = lg[c].dirty
    BY <2>2, AttemptFields
  <2>4. PICK no \in BOOLEAN : lg[c].dirty = no
    BY <1>0, AttemptFields DEF Attempted
  <2>5. Attempted(t) /\ Right(t)
    BY <1>0, <1>1, <1>3, <2>2, <2>3, <2>4 DEF Attempted, Right
  <2> QED
    BY <1>0, <1>1, <2>1, <2>5, LoginMoves DEF LoginTo
<1> QED
  BY <1>2, <1>3

LEMMA RehashKeeps ==
    ASSUME KInv, LoginHistory, NEW c \in Clerk, Rehash(c)
    PROVE  KInv'
<1>0. /\ UNCHANGED hash /\ Attempted(lg[c]) /\ lg[c].pc = "rehash" /\ Trusted(lg[c])
  BY DEF Rehash, LoginAt, KInv, Trusted
<1>1. PICK yes \in BOOLEAN, active \in Late : yes = TRUE /\ active = "active"
  BY DEF Late
<1>2. PICK t : t = [lg[c] EXCEPT !.pc = active, !.dirty = yes]
  OBVIOUS
<1>3. lg' = [lg EXCEPT ![c] = t]
  BY <1>1, <1>2 DEF Rehash
<1>4. t = Attempt(active, lg[c].email, lg[c].ip, lg[c].pass, lg[c].n, yes)
  <2>1. PICK s : s = [lg[c] EXCEPT !.pc = active]
    OBVIOUS
  <2>2. s = Attempt(active, lg[c].email, lg[c].ip, lg[c].pass, lg[c].n, lg[c].dirty)
    BY <1>0, <2>1, TwoFieldsSet
  <2>3. t = [s EXCEPT !.dirty = yes]
    BY <1>2, <2>1
  <2> QED
    BY <2>2, <2>3, FieldSet
<1>5. t.pc = active /\ t.email = lg[c].email /\ t.pass = lg[c].pass
  BY <1>4, AttemptFields
<1>6. Attempted(t)
  BY <1>0, <1>4, <1>5 DEF Attempted, Late
<1>7. c \notin stale => Right(t)
  BY <1>0, <1>5 DEF Right, KInv
<1> QED
  BY <1>0, <1>3, <1>6, <1>7, LoginMoves

\* A password that changes leaves no login that verified the old one unmarked.
LEMMA HashChanges ==
    ASSUME KInv, LoginHistory, NEW e \in Account, NEW new, hash' = [hash EXCEPT ![e] = new],
           \/ lg' = lg
           \/ \E c \in Clerk : lg' = [lg EXCEPT ![c] = NoLogin]
    PROVE  KInv'
<1>1. hash' = [x \in Account |-> hash'[x]] /\ lg' = [d \in Clerk |-> lg'[d]]
  BY DEF KInv
<1>2. \A d \in Clerk : lg'[d] \in {lg[d], NoLogin}
  BY DEF KInv
<1>3. \A d \in Clerk : Attempted(lg'[d])
  BY <1>2, NobodyLogsIn DEF KInv
<1>4. ASSUME NEW d \in Clerk \ stale', Trusted(lg'[d])
      PROVE  lg'[d].pass = hash'[lg'[d].email].pass
  <2>1. lg'[d] = lg[d]
    BY <1>2, <1>4, NobodyLogsIn
  <2>2. Attempted(lg[d]) /\ lg[d].pc \in Late \cup {"rehash"} /\ lg[d].email \in Account
    BY <1>4, <2>1 DEF KInv, Attempted, Trusted, Late
  <2>3. d \in Verified(lg[d].email)
    BY <2>2 DEF Verified, Late
  <2>4. d \notin stale /\ hash'[lg[d].email].pass = hash[lg[d].email].pass
    BY <1>4, <2>1, <2>2, <2>3 DEF LoginHistory, Late
  <2> QED
    BY <1>4, <2>1, <2>4 DEF KInv, Right
<1> QED
  BY <1>1, <1>3, <1>4 DEF KInv, Right, Attempted, Trusted

LEMMA GuardKeeps == KInv /\ LoginHistory /\ GuardNext => KInv'
<1> SUFFICES ASSUME KInv, LoginHistory, GuardNext PROVE KInv'
  OBVIOUS
<1>1. ASSUME NEW c \in Clerk, CheckActive(c) PROVE KInv'
  <2>1. PICK pc \in {"forget", "commit"} : LoginTo(c, pc)
    BY <1>1 DEF CheckActive
  <2> QED
    BY <1>1, <2>1, LoginPlaces DEF CheckActive, LoginAt, Trusted, Late
<1>2. ASSUME NEW c \in Clerk, CommitLogin(c) PROVE KInv'
  <2>1. CASE lg[c].dirty
    <3>1. lg[c].email \in Account
      BY <2>1 DEF KInv, Attempted, Trusted
    <3> QED
      BY <1>2, <2>1, <3>1, HashChanges DEF CommitLogin, LoginEnds
  <2>2. CASE ~lg[c].dirty
    BY <1>2, <2>2, LoginOver DEF CommitLogin
  <2> QED
    BY <2>1, <2>2
<1>3. ASSUME NEW c \in Clerk, LoginProgress(c) PROVE KInv'
  BY <1>1, <1>2, <1>3, ProgressKeeps, VerifyKeeps, RehashKeeps, Zenon DEF LoginProgress
<1>4. ASSUME NEW c \in Clerk, LoginDies(c) PROVE KInv'
  BY <1>4, LoginOver DEF LoginDies
<1>5. ASSUME NEW e \in Account, NEW p \in Password, ChangePassword(e, p) PROVE KInv'
  BY <1>5, HashChanges DEF ChangePassword
<1>6. CASE GuardTick
  <2>1. UNCHANGED <<hash, lg>>
    BY <1>6 DEF GuardTick
  <2>2. ASSUME NEW d \in Clerk \ stale', Trusted(lg[d]) PROVE d \notin stale
    <3>1. lg'[d].pc # "idle"
      BY <2>1, <2>2 DEF KInv, Attempted, Trusted, Late
    <3> QED
      BY <2>2, <3>1 DEF LoginHistory
  <2> QED
    BY <2>1, <2>2 DEF KInv, Right, Attempted, Trusted
<1> QED
  BY <1>3, <1>4, <1>5, <1>6, LoginComes DEF GuardNext

\* What PasswordKept says of one step.
KeptStep ==
    \A e \in Account : hash'[e].pass # hash[e].pass =>
      lg' = lg \/ \E c \in stale : lg[c].email = e /\ lg'[c] # lg[c]

LEMMA GuardChanges == KInv /\ GuardNext => KeptStep
<1> SUFFICES ASSUME KInv, GuardNext, NEW e \in Account, hash'[e].pass # hash[e].pass, lg' # lg
             PROVE  \E c \in stale : lg[c].email = e /\ lg'[c] # lg[c]
  BY DEF KeptStep
<1>1. PICK c \in Clerk : CommitLogin(c) /\ lg[c].dirty
  BY DEF GuardNext, LoginProgress, Login, CheckStep, SuccessStep, FailureStep, IsLocked,
     CountEmail, CountIp, VerifyPassword, Rehash, CheckActive, ForgetEmail, ForgetIp, FailEmail,
     FailIp, SetLock, SetAlertSent, ChangePassword, LoginDies, GuardTick, CommitLogin
<1>2. PICK new : new = [pass |-> lg[c].pass, legacy |-> FALSE]
  OBVIOUS
<1>3. hash' = [hash EXCEPT ![lg[c].email] = new] /\ new.pass = lg[c].pass
  BY <1>1, <1>2 DEF CommitLogin
<1>4. lg[c].email = e /\ lg[c].pass # hash[e].pass
  BY <1>3 DEF KInv
<1>5. c \in stale
  BY <1>1, <1>4 DEF KInv, Right, Trusted
<1>6. lg'[c] # lg[c]
  <2>1. lg'[c] = NoLogin /\ lg[c].pc = "commit"
    BY <1>1 DEF CommitLogin, LoginEnds, LoginAt, KInv
  <2> QED
    BY <2>1, NobodyLogsIn
<1> QED
  BY <1>4, <1>5, <1>6

\* A password that a user set is only replaced by the user, unless a login that
\* had verified the one before commits its rehash (AuthService.login).
THEOREM PasswordStays == ASpec => PasswordKept
<1>1. AInit => KInv
  <2> SUFFICES ASSUME AInit PROVE KInv
    OBVIOUS
  <2>1. hash = [e \in Account |-> hash[e]]
    BY AccountAssumption DEF AInit, GuardInit
  <2>2. lg = [c \in Clerk |-> lg[c]] /\ \A c \in Clerk : lg[c] = NoLogin
    BY DEF AInit, GuardInit
  <2> QED
    BY <2>1, <2>2, NobodyLogsIn DEF KInv
<1>2. KInv /\ [ANext]_avars => KInv'
  <2> SUFFICES ASSUME KInv, [ANext]_avars PROVE KInv'
    OBVIOUS
  <2>1. CASE GuardNext /\ LoginHistory
    BY <2>1, GuardKeeps
  <2>2. CASE UNCHANGED <<hash, lg, stale>>
    BY <2>2 DEF KInv, Right, Attempted, Trusted
  <2> QED
    BY <2>1, <2>2 DEF ANext, NoHistory, MfaHistory, gvars, avars
<1>3. KInv /\ [ANext]_avars => [KeptStep]_avars
  <2> SUFFICES ASSUME KInv, ANext PROVE KeptStep
    OBVIOUS
  <2>1. CASE GuardNext
    BY <2>1, GuardChanges
  <2>2. CASE UNCHANGED hash
    BY <2>2 DEF KeptStep
  <2> QED
    BY <2>1, <2>2 DEF ANext, gvars
<1>4. ASpec => [][KeptStep]_avars
  BY <1>1, <1>2, <1>3, PTL DEF ASpec
<1> QED
  BY <1>4 DEF PasswordKept, KeptStep

-----------------------------------------------------------------------------
(* The login: how a request moves.                                         *)

Keeps(c) ==
    lg'[c].email = lg[c].email /\ lg'[c].ip = lg[c].ip /\ lg'[c].pass = lg[c].pass

Alone(c) == \A d \in Clerk \ {c} : lg'[d] = lg[d]

\* A request goes on to pc with n in its counter, or is over, or begins.
Steps(c, pc, n) == Alone(c) /\ Keeps(c) /\ lg'[c].pc = pc /\ lg'[c].n = n
Over(c) == Alone(c) /\ lg'[c] = NoLogin
Begins(c) ==
    /\ Alone(c) /\ lg'[c].pc = "locked" /\ lg'[c].n = 0
    /\ lg'[c].email \in Email /\ lg'[c].ip \in Ip /\ lg'[c].pass \in Password

LEMMA ToShape ==
    ASSUME KInv, NEW c \in Clerk, NEW pc, LoginTo(c, pc)
    PROVE  Steps(c, pc, lg[c].n)
<1>1. PICK t : t = [lg[c] EXCEPT !.pc = pc]
  OBVIOUS
<1>2. t = Attempt(pc, lg[c].email, lg[c].ip, lg[c].pass, lg[c].n, lg[c].dirty)
  BY <1>1, TwoFieldsSet DEF KInv
<1>3. t.pc = pc /\ t.email = lg[c].email /\ t.ip = lg[c].ip /\ t.pass = lg[c].pass /\ t.n = lg[c].n
  BY <1>2, AttemptFields
<1>4. lg'[c] = t /\ Alone(c)
  BY <1>1 DEF LoginTo, KInv, Alone
<1> QED
  BY <1>3, <1>4 DEF Steps, Keeps

LEMMA RecordedShape ==
    ASSUME KInv, NEW c \in Clerk, NEW pc, NEW n, Recorded(c, pc, n)
    PROVE  Steps(c, pc, n)
<1>1. PICK t : t = [lg[c] EXCEPT !.pc = pc, !.n = n]
  OBVIOUS
<1>2. t = Attempt(pc, lg[c].email, lg[c].ip, lg[c].pass, n, lg[c].dirty)
  BY <1>1, TwoFieldsSet DEF KInv
<1>3. t.pc = pc /\ t.email = lg[c].email /\ t.ip = lg[c].ip /\ t.pass = lg[c].pass /\ t.n = n
  BY <1>2, AttemptFields
<1>4. lg'[c] = t /\ Alone(c)
  BY <1>1 DEF Recorded, KInv, Alone
<1> QED
  BY <1>3, <1>4 DEF Steps, Keeps

LEMMA RehashShape ==
    ASSUME KInv, NEW c \in Clerk, Rehash(c)
    PROVE  Steps(c, "active", lg[c].n)
<1>1. PICK yes, active : yes \in BOOLEAN /\ yes = TRUE /\ active = "active"
  OBVIOUS
<1>2. PICK s : s = [lg[c] EXCEPT !.pc = active]
  OBVIOUS
<1>3. PICK t : t = [s EXCEPT !.dirty = yes]
  OBVIOUS
<1>4. s = Attempt(active, lg[c].email, lg[c].ip, lg[c].pass, lg[c].n, lg[c].dirty)
  BY <1>2, TwoFieldsSet DEF KInv
<1>5. t = Attempt(active, lg[c].email, lg[c].ip, lg[c].pass, lg[c].n, yes)
  BY <1>3, <1>4, FieldSet
<1>6. /\ t.pc = active /\ t.email = lg[c].email /\ t.ip = lg[c].ip /\ t.pass = lg[c].pass
      /\ t.n = lg[c].n
  BY <1>5, AttemptFields
<1>7. t = [lg[c] EXCEPT !.pc = active, !.dirty = yes]
  BY <1>2, <1>3
<1>8. lg' = [lg EXCEPT ![c] = t]
  BY <1>1, <1>7 DEF Rehash
<1>9. lg'[c] = t /\ Alone(c)
  BY <1>8 DEF KInv, Alone
<1> QED
  BY <1>1, <1>6, <1>9 DEF Steps, Keeps

LEMMA OverShape ==
    ASSUME KInv, NEW c \in Clerk, LoginEnds(c)
    PROVE  Over(c)
BY DEF KInv, LoginEnds, Over, Alone

LEMMA BeginShape ==
    ASSUME KInv, NEW c \in Clerk, NEW e \in Email, NEW i \in Ip, NEW p \in Password, Login(c, e, i, p)
    PROVE  Begins(c)
<1>1. PICK t : t = [NoLogin EXCEPT !.pc = "locked", !.email = e, !.ip = i, !.pass = p]
  OBVIOUS
<1>2. t = Attempt("locked", e, i, p, 0, FALSE)
  BY <1>1 DEF NoLogin, Attempt
<1>3. t.pc = "locked" /\ t.email = e /\ t.ip = i /\ t.pass = p /\ t.n = 0
  BY <1>2 DEF Attempt
<1>4. lg'[c] = t /\ Alone(c)
  BY <1>1 DEF Login, KInv, Alone
<1> QED
  BY <1>3, <1>4 DEF Begins

-----------------------------------------------------------------------------
(* The types of the guard.                                                 *)

Stations == {"idle", "locked", "count", "count_ip", "verify", "rehash", "active",
             "forget", "forget_ip", "commit", "fail", "fail_ip", "lock", "alert"}

Entered(c) ==
    /\ lg[c].pc \in Stations /\ lg[c].n \in Nat
    /\ \/ /\ lg[c].pc = "idle" /\ lg[c].email = NoEmail /\ lg[c].ip = NoIp /\ lg[c].pass = NoPassword
       \/ lg[c].email \in Email /\ lg[c].ip \in Ip /\ lg[c].pass \in Password

Counters ==
    /\ fails \in [Email \cup Ip -> Nat] /\ window \in [Email \cup Ip -> 0..AttemptWindow]
    /\ lock \in [Email -> 0..LockDuration] /\ alert \in [Email -> 0..AttemptWindow]
    /\ hash \in [Account -> [pass : Password, legacy : BOOLEAN]]
    /\ mishaps \in 0..MaxMishaps

GInv == KInv /\ Counters /\ \A c \in Clerk : Entered(c)

LEMMA GuardTyped == GInv => LoginGuardTypeOK
<1> SUFFICES ASSUME GInv
             PROVE  LoginGuardTypeOK
  OBVIOUS
<1> DEFINE L == [pc : Stations, email : Email \cup {NoEmail}, ip : Ip \cup {NoIp},
                 pass : Password \cup {NoPassword}, n : Nat, dirty : BOOLEAN]
<1>1. ASSUME NEW c \in Clerk
      PROVE  lg[c] \in L
  <2>1. PICK pc, e, i, p, n : \E dirty \in BOOLEAN : lg[c] = Attempt(pc, e, i, p, n, dirty)
    BY DEF GInv, KInv, Attempted
  <2>2. PICK dirty \in BOOLEAN : lg[c] = Attempt(pc, e, i, p, n, dirty)
    BY <2>1
  <2>3. lg[c].pc = pc /\ lg[c].email = e /\ lg[c].ip = i /\ lg[c].pass = p /\ lg[c].n = n
    BY <2>2, AttemptFields
  <2>4. /\ pc \in Stations /\ e \in Email \cup {NoEmail} /\ i \in Ip \cup {NoIp}
        /\ p \in Password \cup {NoPassword} /\ n \in Nat
    BY <2>3 DEF GInv, Entered
  <2> HIDE DEF Stations
  <2>5. Attempt(pc, e, i, p, n, dirty) \in L
    BY <2>4 DEF Attempt
  <2> QED
    BY <2>2, <2>5
<1>2. lg = [c \in Clerk |-> lg[c]]
  BY DEF GInv, KInv
<1> HIDE DEF L
<1>3. lg \in [Clerk -> L]
  BY <1>1, <1>2
<1> QED
  BY <1>3 DEF L, Stations, LoginGuardTypeOK, GInv, Counters

\* A request that moves stays in its place.
LEMMA EnteredMove ==
    ASSUME GInv, NEW c \in Clerk,
           \/ \E pc \in Stations \ {"idle"} : \E n \in Nat : Steps(c, pc, n) /\ lg[c].pc # "idle"
           \/ Over(c) \/ Begins(c)
    PROVE  \A d \in Clerk : Entered(d)'
<1>1. ASSUME NEW d \in Clerk, d # c
      PROVE  Entered(d)'
  BY <1>1 DEF Steps, Over, Begins, Alone, GInv, Entered
<1>2. Entered(c)'
  <2>1. CASE Over(c)
    <3>1. /\ NoLogin.pc = "idle" /\ NoLogin.email = NoEmail /\ NoLogin.ip = NoIp
          /\ NoLogin.pass = NoPassword /\ NoLogin.n = 0
      BY DEF NoLogin
    <3> QED
      BY <2>1, <3>1 DEF Over, Entered, Stations
  <2>2. CASE Begins(c)
    BY <2>2 DEF Begins, Entered, Stations
  <2>3. ASSUME NEW pc \in Stations \ {"idle"}, NEW n \in Nat, Steps(c, pc, n), lg[c].pc # "idle"
        PROVE  Entered(c)'
    <3>1. lg[c].email \in Email /\ lg[c].ip \in Ip /\ lg[c].pass \in Password
      BY <2>3 DEF GInv, Entered
    <3> QED
      BY <2>3, <3>1 DEF Steps, Keeps, Entered
  <2> QED
    BY <2>1, <2>2, <2>3
<1> QED
  BY <1>1, <1>2

-----------------------------------------------------------------------------
(* What each handler's step does to the request and to the counters.       *)

LEMMA Served ==
    ASSUME GInv, NEW c \in Clerk, lg[c].pc # "idle"
    PROVE  lg[c].email \in Email /\ lg[c].ip \in Ip /\ lg[c].pass \in Password /\ lg[c].n \in Nat
BY DEF GInv, Entered

LEMMA CheckShape ==
    ASSUME GInv, NEW c \in Clerk, NEW ok \in BOOLEAN, CheckStep(c, ok)
    PROVE  /\ UNCHANGED <<fails, window, lock, alert, hash>> /\ Answers(ok) /\ lg[c].pc # "idle"
           /\ \/ Over(c)
              \/ lg[c].pc = "locked" /\ Steps(c, "count", lg[c].n)
              \/ lg[c].pc = "count" /\ Steps(c, "count_ip", IF ok THEN fails[lg[c].email] ELSE 0)
              \/ /\ lg[c].pc = "count_ip" /\ Steps(c, "verify", 0) /\ lg[c].n < LockThreshold
                 /\ ok => fails[lg[c].ip] < LockThreshold
<1>0. KInv /\ LockThreshold \in Nat
  BY ThresholdAssumption DEF GInv
<1>1. CASE IsLocked(c, ok)
  BY <1>0, <1>1, ToShape, OverShape DEF IsLocked, LoginAt, redis
<1>2. CASE CountEmail(c, ok)
  <2>1. PICK n : n = IF ok THEN fails[lg[c].email] ELSE 0
    OBVIOUS
  <2>2. Recorded(c, "count_ip", n)
    BY <1>2, <2>1 DEF CountEmail, Recorded
  <2>3. Steps(c, "count_ip", n)
    BY <1>0, <2>2, RecordedShape
  <2> QED
    BY <1>2, <2>1, <2>3 DEF CountEmail, LoginAt, redis
<1>3. CASE CountIp(c, ok)
  <2>0. lg[c].pc = "count_ip" /\ Answers(ok) /\ UNCHANGED <<fails, window, lock, alert, hash>>
    BY <1>3 DEF CountIp, LoginAt, redis
  <2>1. PICK m : m = IF ok THEN fails[lg[c].ip] ELSE 0
    OBVIOUS
  <2>2. PICK n : n = Counted(c, m)
    OBVIOUS
  <2>3. CASE n >= LockThreshold
    BY <1>0, <1>3, <2>0, <2>1, <2>2, <2>3, OverShape DEF CountIp
  <2>4. CASE ~(n >= LockThreshold)
    <3>1. PICK zero : zero = 0
      OBVIOUS
    <3>2. Recorded(c, "verify", zero)
      BY <1>3, <2>1, <2>2, <2>4, <3>1 DEF CountIp, Recorded
    <3>3. Steps(c, "verify", zero)
      BY <1>0, <3>2, RecordedShape
    <3>4. lg[c].n \in Nat /\ lg[c].ip \in Email \cup Ip
      BY <2>0, Served
    <3>5. m \in Nat
      BY <2>1, <3>4 DEF GInv, Counters
    <3>6. lg[c].n < LockThreshold /\ m < LockThreshold
      BY <1>0, <2>2, <2>4, <3>4, <3>5 DEF Counted
    <3> QED
      BY <2>0, <2>1, <3>1, <3>3, <3>6
  <2> QED
    BY <2>3, <2>4
<1> QED
  BY <1>1, <1>2, <1>3 DEF CheckStep

LEMMA PasswordShape ==
    ASSUME GInv, NEW c \in Clerk,
           VerifyPassword(c) \/ Rehash(c) \/ CheckActive(c) \/ CommitLogin(c)
    PROVE  /\ UNCHANGED <<fails, window, lock, alert, mishaps>> /\ lg[c].pc # "idle"
           /\ \/ Over(c)
              \/ lg[c].pc = "verify" /\ Steps(c, "fail", lg[c].n)
              \/ \E pc \in {"rehash", "active", "forget", "commit"} : Steps(c, pc, lg[c].n)
<1>0. KInv
  BY DEF GInv
<1>1. CASE VerifyPassword(c)
  BY <1>0, <1>1, ToShape DEF VerifyPassword, LoginAt, redis
<1>2. CASE Rehash(c)
  BY <1>0, <1>2, RehashShape DEF Rehash, LoginAt, redis
<1>3. CASE CheckActive(c)
  BY <1>0, <1>3, ToShape DEF CheckActive, LoginAt, redis
<1>4. CASE CommitLogin(c)
  BY <1>0, <1>4, OverShape DEF CommitLogin, LoginAt, redis
<1> QED
  BY <1>1, <1>2, <1>3, <1>4

LEMMA SuccessShape ==
    ASSUME GInv, NEW c \in Clerk, NEW ok \in BOOLEAN, SuccessStep(c, ok)
    PROVE  /\ UNCHANGED <<lock, alert, hash>> /\ Answers(ok) /\ lg[c].pc # "idle"
           /\ \E pc \in {"forget_ip", "commit"} : Steps(c, pc, lg[c].n)
           /\ UNCHANGED <<fails, window>> \/ \E k \in Email \cup Ip : Forget(k)
<1>0. KInv
  BY DEF GInv
<1>1. CASE ForgetEmail(c, ok)
  BY <1>0, <1>1, ToShape, Served DEF ForgetEmail, LoginAt
<1>2. CASE ForgetIp(c, ok)
  BY <1>0, <1>2, ToShape, Served DEF ForgetIp, LoginAt
<1> QED
  BY <1>1, <1>2 DEF SuccessStep

LEMMA FailureShape ==
    ASSUME GInv, NEW c \in Clerk, NEW ok \in BOOLEAN, FailureStep(c, ok)
    PROVE  /\ UNCHANGED hash /\ Answers(ok)
           /\ \/ /\ lg[c].pc = "fail" /\ Steps(c, "fail_ip", IF ok THEN fails[lg[c].email] + 1 ELSE 0)
                 /\ IF ok THEN Increment(lg[c].email) ELSE UNCHANGED <<fails, window>>
                 /\ UNCHANGED <<lock, alert>>
              \/ /\ lg[c].pc = "fail_ip"
                 /\ \/ Steps(c, "commit", lg[c].n)
                    \/ Steps(c, "lock", Counted(c, IF ok THEN fails[lg[c].ip] + 1 ELSE 0))
                 /\ IF ok THEN Increment(lg[c].ip) ELSE UNCHANGED <<fails, window>>
                 /\ UNCHANGED <<lock, alert>>
              \/ /\ lg[c].pc = "lock"
                 /\ \/ Steps(c, "commit", lg[c].n)
                    \/ Steps(c, "alert", lg[c].n) /\ lg[c].n >= AlertThreshold
                 /\ lock' = IF ok THEN [lock EXCEPT ![lg[c].email] = LockDuration] ELSE lock
                 /\ UNCHANGED <<fails, window, alert>>
              \/ /\ lg[c].pc = "alert" /\ Steps(c, "commit", lg[c].n)
                 /\ alert' = IF ok /\ alert[lg[c].email] = 0
                               THEN [alert EXCEPT ![lg[c].email] = AttemptWindow] ELSE alert
                 /\ UNCHANGED <<fails, window, lock>>
<1>0. KInv
  BY DEF GInv
<1>1. CASE FailEmail(c, ok)
  <2>1. PICK n : n = IF ok THEN fails[lg[c].email] + 1 ELSE 0
    OBVIOUS
  <2>2. Recorded(c, "fail_ip", n)
    BY <1>1, <2>1 DEF FailEmail, Recorded
  <2>3. Steps(c, "fail_ip", n)
    BY <1>0, <2>2, RecordedShape
  <2> QED
    BY <1>1, <2>1, <2>3 DEF FailEmail, LoginAt
<1>2. CASE FailIp(c, ok)
  <2>1. PICK n : n = Counted(c, IF ok THEN fails[lg[c].ip] + 1 ELSE 0)
    OBVIOUS
  <2>2. Recorded(c, "lock", n) \/ LoginTo(c, "commit")
    BY <1>2, <2>1 DEF FailIp, Recorded
  <2>3. Steps(c, "lock", n) \/ Steps(c, "commit", lg[c].n)
    BY <1>0, <2>2, RecordedShape, ToShape
  <2> QED
    BY <1>2, <2>1, <2>3 DEF FailIp, LoginAt
<1>3. CASE SetLock(c, ok)
  <2>1. Steps(c, "commit", lg[c].n) \/ (Steps(c, "alert", lg[c].n) /\ lg[c].n >= AlertThreshold)
    BY <1>0, <1>3, ToShape DEF SetLock
  <2> QED
    BY <1>3, <2>1 DEF SetLock, LoginAt
<1>4. CASE SetAlertSent(c, ok)
  <2>1. Steps(c, "commit", lg[c].n)
    BY <1>0, <1>4, ToShape DEF SetAlertSent
  <2> QED
    BY <1>4, <2>1 DEF SetAlertSent, LoginAt
<1> QED
  BY <1>1, <1>2, <1>3, <1>4 DEF FailureStep

LEMMA RestShape ==
    ASSUME GInv, GuardNext, ~\E c \in Clerk : LoginProgress(c)
    PROVE  /\ \/ \E c \in Clerk : Begins(c) /\ UNCHANGED <<fails, window, lock, alert, hash, mishaps>>
              \/ \E c \in Clerk : /\ Over(c) /\ mishaps < MaxMishaps /\ mishaps' = mishaps + 1
                                  /\ UNCHANGED <<fails, window, lock, alert, hash>>
              \/ \E e \in Account, p \in Password : ChangePassword(e, p)
              \/ GuardTick
<1>0. KInv
  BY DEF GInv
<1>1. ASSUME NEW c \in Clerk, LoginDies(c)
      PROVE  Over(c)
  BY <1>0, <1>1, OverShape DEF LoginDies
<1>2. ASSUME NEW c \in Clerk, NEW e \in Email, NEW i \in Ip, NEW p \in Password, Login(c, e, i, p)
      PROVE  Begins(c) /\ UNCHANGED <<fails, window, lock, alert, hash, mishaps>>
  BY <1>0, <1>2, BeginShape DEF Login, redis
<1>3. ASSUME NEW c \in Clerk, LoginDies(c)
      PROVE  /\ mishaps < MaxMishaps /\ mishaps' = mishaps + 1
             /\ UNCHANGED <<fails, window, lock, alert, hash>>
  BY <1>3 DEF LoginDies, redis
<1> QED
  BY <1>1, <1>2, <1>3, Zenon DEF GuardNext

\* A command answers or fails, once more.
LEMMA AnswerCounts ==
    ASSUME mishaps \in 0..MaxMishaps, NEW ok \in BOOLEAN, Answers(ok)
    PROVE  /\ mishaps' \in 0..MaxMishaps /\ mishaps' >= mishaps
           /\ mishaps' = 0 => mishaps = 0 /\ ok
BY ThresholdAssumption DEF Answers

LEMMA IncrementTyped ==
    ASSUME Counters, NEW k \in Email \cup Ip, Increment(k)
    PROVE  fails' \in [Email \cup Ip -> Nat] /\ window' \in [Email \cup Ip -> 0..AttemptWindow]
BY ThresholdAssumption DEF Counters, Increment

LEMMA ForgetTyped ==
    ASSUME Counters, NEW k \in Email \cup Ip, Forget(k)
    PROVE  fails' \in [Email \cup Ip -> Nat] /\ window' \in [Email \cup Ip -> 0..AttemptWindow]
BY ThresholdAssumption DEF Counters, Forget

LEMMA HashTyped ==
    ASSUME GInv, NEW c \in Clerk, CommitLogin(c)
    PROVE  hash' \in [Account -> [pass : Password, legacy : BOOLEAN]]
<1>0. hash \in [Account -> [pass : Password, legacy : BOOLEAN]]
  BY DEF GInv, Counters
<1>1. CASE lg[c].dirty
  <2>1. lg[c].pass \in Password
    BY Served DEF CommitLogin, LoginAt
  <2>2. PICK r : r = [pass |-> lg[c].pass, legacy |-> FALSE]
    OBVIOUS
  <2>3. r \in [pass : Password, legacy : BOOLEAN]
    BY <2>1, <2>2
  <2>4. hash' = [hash EXCEPT ![lg[c].email] = r]
    BY <1>1, <2>2 DEF CommitLogin
  <2> QED
    BY <1>0, <2>3, <2>4
<1>2. CASE ~lg[c].dirty
  BY <1>0, <1>2 DEF CommitLogin
<1> QED
  BY <1>1, <1>2

LEMMA CountersStep ==
    ASSUME GInv, GuardNext
    PROVE  Counters'
<1>0. Counters /\ AttemptWindow \in Nat /\ LockDuration \in Nat /\ mishaps \in 0..MaxMishaps
  BY ThresholdAssumption DEF GInv, Counters
<1>1. ASSUME NEW c \in Clerk, NEW ok \in BOOLEAN, CheckStep(c, ok)
      PROVE  Counters'
  BY <1>0, <1>1, CheckShape, AnswerCounts DEF Counters
<1>2. ASSUME NEW c \in Clerk, NEW ok \in BOOLEAN, SuccessStep(c, ok)
      PROVE  Counters'
  BY <1>0, <1>2, SuccessShape, AnswerCounts, ForgetTyped DEF Counters
<1>3. ASSUME NEW c \in Clerk, NEW ok \in BOOLEAN, FailureStep(c, ok)
      PROVE  Counters'
  <2>0. /\ UNCHANGED hash /\ mishaps' \in 0..MaxMishaps
        /\ lg[c].pc \in {"fail", "fail_ip", "lock", "alert"}
    BY <1>0, <1>3, FailureShape, AnswerCounts
  <2>1. lg[c].email \in Email /\ lg[c].ip \in Ip
    BY <2>0, Served
  <2>2. CASE Increment(lg[c].email) /\ UNCHANGED <<lock, alert>>
    BY <1>0, <2>0, <2>1, <2>2, IncrementTyped DEF Counters
  <2>3. CASE Increment(lg[c].ip) /\ UNCHANGED <<lock, alert>>
    BY <1>0, <2>0, <2>1, <2>3, IncrementTyped DEF Counters
  <2>4. CASE UNCHANGED <<fails, window, lock, alert>>
    BY <1>0, <2>0, <2>4 DEF Counters
  <2>5. CASE /\ lock' = [lock EXCEPT ![lg[c].email] = LockDuration]
             /\ UNCHANGED <<fails, window, alert>>
    BY <1>0, <2>0, <2>1, <2>5 DEF Counters
  <2>6. CASE /\ alert' = [alert EXCEPT ![lg[c].email] = AttemptWindow]
             /\ UNCHANGED <<fails, window, lock>>
    BY <1>0, <2>0, <2>1, <2>6 DEF Counters
  <2> QED
    BY <1>3, <2>2, <2>3, <2>4, <2>5, <2>6, FailureShape
<1>4. ASSUME NEW c \in Clerk, VerifyPassword(c) \/ Rehash(c) \/ CheckActive(c) \/ CommitLogin(c)
      PROVE  Counters'
  <2>1. UNCHANGED <<fails, window, lock, alert, mishaps>>
    BY <1>4, PasswordShape
  <2>2. hash' \in [Account -> [pass : Password, legacy : BOOLEAN]]
    <3>1. VerifyPassword(c) \/ Rehash(c) \/ CheckActive(c) => hash' = hash
      BY DEF VerifyPassword, Rehash, CheckActive
    <3> QED
      BY <1>0, <1>4, <3>1, HashTyped DEF Counters
  <2> QED
    BY <1>0, <2>1, <2>2 DEF Counters
<1>5. ASSUME NEW e \in Account, NEW p \in Password, ChangePassword(e, p)
      PROVE  Counters'
  <2>1. PICK r : r = [pass |-> p, legacy |-> FALSE]
    OBVIOUS
  <2>2. r \in [pass : Password, legacy : BOOLEAN] /\ hash' = [hash EXCEPT ![e] = r]
    BY <1>5, <2>1 DEF ChangePassword
  <2> QED
    BY <1>0, <1>5, <2>2 DEF ChangePassword, redis, Counters
<1>6. CASE GuardTick
  BY <1>0, <1>6 DEF GuardTick, Later, Counters
<1>7. CASE ~\E c \in Clerk : LoginProgress(c)
  <2>1. ASSUME UNCHANGED <<fails, window, lock, alert, hash>>, mishaps' \in 0..MaxMishaps
        PROVE  Counters'
    BY <1>0, <2>1 DEF Counters
  <2>2. mishaps < MaxMishaps /\ mishaps' = mishaps + 1 => mishaps' \in 0..MaxMishaps
    BY <1>0, ThresholdAssumption
  <2> QED
    BY <1>0, <1>5, <1>6, <1>7, <2>1, <2>2, RestShape
<1> QED
  BY <1>1, <1>2, <1>3, <1>4, <1>7, Zenon DEF LoginProgress

LEMMA EnteredStep ==
    ASSUME GInv, GuardNext
    PROVE  \A d \in Clerk : Entered(d)'
<1>0. Counters /\ 0 \in Nat /\ \A n \in Nat : n + 1 \in Nat
  BY DEF GInv
<1>1. ASSUME NEW c \in Clerk, NEW ok \in BOOLEAN, CheckStep(c, ok)
      PROVE  \A d \in Clerk : Entered(d)'
  <2>0. lg[c].pc # "idle" /\ lg[c].n \in Nat /\ lg[c].email \in Email
    BY <1>1, CheckShape, Served
  <2>1. (IF ok THEN fails[lg[c].email] ELSE 0) \in Nat
    BY <1>0, <2>0 DEF Counters
  <2> QED
    BY <1>1, <2>0, <2>1, CheckShape, EnteredMove DEF Stations
<1>2. ASSUME NEW c \in Clerk, NEW ok \in BOOLEAN, SuccessStep(c, ok)
      PROVE  \A d \in Clerk : Entered(d)'
  <2>0. lg[c].pc # "idle" /\ lg[c].n \in Nat
    BY <1>2, SuccessShape, Served
  <2> QED
    BY <1>2, <2>0, SuccessShape, EnteredMove DEF Stations
<1>3. ASSUME NEW c \in Clerk, NEW ok \in BOOLEAN, FailureStep(c, ok)
      PROVE  \A d \in Clerk : Entered(d)'
  <2>0. lg[c].pc # "idle"
    BY <1>3, FailureShape
  <2>1. lg[c].n \in Nat /\ lg[c].email \in Email /\ lg[c].ip \in Ip
    BY <2>0, Served
  <2>2. /\ (IF ok THEN fails[lg[c].email] + 1 ELSE 0) \in Nat
        /\ (IF ok THEN fails[lg[c].ip] + 1 ELSE 0) \in Nat
    BY <1>0, <2>1 DEF Counters
  <2>3. Counted(c, IF ok THEN fails[lg[c].ip] + 1 ELSE 0) \in Nat
    BY <2>1, <2>2 DEF Counted
  <2>4. PICK pc \in {"fail_ip", "commit", "lock", "alert"}, n \in Nat : Steps(c, pc, n)
    BY <1>3, <2>1, <2>2, <2>3, FailureShape
  <2> QED
    BY <2>0, <2>4, EnteredMove DEF Stations
<1>4. ASSUME NEW c \in Clerk, VerifyPassword(c) \/ Rehash(c) \/ CheckActive(c) \/ CommitLogin(c)
      PROVE  \A d \in Clerk : Entered(d)'
  <2>0. lg[c].pc # "idle" /\ lg[c].n \in Nat
    BY <1>4, PasswordShape, Served
  <2> QED
    BY <1>4, <2>0, PasswordShape, EnteredMove DEF Stations
<1>5. ASSUME lg' = lg
      PROVE  \A d \in Clerk : Entered(d)'
  BY <1>5 DEF GInv, Entered
<1>6. CASE ~\E c \in Clerk : LoginProgress(c)
  <2>1. (\E e \in Account, p \in Password : ChangePassword(e, p)) \/ GuardTick => lg' = lg
    BY DEF ChangePassword, GuardTick
  <2> QED
    BY <1>5, <1>6, <2>1, RestShape, EnteredMove
<1> QED
  BY <1>1, <1>2, <1>3, <1>4, <1>6, Zenon DEF LoginProgress

LEMMA GuardInv ==
    /\ AInit => GInv
    /\ GInv /\ [ANext]_avars => GInv'
<1>1. ASSUME AInit
      PROVE  GInv
  <2>0. GuardInit
    BY <1>1 DEF AInit
  <2>1. hash = [e \in Account |-> hash[e]]
    BY <2>0, AccountAssumption DEF GuardInit
  <2>2. lg = [c \in Clerk |-> lg[c]] /\ \A c \in Clerk : lg[c] = NoLogin
    BY <2>0 DEF GuardInit
  <2>3. KInv
    BY <2>1, <2>2, NobodyLogsIn DEF KInv
  <2>4. Counters
    BY <2>0, AccountAssumption, ThresholdAssumption DEF GuardInit, Counters
  <2>5. /\ NoLogin.pc = "idle" /\ NoLogin.email = NoEmail /\ NoLogin.ip = NoIp
        /\ NoLogin.pass = NoPassword /\ NoLogin.n = 0
    BY DEF NoLogin
  <2>6. \A c \in Clerk : Entered(c)
    BY <2>2, <2>5 DEF Entered, Stations
  <2> QED
    BY <2>3, <2>4, <2>6 DEF GInv
<1>2. ASSUME GInv, [ANext]_avars
      PROVE  GInv'
  <2>1. CASE GuardNext /\ LoginHistory
    BY <1>2, <2>1, GuardKeeps, CountersStep, EnteredStep DEF GInv
  <2>2. CASE UNCHANGED <<gvars, stale>>
    <3>1. UNCHANGED <<fails, window, lock, alert, hash, mishaps, lg, stale>>
      BY <2>2 DEF gvars
    <3>2. KInv'
      BY <1>2, <3>1 DEF GInv, KInv, Right, Attempted, Trusted
    <3>3. Counters' /\ \A c \in Clerk : Entered(c)'
      BY <1>2, <3>1 DEF GInv, Counters, Entered
    <3> QED
      BY <3>2, <3>3 DEF GInv
  <2> QED
    BY <1>2, <2>1, <2>2 DEF ANext, NoHistory, MfaHistory, avars
<1> QED
  BY <1>1, <1>2

-----------------------------------------------------------------------------
(* The failures of an e-mail are bounded.                                  *)

\* Requests that will count a failure of e, unless their password is right.
Pending(e) ==
    {c \in Clerk : /\ lg[c].email = e
                   /\ \/ lg[c].pc \in {"verify", "fail"}
                      \/ lg[c].pc = "count_ip" /\ lg[c].n < LockThreshold}

Bound ==
    mishaps = 0 => \A e \in Email :
        fails[e] + Cardinality(Pending(e)) <= LockThreshold - 1 + Cardinality(Clerk)

\* Requests between the reading of the counters and their own failure.
InDoubt(c) == lg[c].pc \in {"count_ip", "verify", "fail", "fail_ip"}

OneInDoubt == ~overlapped => \A c, d \in Clerk : InDoubt(c) /\ InDoubt(d) => c = d

\* What such a request knows of the counters, while it is the only one.
Knows(c) ==
    /\ lg[c].pc = "count_ip" => fails[lg[c].email] <= lg[c].n
    /\ lg[c].pc \in {"verify", "fail"} =>
         fails[lg[c].email] < LockThreshold /\ fails[lg[c].ip] < LockThreshold
    /\ lg[c].pc = "fail_ip" => lg[c].n <= LockThreshold /\ fails[lg[c].ip] < LockThreshold
    /\ lg[c].pc = "lock" => lg[c].n <= LockThreshold
    /\ lg[c].pc # "alert"

Unalarmed ==
    mishaps = 0 /\ ~overlapped =>
        (\A e \in Email : alert[e] = 0) /\ (\A c \in Clerk : Knows(c))

LEMMA PendingFinite ==
    ASSUME NEW e
    PROVE  /\ IsFiniteSet(Pending(e)) /\ Cardinality(Pending(e)) \in Nat /\ Cardinality(Clerk) \in Nat
           /\ Cardinality(Pending(e)) <= Cardinality(Clerk)
           /\ \A S \in SUBSET Pending(e) :
                Cardinality(S) \in Nat /\ Cardinality(S) <= Cardinality(Pending(e))
           /\ \A c \in Pending(e) :
                Cardinality(Pending(e) \ {c}) = Cardinality(Pending(e)) - 1
<1>1. Pending(e) \in SUBSET Clerk
  BY DEF Pending
<1> HIDE DEF Pending
<1> QED
  BY <1>1, KeyAssumption, FS_Subset, FS_CardinalityType, FS_RemoveElement

LEMMA PendingWithin ==
    ASSUME NEW e
    PROVE  /\ Pending(e)' \subseteq Clerk
           /\ IsFiniteSet(Pending(e)') /\ Cardinality(Pending(e)') \in Nat
           /\ Cardinality(Pending(e)') <= Cardinality(Clerk)
<1>1. Pending(e)' \in SUBSET Clerk
  BY DEF Pending
<1> HIDE DEF Pending
<1> QED
  BY <1>1, KeyAssumption, FS_Subset, FS_CardinalityType

\* No more failures, and nobody else about to count one.
LEMMA BoundQuiet ==
    ASSUME GInv, Bound, Counters', mishaps' = 0 => mishaps = 0,
           mishaps' = 0 => \A e \in Email : /\ fails'[e] <= fails[e]
                                            /\ \/ Pending(e)' \subseteq Pending(e)
                                               \/ fails[e] < LockThreshold
    PROVE  Bound'
<1> SUFFICES ASSUME mishaps' = 0, NEW e \in Email
             PROVE  fails'[e] + Cardinality(Pending(e)') <= LockThreshold - 1 + Cardinality(Clerk)
  BY DEF Bound
<1>0. fails[e] \in Nat /\ fails'[e] \in Nat /\ LockThreshold \in Nat /\ fails'[e] <= fails[e]
  BY ThresholdAssumption DEF GInv, Counters
<1>1. CASE Pending(e)' \subseteq Pending(e)
  <2>1. Cardinality(Pending(e)') \in Nat /\ Cardinality(Pending(e)') <= Cardinality(Pending(e))
    BY <1>1, PendingFinite
  <2>2. fails[e] + Cardinality(Pending(e)) <= LockThreshold - 1 + Cardinality(Clerk)
    BY DEF Bound
  <2> HIDE DEF Pending
  <2>3. Cardinality(Pending(e)) \in Nat /\ Cardinality(Clerk) \in Nat
    BY PendingFinite
  <2> QED
    BY <1>0, <2>1, <2>2, <2>3
<1>2. CASE fails[e] < LockThreshold
  <2>1. /\ Cardinality(Pending(e)') \in Nat /\ Cardinality(Pending(e)') <= Cardinality(Clerk)
        /\ Cardinality(Clerk) \in Nat
    BY PendingWithin, PendingFinite
  <2> QED
    BY <1>0, <1>2, <2>1
<1> QED
  BY <1>1, <1>2

\* A request that moves joins nobody.
LEMMA PendingMove ==
    ASSUME NEW e, NEW c \in Clerk, Alone(c),
           \/ Over(c) \/ Begins(c)
           \/ \E pc, n : /\ Steps(c, pc, n)
                         /\ \/ pc \notin {"verify", "fail", "count_ip"}
                            \/ pc \in {"verify", "fail"} /\ c \in Pending(lg[c].email)
    PROVE  Pending(e)' \subseteq Pending(e)
<1>1. ASSUME NEW d \in Pending(e)'
      PROVE  d \in Pending(e)
  <2>0. /\ d \in Clerk /\ lg'[d].email = e
        /\ \/ lg'[d].pc \in {"verify", "fail"}
           \/ lg'[d].pc = "count_ip" /\ lg'[d].n < LockThreshold
    BY <1>1 DEF Pending
  <2>1. CASE d # c
    BY <2>0, <2>1 DEF Alone, Pending
  <2>2. CASE d = c
    <3>1. NoLogin.pc = "idle"
      BY DEF NoLogin
    <3>2. lg'[c].email = lg[c].email /\ c \in Pending(lg[c].email)
      BY <2>0, <2>2, <3>1 DEF Over, Begins, Steps, Keeps
    <3> QED
      BY <2>0, <2>2, <3>2
  <2> QED
    BY <2>1, <2>2
<1> QED
  BY <1>1

LEMMA ForgetLowers ==
    ASSUME Counters, NEW k \in Email \cup Ip, Forget(k)
    PROVE  \A j \in Email \cup Ip : fails'[j] <= fails[j]
BY DEF Counters, Forget

LEMMA TickLowers ==
    ASSUME Counters, GuardTick
    PROVE  /\ \A j \in Email \cup Ip : fails'[j] <= fails[j]
           /\ \A e \in Email : alert[e] = 0 => alert'[e] = 0
           /\ lg' = lg /\ mishaps' = mishaps
BY DEF Counters, GuardTick, Later

LEMMA BoundStep ==
    ASSUME GInv, Bound, GuardNext
    PROVE  Bound'
<1>0. Counters /\ Counters' /\ mishaps \in 0..MaxMishaps /\ LockThreshold \in Nat
  BY CountersStep, ThresholdAssumption DEF GInv, Counters
<1>a. \A j \in Email \cup Ip : fails[j] \in Nat
  BY <1>0 DEF Counters
<1>1. ASSUME NEW c \in Clerk, NEW ok \in BOOLEAN, CheckStep(c, ok)
      PROVE  Bound'
  <2>0. UNCHANGED fails /\ (mishaps' = 0 => mishaps = 0 /\ ok)
    BY <1>0, <1>1, CheckShape, AnswerCounts
  <2>1. ASSUME Over(c) \/ (lg[c].pc = "locked" /\ Steps(c, "count", lg[c].n))
        PROVE  Bound'
    <3>1. Alone(c) /\ \A e : Pending(e)' \subseteq Pending(e)
      BY <2>1, PendingMove DEF Over, Steps
    <3> QED
      BY <1>0, <1>a, <2>0, <3>1, BoundQuiet
  <2>2. ASSUME lg[c].pc = "count_ip", Steps(c, "verify", 0), lg[c].n < LockThreshold
        PROVE  Bound'
    <3>1. c \in Pending(lg[c].email)
      BY <2>2 DEF Pending
    <3>2. Alone(c) /\ \A e : Pending(e)' \subseteq Pending(e)
      BY <2>2, <3>1, PendingMove DEF Steps
    <3> QED
      BY <1>0, <1>a, <2>0, <3>2, BoundQuiet
  <2>3. ASSUME lg[c].pc = "count", Steps(c, "count_ip", IF ok THEN fails[lg[c].email] ELSE 0)
        PROVE  Bound'
    <3>1. ASSUME mishaps' = 0, NEW e \in Email
          PROVE  Pending(e)' \subseteq Pending(e) \/ fails[e] < LockThreshold
      <4>1. lg'[c].n = fails[lg[c].email] /\ lg'[c].pc = "count_ip" /\ lg'[c].email = lg[c].email
        BY <2>0, <2>3, <3>1 DEF Steps, Keeps
      <4>2. ASSUME NEW d \in Pending(e)', d \notin Pending(e)
            PROVE  fails[e] < LockThreshold
        <5>0. /\ d \in Clerk /\ lg'[d].email = e
              /\ \/ lg'[d].pc \in {"verify", "fail"}
                 \/ lg'[d].pc = "count_ip" /\ lg'[d].n < LockThreshold
          BY <4>2 DEF Pending
        <5>1. d = c
          BY <2>3, <4>2, <5>0 DEF Steps, Alone, Pending
        <5> QED
          BY <4>1, <5>0, <5>1
      <4> QED
        BY <4>2
    <3> QED
      BY <1>0, <1>a, <2>0, <3>1, BoundQuiet
  <2> QED
    BY <1>1, <2>1, <2>2, <2>3, CheckShape
<1>2. ASSUME NEW c \in Clerk, NEW ok \in BOOLEAN, SuccessStep(c, ok)
      PROVE  Bound'
  <2>0. mishaps' = 0 => mishaps = 0
    BY <1>0, <1>2, SuccessShape, AnswerCounts
  <2>1. PICK pc \in {"forget_ip", "commit"} : Steps(c, pc, lg[c].n)
    BY <1>2, SuccessShape
  <2>2. Alone(c) /\ \A e : Pending(e)' \subseteq Pending(e)
    BY <2>1, PendingMove DEF Steps
  <2>3. \A e \in Email : fails'[e] <= fails[e]
    BY <1>0, <1>a, <1>2, SuccessShape, ForgetLowers
  <2> QED
    BY <1>0, <2>0, <2>2, <2>3, BoundQuiet
<1>3. ASSUME NEW c \in Clerk, NEW ok \in BOOLEAN, FailureStep(c, ok)
      PROVE  Bound'
  <2>0. mishaps' = 0 => mishaps = 0 /\ ok
    BY <1>0, <1>3, FailureShape, AnswerCounts
  <2>1. ASSUME lg[c].pc = "fail", Steps(c, "fail_ip", IF ok THEN fails[lg[c].email] + 1 ELSE 0),
               IF ok THEN Increment(lg[c].email) ELSE UNCHANGED <<fails, window>>
        PROVE  Bound'
    <3> SUFFICES ASSUME mishaps' = 0, NEW e \in Email
                 PROVE  fails'[e] + Cardinality(Pending(e)')
                          <= LockThreshold - 1 + Cardinality(Clerk)
      BY DEF Bound
    <3>1. Alone(c) /\ Pending(e)' \subseteq Pending(e) /\ c \notin Pending(e)'
      <4>1. Pending(e)' \subseteq Pending(e)
        BY <2>1, PendingMove DEF Steps
      <4> QED
        BY <2>1, <4>1 DEF Steps, Pending
    <3>2. lg[c].email \in Email
      BY <2>1, Served
    <3>3. fails' = [fails EXCEPT ![lg[c].email] = fails[lg[c].email] + 1]
      BY <2>0, <2>1 DEF Increment
    <3>4. fails[e] + Cardinality(Pending(e)) <= LockThreshold - 1 + Cardinality(Clerk)
      BY <2>0 DEF Bound
    <3>5. CASE e = lg[c].email
      <4>1. c \in Pending(e)
        BY <2>1, <3>5 DEF Pending
      <4>2. fails'[e] = fails[e] + 1
        BY <1>0, <3>2, <3>3, <3>5 DEF Counters
      <4>3. Cardinality(Pending(e) \ {c}) = Cardinality(Pending(e)) - 1
        BY <4>1, PendingFinite
      <4>4. Pending(e)' \subseteq Pending(e) \ {c} /\ IsFiniteSet(Pending(e) \ {c})
        BY <3>1, PendingFinite, FS_Subset
      <4>5. /\ Cardinality(Pending(e)') <= Cardinality(Pending(e) \ {c})
            /\ Cardinality(Pending(e)') \in Nat
        BY <4>4, PendingWithin, FS_Subset
      <4>6. Cardinality(Pending(e)) \in Nat /\ Cardinality(Clerk) \in Nat /\ fails[e] \in Nat
        BY <1>a, PendingFinite
      <4> QED
        BY <1>0, <3>4, <4>2, <4>3, <4>5, <4>6
    <3>6. CASE e # lg[c].email
      <4>1. fails'[e] = fails[e]
        BY <1>0, <3>3, <3>6 DEF Counters
      <4>2. Cardinality(Pending(e)') \in Nat /\ Cardinality(Pending(e)') <= Cardinality(Pending(e))
        BY <3>1, PendingFinite
      <4>3. Cardinality(Pending(e)) \in Nat /\ Cardinality(Clerk) \in Nat /\ fails[e] \in Nat
        BY <1>a, PendingFinite
      <4> QED
        BY <1>0, <3>4, <4>1, <4>2, <4>3
    <3> QED
      BY <3>5, <3>6
  <2>2. ASSUME NEW pc \in {"commit", "lock", "alert"}, NEW n, Steps(c, pc, n),
               \A e \in Email : mishaps' = 0 => fails'[e] <= fails[e]
        PROVE  Bound'
    <3>1. Alone(c) /\ \A e : Pending(e)' \subseteq Pending(e)
      BY <2>2, PendingMove DEF Steps
    <3> QED
      BY <1>0, <2>0, <2>2, <3>1, BoundQuiet
  <2>3. CASE lg[c].pc = "fail_ip"
    <3>1. lg[c].ip \in Ip
      BY <2>3, Served
    <3>2. IF ok THEN Increment(lg[c].ip) ELSE UNCHANGED <<fails, window>>
      BY <1>3, <2>3, FailureShape
    <3>3. ASSUME NEW e \in Email
          PROVE  fails'[e] <= fails[e]
      <4>1. e # lg[c].ip
        BY <3>1, KeyAssumption
      <4> QED
        BY <1>0, <1>a, <3>2, <4>1 DEF Increment, Counters
    <3>4. \E pc \in {"commit", "lock"} : \E n : Steps(c, pc, n)
      BY <1>3, <2>3, FailureShape
    <3> QED
      BY <2>2, <3>3, <3>4
  <2>4. CASE lg[c].pc \in {"lock", "alert"}
    <3>1. \A e \in Email : fails'[e] <= fails[e]
      BY <1>3, <1>a, <2>4, FailureShape
    <3>2. \E pc \in {"commit", "alert"} : \E n : Steps(c, pc, n)
      BY <1>3, <2>4, FailureShape
    <3> QED
      BY <2>2, <3>1, <3>2
  <2> QED
    BY <1>3, <2>1, <2>3, <2>4, FailureShape
<1>4. ASSUME NEW c \in Clerk, VerifyPassword(c) \/ Rehash(c) \/ CheckActive(c) \/ CommitLogin(c)
      PROVE  Bound'
  <2>1. \A e : Pending(e)' \subseteq Pending(e)
    <3>1. lg[c].pc = "verify" => c \in Pending(lg[c].email)
      BY DEF Pending
    <3> QED
      BY <1>4, <3>1, PasswordShape, PendingMove DEF Steps, Over
  <2>2. UNCHANGED <<fails, mishaps>>
    BY <1>4, PasswordShape
  <2> QED
    BY <1>0, <1>a, <2>1, <2>2, BoundQuiet
<1>5. ASSUME lg' = lg, mishaps' = mishaps, \A e \in Email : fails'[e] <= fails[e]
      PROVE  Bound'
  <2>1. \A e : Pending(e)' = Pending(e)
    BY <1>5 DEF Pending
  <2> QED
    BY <1>0, <1>5, <2>1, BoundQuiet
<1>6. CASE ~\E c \in Clerk : LoginProgress(c)
  <2>1. ASSUME NEW c \in Clerk, Begins(c) \/ Over(c), UNCHANGED fails, mishaps' \in {mishaps, mishaps + 1}
        PROVE  Bound'
    <3>1. \A e : Pending(e)' \subseteq Pending(e)
      BY <2>1, PendingMove DEF Begins, Over
    <3> QED
      BY <1>0, <1>a, <2>1, <3>1, BoundQuiet
  <2>2. ASSUME NEW e \in Account, NEW p \in Password, ChangePassword(e, p)
        PROVE  Bound'
    BY <1>5, <1>a, <2>2 DEF ChangePassword, redis
  <2>3. CASE GuardTick
    BY <1>0, <1>5, <2>3, TickLowers
  <2> QED
    BY <1>6, <2>1, <2>2, <2>3, RestShape
<1> QED
  BY <1>1, <1>2, <1>3, <1>4, <1>6, Zenon DEF LoginProgress

-----------------------------------------------------------------------------
(* The alert.                                                              *)

\* Who moves, and what the others see of it.
LEMMA OneDoubts ==
    ASSUME OneInDoubt, LoginHistory
    PROVE  OneInDoubt'
BY DEF OneInDoubt, InDoubt, LoginHistory

\* What a request knows stays true while others only lower the counters.
LEMMA KnowsStays ==
    ASSUME GInv, NEW d \in Clerk, Knows(d), lg'[d] = lg[d], Counters',
           InDoubt(d) => \A k \in Email \cup Ip : fails'[k] <= fails[k]
    PROVE  Knows(d)'
<1>1. CASE ~InDoubt(d)
  BY <1>1 DEF Knows, InDoubt
<1>2. CASE InDoubt(d)
  <2>1. lg[d].email \in Email /\ lg[d].ip \in Ip /\ lg[d].n \in Nat
    BY <1>2, Served DEF InDoubt
  <2>2. /\ fails[lg[d].email] \in Nat /\ fails'[lg[d].email] \in Nat
        /\ fails[lg[d].ip] \in Nat /\ fails'[lg[d].ip] \in Nat
        /\ fails'[lg[d].email] <= fails[lg[d].email] /\ fails'[lg[d].ip] <= fails[lg[d].ip]
    BY <1>2, <2>1 DEF GInv, Counters
  <2>3. LockThreshold \in Nat
    BY ThresholdAssumption
  <2> QED
    BY <2>1, <2>2, <2>3 DEF Knows
<1> QED
  BY <1>1, <1>2

LEMMA UnalarmedStep ==
    ASSUME GInv, OneInDoubt, Unalarmed, GuardNext, LoginHistory
    PROVE  Unalarmed'
<1>0. Counters /\ Counters' /\ mishaps \in 0..MaxMishaps /\ LockThreshold \in Nat
      /\ AlertThreshold \in Nat /\ LockThreshold < AlertThreshold
  BY CountersStep, ThresholdAssumption DEF GInv, Counters
<1> SUFFICES ASSUME mishaps' = 0, ~overlapped'
             PROVE  (\A e \in Email : alert'[e] = 0) /\ (\A d \in Clerk : Knows(d)')
  BY DEF Unalarmed
<1>1. ~overlapped
  BY DEF LoginHistory
<1>a. \A j \in Email \cup Ip : fails[j] \in Nat
  BY <1>0 DEF Counters
\* One request moves, the counters do not grow, or it was in doubt itself.
<1>2. ASSUME NEW c \in Clerk, Alone(c), mishaps = 0, alert' = alert, Knows(c)',
             \/ \A k \in Email \cup Ip : fails'[k] <= fails[k]
             \/ InDoubt(c)
      PROVE  (\A e \in Email : alert'[e] = 0) /\ (\A d \in Clerk : Knows(d)')
  <2>1. (\A e \in Email : alert[e] = 0) /\ (\A d \in Clerk : Knows(d))
    BY <1>1, <1>2 DEF Unalarmed
  <2>2. ASSUME NEW d \in Clerk, d # c
        PROVE  Knows(d)'
    <3>1. lg'[d] = lg[d]
      BY <1>2, <2>2 DEF Alone
    <3>2. InDoubt(d) => ~InDoubt(c)
      BY <1>1, <2>2 DEF OneInDoubt
    <3>3. Knows(d)
      BY <2>1
    <3> QED
      BY <1>0, <1>2, <3>1, <3>2, <3>3, KnowsStays
  <2> QED
    BY <1>2, <2>1, <2>2
<1>3. ASSUME NEW c \in Clerk, Over(c) \/ Begins(c), mishaps = 0, UNCHANGED <<fails, alert>>
      PROVE  (\A e \in Email : alert'[e] = 0) /\ (\A d \in Clerk : Knows(d)')
  <2>1. NoLogin.pc = "idle"
    BY DEF NoLogin
  <2>2. Alone(c) /\ Knows(c)'
    BY <1>3, <2>1 DEF Over, Begins, Knows
  <2> QED
    BY <1>2, <1>3, <1>a, <2>2
<1>4. ASSUME NEW c \in Clerk, NEW ok \in BOOLEAN, CheckStep(c, ok)
      PROVE  (\A e \in Email : alert'[e] = 0) /\ (\A d \in Clerk : Knows(d)')
  <2>0. UNCHANGED <<fails, alert>> /\ mishaps = 0 /\ ok /\ Knows(c)
        /\ lg[c].email \in Email /\ lg[c].ip \in Ip /\ lg[c].n \in Nat
    BY <1>0, <1>1, <1>4, CheckShape, AnswerCounts, Served DEF Unalarmed
  <2>1. CASE Over(c)
    BY <1>3, <2>0, <2>1
  <2>2. CASE lg[c].pc = "locked" /\ Steps(c, "count", lg[c].n)
    <3>1. Alone(c) /\ Knows(c)'
      BY <2>2 DEF Steps, Knows
    <3> QED
      BY <1>2, <1>a, <2>0, <3>1
  <2>3. CASE lg[c].pc = "count" /\ Steps(c, "count_ip", IF ok THEN fails[lg[c].email] ELSE 0)
    <3>1. lg'[c].pc = "count_ip" /\ lg'[c].n = fails[lg[c].email] /\ lg'[c].email = lg[c].email
          /\ Alone(c)
      BY <2>0, <2>3 DEF Steps, Keeps
    <3>2. fails'[lg'[c].email] <= lg'[c].n
      BY <1>a, <2>0, <3>1
    <3>3. Knows(c)'
      BY <3>1, <3>2 DEF Knows
    <3> QED
      BY <1>2, <1>a, <2>0, <3>1, <3>3
  <2>4. CASE /\ lg[c].pc = "count_ip" /\ Steps(c, "verify", 0) /\ lg[c].n < LockThreshold
             /\ fails[lg[c].ip] < LockThreshold
    <3>1. lg'[c].pc = "verify" /\ lg'[c].ip = lg[c].ip /\ lg'[c].email = lg[c].email /\ Alone(c)
      BY <2>4 DEF Steps, Keeps
    <3>2. fails[lg[c].email] <= lg[c].n /\ lg[c].n < LockThreshold /\ fails[lg[c].ip] < LockThreshold
      BY <2>0, <2>4 DEF Knows
    <3>3. fails[lg[c].email] < LockThreshold
      BY <1>0, <1>a, <2>0, <3>2
    <3>4. Knows(c)'
      BY <2>0, <3>1, <3>2, <3>3 DEF Knows
    <3> QED
      BY <1>2, <1>a, <2>0, <3>1, <3>4
  <2> QED
    BY <1>4, <2>0, <2>1, <2>2, <2>3, <2>4, CheckShape
<1>5. ASSUME NEW c \in Clerk, NEW ok \in BOOLEAN, SuccessStep(c, ok)
      PROVE  (\A e \in Email : alert'[e] = 0) /\ (\A d \in Clerk : Knows(d)')
  <2>0. alert' = alert /\ mishaps = 0
    BY <1>0, <1>5, SuccessShape, AnswerCounts
  <2>1. \A k \in Email \cup Ip : fails'[k] <= fails[k]
    BY <1>0, <1>a, <1>5, SuccessShape, ForgetLowers
  <2>2. Alone(c) /\ Knows(c)'
    BY <1>5, SuccessShape DEF Steps, Knows
  <2> QED
    BY <1>2, <2>0, <2>1, <2>2
<1>6. ASSUME NEW c \in Clerk, NEW ok \in BOOLEAN, FailureStep(c, ok)
      PROVE  (\A e \in Email : alert'[e] = 0) /\ (\A d \in Clerk : Knows(d)')
  <2>0. mishaps = 0 /\ ok
    BY <1>0, <1>6, FailureShape, AnswerCounts
  <2>a. Knows(c) /\ lg[c].email \in Email /\ lg[c].ip \in Ip /\ lg[c].n \in Nat
    BY <1>1, <1>6, <2>0, FailureShape, Served DEF Unalarmed
  <2>1. CASE lg[c].pc = "fail"
    <3>1. /\ Steps(c, "fail_ip", fails[lg[c].email] + 1) /\ Increment(lg[c].email) /\ alert' = alert
      BY <1>6, <2>0, <2>1, FailureShape
    <3>2. /\ Alone(c) /\ lg'[c].pc = "fail_ip" /\ lg'[c].n = fails[lg[c].email] + 1
          /\ lg'[c].ip = lg[c].ip
      BY <3>1 DEF Steps, Keeps
    <3>3. fails[lg[c].email] < LockThreshold /\ fails[lg[c].ip] < LockThreshold
      BY <2>1, <2>a DEF Knows
    <3>4. fails'[lg[c].ip] = fails[lg[c].ip]
      <4>1. lg[c].ip # lg[c].email
        BY <2>a, KeyAssumption
      <4> QED
        BY <1>0, <2>a, <3>1, <4>1 DEF Increment, Counters
    <3>5. lg'[c].n <= LockThreshold
      BY <1>0, <1>a, <2>a, <3>2, <3>3
    <3>6. Knows(c)'
      BY <3>2, <3>3, <3>4, <3>5 DEF Knows
    <3>7. InDoubt(c)
      BY <2>1 DEF InDoubt
    <3> QED
      BY <1>2, <2>0, <3>1, <3>2, <3>6, <3>7
  <2>2. CASE lg[c].pc = "fail_ip"
    <3>1. /\ \/ Steps(c, "commit", lg[c].n)
             \/ Steps(c, "lock", Counted(c, fails[lg[c].ip] + 1))
          /\ alert' = alert
      BY <1>6, <2>0, <2>2, FailureShape
    <3>2. lg[c].n <= LockThreshold /\ fails[lg[c].ip] < LockThreshold
      BY <2>2, <2>a DEF Knows
    <3>3. Counted(c, fails[lg[c].ip] + 1) <= LockThreshold
      BY <1>0, <1>a, <2>a, <3>2 DEF Counted
    <3>4. Alone(c) /\ Knows(c)'
      BY <3>1, <3>3 DEF Steps, Knows
    <3>5. InDoubt(c)
      BY <2>2 DEF InDoubt
    <3> QED
      BY <1>2, <2>0, <3>1, <3>4, <3>5
  <2>3. CASE lg[c].pc = "lock"
    <3>1. /\ \/ Steps(c, "commit", lg[c].n)
             \/ Steps(c, "alert", lg[c].n) /\ lg[c].n >= AlertThreshold
          /\ UNCHANGED <<fails, alert>>
      BY <1>6, <2>3, FailureShape
    <3>2. lg[c].n <= LockThreshold
      BY <2>3, <2>a DEF Knows
    <3>3. ~(lg[c].n >= AlertThreshold)
      BY <1>0, <2>a, <3>2
    <3>4. Alone(c) /\ Knows(c)'
      BY <3>1, <3>3 DEF Steps, Knows
    <3> QED
      BY <1>2, <1>a, <2>0, <3>1, <3>4
  <2>4. lg[c].pc # "alert"
    BY <2>a DEF Knows
  <2> QED
    BY <1>6, <2>1, <2>2, <2>3, <2>4, FailureShape
<1>7. ASSUME NEW c \in Clerk, VerifyPassword(c) \/ Rehash(c) \/ CheckActive(c) \/ CommitLogin(c)
      PROVE  (\A e \in Email : alert'[e] = 0) /\ (\A d \in Clerk : Knows(d)')
  <2>0. UNCHANGED <<fails, alert, mishaps>> /\ Knows(c)
    BY <1>1, <1>7, PasswordShape DEF Unalarmed
  <2>1. CASE Over(c)
    BY <1>3, <2>0, <2>1
  <2>2. CASE lg[c].pc = "verify" /\ Steps(c, "fail", lg[c].n)
    <3>1. Alone(c) /\ lg'[c].pc = "fail" /\ lg'[c].ip = lg[c].ip /\ lg'[c].email = lg[c].email
      BY <2>2 DEF Steps, Keeps
    <3>2. Knows(c)'
      BY <2>0, <2>2, <3>1 DEF Knows
    <3> QED
      BY <1>2, <1>a, <2>0, <3>1, <3>2
  <2>3. ASSUME NEW pc \in {"rehash", "active", "forget", "commit"}, Steps(c, pc, lg[c].n)
        PROVE  (\A e \in Email : alert'[e] = 0) /\ (\A d \in Clerk : Knows(d)')
    <3>1. Alone(c) /\ Knows(c)'
      BY <2>3 DEF Steps, Knows
    <3> QED
      BY <1>2, <1>a, <2>0, <3>1
  <2> QED
    BY <1>7, <2>1, <2>2, <2>3, PasswordShape
<1>8. ASSUME lg' = lg, mishaps' = mishaps, \A k \in Email \cup Ip : fails'[k] <= fails[k],
             \A e \in Email : alert[e] = 0 => alert'[e] = 0
      PROVE  (\A e \in Email : alert'[e] = 0) /\ (\A d \in Clerk : Knows(d)')
  <2>1. (\A e \in Email : alert[e] = 0) /\ (\A d \in Clerk : Knows(d))
    BY <1>1, <1>8 DEF Unalarmed
  <2> QED
    BY <1>0, <1>8, <2>1, KnowsStays
<1>9. CASE ~\E c \in Clerk : LoginProgress(c)
  <2>1. CASE \E c \in Clerk : Begins(c) /\ UNCHANGED <<fails, window, lock, alert, hash, mishaps>>
    BY <1>3, <2>1
  <2>2. ~(mishaps' = mishaps + 1)
    BY <1>0
  <2>3. ASSUME NEW e \in Account, NEW p \in Password, ChangePassword(e, p)
        PROVE  (\A x \in Email : alert'[x] = 0) /\ (\A d \in Clerk : Knows(d)')
    BY <1>8, <1>a, <2>3 DEF ChangePassword, redis
  <2>4. CASE GuardTick
    BY <1>0, <1>8, <2>4, TickLowers
  <2> QED
    BY <1>9, <2>1, <2>2, <2>3, <2>4, RestShape
<1> QED
  BY <1>4, <1>5, <1>6, <1>7, <1>9, Zenon DEF LoginProgress

FInv == GInv /\ Bound /\ OneInDoubt /\ Unalarmed

\* For any number of requests and addresses: while no command fails, an e-mail
\* has no more failures counted than the threshold and one for each further
\* request let through; and one request at a time never reaches the alert
\* (check_and_enforce, record_failed_attempt).
THEOREM AttemptsAreBounded == ASpec => []AttemptsBounded
<1>1. AInit => FInv
  <2> SUFFICES ASSUME AInit PROVE FInv
    OBVIOUS
  <2>1. GInv /\ GuardInit
    BY GuardInv DEF AInit
  <2>2. NoLogin.pc = "idle"
    BY DEF NoLogin
  <2>3. (\A e : Pending(e) = {}) /\ (\A c \in Clerk : ~InDoubt(c) /\ Knows(c))
    BY <2>1, <2>2 DEF GuardInit, Pending, InDoubt, Knows
  <2>4. Cardinality({}) = 0 /\ Cardinality(Clerk) \in Nat
    BY FS_EmptySet, KeyAssumption, FS_CardinalityType
  <2>5. \A e \in Email : fails[e] = 0 /\ alert[e] = 0
    BY <2>1 DEF GuardInit
  <2>6. LockThreshold \in Nat \ {0}
    BY ThresholdAssumption
  <2> HIDE DEF Pending
  <2>7. Bound
    <3>1. PICK n : n = Cardinality(Clerk)
      OBVIOUS
    <3>2. \A e \in Email : fails[e] = 0 /\ Cardinality(Pending(e)) = 0
      BY ONLY <2>3, <2>4, <2>5
    <3>3. 0 + 0 <= LockThreshold - 1 + n
      BY ONLY <2>4, <2>6, <3>1
    <3> QED
      BY ONLY <3>1, <3>2, <3>3 DEF Bound
  <2> QED
    BY <2>1, <2>3, <2>5, <2>7 DEF FInv, OneInDoubt, Unalarmed
<1>2. FInv /\ [ANext]_avars => FInv'
  <2> SUFFICES ASSUME FInv, [ANext]_avars PROVE FInv'
    OBVIOUS
  <2>0. GInv'
    BY GuardInv DEF FInv
  <2>1. CASE GuardNext /\ LoginHistory
    BY <2>0, <2>1, BoundStep, OneDoubts, UnalarmedStep DEF FInv
  <2>2. CASE UNCHANGED <<gvars, overlapped>>
    <3>1. UNCHANGED <<fails, alert, mishaps, lg, overlapped>>
      BY <2>2 DEF gvars
    <3>2. Bound' /\ OneInDoubt' /\ Unalarmed'
      BY <3>1 DEF FInv, Bound, Pending, OneInDoubt, InDoubt, Unalarmed, Knows
    <3> QED
      BY <2>0, <3>2 DEF FInv
  <2> QED
    BY <2>1, <2>2 DEF ANext, NoHistory, MfaHistory, avars
<1>3. FInv => AttemptsBounded
  <2> SUFFICES ASSUME FInv, mishaps = 0
               PROVE  FailuresBounded /\ (~overlapped => \A e \in Email : alert[e] = 0)
    BY DEF AttemptsBounded
  <2>1. ASSUME NEW e \in Email
        PROVE  fails[e] + Cardinality(Admitted(e)) <= LockThreshold - 1 + Cardinality(Clerk)
    <3>1. Admitted(e) \in SUBSET Pending(e)
      BY DEF Admitted, Pending
    <3>2. /\ Cardinality(Admitted(e)) \in Nat /\ Cardinality(Clerk) \in Nat
          /\ Cardinality(Pending(e)) \in Nat
          /\ Cardinality(Admitted(e)) <= Cardinality(Pending(e))
      BY <3>1, PendingFinite
    <3>3. fails[e] + Cardinality(Pending(e)) <= LockThreshold - 1 + Cardinality(Clerk)
      BY DEF FInv, Bound
    <3>4. fails[e] \in Nat /\ LockThreshold \in Nat
      BY ThresholdAssumption DEF FInv, GInv, Counters
    <3> HIDE DEF Pending, Admitted
    <3> QED
      BY <3>2, <3>3, <3>4
  <2> QED
    BY <2>1 DEF FailuresBounded, FInv, Unalarmed
<1> QED
  BY <1>1, <1>2, <1>3, PTL DEF ASpec

-----------------------------------------------------------------------------
(* The types of all three.                                                 *)

Asked ==
    {t \in [pc : {"idle", "incr", "expire", "ttl", "heal", "served", "refused"},
            key : Key \cup {NoKey}, then : Key \cup {NoKey}, n : 0..MaxCount] :
       t.pc # "idle" => t.key \in Key /\ t.then \in Key}

LimInv ==
    /\ hits \in [Key -> 0..MaxCount] /\ ttl \in [Key -> {NoTtl} \cup 1..Window]
    /\ errors \in 0..MaxErrors /\ rq \in [Requester -> Asked]

LEMMA AskedGoes ==
    ASSUME NEW t \in Asked, t.pc # "idle"
    PROVE  /\ \A pc \in {"incr", "expire", "ttl", "heal", "served", "refused"} :
                /\ [t EXCEPT !.pc = pc] \in Asked
                /\ \A n \in 0..MaxCount : [t EXCEPT !.n = n, !.pc = pc] \in Asked
           /\ 0 \in 0..MaxCount => [t EXCEPT !.pc = "incr", !.key = t.then, !.n = 0] \in Asked
BY DEF Asked

LEMMA LimiterMoves ==
    ASSUME LimInv, NEW r \in Requester, NEW t \in Asked, rq' = [rq EXCEPT ![r] = t]
    PROVE  rq' \in [Requester -> Asked]
BY DEF LimInv

LEMMA AllowMoves ==
    ASSUME LimInv, NEW r \in Requester, rq[r].pc # "idle", Allow(r)
    PROVE  rq' \in [Requester -> Asked]
<1>1. rq[r] \in Asked /\ 0 \in 0..MaxCount
  BY LimiterAssumption DEF LimInv
<1>2. PICK t : t = IF rq[r].key = rq[r].then THEN [rq[r] EXCEPT !.pc = "served"]
                   ELSE [rq[r] EXCEPT !.pc = "incr", !.key = rq[r].then, !.n = 0]
  OBVIOUS
<1>3. t \in Asked
  BY <1>1, <1>2, AskedGoes
<1> QED
  BY <1>2, <1>3, LimiterMoves DEF Allow

LEMMA DecideMoves ==
    ASSUME LimInv, NEW r \in Requester, rq[r].pc # "idle", Decide(r)
    PROVE  rq' \in [Requester -> Asked]
<1>1. rq[r] \in Asked
  BY DEF LimInv
<1>2. CASE Allow(r)
  BY <1>2, AllowMoves
<1>3. CASE RequestTo(r, "refused")
  BY <1>1, <1>3, AskedGoes, LimiterMoves DEF RequestTo
<1> QED
  BY <1>2, <1>3 DEF Decide

LEMMA DeadlineTyped ==
    ASSUME LimInv, NEW k \in Key, SetDeadline(k)
    PROVE  ttl' \in [Key -> {NoTtl} \cup 1..Window]
BY LimiterAssumption DEF LimInv, SetDeadline

LEMMA LimiterKeeps ==
    ASSUME LimInv, LimiterNext
    PROVE  LimInv'
<1>0. /\ MaxCount \in Nat /\ MaxErrors \in Nat /\ Window \in Nat \ {0}
      /\ \A r \in Requester : rq[r] \in Asked /\ (rq[r].pc # "idle" => rq[r].key \in Key)
  BY LimiterAssumption DEF LimInv, Asked
<1>1. IdleRequest \in Asked
  BY <1>0 DEF IdleRequest, Asked
<1>2. ASSUME NEW r \in Requester, NEW s \in Scope, NEW c \in Client, NEW u \in Client,
             Dispatch(r, s, c, u)
      PROVE  LimInv'
  <2>1. PICK t : t = [pc |-> "incr", key |-> <<"global", c>>, then |-> <<s, u>>, n |-> 0]
    OBVIOUS
  <2>2. <<"global", c>> \in Key /\ <<s, u>> \in Key
    BY DEF Key
  <2>3. t \in Asked
    BY <1>0, <2>1, <2>2 DEF Asked
  <2>4. rq' \in [Requester -> Asked]
    BY <1>2, <2>1, <2>3, LimiterMoves DEF Dispatch
  <2> QED
    BY <1>2, <2>4 DEF Dispatch, LimInv
<1>3. ASSUME NEW r \in Requester, Incr(r)
      PROVE  LimInv'
  <2>1. rq[r].pc # "idle" /\ rq[r].key \in Key
    BY <1>0, <1>3 DEF Incr, RequestAt
  <2>2. PICK n, pc : n = hits[rq[r].key] + 1 /\ pc = IF hits[rq[r].key] = 0 THEN "expire" ELSE "ttl"
    OBVIOUS
  <2>3. hits[rq[r].key] \in 0..MaxCount /\ hits[rq[r].key] < MaxCount
    BY <1>3, <2>1 DEF Incr, LimInv
  <2>4. n \in 0..MaxCount
    BY <1>0, <2>2, <2>3
  <2>5. [rq[r] EXCEPT !.n = n, !.pc = pc] \in Asked
    BY <1>0, <2>1, <2>2, <2>4, AskedGoes
  <2>6. rq' = [rq EXCEPT ![r] = [rq[r] EXCEPT !.n = n, !.pc = pc]]
    BY <1>3, <2>2 DEF Incr
  <2>7. rq' \in [Requester -> Asked]
    BY <2>5, <2>6, LimiterMoves
  <2>8. hits' = [hits EXCEPT ![rq[r].key] = n]
    BY <1>3, <2>2 DEF Incr
  <2>9. hits' \in [Key -> 0..MaxCount]
    BY <2>1, <2>4, <2>8 DEF LimInv
  <2> QED
    BY <1>3, <2>7, <2>9 DEF Incr, LimInv
<1>4. ASSUME NEW r \in Requester, Expire(r)
      PROVE  LimInv'
  <2>1. rq[r].pc # "idle" /\ rq[r].key \in Key /\ SetDeadline(rq[r].key) /\ RequestTo(r, "ttl")
    BY <1>0, <1>4 DEF Expire, RequestAt
  <2>2. rq' \in [Requester -> Asked]
    BY <1>0, <2>1, AskedGoes, LimiterMoves DEF RequestTo
  <2> QED
    BY <1>4, <2>1, <2>2, DeadlineTyped DEF Expire, LimInv
<1>5. ASSUME NEW r \in Requester, ReadTtl(r)
      PROVE  LimInv'
  <2>1. rq[r].pc # "idle" /\ (RequestTo(r, "heal") \/ Decide(r))
    BY <1>5 DEF ReadTtl, RequestAt
  <2>2. RequestTo(r, "heal") => rq' \in [Requester -> Asked]
    BY <1>0, <2>1, AskedGoes, LimiterMoves DEF RequestTo
  <2>3. rq' \in [Requester -> Asked]
    BY <2>1, <2>2, DecideMoves
  <2> QED
    BY <1>5, <2>3 DEF ReadTtl, LimInv
<1>6. ASSUME NEW r \in Requester, Heal(r)
      PROVE  LimInv'
  <2>1. rq[r].pc # "idle" /\ rq[r].key \in Key /\ SetDeadline(rq[r].key) /\ Decide(r)
    BY <1>0, <1>6 DEF Heal, RequestAt
  <2> QED
    BY <1>6, <2>1, DecideMoves, DeadlineTyped DEF Heal, LimInv
<1>7. ASSUME NEW r \in Requester, Respond(r) \/ RequestDies(r)
      PROVE  LimInv'
  <2>1. rq' \in [Requester -> Asked]
    BY <1>1, <1>7, LimiterMoves DEF Respond, RequestDies
  <2> QED
    BY <1>0, <1>7, <2>1 DEF Respond, RequestDies, LimInv
<1>8. ASSUME NEW r \in Requester, CommandFails(r)
      PROVE  LimInv'
  <2>1. rq' \in [Requester -> Asked]
    BY <1>8, AllowMoves DEF CommandFails
  <2> QED
    BY <1>0, <1>8, <2>1 DEF CommandFails, LimInv
<1>9. CASE LimiterTick
  <2>1. \A k \in Key : (IF ttl[k] > 1 THEN ttl[k] - 1 ELSE NoTtl) \in {NoTtl} \cup 1..Window
    BY <1>0 DEF LimInv, NoTtl
  <2>2. \A k \in Key : (IF ttl[k] = 1 THEN 0 ELSE hits[k]) \in 0..MaxCount
    BY <1>0 DEF LimInv
  <2> QED
    BY <1>9, <2>1, <2>2 DEF LimiterTick, LimInv
<1>10. ASSUME NEW r \in Requester, RequestStep(r)
       PROVE  LimInv'
  BY <1>3, <1>4, <1>5, <1>6, <1>7, <1>10, Zenon DEF RequestStep
<1> QED
  BY <1>2, <1>7, <1>8, <1>9, <1>10, Zenon DEF LimiterNext

\* Type correctness of the limiter, the guard and the second factor.
THEOREM TypeCorrect == ASpec => []TypeOK
<1>1. AInit => LimInv
  <2>1. ASSUME LimiterInit
        PROVE  LimInv
    <3>1. IdleRequest \in Asked
      BY LimiterAssumption DEF IdleRequest, Asked
    <3> QED
      BY <2>1, <3>1, LimiterAssumption DEF LimiterInit, LimInv
  <2> QED
    BY <2>1 DEF AInit
<1>2. LimInv /\ [ANext]_avars => LimInv'
  <2> SUFFICES ASSUME LimInv, [ANext]_avars PROVE LimInv'
    OBVIOUS
  <2>1. CASE LimiterNext
    BY <2>1, LimiterKeeps
  <2>2. CASE UNCHANGED rvars
    BY <2>2 DEF rvars, LimInv
  <2> QED
    BY <2>1, <2>2 DEF ANext, avars
<1>3. LimInv => RateLimiterTypeOK
  BY DEF LimInv, RateLimiterTypeOK, Asked
<1>4. IInv => MfaTypeOK
  BY DEF IInv, Types, Req, MfaTypeOK
<1>5. ASpec => []GInv
  BY GuardInv, PTL DEF ASpec
<1>6. LimInv /\ IInv /\ GInv => TypeOK
  BY <1>3, <1>4, GuardTyped DEF TypeOK
<1> QED
  BY <1>1, <1>2, <1>5, <1>6, InvAlways, PTL DEF ASpec
=============================================================================
