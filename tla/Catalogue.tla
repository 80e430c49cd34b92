----------------------------- MODULE Catalogue ------------------------------
(***************************************************************************)
(* The rows an administrator keeps: categories (a tree), bundles, their    *)
(* items, customers.  The four kinds go through one repository             *)
(* (BaseRepository) and its cache, and have the same shape: a row has a    *)
(* key that is unique, deleted rows included (slug and name, product of a  *)
(* bundle, e-mail), is active or not, and for a category has a parent.     *)
(* A behaviour follows one kind.                                           *)
(*                                                                         *)
(* A handler works on the copies its session holds: `base' is the row as   *)
(* loaded, `want' what it is to become.  Its flush writes the columns that *)
(* differ, and holds them until its commit.  A cached row is merged over   *)
(* the one that is loaded, so a stale entry is written back with the next  *)
(* flush; merged over nothing it is inserted again.                        *)
(***************************************************************************)
EXTENDS Integers, FiniteSets

CONSTANTS
    Author,         \* threads serving requests
    Word,           \* keys
    MaxRows,        \* bound: rows ever inserted
    Kinds,          \* bound: the kinds of this instance
    NoWord

ASSUME CatalogueAssumption ==
    /\ MaxRows \in Nat /\ NoWord \notin Word
    /\ Kinds \subseteq {"category", "bundle", "item", "customer"}

Id == 1..MaxRows
Row == [key : Word, parent : 0..MaxRows, live : BOOLEAN]
NoRow == [key |-> NoWord, parent |-> 0, live |-> FALSE]

VARIABLES
    kind,           \* what the rows are
    tbl,            \* committed rows
    cached,         \* cached[i]: the Redis entry of row i, NoRow without one
    made,           \* ids the sequence has handed out
    txn             \* the request of each thread

cvars == <<kind, tbl, cached, made, txn>>

Copy == [base : Row \cup {NoRow}, want : Row \cup {NoRow}]
NoCopy == [base |-> NoRow, want |-> NoRow]
Loaded(r) == [base |-> r, want |-> r]
NoTxn == [pc |-> "idle", op |-> "none", id |-> 0, key |-> NoWord, par |-> 0,
          mine |-> NoCopy, other |-> NoCopy, put |-> {}]

CatalogueInit ==
    /\ kind \in Kinds
    /\ tbl = [i \in Id |-> NoRow] /\ cached = [i \in Id |-> NoRow] /\ made = 0
    /\ txn = [a \in Author |-> NoTxn]

TxnAt(a, pc) == txn[a].pc = pc
Becomes(a, t) == txn' = [txn EXCEPT ![a] = t]
TxnTo(a, pc) == Becomes(a, [txn[a] EXCEPT !.pc = pc])
TxnEnds(a) == Becomes(a, NoTxn)
Idle(a) == TxnAt(a, "idle")
Request(op, i, k, p) == [NoTxn EXCEPT !.op = op, !.id = i, !.key = k, !.par = p]

Present == {i \in Id : tbl[i] # NoRow}
Live == {i \in Id : tbl[i].live}

-----------------------------------------------------------------------------
(* BaseRepository.get_by_id.                                               *)

\* Rows the SELECT returns: hard_delete asks for inactive ones as well, and an
\* item is never inactive.
Visible(t) == IF t.op = "erase" THEN Present ELSE Live

\* What a handler does with the row it found.
Goes(t) ==
    CASE t.op = "get" -> NoTxn
      [] t.op = "update" /\ t.key \notin {NoWord, t.mine.want.key} -> [t EXCEPT !.pc = "check"]
      [] t.op = "move" /\ t.par # 0 -> [t EXCEPT !.pc = "parent"]
      [] t.op = "delete" /\ kind = "category" -> [t EXCEPT !.pc = "children"]
      [] t.op = "delete" /\ kind = "bundle" -> [t EXCEPT !.pc = "again"]
      [] OTHER -> [t EXCEPT !.pc = "flush"]

\* A cached entry is merged over the row, whatever that row is now; else the
\* row is selected, and cached by a second command.
Find(a, t) ==
    /\ Idle(a)
    /\ IF cached[t.id] # NoRow
         THEN Becomes(a, Goes([t EXCEPT !.mine = [base |-> tbl[t.id], want |-> cached[t.id]]]))
         ELSE t.id \in Visible(t) /\ Becomes(a, [t EXCEPT !.pc = "fill", !.mine = Loaded(tbl[t.id])])
    /\ UNCHANGED <<kind, tbl, cached, made>>

Fill(a) ==
    /\ TxnAt(a, "fill")
    /\ cached' = [cached EXCEPT ![txn[a].id] = txn[a].mine.want]
    /\ Becomes(a, Goes(txn[a]))
    /\ UNCHANGED <<kind, tbl, made>>

-----------------------------------------------------------------------------
(* What the services check.                                                *)

\* slug_exists, name_exists, email_exists, get_by_bundle_and_product: active
\* rows, the row itself left out by the first two only.
Taken(t) ==
    \E i \in Live : tbl[i].key = t.key /\ (kind = "customer" \/ i # t.id)

\* Mutant of CheckKey: the check is left to the constraint.
CheckNoKey(a, t) ==
    /\ Becomes(a, [t EXCEPT !.pc = IF t.par = 0 THEN "flush" ELSE "parent"])
    /\ UNCHANGED <<kind, tbl, cached, made>>

CheckKey(a, t) ==
    /\ Becomes(a, IF Taken(t) THEN NoTxn
                  ELSE [t EXCEPT !.pc = IF t.par = 0 THEN "flush" ELSE "parent"])
    /\ UNCHANGED <<kind, tbl, cached, made>>

\* The parent is another row, found by get_by_id, and no more is asked of it.
CheckParent(a) ==
    LET p == txn[a].par IN
    /\ TxnAt(a, "parent")
    /\ IF p = txn[a].id THEN TxnEnds(a)
       ELSE IF cached[p] # NoRow
         THEN Becomes(a, [txn[a] EXCEPT !.pc = "flush", !.other = [base |-> tbl[p], want |-> cached[p]]])
       ELSE IF p \in Live THEN Becomes(a, [txn[a] EXCEPT !.pc = "fill_parent", !.other = Loaded(tbl[p])])
       ELSE TxnEnds(a)
    /\ UNCHANGED <<kind, tbl, cached, made>>

FillParent(a) ==
    /\ TxnAt(a, "fill_parent")
    /\ cached' = [cached EXCEPT ![txn[a].par] = txn[a].other.want]
    /\ TxnTo(a, "flush")
    /\ UNCHANGED <<kind, tbl, made>>

\* has_active_children.
CheckChildren(a) ==
    /\ TxnAt(a, "children")
    /\ IF \E c \in Live : tbl[c].parent = txn[a].id THEN TxnEnds(a) ELSE TxnTo(a, "again")
    /\ UNCHANGED <<kind, tbl, cached, made>>

\* soft_delete reads the row once more: cached, the copy of the session is what
\* it gets; if nothing is found it deletes nothing, and the answer is 204 still.
FindAgain(a) ==
    LET t == txn[a] IN
    /\ TxnAt(a, "again")
    /\ IF cached[t.id] # NoRow THEN TxnTo(a, IF t.mine.want.live THEN "flush" ELSE "commit")
       ELSE TxnTo(a, IF t.id \in Live THEN "fill_again" ELSE "commit")
    /\ UNCHANGED <<kind, tbl, cached, made>>

FillAgain(a) ==
    /\ TxnAt(a, "fill_again")
    /\ cached' = [cached EXCEPT ![txn[a].id] = txn[a].mine.want]
    /\ TxnTo(a, "flush")
    /\ UNCHANGED <<kind, tbl, made>>

-----------------------------------------------------------------------------
(* Requests, up to the first command.                                      *)

Create(a, k, p) ==
    /\ Idle(a) /\ (kind # "category" => p = 0)
    /\ CheckKey(a, Request("create", 0, k, p))

\* PATCH: of the key, of the parent, or of columns no property is about.
Update(a, i, k) == Find(a, Request("update", i, k, 0))
Move(a, i, p) == kind = "category" /\ Find(a, Request("move", i, NoWord, p))

\* GET /{id}, which fills the cache.
Get(a, i) == Find(a, Request("get", i, NoWord, 0))

\* DELETE: of an item, and of a customer when asked to, the row goes.
SoftDelete(a, i) == kind # "item" /\ Find(a, Request("delete", i, NoWord, 0))
HardDelete(a, i) == kind \in {"item", "customer"} /\ Find(a, Request("erase", i, NoWord, 0))

-----------------------------------------------------------------------------
(* Flush, cache, commit.                                                   *)

\* What the handler makes of its copy.
Wanted(t) ==
    CASE t.op = "update" /\ t.key # NoWord -> [t.mine.want EXCEPT !.key = t.key]
      [] t.op = "move" -> [t.mine.want EXCEPT !.parent = t.par]
      [] t.op = "delete" -> [t.mine.want EXCEPT !.live = FALSE]
      [] OTHER -> t.mine.want

\* INSERT of a copy that was merged over nothing; else UPDATE of the columns
\* that differ from what was loaded.
Written(i, base, want) ==
    IF base = NoRow THEN want
    ELSE [f \in DOMAIN want |-> IF want[f] = base[f] THEN tbl[i][f] ELSE want[f]]

\* Mutant of NewId: the id after the greatest one in use.
GreatestPlusOne == CHOOSE n \in 1..(MaxRows + 1) : n \notin Present /\ \A i \in Present : i < n

NewId == made + 1

\* What a flush finds changed: <<id, base, want>>.
Changed(t) ==
    {c \in {<<t.id, t.mine.base, Wanted(t)>>, <<t.par, t.other.base, t.other.want>>} : c[2] # c[3]}

Writes(a) ==
    LET t == txn[a]
        changes == {<<c[1], Written(c[1], c[2], c[3])>> : c \in Changed(t)}
    IN  IF t.op = "erase" THEN {<<t.id, NoRow>>}
        ELSE IF t.op = "create"
          THEN changes \cup {<<NewId, [key |-> t.key, parent |-> t.par, live |-> TRUE]>>}
        ELSE changes

\* A row another transaction has written, or a key it has taken or freed.
Blocked(a) ==
    \E b \in Author \ {a}, w \in Writes(a) : \E v \in txn[b].put :
        v[1] = w[1] \/ (w[2].key # NoWord /\ w[2].key \in {v[2].key, tbl[v[1]].key})

\* The table with these writes in it.
Landed(writes) ==
    [i \in Id |-> IF \E w \in writes : w[1] = i THEN (CHOOSE w \in writes : w[1] = i)[2] ELSE tbl[i]]

\* The rows that have the key of another row this flush writes.
Rivals(a) ==
    {i \in Id : \E w \in Writes(a) : w[1] # i /\ w[2] # NoRow /\ Landed(Writes(a))[i].key = w[2].key}
KeyClash(a) == Rivals(a) # {}

\* UPDATE or DELETE of a row that is gone, or never was there for the session;
\* INSERT of one that is back.
RowClash(a) ==
    IF txn[a].op = "erase" THEN txn[a].mine.base = NoRow
    ELSE \E c \in Changed(txn[a]) : (c[2] = NoRow) # (tbl[c[1]] = NoRow)

\* update, soft_delete and hard_delete invalidate the entry of the row; create
\* has none, and remove_item deletes the row by itself.
Invalidates(op) == op # "create" /\ ~(kind = "item" /\ op = "erase")

Flush(a) ==
    /\ TxnAt(a, "flush") /\ ~Blocked(a) /\ (txn[a].op = "create" => NewId <= MaxRows)
    /\ made' = IF txn[a].op = "create" THEN NewId ELSE made
    /\ IF KeyClash(a) \/ RowClash(a) THEN TxnEnds(a)
       ELSE Becomes(a, [NoTxn EXCEPT !.put = Writes(a),
               !.pc = IF Invalidates(txn[a].op) THEN "drop" ELSE "commit",
               !.id = IF Invalidates(txn[a].op) THEN txn[a].id ELSE 0])
    /\ UNCHANGED <<kind, tbl, cached>>

\* The invalidation, before the commit; an error of Redis is swallowed.
Drop(a, ok) ==
    /\ TxnAt(a, "drop")
    /\ cached' = IF ok THEN [cached EXCEPT ![txn[a].id] = NoRow] ELSE cached
    /\ Becomes(a, [txn[a] EXCEPT !.pc = "commit", !.id = 0])
    /\ UNCHANGED <<kind, tbl, made>>

CommitTxn(a) ==
    /\ TxnAt(a, "commit")
    /\ tbl' = Landed(txn[a].put)
    /\ TxnEnds(a)
    /\ UNCHANGED <<kind, cached, made>>

\* A crash or an exception before the commit.
RollBack(a) ==
    /\ txn[a].pc # "idle" /\ TxnEnds(a)
    /\ UNCHANGED <<kind, tbl, cached, made>>

ExpireEntry(i) ==
    /\ cached[i] # NoRow /\ cached' = [cached EXCEPT ![i] = NoRow]
    /\ UNCHANGED <<kind, tbl, made, txn>>

TxnStep(a) ==
    \/ Fill(a) \/ (TxnAt(a, "check") /\ CheckKey(a, txn[a])) \/ CheckParent(a)
    \/ FillParent(a) \/ CheckChildren(a) \/ FindAgain(a) \/ FillAgain(a) \/ Flush(a)
    \/ Drop(a, TRUE) \/ Drop(a, FALSE) \/ CommitTxn(a) \/ RollBack(a)

CatalogueNext ==
    \/ \E a \in Author :
          \/ \E k \in Word, p \in 0..made : Create(a, k, p)
          \/ \E i \in 1..made :
                \/ \E k \in Word \cup {NoWord} : Update(a, i, k)
                \/ \E p \in 0..made : Move(a, i, p)
                \/ Get(a, i) \/ SoftDelete(a, i) \/ HardDelete(a, i)
          \/ TxnStep(a)
    \/ \E i \in Id : ExpireEntry(i)

-----------------------------------------------------------------------------
(* CategoryService.get_tree, over the rows it reads in one SELECT.         *)

\* Mutant of Roots: a category whose parent is deleted is not made a root.
RootsOnly == {c \in Live : tbl[c].parent = 0}

Roots == {c \in Live : tbl[c].parent \notin Live}

Shown ==
    LET upTo[n \in 0..MaxRows] ==
            IF n = 0 THEN Roots ELSE upTo[n - 1] \cup {c \in Live : tbl[c].parent \in upTo[n - 1]}
    IN  upTo[MaxRows]

\* The active categories above c, c itself among them if it is on a loop.
Above(c) ==
    LET up(S) == {tbl[d].parent : d \in S} \cap Live
        upTo[n \in 1..(MaxRows + 1)] == IF n = 1 THEN up({c}) ELSE upTo[n - 1] \cup up(upTo[n - 1])
    IN  upTo[MaxRows + 1]

-----------------------------------------------------------------------------

CatalogueTypeOK ==
    /\ kind \in Kinds /\ made \in 0..MaxRows
    /\ tbl \in [Id -> Row \cup {NoRow}] /\ cached \in [Id -> Row \cup {NoRow}]
    /\ txn \in [Author -> [pc : {"idle", "fill", "check", "parent", "fill_parent", "children",
                                 "again", "fill_again", "flush", "drop", "commit"},
                           op : {"none", "create", "update", "move", "get", "delete", "erase"},
                           id : 0..MaxRows, key : Word \cup {NoWord}, par : 0..MaxRows,
                           mine : Copy, other : Copy,
                           put : SUBSET (Id \X (Row \cup {NoRow}))]]
=============================================================================
