----------------------------- MODULE References -----------------------------
(***************************************************************************)
(* ReservationService.generate_reference and the INSERT that uses it: the  *)
(* greatest number of the year among the rows, and among the numbers this  *)
(* process has given out before, plus one.  The numbers given out are a    *)
(* set in the memory of the process, shared by its threads without a lock; *)
(* the rows are those of every tenant, and a number is unique among them.  *)
(* The year is fixed.                                                      *)
(***************************************************************************)
EXTENDS Integers, FiniteSets

CONSTANTS
    Maker,          \* threads creating reservations
    ProcessOf,      \* ProcessOf[m]: the process of thread m
    LastNumber      \* 9999 in the code

Process == {ProcessOf[m] : m \in Maker}

ASSUME ReferenceAssumption == LastNumber \in Nat

VARIABLES
    numbers,        \* numbers of the committed reservations of the year
    given,          \* given[p]: _generated_references of process p
    make            \* the creation of each thread

nvars == <<numbers, given, make>>

NoMake == [pc |-> "idle", most |-> 0, saw |-> {}, ref |-> 0]

ReferencesInit ==
    /\ numbers = {} /\ given = [p \in Process |-> {}] /\ make = [m \in Maker |-> NoMake]

MakeAt(m, pc) == make[m].pc = pc
MakeEnds(m) == make' = [make EXCEPT ![m] = NoMake]
Greatest(S) == IF S = {} THEN 0 ELSE CHOOSE n \in S : \A k \in S : k <= n

\* The query of the rows of the year.
ScanRows(m) ==
    /\ MakeAt(m, "idle")
    /\ make' = [make EXCEPT ![m] = [NoMake EXCEPT !.pc = "look", !.most = Greatest(numbers)]]
    /\ UNCHANGED <<numbers, given>>

\* The loop over the set begins,
StartLoop(m) ==
    /\ MakeAt(m, "look")
    /\ make' = [make EXCEPT ![m] = [make[m] EXCEPT !.pc = "loop", !.saw = given[ProcessOf[m]]]]
    /\ UNCHANGED <<numbers, given>>

\* Mutant of LoopSet: the counter has no last number.
LoopUnbounded(m) ==
    /\ MakeAt(m, "loop")
    /\ make' = [make EXCEPT ![m] = [make[m] EXCEPT
          !.pc = "add", !.ref = Greatest({make[m].most} \cup make[m].saw) + 1]]
    /\ UNCHANGED <<numbers, given>>

\* ... and raises when another thread adds to the set before its last round: a
\* 500, as is a number too great.
LoopSet(m) ==
    LET next == Greatest({make[m].most} \cup make[m].saw) + 1 IN
    /\ MakeAt(m, "loop")
    /\ \/ /\ next <= LastNumber
          /\ make' = [make EXCEPT ![m] = [make[m] EXCEPT !.pc = "add", !.ref = next]]
       \/ /\ next > LastNumber \/ make[m].saw # given[ProcessOf[m]]
          /\ MakeEnds(m)
    /\ UNCHANGED <<numbers, given>>

AddReference(m) ==
    LET p == ProcessOf[m] IN
    /\ MakeAt(m, "add")
    /\ given' = [given EXCEPT ![p] = given[p] \cup {make[m].ref}]
    /\ make' = [make EXCEPT ![m] = [make[m] EXCEPT !.pc = "insert"]]
    /\ UNCHANGED numbers

\* An INSERT waits for the transaction that holds its number, and fails when
\* that one commits; any later refusal (stock, customer) ends here as well.
Clashes(m) == make[m].ref \in numbers

InsertRow(m) ==
    /\ MakeAt(m, "insert")
    /\ \A o \in Maker : MakeAt(o, "commit") => make[o].ref # make[m].ref
    /\ IF Clashes(m) THEN MakeEnds(m)
       ELSE make' = [make EXCEPT ![m] = [make[m] EXCEPT !.pc = "commit"]]
    /\ UNCHANGED <<numbers, given>>

CommitRow(m) ==
    /\ MakeAt(m, "commit")
    /\ numbers' = numbers \cup {make[m].ref}
    /\ MakeEnds(m)
    /\ UNCHANGED given

\* Refused for another reason, or rolled back: the number stays in the memory.
GiveUp(m) ==
    /\ make[m].pc \in {"insert", "commit"}
    /\ MakeEnds(m)
    /\ UNCHANGED <<numbers, given>>

\* A process that starts again has an empty set.
Restart(p) ==
    /\ given' = [given EXCEPT ![p] = {}]
    /\ make' = [m \in Maker |-> IF ProcessOf[m] = p THEN NoMake ELSE make[m]]
    /\ UNCHANGED numbers

ReferencesNext ==
    \/ \E m \in Maker : \/ ScanRows(m) \/ StartLoop(m) \/ LoopSet(m) \/ AddReference(m)
                        \/ InsertRow(m) \/ CommitRow(m) \/ GiveUp(m)
    \/ \E p \in Process : Restart(p)

ReferencesTypeOK ==
    /\ numbers \subseteq 1..LastNumber /\ given \in [Process -> SUBSET (1..LastNumber)]
    /\ make \in [Maker -> [pc : {"idle", "look", "loop", "add", "insert", "commit"}, most : 0..LastNumber,
                           saw : SUBSET (1..LastNumber), ref : 0..LastNumber]]
=============================================================================
