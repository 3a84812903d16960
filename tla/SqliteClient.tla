---------------------------- MODULE SqliteClient ----------------------------
(***************************************************************************)
(* The SQLite driver of webconfig (db/sqlite): how the operations of       *)
(* DatabaseClient are made of SQL statements, each under a slot of the     *)
(* channel concurrentQueries.                                              *)
(*                                                                         *)
(* A Set is a SELECT, after which the slot is given back, and then an      *)
(* INSERT or an UPDATE under a new slot.  GetSubDocument keeps its slot    *)
(* while it follows a reference with GetRefSubDocument, which takes        *)
(* another one, and so does DeleteRootDocumentVersion while it calls       *)
(* GetRootDocument.  (In the Cassandra driver a Set is one statement;      *)
(* GetSubDocument nests in the same way.)                                  *)
(*                                                                         *)
(* A statement is one step and may fail without effect.  The expiry column *)
(* is left out.                                                            *)
(***************************************************************************)
EXTENDS Integers, FiniteSets

CONSTANTS Clients, Versions, States, Metas,
          RefVersions,  \* versions whose payload is a reference
          Slots,        \* concurrent_queries
          Serial        \* is there one operation at a time on each row?

VARIABLES table, ok,
          op,    \* the operation each client is in
          held   \* length of the channel concurrentQueries

vars == <<table, ok, op, held>>

\* The operations as their callers see them
Abstract == INSTANCE DatabaseClient WITH
    call <- [c \in Clients |-> [name |-> op[c].name, arg |-> op[c].arg]]

ASSUME SqliteAssumption ==
    /\ IsFiniteSet(Clients)
    /\ Versions \subseteq Nat \ {0}
    /\ RefVersions \subseteq Versions
    /\ Slots \in Nat \ {0}
    /\ Serial \in BOOLEAN

\* Where an operation is:
\*   "first", "second"  about to take a slot for its first, second statement
\*   "select", "exec"   in a SELECT, in another statement, with one slot
\*   "nest"             with one slot, about to take another
\*   "nested"           in the SELECT of the operation it called, with two
OpState == [name : Abstract!Names \cup {"none"}, arg : Abstract!Argument,
            pc : {"idle", "first", "select", "nest", "nested", "second",
                  "exec"},
            seen : Abstract!Line]     \* what the SELECT returned

IdleOp == [name |-> "none", arg |-> Abstract!NoArg, pc |-> "idle",
           seen |-> Abstract!NoLine]

SlotsOf(pc) == IF pc \in {"select", "nest", "exec"} THEN 1
               ELSE IF pc = "nested" THEN 2 ELSE 0

RowOf(c) == table[Abstract!TableOf(op[c].name)]

\* Keeps every variable within its type; the channel never has fewer than
\* no elements.
TypeOK == /\ table \in [Abstract!Tables -> Abstract!Line]
          /\ ok \in [Clients -> BOOLEAN]
          /\ op \in [Clients -> OpState]
          /\ held \in Nat

Init == /\ table = [t \in Abstract!Tables |-> Abstract!NoLine]
        /\ ok = [c \in Clients |-> TRUE]
        /\ op = [c \in Clients |-> IdleOp]
        /\ held = 0

-----------------------------------------------------------------------------
\* return to the caller: the deferred functions give the slots back
Return(c, success) ==
    /\ op' = [op EXCEPT ![c] = IdleOp]
    /\ ok' = [ok EXCEPT ![c] = success]
    /\ held' = held - SlotsOf(op[c].pc)

Goto(c, pc) == op' = [op EXCEPT ![c].pc = pc]

Call(c) ==
    /\ op[c].pc = "idle"
    /\ \E n \in Abstract!Names : \E a \in Abstract!Arguments(n) :
         /\ Serial => \A d \in Clients :
                          op[d].pc = "idle"
                            \/ Abstract!TableOf(op[d].name) # Abstract!TableOf(n)
         /\ op' = [op EXCEPT ![c] = [name |-> n, arg |-> a, pc |-> "first",
                                     seen |-> Abstract!NoLine]]
    /\ ok' = [ok EXCEPT ![c] = TRUE]
    /\ UNCHANGED <<table, held>>

\* what an operation does with its first slot
FirstStatement(name) ==
    IF name \in Abstract!Deletes THEN "exec"
    ELSE IF name = "DeleteRootDocumentVersion" THEN "nest" ELSE "select"

\* c.concurrentQueries <- true
Acquire(c) ==
    /\ op[c].pc \in {"first", "nest", "second"}
    /\ held < Slots
    /\ held' = held + 1
    /\ Goto(c, IF op[c].pc = "first" THEN FirstStatement(op[c].name)
               ELSE IF op[c].pc = "nest" THEN "nested" ELSE "exec")
    /\ UNCHANGED <<table, ok>>

\* does GetSubDocument follow a reference?
FollowsReference(c) ==
    /\ op[c].name \in {"GetSubDocument", "SetSubDocument"}
    /\ RowOf(c).version \in RefVersions

\* the SELECT of a Get, or of the Get a Set begins with
Select(c) ==
    /\ op[c].pc = "select"
    /\ \/ /\ FollowsReference(c)
          /\ op' = [op EXCEPT ![c].pc = "nest", ![c].seen = RowOf(c)]
          /\ UNCHANGED <<ok, held>>
       \/ /\ ~FollowsReference(c)
          /\ op[c].name \in Abstract!Reads
          /\ Return(c, TRUE)
       \/ /\ ~FollowsReference(c)
          /\ op[c].name \in Abstract!Upserts
          /\ op' = [op EXCEPT ![c].pc = "second", ![c].seen = RowOf(c)]
          /\ held' = held - 1
          /\ UNCHANGED ok
    /\ UNCHANGED table

\* Mutant: the slot of the outer call is not given back
NestedSelectKeepsSlot(c) ==
    /\ op[c].pc = "nested"
    /\ \/ /\ op[c].name = "GetSubDocument"
          /\ Return(c, TRUE)
       \/ /\ op[c].name = "SetSubDocument"
          /\ Goto(c, "second")
          /\ held' = held - 1
          /\ UNCHANGED ok
       \/ /\ op[c].name = "DeleteRootDocumentVersion"
          /\ RowOf(c).exists
          /\ Goto(c, "exec")
          /\ held' = held - 1
          /\ UNCHANGED ok
       \/ /\ op[c].name = "DeleteRootDocumentVersion"
          /\ ~RowOf(c).exists
          /\ Return(c, TRUE)
    /\ UNCHANGED table

\* Mutant: GetSubDocument gives its slot back before it follows the
\* reference, and once more when it returns
NestedSelectFreesTwice(c) ==
    /\ op[c].pc = "nested"
    /\ \/ /\ op[c].name = "GetSubDocument"
          /\ op' = [op EXCEPT ![c] = IdleOp]
          /\ held' = held - 3
       \/ /\ op[c].name = "SetSubDocument"
          /\ Goto(c, "second")
          /\ held' = held - 3
       \/ /\ op[c].name = "DeleteRootDocumentVersion"
          /\ Goto(c, "exec")
          /\ held' = held - 1
    /\ UNCHANGED <<table, ok>>

\* the SELECT of GetRefSubDocument, whether it finds the reference or not, or
\* of the GetRootDocument in DeleteRootDocumentVersion
NestedSelect(c) ==
    /\ op[c].pc = "nested"
    /\ \/ /\ op[c].name = "GetSubDocument"
          /\ Return(c, TRUE)
       \/ /\ op[c].name = "SetSubDocument"
          /\ Goto(c, "second")
          /\ held' = held - 2
          /\ UNCHANGED ok
       \/ /\ op[c].name = "DeleteRootDocumentVersion"
          /\ RowOf(c).exists
          /\ Goto(c, "exec")
          /\ held' = held - 1
          /\ UNCHANGED ok
       \/ /\ op[c].name = "DeleteRootDocumentVersion"
          /\ ~RowOf(c).exists
          /\ Return(c, TRUE)
    /\ UNCHANGED table

-----------------------------------------------------------------------------
(* INSERT, UPDATE and DELETE.  An INSERT of a row that exists violates the *)
(* primary key; an UPDATE of a row that is gone changes nothing and        *)
(* succeeds.                                                               *)

\* Mutant: the UPDATE names every column
UpdatedAllColumns(c) ==
    [exists |-> TRUE, version |-> op[c].arg.version, other |-> op[c].arg.other]

\* The row that an UPDATE leaves.  updateRootDocument names every column and
\* writes what SetRootDocument made of the row it had read.
Updated(c) ==
    IF op[c].name = "SetRootDocument"
    THEN Abstract!Upsert(op[c].seen, op[c].arg)
    ELSE Abstract!Upsert(RowOf(c), op[c].arg)

\* updateRefSubDocument names a column, cpe_mac, that reference_document does
\* not have: the statement cannot be prepared.
Prepared(c) == ~(op[c].name = "SetRefSubDocument" /\ op[c].seen.exists)

Write(c, line) ==
    /\ table' = [table EXCEPT ![Abstract!TableOf(op[c].name)] = line]
    /\ Return(c, TRUE)

Insert(c) ==
    /\ op[c].name \in Abstract!Upserts /\ ~op[c].seen.exists
    /\ ~RowOf(c).exists
    /\ Write(c, Abstract!Upsert(Abstract!NoLine, op[c].arg))

Update(c) ==
    /\ op[c].name \in Abstract!Upserts /\ op[c].seen.exists
    /\ Prepared(c)
    /\ Write(c, IF RowOf(c).exists THEN Updated(c) ELSE RowOf(c))

Delete(c) ==
    /\ op[c].name \in Abstract!Deletes
    /\ Write(c, Abstract!NoLine)

UpdateVersionNull(c) ==
    /\ op[c].name = "DeleteRootDocumentVersion"
    /\ Write(c, [RowOf(c) EXCEPT !.version = Abstract!NullVersion])

Exec(c) == /\ op[c].pc = "exec"
           /\ Insert(c) \/ Update(c) \/ Delete(c) \/ UpdateVersionNull(c)

\* Any statement may fail: the database is locked, the constraint is
\* violated, the statement cannot be prepared.
Fails(c) == /\ op[c].pc \in {"select", "nested", "exec"}
            /\ Return(c, FALSE)
            /\ UNCHANGED table

-----------------------------------------------------------------------------
Step(c) == Acquire(c) \/ Select(c) \/ NestedSelect(c) \/ Exec(c) \/ Fails(c)

Next == \E c \in Clients : Call(c) \/ Step(c)

Spec == Init /\ [][Next]_vars

\* Statements end, and a goroutine that waits for a slot gets one if slots
\* become free again and again: senders on a channel are served in order.
FairSpec == /\ Spec
            /\ \A c \in Clients :
                 /\ WF_vars(Select(c) \/ NestedSelect(c) \/ Exec(c) \/ Fails(c))
                 /\ SF_vars(Acquire(c))

-----------------------------------------------------------------------------
(* Properties                                                              *)

\* What an operation keeps between its statements: where it can be, and that
\* what a Set has read is still what the row is, if operations on one row do
\* not overlap.
OpInv(c) ==
    /\ op[c].pc = "idle" <=> op[c].name = "none"
    /\ op[c].name = "none" => op[c].arg = Abstract!NoArg
    /\ op[c].pc = "select" => op[c].name \in Abstract!Reads \cup Abstract!Upserts
    /\ op[c].pc = "second" => op[c].name \in Abstract!Upserts
    /\ op[c].pc \in {"nest", "nested"} =>
           op[c].name \in {"GetSubDocument", "SetSubDocument",
                          "DeleteRootDocumentVersion"}
    /\ op[c].pc = "exec" => op[c].name \notin Abstract!Reads
    /\ Serial /\ op[c].pc \in {"nest", "nested", "second", "exec"}
         /\ op[c].name \in Abstract!Upserts => op[c].seen = RowOf(c)

\* The invariant of the operations: each is where its code can be, what a Set
\* read before it gave its slot back is still the row when it comes to write,
\* one operation at a time is on a row, and a row that does not exist has no
\* columns left over.
DriverInv ==
    /\ TypeOK
    /\ \A t \in Abstract!Tables : ~table[t].exists => table[t] = Abstract!NoLine
    /\ \A c \in Clients : OpInv(c)
    /\ Serial => \A c, d \in Clients :
           c # d /\ op[c].pc # "idle" /\ op[d].pc # "idle"
             => Abstract!TableOf(op[c].name) # Abstract!TableOf(op[d].name)

Holding(n) == {c \in Clients : SlotsOf(op[c].pc) = n}

\* The slots taken of concurrentQueries are those of the operations under
\* way, also of the ones that called another, and no more than there are.
SlotsAccounted == /\ held = Cardinality(Holding(1)) + 2 * Cardinality(Holding(2))
                  /\ held <= Slots

\* Whoever waits for a slot finds one, or somebody is in a statement and
\* will give one back: with fewer clients than slots the nested calls cannot
\* all wait for each other.
SlotInReach ==
    (\E c \in Clients : op[c].pc \in {"first", "nest", "second"})
      => \/ held < Slots
         \/ \E d \in Clients : op[d].pc \in {"select", "nested", "exec"}

\* With one operation at a time on each row the driver does what the
\* interface promises, although its Sets are two statements.
ImplementsInterface == Abstract!Spec

\* "Any driver that implements the interface should work": every operation
\* on the tables ends.
EveryQueryEnds == \A c \in Clients : op[c].pc # "idle" ~> op[c].pc = "idle"
=============================================================================
