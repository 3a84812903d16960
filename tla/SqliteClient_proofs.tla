------------------------ MODULE SqliteClient_proofs ------------------------
(***************************************************************************)
(* Proofs about SqliteClient, for any number of clients and slots: the     *)
(* slots of concurrentQueries are accounted for, fewer clients than slots  *)
(* cannot block each other, and with one operation at a time on each row   *)
(* the driver implements DatabaseClient.                                   *)
(***************************************************************************)
EXTENDS SqliteClient, FiniteSetTheorems, TLAPS

-----------------------------------------------------------------------------
(* Types                                                                   *)

\* What the operators on rows return.
LEMMA LineTypes ==
    /\ Abstract!NoLine \in Abstract!Line
    /\ Abstract!NoArg \in Abstract!Argument
    /\ \A line \in Abstract!Line, arg \in Abstract!Argument :
           Abstract!Upsert(line, arg) \in Abstract!Line
    /\ \A line \in Abstract!Line :
           [line EXCEPT !.version = Abstract!NullVersion] \in Abstract!Line
    /\ \A n : Abstract!TableOf(n) \in Abstract!Tables
    /\ \A n \in Abstract!Names : Abstract!Arguments(n) \subseteq Abstract!Argument
<1>1. Abstract!NoLine \in Abstract!Line /\ Abstract!NoArg \in Abstract!Argument
  BY DEF Abstract!NoLine, Abstract!NoArg, Abstract!Line, Abstract!Argument,
         Abstract!Others, Abstract!NullOther, Abstract!NullVersion
<1>2. ASSUME NEW line \in Abstract!Line, NEW arg \in Abstract!Argument
      PROVE  Abstract!Upsert(line, arg) \in Abstract!Line
  BY DEF Abstract!Upsert, Abstract!Line, Abstract!Argument
<1>3. ASSUME NEW line \in Abstract!Line
      PROVE  [line EXCEPT !.version = Abstract!NullVersion] \in Abstract!Line
  BY DEF Abstract!Line, Abstract!NullVersion
<1>4. ASSUME NEW n
      PROVE  Abstract!TableOf(n) \in Abstract!Tables
  BY DEF Abstract!TableOf, Abstract!Tables
<1>5. ASSUME NEW n \in Abstract!Names, NEW a \in Abstract!Arguments(n)
      PROVE  a \in Abstract!Argument
  BY <1>1 DEF Abstract!Arguments, Abstract!Argument, Abstract!Others,
              Abstract!NullVersion, Abstract!NullOther
<1> QED
  BY <1>1, <1>2, <1>3, <1>4, <1>5

\* The idle operation has its type.
LEMMA IdleType == IdleOp \in OpState
  BY LineTypes DEF IdleOp, OpState

\* Every step but a call's waiting is a step of one client: it changes the
\* state of that client's operation, and the slots by what the operation held
\* before and holds after.
SlotStep(c) ==
    /\ \E new \in OpState : op' = [op EXCEPT ![c] = new]
    /\ held' = held - SlotsOf(op[c].pc) + SlotsOf(op'[c].pc)
    /\ held' <= held \/ (held < Slots /\ held' = held + 1)
    /\ table' \in [Abstract!Tables -> Abstract!Line]
    /\ ok' \in [Clients -> BOOLEAN]

\* A return leaves the client idle and gives back what it held.
LEMMA ReturnIsSlotStep ==
    ASSUME TypeOK, NEW c \in Clients, NEW s \in BOOLEAN, Return(c, s),
           table' \in [Abstract!Tables -> Abstract!Line]
    PROVE  SlotStep(c)
<1>1. op' = [op EXCEPT ![c] = IdleOp] /\ op'[c] = IdleOp
  BY DEF Return, TypeOK
<1>2. \E new \in OpState : op' = [op EXCEPT ![c] = new]
  BY <1>1, IdleType
<1>3. held' = held - SlotsOf(op[c].pc) + SlotsOf(op'[c].pc) /\ held' <= held
  BY <1>1 DEF Return, SlotsOf, IdleOp, TypeOK
<1>4. ok' \in [Clients -> BOOLEAN]
  BY DEF Return, TypeOK
<1> QED
  BY <1>2, <1>3, <1>4 DEF SlotStep

\* A change of place within an operation.
LEMMA GotoIsSlotStep ==
    ASSUME TypeOK, NEW c \in Clients,
           NEW pc \in {"select", "nest", "nested", "second", "exec"},
           NEW seen \in Abstract!Line,
           op' = [op EXCEPT ![c] = [op[c] EXCEPT !.pc = pc, !.seen = seen]],
           held' = held - SlotsOf(op[c].pc) + SlotsOf(pc),
           held' <= held \/ (held < Slots /\ held' = held + 1),
           UNCHANGED <<table, ok>>
    PROVE  SlotStep(c)
<1>1. [op[c] EXCEPT !.pc = pc, !.seen = seen] \in OpState
  BY DEF TypeOK, OpState
<1>2. op'[c].pc = pc
  BY DEF TypeOK, OpState
<1>3. \E new \in OpState : op' = [op EXCEPT ![c] = new]
  BY <1>1
<1> QED
  BY <1>2, <1>3 DEF SlotStep, TypeOK

\* Every action is such a step.
LEMMA EveryStepIsSlotStep ==
    ASSUME TypeOK, NEW c \in Clients, OpInv(c), Call(c) \/ Step(c)
    PROVE  SlotStep(c)
<1>0. op[c] \in OpState /\ RowOf(c) \in Abstract!Line /\ held \in Nat
  BY LineTypes DEF TypeOK, RowOf
<1>1. CASE Call(c)
  <2>0. PICK n \in Abstract!Names : \E a \in Abstract!Arguments(n) :
            op' = [op EXCEPT ![c] = [name |-> n, arg |-> a, pc |-> "first",
                                     seen |-> Abstract!NoLine]]
    BY <1>1 DEF Call
  <2>1. PICK a \in Abstract!Arguments(n) :
            op' = [op EXCEPT ![c] = [name |-> n, arg |-> a, pc |-> "first",
                                     seen |-> Abstract!NoLine]]
    BY <2>0
  <2>2. [name |-> n, arg |-> a, pc |-> "first", seen |-> Abstract!NoLine]
          \in OpState
    BY <2>1, LineTypes DEF OpState
  <2>3. op[c].pc = "idle" /\ op'[c].pc = "first" /\ held' = held
    BY <1>1, <2>1 DEF Call, TypeOK
  <2>5. \E new \in OpState : op' = [op EXCEPT ![c] = new]
    BY <2>1, <2>2
  <2>6. held' = held - SlotsOf(op[c].pc) + SlotsOf(op'[c].pc) /\ held' <= held
    BY <1>0, <2>3 DEF SlotsOf
  <2>4. ok' \in [Clients -> BOOLEAN] /\ table' = table
    BY <1>1 DEF Call, TypeOK
  <2> QED
    BY <2>4, <2>5, <2>6 DEF SlotStep, TypeOK
<1>2. CASE Acquire(c)
  <2> DEFINE pc == IF op[c].pc = "first" THEN FirstStatement(op[c].name)
                   ELSE IF op[c].pc = "nest" THEN "nested" ELSE "exec"
  <2>1. op' = [op EXCEPT ![c].pc = pc] /\ held' = held + 1 /\ held < Slots
          /\ UNCHANGED <<table, ok>>
    BY <1>2 DEF Acquire, Goto
  <2>2. \/ op[c].pc = "nest" /\ pc = "nested"
        \/ op[c].pc \in {"first", "second"} /\ pc \in {"select", "nest", "exec"}
    BY <1>2 DEF Acquire, FirstStatement
  <2> HIDE DEF pc
  <2>3. held' = held - SlotsOf(op[c].pc) + SlotsOf(pc)
    BY <1>0, <2>1, <2>2 DEF SlotsOf
  <2>4. op' = [op EXCEPT ![c] = [op[c] EXCEPT !.pc = pc, !.seen = op[c].seen]]
    BY <1>0, <2>1 DEF TypeOK, OpState
  <2>5. op[c].seen \in Abstract!Line
    BY <1>0 DEF OpState
  <2> QED
    BY <2>1, <2>2, <2>3, <2>4, <2>5, GotoIsSlotStep
<1>3. CASE Select(c)
  <2>1. op[c].pc = "select" /\ UNCHANGED table
    BY <1>3 DEF Select
  <2>2. CASE Return(c, TRUE)
    BY <2>1, <2>2, ReturnIsSlotStep DEF TypeOK
  <2>3. CASE /\ op' = [op EXCEPT ![c].pc = "nest", ![c].seen = RowOf(c)]
             /\ UNCHANGED <<ok, held>>
    <3>1. op' = [op EXCEPT ![c] = [op[c] EXCEPT !.pc = "nest", !.seen = RowOf(c)]]
      BY <1>0, <2>3 DEF TypeOK, OpState
    <3>2. held' = held - SlotsOf(op[c].pc) + SlotsOf("nest") /\ held' <= held
      BY <1>0, <2>1, <2>3 DEF SlotsOf
    <3> QED
      BY <1>0, <2>1, <2>3, <3>1, <3>2, GotoIsSlotStep
  <2>4. CASE /\ op' = [op EXCEPT ![c].pc = "second", ![c].seen = RowOf(c)]
             /\ held' = held - 1
             /\ UNCHANGED ok
    <3>1. op' = [op EXCEPT ![c] = [op[c] EXCEPT !.pc = "second", !.seen = RowOf(c)]]
      BY <1>0, <2>4 DEF TypeOK, OpState
    <3>2. held' = held - SlotsOf(op[c].pc) + SlotsOf("second") /\ held' <= held
      BY <1>0, <2>1, <2>4 DEF SlotsOf
    <3> QED
      BY <1>0, <2>1, <2>4, <3>1, <3>2, GotoIsSlotStep
  <2> QED
    BY <1>3, <2>2, <2>3, <2>4 DEF Select
<1>4. CASE NestedSelect(c)
  <2>1. op[c].pc = "nested" /\ UNCHANGED table /\ op[c].seen \in Abstract!Line
    BY <1>0, <1>4 DEF NestedSelect, OpState
  <2>2. CASE Return(c, TRUE)
    BY <2>1, <2>2, ReturnIsSlotStep DEF TypeOK
  <2>3. CASE Goto(c, "second") /\ held' = held - 2 /\ UNCHANGED ok
    <3>1. op' = [op EXCEPT ![c] =
                    [op[c] EXCEPT !.pc = "second", !.seen = op[c].seen]]
      BY <1>0, <2>3 DEF TypeOK, OpState, Goto
    <3>2. held' = held - SlotsOf(op[c].pc) + SlotsOf("second") /\ held' <= held
      BY <1>0, <2>1, <2>3 DEF SlotsOf
    <3> QED
      BY <2>1, <2>3, <3>1, <3>2, GotoIsSlotStep
  <2>4. CASE Goto(c, "exec") /\ held' = held - 1 /\ UNCHANGED ok
    <3>1. op' = [op EXCEPT ![c] =
                    [op[c] EXCEPT !.pc = "exec", !.seen = op[c].seen]]
      BY <1>0, <2>4 DEF TypeOK, OpState, Goto
    <3>2. held' = held - SlotsOf(op[c].pc) + SlotsOf("exec") /\ held' <= held
      BY <1>0, <2>1, <2>4 DEF SlotsOf
    <3> QED
      BY <2>1, <2>4, <3>1, <3>2, GotoIsSlotStep
  <2> QED
    BY <1>4, <2>2, <2>3, <2>4 DEF NestedSelect
<1>5. CASE Exec(c)
  <2>1. \A line \in Abstract!Line : Write(c, line) => SlotStep(c)
    BY ReturnIsSlotStep DEF Write, TypeOK
  <2>2. op[c].arg \in Abstract!Argument /\ op[c].seen \in Abstract!Line
    BY <1>0 DEF OpState
  <2>3. Updated(c) \in Abstract!Line
    BY <1>0, <2>2, LineTypes DEF Updated
  <2> QED
    BY <1>0, <1>5, <2>1, <2>2, <2>3, LineTypes
    DEF Exec, Insert, Update, Delete, UpdateVersionNull
<1>6. CASE Fails(c)
  BY <1>6, ReturnIsSlotStep DEF Fails, TypeOK
<1> QED
  BY <1>1, <1>2, <1>3, <1>4, <1>5, <1>6 DEF Step

-----------------------------------------------------------------------------
(* Slots                                                                   *)

\* How the number of clients with n slots changes when one client goes from
\* having a to having b.
Is(a, n) == IF a = n THEN 1 ELSE 0

\* A step of one client changes only its own place in the sets that are
\* counted.
LEMMA HoldingChange ==
    ASSUME TypeOK, NEW c \in Clients, SlotStep(c), NEW n \in Nat
    PROVE  /\ Cardinality(Holding(n)) \in Nat
           /\ Cardinality(Holding(n)') =
                Cardinality(Holding(n)) - Is(SlotsOf(op[c].pc), n)
                  + Is(SlotsOf(op'[c].pc), n)
<1> USE SqliteAssumption
<1>1. IsFiniteSet(Holding(n)) /\ Cardinality(Holding(n)) \in Nat
  BY FS_Subset, FS_CardinalityType DEF Holding
<1>2. \A d \in Clients : d # c => op'[d] = op[d]
  BY DEF SlotStep, TypeOK
<1>3. CASE SlotsOf(op[c].pc) = n /\ SlotsOf(op'[c].pc) = n
  <2>1. Holding(n)' = Holding(n)
    BY <1>2, <1>3 DEF Holding
  <2> QED
    BY <1>1, <1>3, <2>1 DEF Is
<1>4. CASE SlotsOf(op[c].pc) # n /\ SlotsOf(op'[c].pc) # n
  <2>1. Holding(n)' = Holding(n)
    BY <1>2, <1>4 DEF Holding
  <2> QED
    BY <1>1, <1>4, <2>1 DEF Is
<1>5. CASE SlotsOf(op[c].pc) = n /\ SlotsOf(op'[c].pc) # n
  <2>1. Holding(n)' = Holding(n) \ {c} /\ c \in Holding(n)
    BY <1>2, <1>5 DEF Holding
  <2>2. Cardinality(Holding(n)') = Cardinality(Holding(n)) - 1
    BY <1>1, <2>1, FS_RemoveElement
  <2> QED
    BY <1>1, <1>5, <2>2 DEF Is
<1>6. CASE SlotsOf(op[c].pc) # n /\ SlotsOf(op'[c].pc) = n
  <2>1. Holding(n)' = Holding(n) \cup {c} /\ c \notin Holding(n)
    BY <1>2, <1>6 DEF Holding
  <2>2. Cardinality(Holding(n)') = Cardinality(Holding(n)) + 1
    BY <1>1, <2>1, FS_AddElement
  <2> QED
    BY <1>1, <1>6, <2>2 DEF Is
<1> QED
  BY <1>3, <1>4, <1>5, <1>6

\* Hence the slots stay accounted for, and the types are kept.
LEMMA SlotsKept ==
    ASSUME TypeOK, SlotsAccounted, NEW c \in Clients, SlotStep(c)
    PROVE  TypeOK' /\ SlotsAccounted'
<1> USE SqliteAssumption
<1> DEFINE a == SlotsOf(op[c].pc)
           b == SlotsOf(op'[c].pc)
           one == Cardinality(Holding(1))
           two == Cardinality(Holding(2))
<1>1. /\ one \in Nat /\ two \in Nat
      /\ one' = one - Is(a, 1) + Is(b, 1)
      /\ two' = two - Is(a, 2) + Is(b, 2)
  BY HoldingChange
<1>2. a = Is(a, 1) + 2 * Is(a, 2) /\ b = Is(b, 1) + 2 * Is(b, 2)
  BY DEF SlotsOf, Is
<1>3. Is(a, 1) \in Nat /\ Is(a, 2) \in Nat /\ Is(b, 1) \in Nat /\ Is(b, 2) \in Nat
  BY DEF Is
<1>4. held = one + 2 * two /\ held <= Slots /\ held \in Nat
  BY DEF SlotsAccounted, TypeOK
<1>5. held' = held - a + b /\ (held' <= held \/ (held < Slots /\ held' = held + 1))
  BY DEF SlotStep
<1> HIDE DEF a, b, one, two
<1>6. held' = one' + 2 * two' /\ held' <= Slots
  BY <1>1, <1>2, <1>3, <1>4, <1>5
<1>7. one' \in Nat /\ two' \in Nat
  <2>1. IsFiniteSet(Holding(1)') /\ IsFiniteSet(Holding(2)')
    BY FS_Subset DEF Holding
  <2> QED
    BY <2>1, FS_CardinalityType DEF one, two
<1>8. held' \in Nat
  <2>1. \A x, y \in Nat : x + 2 * y \in Nat
    OBVIOUS
  <2>2. one' + 2 * two' \in Nat
    BY <1>7, <2>1
  <2> QED
    BY <1>6, <2>2
<1>9. op' \in [Clients -> OpState]
  BY DEF SlotStep, TypeOK
<1>10. SlotsAccounted'
  BY <1>6 DEF SlotsAccounted, one, two
<1> QED
  BY <1>8, <1>9, <1>10 DEF TypeOK, SlotStep

-----------------------------------------------------------------------------
(* Operations                                                              *)

USE DEF RowOf

\* The names and their tables.
LEMMA NameFacts ==
    /\ "none" \notin Abstract!Names
    /\ Abstract!Names = Abstract!Reads \cup Abstract!Upserts
           \cup Abstract!Deletes \cup {"DeleteRootDocumentVersion"}
    /\ Abstract!Reads \cap Abstract!Upserts = {}
    /\ Abstract!Reads \cap Abstract!Deletes = {}
    /\ Abstract!Upserts \cap Abstract!Deletes = {}
    /\ "DeleteRootDocumentVersion" \notin
           Abstract!Reads \cup Abstract!Upserts \cup Abstract!Deletes
    /\ "GetSubDocument" \in Abstract!Reads
    /\ "SetSubDocument" \in Abstract!Upserts
  BY DEF Abstract!Names, Abstract!Reads, Abstract!Upserts, Abstract!Deletes

\* A step of client c: its operation returns, goes on, or begins, and only
\* its own row may change.
Returned(c)  == op' = [op EXCEPT ![c] = IdleOp]
Went(c, pc, seen) ==
    op' = [op EXCEPT ![c] = [op[c] EXCEPT !.pc = pc, !.seen = seen]]
OtherRowsKept(c) ==
    \A t \in Abstract!Tables :
        t # Abstract!TableOf(op[c].name) => table'[t] = table[t]

\* What another client's operation keeps.
LEMMA OthersKeep ==
    ASSUME DriverInv, NEW c \in Clients, NEW d \in Clients, c # d,
           op'[d] = op[d], op[c].pc # "idle", OtherRowsKept(c)
    PROVE  OpInv(d)'
<1>1. OpInv(d)
  BY DEF DriverInv
<1>2. Serial /\ op[d].pc # "idle" => RowOf(d)' = RowOf(d)
  BY LineTypes DEF DriverInv, OtherRowsKept
<1> QED
  BY <1>1, <1>2 DEF OpInv

\* Rows that do not exist are empty, and stay so.
LinesOK == \A t \in Abstract!Tables :
               ~table[t].exists => table[t] = Abstract!NoLine
Serialized == Serial => \A c, d \in Clients :
    c # d /\ op[c].pc # "idle" /\ op[d].pc # "idle"
      => Abstract!TableOf(op[c].name) # Abstract!TableOf(op[d].name)

\* An operation that returns.
LEMMA ReturnKeeps ==
    ASSUME DriverInv, NEW c \in Clients, op[c].pc # "idle", Returned(c),
           OtherRowsKept(c)
    PROVE  (\A d \in Clients : OpInv(d))' /\ Serialized'
<1>1. op'[c] = IdleOp /\ \A d \in Clients : d # c => op'[d] = op[d]
  BY DEF Returned, DriverInv, TypeOK
<1>2. OpInv(c)'
  BY <1>1 DEF OpInv, IdleOp
<1>3. \A d \in Clients : OpInv(d)'
  BY <1>1, <1>2, OthersKeep
<1>4. Serialized'
  BY <1>1 DEF Serialized, DriverInv, IdleOp
<1> QED
  BY <1>3, <1>4

\* An operation that goes on: the tables are as they were.
LEMMA GotoKeeps ==
    ASSUME DriverInv, NEW c \in Clients, op[c].pc # "idle",
           NEW pc \in {"select", "nest", "nested", "second", "exec"},
           NEW seen \in Abstract!Line, Went(c, pc, seen), UNCHANGED table,
           pc = "select" => op[c].name \in Abstract!Reads \cup Abstract!Upserts,
           pc = "second" => op[c].name \in Abstract!Upserts,
           pc \in {"nest", "nested"} =>
               op[c].name \in {"GetSubDocument", "SetSubDocument",
                              "DeleteRootDocumentVersion"},
           pc = "exec" => op[c].name \notin Abstract!Reads,
           Serial /\ pc # "select" /\ op[c].name \in Abstract!Upserts
             => seen = RowOf(c)
    PROVE  (\A d \in Clients : OpInv(d))' /\ Serialized'
<1>1. /\ op'[c].pc = pc /\ op'[c].seen = seen
      /\ op'[c].name = op[c].name /\ op'[c].arg = op[c].arg
      /\ \A d \in Clients : d # c => op'[d] = op[d]
  BY DEF Went, DriverInv, TypeOK, OpState
<1>2. OpInv(c)
  BY DEF DriverInv
<1>3. OpInv(c)'
  BY <1>1, <1>2 DEF OpInv
<1>4. \A d \in Clients : OpInv(d)'
  BY <1>1, <1>3, OthersKeep DEF OtherRowsKept
<1>5. Serialized'
  BY <1>1 DEF Serialized, DriverInv
<1> QED
  BY <1>4, <1>5

\* A call begins on a row that nobody uses, if calls are serialized.
LEMMA CallKeeps ==
    ASSUME DriverInv, NEW c \in Clients, Call(c)
    PROVE  (\A d \in Clients : OpInv(d))' /\ Serialized'
<1>0. PICK n \in Abstract!Names : \E a \in Abstract!Arguments(n) :
          /\ Serial => \A d \in Clients :
                 op[d].pc = "idle"
                   \/ Abstract!TableOf(op[d].name) # Abstract!TableOf(n)
          /\ op' = [op EXCEPT ![c] = [name |-> n, arg |-> a, pc |-> "first",
                                      seen |-> Abstract!NoLine]]
  BY DEF Call
<1>1. /\ op'[c].pc = "first" /\ op'[c].name = n
      /\ \A d \in Clients : d # c => op'[d] = op[d]
      /\ UNCHANGED table
  BY <1>0 DEF Call, DriverInv, TypeOK
<1>2. OpInv(c)'
  BY <1>1, NameFacts DEF OpInv
<1>3. ASSUME NEW d \in Clients, d # c
      PROVE  OpInv(d)'
  BY <1>1, <1>3 DEF OpInv, DriverInv
<1>4. Serialized'
  BY <1>0, <1>1 DEF Serialized, DriverInv
<1> QED
  BY <1>2, <1>3, <1>4

\* What Write does.
LEMMA WriteFacts ==
    ASSUME DriverInv, NEW c \in Clients, NEW line \in Abstract!Line,
           ~line.exists => line = Abstract!NoLine, Write(c, line)
    PROVE  Returned(c) /\ OtherRowsKept(c) /\ LinesOK'
<1>1. table \in [Abstract!Tables -> Abstract!Line]
  BY DEF DriverInv, TypeOK
<1> QED
  BY <1>1, LineTypes
  DEF DriverInv, LinesOK, Write, Return, Returned, OtherRowsKept

\* The rows the four statements leave, and that they are rows.
LEMMA ExecFacts ==
    ASSUME DriverInv, NEW c \in Clients, Exec(c)
    PROVE  \E line \in Abstract!Line :
               (~line.exists => line = Abstract!NoLine) /\ Write(c, line)
<1>1. /\ op[c].arg \in Abstract!Argument /\ op[c].seen \in Abstract!Line
      /\ RowOf(c) \in Abstract!Line
      /\ ~RowOf(c).exists => RowOf(c) = Abstract!NoLine
  BY LineTypes DEF DriverInv, TypeOK, OpState
<1>2. \A line \in Abstract!Line : Abstract!Upsert(line, op[c].arg).exists
  BY DEF Abstract!Upsert
<1>3. CASE Insert(c)
  BY <1>1, <1>2, <1>3, LineTypes DEF Insert
<1>4. CASE Update(c)
  <2>1. Updated(c) \in Abstract!Line /\ Updated(c).exists
    BY <1>1, <1>2, LineTypes DEF Updated
  <2>2. CASE RowOf(c).exists
    BY <1>4, <2>1, <2>2 DEF Update
  <2>3. CASE ~RowOf(c).exists
    BY <1>1, <1>4, <2>3 DEF Update
  <2> QED
    BY <2>2, <2>3
<1>5. CASE Delete(c)
  BY <1>5, LineTypes DEF Delete
<1>6. CASE UpdateVersionNull(c)
  <2>1. [RowOf(c) EXCEPT !.version = Abstract!NullVersion] \in Abstract!Line
    BY <1>1, LineTypes
  <2>2. ~RowOf(c).exists =>
          [RowOf(c) EXCEPT !.version = Abstract!NullVersion] = Abstract!NoLine
    BY <1>1 DEF Abstract!NoLine
  <2>3. [RowOf(c) EXCEPT !.version = Abstract!NullVersion].exists = RowOf(c).exists
    BY <1>1 DEF Abstract!Line
  <2> QED
    BY <1>6, <2>1, <2>2, <2>3 DEF UpdateVersionNull
<1> QED
  BY <1>3, <1>4, <1>5, <1>6 DEF Exec

\* Every step keeps the invariant of the operations.
LEMMA DriverStep ==
    ASSUME DriverInv, TypeOK', NEW c \in Clients, Call(c) \/ Step(c)
    PROVE  DriverInv'
<1> SUFFICES (\A d \in Clients : OpInv(d))' /\ Serialized' /\ LinesOK'
  BY DEF DriverInv, LinesOK, Serialized
<1>0. /\ OpInv(c) /\ LinesOK /\ TypeOK
      /\ op[c].seen \in Abstract!Line /\ RowOf(c) \in Abstract!Line
  BY LineTypes DEF DriverInv, LinesOK, TypeOK, OpState
<1>a. UNCHANGED table => OtherRowsKept(c) /\ LinesOK'
  BY <1>0 DEF OtherRowsKept, LinesOK
<1>b. \A p : op' = [op EXCEPT ![c].pc = p] => Went(c, p, op[c].seen)
  BY <1>0 DEF Went, TypeOK, OpState
<1>1. CASE Call(c)
  BY <1>1, <1>a, CallKeeps DEF Call
<1>2. CASE Acquire(c)
  <2> DEFINE pc == IF op[c].pc = "first" THEN FirstStatement(op[c].name)
                   ELSE IF op[c].pc = "nest" THEN "nested" ELSE "exec"
  <2>1. Went(c, pc, op[c].seen) /\ UNCHANGED table
    BY <1>2, <1>b DEF Acquire, Goto
  <2>2. op[c].pc \in {"first", "nest", "second"} /\ op[c].name \in Abstract!Names
    BY <1>0, <1>2 DEF Acquire, OpInv, OpState, TypeOK
  <2>3. CASE op[c].pc = "first"
    <3>1. CASE op[c].name \in Abstract!Deletes
      BY <1>0, <1>a, <2>1, <2>3, <3>1, NameFacts, GotoKeeps DEF FirstStatement
    <3>2. CASE op[c].name = "DeleteRootDocumentVersion"
      BY <1>0, <1>a, <2>1, <2>3, <3>2, NameFacts, GotoKeeps DEF FirstStatement
    <3>3. CASE op[c].name \in Abstract!Reads \cup Abstract!Upserts
      BY <1>0, <1>a, <2>1, <2>3, <3>3, NameFacts, GotoKeeps DEF FirstStatement
    <3> QED
      BY <2>2, <3>1, <3>2, <3>3, NameFacts
  <2>4. CASE op[c].pc = "nest"
    BY <1>0, <1>a, <2>1, <2>4, GotoKeeps DEF OpInv
  <2>5. CASE op[c].pc = "second"
    BY <1>0, <1>a, <2>1, <2>5, NameFacts, GotoKeeps DEF OpInv
  <2> QED
    BY <2>2, <2>3, <2>4, <2>5
<1>3. CASE Select(c)
  <2>1. op[c].pc = "select" /\ UNCHANGED table
    BY <1>3 DEF Select
  <2>2. CASE Return(c, TRUE)
    BY <1>a, <2>1, <2>2, ReturnKeeps DEF Return, Returned
  <2>3. CASE /\ FollowsReference(c)
             /\ op' = [op EXCEPT ![c].pc = "nest", ![c].seen = RowOf(c)]
    <3>1. Went(c, "nest", RowOf(c))
      BY <1>0, <2>3 DEF Went, TypeOK, OpState
    <3> QED
      BY <1>0, <1>a, <2>1, <2>3, <3>1, GotoKeeps DEF FollowsReference
  <2>4. CASE /\ op[c].name \in Abstract!Upserts
             /\ op' = [op EXCEPT ![c].pc = "second", ![c].seen = RowOf(c)]
    <3>1. Went(c, "second", RowOf(c))
      BY <1>0, <2>4 DEF Went, TypeOK, OpState
    <3> QED
      BY <1>0, <1>a, <2>1, <2>4, <3>1, GotoKeeps
  <2> QED
    BY <1>3, <2>2, <2>3, <2>4 DEF Select
<1>4. CASE NestedSelect(c)
  <2>1. op[c].pc = "nested" /\ UNCHANGED table
    BY <1>4 DEF NestedSelect
  <2>2. CASE Return(c, TRUE)
    BY <1>a, <2>1, <2>2, ReturnKeeps DEF Return, Returned
  <2>3. CASE op[c].name = "SetSubDocument" /\ Goto(c, "second")
    BY <1>0, <1>a, <1>b, <2>1, <2>3, NameFacts, GotoKeeps DEF Goto, OpInv
  <2>4. CASE op[c].name = "DeleteRootDocumentVersion" /\ Goto(c, "exec")
    BY <1>0, <1>a, <1>b, <2>1, <2>4, NameFacts, GotoKeeps DEF Goto, OpInv
  <2> QED
    BY <1>4, <2>2, <2>3, <2>4 DEF NestedSelect
<1>5. CASE Exec(c)
  <2>1. Returned(c) /\ OtherRowsKept(c) /\ LinesOK'
    BY <1>5, ExecFacts, WriteFacts
  <2> QED
    BY <1>5, <2>1, ReturnKeeps DEF Exec
<1>6. CASE Fails(c)
  <2>1. op[c].pc # "idle" /\ UNCHANGED table /\ Returned(c)
    BY <1>6 DEF Fails, Return, Returned
  <2> QED
    BY <1>a, <2>1, ReturnKeeps
<1> QED
  BY <1>1, <1>2, <1>3, <1>4, <1>5, <1>6 DEF Step

-----------------------------------------------------------------------------
(* The theorems                                                            *)

\* The invariant that is inductive: where an operation can be, what it has
\* read, and the slots.
SlotInv == DriverInv /\ SlotsAccounted

\* In the beginning no slot is taken.
LEMMA SlotInvInit == Init => SlotInv
<1> SUFFICES ASSUME Init PROVE SlotInv
  OBVIOUS
<1>1. TypeOK
  BY LineTypes, IdleType DEF Init, TypeOK
<1>2. \A c \in Clients : op[c].pc = "idle" /\ op[c].name = "none"
                            /\ op[c].arg = Abstract!NoArg
  BY DEF Init, IdleOp
<1>3. \A c \in Clients : OpInv(c)
  BY <1>2 DEF OpInv
<1>4. DriverInv
  BY <1>1, <1>2, <1>3 DEF DriverInv, Init
<1>5. Holding(1) = {} /\ Holding(2) = {}
  BY <1>2 DEF Holding, SlotsOf
<1>6. SlotsAccounted
  BY <1>5, FS_EmptySet, SqliteAssumption DEF SlotsAccounted, Init
<1> QED
  BY <1>4, <1>6 DEF SlotInv

\* Every step keeps it.
LEMMA SlotInvStep == SlotInv /\ [Next]_vars => SlotInv'
<1> SUFFICES ASSUME SlotInv, [Next]_vars PROVE SlotInv'
  OBVIOUS
<1>1. CASE Next
  <2>1. PICK c \in Clients : Call(c) \/ Step(c)
    BY <1>1 DEF Next
  <2>2. TypeOK /\ OpInv(c)
    BY DEF SlotInv, DriverInv
  <2>3. SlotStep(c)
    BY <2>1, <2>2, EveryStepIsSlotStep
  <2>4. TypeOK' /\ SlotsAccounted'
    BY <2>2, <2>3, SlotsKept DEF SlotInv
  <2> QED
    BY <2>1, <2>4, DriverStep DEF SlotInv
<1>2. CASE UNCHANGED vars
  BY <1>2 DEF vars, SlotInv, DriverInv, TypeOK, OpInv, SlotsAccounted, Holding
<1> QED
  BY <1>1, <1>2

\* In every execution, whatever the number of clients and slots and however
\* statements fail, the channel concurrentQueries holds what the operations
\* under way have put into it: no path through the nested calls loses a slot
\* or gives one back twice.
THEOREM SlotsNeverLost == Spec => [](DriverInv /\ SlotsAccounted)
<1>1. Init => SlotInv
  BY SlotInvInit
<1>2. SlotInv /\ [Next]_vars => SlotInv'
  BY SlotInvStep
<1>3. SlotInv => DriverInv /\ SlotsAccounted
  BY DEF SlotInv
<1> QED
  BY <1>1, <1>2, <1>3, PTL DEF Spec

\* Between the statements of an operation, for any number of clients and
\* whatever the others do in between, an operation is where its name allows
\* and has read what its next statement relies on.
THEOREM DriverStaysConsistent == Spec => []DriverInv
<1>1. SlotInv => DriverInv
  BY DEF SlotInv
<1> QED
  BY <1>1, SlotInvInit, SlotInvStep, PTL DEF Spec

\* If nobody is in a statement, whoever has a slot has one.
LEMMA WaitersHoldOne ==
    ASSUME SlotInv, Cardinality(Clients) < Slots
    PROVE  SlotInReach
<1> SUFFICES ASSUME \A d \in Clients : op[d].pc \notin {"select", "nested", "exec"}
             PROVE  held < Slots
  BY DEF SlotInReach
<1>1. Holding(2) = {}
  BY DEF Holding, SlotsOf
<1>2. Cardinality(Holding(2)) = 0
  BY <1>1, FS_EmptySet
<1>3. Holding(1) \subseteq Clients /\ IsFiniteSet(Clients)
  BY SqliteAssumption DEF Holding
<1>4. /\ Cardinality(Holding(1)) <= Cardinality(Clients)
      /\ Cardinality(Holding(1)) \in Nat /\ Cardinality(Clients) \in Nat
  BY <1>3, FS_Subset, FS_CardinalityType
<1>5. held = Cardinality(Holding(1)) + 2 * Cardinality(Holding(2)) /\ Slots \in Nat
  BY SqliteAssumption DEF SlotInv, SlotsAccounted
<1> QED
  BY <1>2, <1>4, <1>5

\* With fewer goroutines than concurrent_queries a client that waits for a
\* slot always finds one or somebody who will give one back: the nested calls
\* never all wait for each other.
THEOREM SlotAlwaysInReach ==
    ASSUME Cardinality(Clients) < Slots
    PROVE  Spec => []SlotInReach
<1>1. SlotInv => SlotInReach
  BY WaitersHoldOne
<1> QED
  BY <1>1, SlotInvInit, SlotInvStep, PTL DEF Spec

-----------------------------------------------------------------------------
(* Refinement                                                              *)

\* What the callers see of the operations
Seen == [c \in Clients |-> [name |-> op[c].name, arg |-> op[c].arg]]

\* The callers see no call exactly when the operation is idle.
LEMMA SeenFacts ==
    ASSUME DriverInv, NEW c \in Clients
    PROVE  /\ Seen[c].name = op[c].name /\ Seen[c].arg = op[c].arg
           /\ op[c].pc = "idle" => Seen[c] = Abstract!NoCall
           /\ op[c].pc # "idle" => Seen[c] # Abstract!NoCall
<1>1. Seen[c] = [name |-> op[c].name, arg |-> op[c].arg]
  BY DEF Seen
<1>2. OpInv(c)
  BY DEF DriverInv
<1> QED
  BY <1>1, <1>2 DEF OpInv, Abstract!NoCall

\* An operation that returns is no longer seen.
LEMMA SeenReturn ==
    ASSUME DriverInv, NEW c \in Clients, Returned(c)
    PROVE  Seen' = [Seen EXCEPT ![c] = Abstract!NoCall]
<1>1. op' = [op EXCEPT ![c] = IdleOp] /\ op \in [Clients -> OpState]
  BY DEF Returned, DriverInv, TypeOK
<1>2. IdleOp.name = "none" /\ IdleOp.arg = Abstract!NoArg
  BY DEF IdleOp
<1> QED
  BY <1>1, <1>2 DEF Seen, Abstract!NoCall

\* An operation that goes on looks the same.
LEMMA SeenGoto ==
    ASSUME DriverInv, NEW c \in Clients, NEW pc, NEW seen, Went(c, pc, seen)
    PROVE  Seen' = Seen
<1>1. /\ op'[c].name = op[c].name /\ op'[c].arg = op[c].arg
      /\ \A d \in Clients : d # c => op'[d] = op[d]
  BY DEF Went, DriverInv, TypeOK, OpState
<1> QED
  BY <1>1 DEF Seen

\* A return with the effect the operation should have is its success.
LEMMA SuccessIsAbstract ==
    ASSUME DriverInv, NEW c \in Clients, op[c].pc # "idle",
           Return(c, TRUE),
           table' = [table EXCEPT ![Abstract!TableOf(op[c].name)] =
                        Abstract!Effect(Seen[c], RowOf(c))]
    PROVE  Abstract!Succeed(c)
<1>1. /\ Seen[c] # Abstract!NoCall /\ Seen[c].name = op[c].name
      /\ Seen' = [Seen EXCEPT ![c] = Abstract!NoCall]
  BY SeenFacts, SeenReturn DEF Return, Returned
<1>2. ok' = [ok EXCEPT ![c] = TRUE]
  BY DEF Return
<1> QED
  BY <1>1, <1>2 DEF Abstract!Succeed, Seen

\* What each operation is expected to make of its row.
LEMMA EffectFacts ==
    ASSUME NEW o, NEW line
    PROVE  /\ o.name \in Abstract!Reads => Abstract!Effect(o, line) = line
           /\ o.name \in Abstract!Upserts =>
                Abstract!Effect(o, line) = Abstract!Upsert(line, o.arg)
           /\ o.name \in Abstract!Deletes =>
                Abstract!Effect(o, line) = Abstract!NoLine
           /\ o.name = "DeleteRootDocumentVersion" =>
                Abstract!Effect(o, line) =
                  [line EXCEPT !.version = Abstract!NullVersion]
  BY NameFacts DEF Abstract!Effect

\* With one operation at a time on each row, INSERT and UPDATE leave what
\* the operation should.
LEMMA ExecIsAbstract ==
    ASSUME DriverInv, Serial, NEW c \in Clients, Exec(c)
    PROVE  Abstract!Succeed(c)
<1>1. op[c].pc = "exec" /\ OpInv(c)
  BY DEF Exec, DriverInv
<1>2. op[c].name \in Abstract!Upserts => op[c].seen = RowOf(c)
  BY <1>1 DEF OpInv
<1>3. ~RowOf(c).exists => RowOf(c) = Abstract!NoLine
  BY LineTypes DEF DriverInv
<1>4. Seen[c].name = op[c].name /\ Seen[c].arg = op[c].arg
  BY SeenFacts
<1>5. \A line : Write(c, line) /\ line = Abstract!Effect(Seen[c], RowOf(c))
                  => Abstract!Succeed(c)
  BY <1>1, SuccessIsAbstract DEF Write
<1>6. CASE Insert(c)
  <2>1. RowOf(c) = Abstract!NoLine
    BY <1>3, <1>6 DEF Insert
  <2> QED
    BY <1>4, <1>5, <1>6, <2>1, EffectFacts DEF Insert
<1>7. CASE Update(c)
  <2>1. RowOf(c).exists
    BY <1>2, <1>7 DEF Update
  <2>2. Updated(c) = Abstract!Upsert(RowOf(c), op[c].arg)
    BY <1>2, <1>7 DEF Update, Updated
  <2> QED
    BY <1>4, <1>5, <1>7, <2>1, <2>2, EffectFacts DEF Update
<1>8. CASE Delete(c)
  BY <1>4, <1>5, <1>8, EffectFacts DEF Delete
<1>9. CASE UpdateVersionNull(c)
  BY <1>4, <1>5, <1>9, EffectFacts DEF UpdateVersionNull
<1> QED
  BY <1>6, <1>7, <1>8, <1>9 DEF Exec

\* A call of an operation is seen as it is made.
LEMMA CallIsAbstract ==
    ASSUME DriverInv, NEW c \in Clients, Call(c)
    PROVE  Abstract!Begin(c)
<1>0. PICK n \in Abstract!Names : \E a \in Abstract!Arguments(n) :
          op' = [op EXCEPT ![c] = [name |-> n, arg |-> a, pc |-> "first",
                                   seen |-> Abstract!NoLine]]
  BY DEF Call
<1>1. PICK a \in Abstract!Arguments(n) :
          op' = [op EXCEPT ![c] = [name |-> n, arg |-> a, pc |-> "first",
                                   seen |-> Abstract!NoLine]]
  BY <1>0
<1>2. op \in [Clients -> OpState]
  BY DEF DriverInv, TypeOK
<1>3. Seen' = [Seen EXCEPT ![c] = [name |-> n, arg |-> a]]
  BY <1>1, <1>2 DEF Seen
<1>4. Seen[c] = Abstract!NoCall
  BY SeenFacts DEF Call
<1>5. ok' = [ok EXCEPT ![c] = TRUE] /\ UNCHANGED table
  BY DEF Call
<1> QED
  BY <1>3, <1>4, <1>5 DEF Abstract!Begin, Seen

\* Every step is a step of the interface, or none that its callers see.
LEMMA StepIsAbstract ==
    ASSUME DriverInv, Serial, NEW c \in Clients, Call(c) \/ Step(c)
    PROVE  Abstract!Next \/ UNCHANGED Abstract!clientVars
<1>0. /\ OpInv(c) /\ op \in [Clients -> OpState] /\ op[c] \in OpState
      /\ table \in [Abstract!Tables -> Abstract!Line]
  BY DEF DriverInv, TypeOK
<1>a. \A p, s : Went(c, p, s) /\ UNCHANGED <<table, ok>>
          => UNCHANGED Abstract!clientVars
  BY SeenGoto DEF Abstract!clientVars, Seen
<1>b. \A p : op' = [op EXCEPT ![c].pc = p] => Went(c, p, op[c].seen)
  BY <1>0 DEF Went, OpState
<1>c. ASSUME op[c].pc # "idle", Return(c, TRUE), UNCHANGED table,
             Abstract!Effect(Seen[c], RowOf(c)) = RowOf(c)
      PROVE  Abstract!Succeed(c)
  <2>1. table = [table EXCEPT ![Abstract!TableOf(op[c].name)] = RowOf(c)]
    BY <1>0, LineTypes
  <2> QED
    BY <1>c, <2>1, SuccessIsAbstract
<1>d. Seen[c].name = op[c].name
  BY SeenFacts
<1>1. CASE Call(c)
  BY <1>1, CallIsAbstract DEF Abstract!Next
<1>2. CASE Acquire(c)
  BY <1>2, <1>a, <1>b DEF Acquire, Goto
<1>3. CASE Select(c)
  <2>1. op[c].pc = "select" /\ UNCHANGED table
    BY <1>3 DEF Select
  <2>2. CASE op[c].name \in Abstract!Reads /\ Return(c, TRUE)
    BY <1>c, <1>d, <2>1, <2>2, EffectFacts DEF Abstract!Next
  <2>3. CASE /\ op' = [op EXCEPT ![c].pc = "nest", ![c].seen = RowOf(c)]
             /\ UNCHANGED ok
    <3>1. Went(c, "nest", RowOf(c))
      BY <1>0, <2>3 DEF Went, OpState
    <3> QED
      BY <1>a, <2>1, <2>3, <3>1
  <2>4. CASE /\ op' = [op EXCEPT ![c].pc = "second", ![c].seen = RowOf(c)]
             /\ UNCHANGED ok
    <3>1. Went(c, "second", RowOf(c))
      BY <1>0, <2>4 DEF Went, OpState
    <3> QED
      BY <1>a, <2>1, <2>4, <3>1
  <2> QED
    BY <1>3, <2>2, <2>3, <2>4 DEF Select
<1>4. CASE NestedSelect(c)
  <2>1. op[c].pc = "nested" /\ UNCHANGED table
    BY <1>4 DEF NestedSelect
  <2>2. CASE op[c].name = "GetSubDocument" /\ Return(c, TRUE)
    BY <1>c, <1>d, <2>1, <2>2, EffectFacts, NameFacts DEF Abstract!Next
  <2>3. CASE Goto(c, "second") /\ UNCHANGED ok
    BY <1>a, <1>b, <2>1, <2>3 DEF Goto
  <2>4. CASE Goto(c, "exec") /\ UNCHANGED ok
    BY <1>a, <1>b, <2>1, <2>4 DEF Goto
  <2>5. CASE /\ op[c].name = "DeleteRootDocumentVersion" /\ ~RowOf(c).exists
             /\ Return(c, TRUE)
    <3>1. RowOf(c) = Abstract!NoLine
      BY <2>5, LineTypes DEF DriverInv
    <3>2. [RowOf(c) EXCEPT !.version = Abstract!NullVersion] = RowOf(c)
      <4>1. RowOf(c) \in Abstract!Line /\ RowOf(c).version = Abstract!NullVersion
        BY <3>1, LineTypes DEF Abstract!NoLine
      <4>2. ASSUME NEW r \in Abstract!Line, r.version = Abstract!NullVersion
            PROVE  [r EXCEPT !.version = Abstract!NullVersion] = r
        BY <4>2 DEF Abstract!Line
      <4> QED
        BY <4>1, <4>2
    <3>3. Abstract!Effect(Seen[c], RowOf(c)) = RowOf(c)
      BY <1>d, <2>5, <3>2, EffectFacts
    <3> QED
      BY <1>c, <2>1, <2>5, <3>3 DEF Abstract!Next
  <2> QED
    BY <1>4, <2>2, <2>3, <2>4, <2>5 DEF NestedSelect
<1>5. CASE Exec(c)
  BY <1>5, ExecIsAbstract DEF Abstract!Next
<1>6. CASE Fails(c)
  <2>1. Seen[c] # Abstract!NoCall /\ Seen' = [Seen EXCEPT ![c] = Abstract!NoCall]
    BY <1>6, SeenFacts, SeenReturn DEF Fails, Return, Returned
  <2>2. ok' = [ok EXCEPT ![c] = FALSE] /\ UNCHANGED table
    BY <1>6 DEF Fails, Return
  <2>3. Abstract!Fail(c)
    BY <2>1, <2>2 DEF Abstract!Fail, Seen
  <2> QED
    BY <2>3 DEF Abstract!Next
<1> QED
  BY <1>1, <1>2, <1>3, <1>4, <1>5, <1>6 DEF Step

\* With one operation at a time on each row, the SQLite driver, whose Sets
\* are a SELECT and then an INSERT or UPDATE, implements the interface that
\* the handlers are written against, for any number of clients and slots.
THEOREM DriverImplements ==
    ASSUME Serial
    PROVE  Spec => ImplementsInterface
<1>1. Init => Abstract!Init
  <2> SUFFICES ASSUME Init PROVE Abstract!Init
    OBVIOUS
  <2>1. Seen = [c \in Clients |-> Abstract!NoCall]
    BY DEF Init, Seen, IdleOp, Abstract!NoCall
  <2> QED
    BY <2>1 DEF Init, Abstract!Init, Seen
<1>2. SlotInv /\ [Next]_vars => [Abstract!Next]_Abstract!clientVars
  <2> SUFFICES ASSUME SlotInv, [Next]_vars
               PROVE  Abstract!Next \/ UNCHANGED Abstract!clientVars
    OBVIOUS
  <2>1. CASE Next
    BY <2>1, StepIsAbstract DEF Next, SlotInv
  <2>2. CASE UNCHANGED vars
    BY <2>2 DEF vars, Abstract!clientVars
  <2> QED
    BY <2>1, <2>2
<1> QED
  BY <1>1, <1>2, SlotInvInit, SlotInvStep, PTL
  DEF Spec, ImplementsInterface, Abstract!Spec
=============================================================================
