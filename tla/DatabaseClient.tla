--------------------------- MODULE DatabaseClient ---------------------------
(***************************************************************************)
(* What the handlers expect of any database driver: the operations of the  *)
(* interface db.DatabaseClient on the three rows that belong to one        *)
(* sub-document of one device.  An operation takes effect at one moment    *)
(* between its call and its return, writes the columns it was given and no *)
(* other, and leaves the tables alone when it returns an error.            *)
(*                                                                         *)
(* A row has a version column (of reference_document: the payload) and one *)
(* other column that stands for the rest: the state of a sub-document, the *)
(* metadata of a root document.                                            *)
(***************************************************************************)
CONSTANTS Clients,    \* goroutines that use the driver
          Versions,   \* versions of sub-documents, root documents, references; not 0
          States,     \* values of the state column
          Metas       \* values of the metadata columns

VARIABLES table,  \* the rows, by table
          call,   \* what each client has called and not seen return
          ok      \* did its last call end without an error? (not found is none)

clientVars == <<table, call, ok>>

Tables == {"xpc_group_config", "root_document", "reference_document"}

\* a null column; as an argument, a nil pointer or an empty string
NullVersion == 0
NullOther   == "null"

Others   == States \cup Metas \cup {NullOther}
Line     == [exists : BOOLEAN, version : Versions \cup {0}, other : Others]
Argument == [version : Versions \cup {0}, other : Others]

NoLine == [exists |-> FALSE, version |-> NullVersion, other |-> NullOther]
NoArg  == [version |-> NullVersion, other |-> NullOther]

Reads   == {"GetSubDocument", "GetDocument", "GetRootDocument",
            "GetRefSubDocument"}
Upserts == {"SetSubDocument", "SetRootDocument", "SetRootDocumentVersion",
            "SetRootDocumentBitmap", "SetRefSubDocument"}
Deletes == {"DeleteSubDocument", "DeleteDocument", "DeleteRootDocument",
            "DeleteRefSubDocument"}
Names   == Reads \cup Upserts \cup Deletes \cup {"DeleteRootDocumentVersion"}

TableOf(name) ==
    CASE name \in {"GetSubDocument", "GetDocument", "SetSubDocument",
                   "DeleteSubDocument", "DeleteDocument"} -> "xpc_group_config"
      [] name \in {"GetRefSubDocument", "SetRefSubDocument",
                   "DeleteRefSubDocument"} -> "reference_document"
      [] OTHER -> "root_document"

\* The arguments the handlers pass: POST gives a version and a state, a
\* report or a download a state alone; metadata is stored with the version
\* blanked.
Arguments(name) ==
    CASE name = "SetSubDocument" ->
             [version : Versions \cup {NullVersion}, other : States]
      [] name \in {"SetRootDocumentVersion", "SetRefSubDocument"} ->
             [version : Versions, other : {NullOther}]
      [] name \in {"SetRootDocument", "SetRootDocumentBitmap"} ->
             [version : {NullVersion}, other : Metas]
      [] OTHER -> {NoArg}

Operation == [name : Names \cup {"none"}, arg : Argument]
NoCall    == [name |-> "none", arg |-> NoArg]

-----------------------------------------------------------------------------
\* a column that is not named keeps its value
Upsert(line, arg) ==
    [exists  |-> TRUE,
     version |-> IF arg.version = NullVersion THEN line.version ELSE arg.version,
     other   |-> IF arg.other = NullOther THEN line.other ELSE arg.other]

\* what an operation makes of its row
Effect(o, line) ==
    CASE o.name \in Upserts -> Upsert(line, o.arg)
      [] o.name \in Deletes -> NoLine
      [] o.name = "DeleteRootDocumentVersion" ->
             [line EXCEPT !.version = NullVersion]
      [] OTHER -> line

Init == /\ table = [t \in Tables |-> NoLine]
        /\ call = [c \in Clients |-> NoCall]
        /\ ok = [c \in Clients |-> TRUE]

Begin(c) ==
    /\ call[c] = NoCall
    /\ \E n \in Names : \E a \in Arguments(n) :
           call' = [call EXCEPT ![c] = [name |-> n, arg |-> a]]
    /\ ok' = [ok EXCEPT ![c] = TRUE]
    /\ UNCHANGED table

Succeed(c) ==
    /\ call[c] # NoCall
    /\ table' = [table EXCEPT ![TableOf(call[c].name)] =
                    Effect(call[c], table[TableOf(call[c].name)])]
    /\ call' = [call EXCEPT ![c] = NoCall]
    /\ ok' = [ok EXCEPT ![c] = TRUE]

Fail(c) ==
    /\ call[c] # NoCall
    /\ call' = [call EXCEPT ![c] = NoCall]
    /\ ok' = [ok EXCEPT ![c] = FALSE]
    /\ UNCHANGED table

Next == \E c \in Clients : Begin(c) \/ Succeed(c) \/ Fail(c)

Spec == Init /\ [][Next]_clientVars
=============================================================================
