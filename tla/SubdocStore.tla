---------------------------- MODULE SubdocStore ----------------------------
(***************************************************************************)
(* The two tables webconfig keeps for one device, and the operators of the *)
(* database driver and of common.Document on them:                         *)
(*                                                                         *)
(*   rows  the device's rows of xpc_group_config, one per sub-document     *)
(*         (group_id)                                                      *)
(*   root  the device's row of root_document                               *)
(*                                                                         *)
(* The driver modelled is the Cassandra/Yugabyte one (db/cassandra), whose *)
(* INSERT is a column upsert: a column that is not named keeps its value,  *)
(* and an INSERT on a deleted row makes a row with the other columns null. *)
(* Every driver call is one statement, hence one atomic step; nothing      *)
(* joins two calls.  Tables are keyed by the device's mac and no handler   *)
(* relates two devices, so one device is modelled.                         *)
(*                                                                         *)
(* Data.  A payload is identified with its version (POST writes the two    *)
(* columns together, and no version names two payloads): version 0 is a    *)
(* row whose payload and version are null.  Sub-document names are         *)
(* naturals in the order sort.Strings gives them.  A version is a natural  *)
(* and the root version, the murmur hash of the versions joined in the     *)
(* order of their names, is that sequence itself, written as the set of    *)
(* its <<position, version>> pairs: the names of the sub-documents are not *)
(* part of it.  Murmur is taken to be injective.                           *)
(***************************************************************************)
EXTENDS Integers, FiniteSets

CONSTANTS SubdocIds,   \* the names of the sub-documents of the device
          Metas,       \* device metadata: bitmap, firmware, model, partner...
          NoMeta,      \* the metadata columns of a row that POST created
          Supports,    \* the sub-documents the bitmap in the metadata admits
          Blocked,     \* BlockedSubdocIds of the configuration
          Locks        \* are root documents locked?

ASSUME StoreAssumption ==
    /\ SubdocIds \subseteq Nat
    /\ IsFiniteSet(SubdocIds)
    /\ NoMeta \notin Metas
    /\ Supports \in [Metas -> SUBSET SubdocIds]
    /\ Blocked \subseteq SubdocIds
    /\ Locks \in BOOLEAN

VARIABLES rows, root

storeVars == <<rows, root>>

\* common/const_var.go; 0 is what a null column scans to
Deployed        == 1
PendingDownload == 2
InDeployment    == 3
Failure         == 4
States          == 0..4

\* nil pointers of a common.SubDocument handed to SetSubDocument
NilVersion == 0
NilState   == -1

Row == [version : Nat, state : States,
        err     : {"none", "set"},           \* error_code, error_details
        expiry  : {"none", "live", "past"}]  \* null, in the future, passed

EmptyRow == [version |-> 0, state |-> 0, err |-> "none", expiry |-> "none"]

\* a root version: {} is the empty string, a null column
NoRoot      == {}
RootVersion == SUBSET (Nat \X Nat)

MetaColumn  == Metas \cup {NoMeta}

RootRow == [exists : BOOLEAN, version : RootVersion, meta : MetaColumn,
            locked : BOOLEAN]

\* a common.Document by name, EmptyRow where the map has no entry, and a
\* map of versions, 0 where it has none
Document   == [SubdocIds -> Row]
Versions   == [SubdocIds -> Nat]
NoVersions == [s \in SubdocIds |-> 0]
NoDocument == [s \in SubdocIds |-> EmptyRow]

Ids(doc) == {s \in SubdocIds : doc[s].version # 0}

StoreTypeOK == /\ rows \in [SubdocIds -> Row]
               /\ root \in RootRow

StoreInit == /\ rows = NoDocument
             /\ root = [exists |-> FALSE, version |-> NoRoot,
                        meta |-> NoMeta, locked |-> FALSE]

-----------------------------------------------------------------------------
(* xpc_group_config                                                        *)

\* GetDocument: rows without a payload are skipped, and so are those whose
\* expiry has passed unless the caller asks for them.  The driver answers
\* not-found exactly when the document is empty.
InDocument(r, includeExpiry) ==
    /\ r.version # 0
    /\ includeExpiry \/ r.expiry # "past"

GetDocument(includeExpiry) ==
    [s \in SubdocIds |->
        IF InDocument(rows[s], includeExpiry) THEN rows[s] ELSE EmptyRow]

\* GetSubDocument answers not-found for a row without a payload
SubDocumentFound(s) == rows[s].version # 0

\* Mutant: the nil checks are missing
SetSubDocumentUnchecked(s, version, state, err, expiry) ==
    rows' = [rows EXCEPT ![s] = [version |-> version, state |-> state,
                                 err |-> err, expiry |-> expiry]]

\* Mutant: a state may only move forward in the order of the constants
SetSubDocumentForward(s, version, state, err, expiry) ==
    rows' = [rows EXCEPT ![s] =
        [version |-> IF version = NilVersion THEN rows[s].version ELSE version,
         state   |-> IF state < rows[s].state THEN rows[s].state ELSE state,
         err     |-> IF err = "nil" THEN rows[s].err ELSE err,
         expiry  |-> IF expiry = "nil" THEN rows[s].expiry ELSE expiry]]

\* SetSubDocument writes the columns whose pointer is not nil
SetSubDocument(s, version, state, err, expiry) ==
    rows' = [rows EXCEPT ![s] =
        [version |-> IF version = NilVersion THEN rows[s].version ELSE version,
         state   |-> IF state = NilState THEN rows[s].state ELSE state,
         err     |-> IF err = "nil" THEN rows[s].err ELSE err,
         expiry  |-> IF expiry = "nil" THEN rows[s].expiry ELSE expiry]]

DeleteSubDocument(s) == rows' = [rows EXCEPT ![s] = EmptyRow]

DeleteDocument == rows' = NoDocument

-----------------------------------------------------------------------------
(* root_document                                                           *)

SetRootDocumentVersion(v) ==
    root' = [root EXCEPT !.exists = TRUE, !.version = v]

DeleteRootDocumentVersion ==
    root' = [root EXCEPT !.version = NoRoot]

\* SetRootDocument writes the non-empty columns: the metadata of the device,
\* and never the version, which its callers blank.
SetRootDocument(meta) ==
    root' = [root EXCEPT !.exists = TRUE, !.meta = meta]

-----------------------------------------------------------------------------
(* common.Document and db.HashRootVersion                                  *)

VersionMap(doc) == [s \in SubdocIds |-> doc[s].version]

HashRootVersion(vm) ==
    LET names == {s \in SubdocIds : vm[s] # 0}
    IN  {<<Cardinality({t \in names : t <= s}), vm[s]>> : s \in names}

\* Mutant: only sub-documents the device does not have at all are sent
FilterForGetMissing(doc, docRoot, hdrRoot, hdrVers) ==
    {s \in Ids(doc) : /\ ~(hdrRoot # NoRoot /\ hdrRoot = docRoot)
                      /\ hdrVers[s] = 0}

\* Mutant: sub-documents the device has and the document has not are sent too
FilterForGetDeleted(doc, docRoot, hdrRoot, hdrVers) ==
    {s \in SubdocIds : /\ ~(hdrRoot # NoRoot /\ hdrRoot = docRoot)
                       /\ doc[s].version # hdrVers[s]}

\* the sub-documents of doc, whose root version is docRoot, that a device
\* presenting hdrRoot and hdrVers is sent
FilterForGet(doc, docRoot, hdrRoot, hdrVers) ==
    {s \in Ids(doc) : /\ ~(hdrRoot # NoRoot /\ hdrRoot = docRoot)
                       /\ doc[s].version # hdrVers[s]}

FilterForMqttSend(doc) == {s \in Ids(doc) : doc[s].state > Deployed}

\* bitmap_filter_exempt_subdoc_ids is empty, as in the sample configuration
FilterByBitmap(ids, meta) ==
    IF meta = NoMeta THEN {} ELSE ids \cap Supports[meta]

-----------------------------------------------------------------------------
(* The clock: an expiry in the future becomes one that has passed, a lock  *)
(* runs out.                                                               *)

Expire(s) ==
    /\ rows[s].expiry = "live"
    /\ rows' = [rows EXCEPT ![s].expiry = "past"]
    /\ UNCHANGED root

LockRunsOut ==
    /\ root.locked
    /\ root' = [root EXCEPT !.locked = FALSE]
    /\ UNCHANGED rows

\* POST .../rootdocument with locked_till in the future
LockRootDocument ==
    /\ Locks
    /\ ~root.locked
    /\ root' = [root EXCEPT !.exists = TRUE, !.locked = TRUE]
    /\ UNCHANGED rows
=============================================================================
