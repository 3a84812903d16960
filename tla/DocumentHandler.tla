-------------------------- MODULE DocumentHandler --------------------------
(***************************************************************************)
(* The northbound API that prepares a device's configuration:              *)
(* PostSubDocumentHandler, DeleteSubDocumentHandler, DeleteDocumentHandler *)
(* (http/document_handler.go).  Each handler is a goroutine of its own and *)
(* writes the sub-document first, then reads the whole document back and   *)
(* stores the hash of its versions as the device's root version, with no   *)
(* transaction around the calls:                                           *)
(*                                                                         *)
(*      idle --(write rows)--> read --(GetDocument)--> root --(write)--> idle *)
(*                                                                         *)
(* A database error ends a handler with 500 wherever it stands.  The first *)
(* call of POST, GetRootDocumentLabels, only reads what metrics are        *)
(* labelled with: its failure is a POST that never started.                *)
(***************************************************************************)
EXTENDS SubdocStore

CONSTANTS Writers,        \* northbound handlers that may run at one time
          MaxVersion,     \* bound on the versions ever posted
          ReuseVersions,  \* may a POST carry a version posted before?
          PostStates,     \* states a POST may carry (NilState: "null")
          PostExpiries,   \* "nil", or "live" with the expiry header
          Deletes         \* are the DELETE handlers called?

ASSUME WriterAssumption ==
    /\ MaxVersion \in Nat
    /\ ReuseVersions \in BOOLEAN
    /\ PostStates \subseteq States \cup {NilState}
    /\ PostExpiries \subseteq {"nil", "live"}
    /\ Deletes \in BOOLEAN

VARIABLES nb,         \* the northbound handlers
          nextVersion,\* the least version never posted
          rootStale   \* did the last handler to end fail after its row write?

writerVars == <<nb, nextVersion, rootStale>>

IdleWriter == [pc |-> "idle", op |-> "none", newRoot |-> NoRoot,
               subdoc |-> 0, version |-> 0]

Writer == [pc      : {"idle", "read", "root", "droproot"},
           op      : {"none", "post", "delete"},
           newRoot : RootVersion,
           subdoc  : Nat,
           version : Nat]

WriterTypeOK == /\ nb \in [Writers -> Writer]
                /\ nextVersion \in Nat \ {0}
                /\ rootStale \in BOOLEAN

WriterInit == /\ nb = [w \in Writers |-> IdleWriter]
              /\ nextVersion = 1
              /\ rootStale = FALSE

-----------------------------------------------------------------------------
\* Mutant: the version header is ignored for the hash of the body, and a body
\* may come back
PostedVersionOfBody(v) ==
    /\ v \in 1..nextVersion
    /\ v <= MaxVersion
    /\ nextVersion' = IF v = nextVersion THEN nextVersion + 1 ELSE nextVersion

\* The version header of a POST, or the hash of its body
PostedVersion(v) ==
    /\ v \in 1..nextVersion
    /\ ReuseVersions \/ v = nextVersion
    /\ v <= MaxVersion
    /\ nextVersion' = IF v = nextVersion THEN nextVersion + 1 ELSE nextVersion

\* POST /api/v1/device/{mac}/document/{subdoc_id}: SetSubDocument with error
\* code 0 and empty error details
PostSubDocument(w, s, v, state, expiry) ==
    /\ nb[w].pc = "idle"
    /\ PostedVersion(v)
    /\ SetSubDocument(s, v, state, "none", expiry)
    /\ nb' = [nb EXCEPT ![w] = [IdleWriter EXCEPT
                  !.pc = "read", !.op = "post", !.subdoc = s, !.version = v]]
    /\ UNCHANGED <<root, rootStale>>

\* GetDocument, expired sub-documents included, not-found being an empty
\* document; the sub-document just posted is put into it whatever was read
PostReadDocument(w) ==
    /\ nb[w].pc = "read"
    /\ nb[w].op = "post"
    /\ LET doc == GetDocument(TRUE)
           vm  == [VersionMap(doc) EXCEPT ![nb[w].subdoc] = nb[w].version]
       IN  nb' = [nb EXCEPT ![w].pc = "root", ![w].newRoot = HashRootVersion(vm)]
    /\ UNCHANGED <<storeVars, nextVersion, rootStale>>

\* DELETE /api/v1/device/{mac}/document/{subdoc_id}
DeleteSubDocumentRow(w, s) ==
    /\ Deletes
    /\ nb[w].pc = "idle"
    /\ DeleteSubDocument(s)
    /\ nb' = [nb EXCEPT ![w] = [IdleWriter EXCEPT !.pc = "read", !.op = "delete"]]
    /\ UNCHANGED <<root, nextVersion, rootStale>>

\* DELETE /api/v1/device/{mac}/document
DeleteDocumentRows(w) ==
    /\ Deletes
    /\ nb[w].pc = "idle"
    /\ DeleteDocument
    /\ nb' = [nb EXCEPT ![w] = [IdleWriter EXCEPT !.pc = "read", !.op = "delete"]]
    /\ UNCHANGED <<root, nextVersion, rootStale>>

\* GetDocument of both DELETE handlers: expired sub-documents are left out,
\* and a document without sub-documents clears the root version
DeleteReadDocument(w) ==
    /\ nb[w].pc = "read"
    /\ nb[w].op = "delete"
    /\ LET doc == GetDocument(FALSE)
       IN  nb' = [nb EXCEPT
               ![w].pc = IF Ids(doc) = {} THEN "droproot" ELSE "root",
               ![w].newRoot = HashRootVersion(VersionMap(doc))]
    /\ UNCHANGED <<storeVars, nextVersion, rootStale>>

\* SetRootDocumentVersion, then the 200 response
WriteRootVersion(w) ==
    /\ nb[w].pc = "root"
    /\ SetRootDocumentVersion(nb[w].newRoot)
    /\ nb' = [nb EXCEPT ![w] = IdleWriter]
    /\ rootStale' = FALSE
    /\ UNCHANGED <<rows, nextVersion>>

DropRootVersion(w) ==
    /\ nb[w].pc = "droproot"
    /\ DeleteRootDocumentVersion
    /\ nb' = [nb EXCEPT ![w] = IdleWriter]
    /\ rootStale' = FALSE
    /\ UNCHANGED <<rows, nextVersion>>

\* GetDocument or the write of the root version fails: 500, and the row
\* already written stays
WriterFails(w) ==
    /\ nb[w].pc # "idle"
    /\ nb' = [nb EXCEPT ![w] = IdleWriter]
    /\ rootStale' = TRUE
    /\ UNCHANGED <<storeVars, nextVersion>>

WriterStep(w) ==
    \/ \E s \in SubdocIds, v \in 1..nextVersion,
          state \in PostStates, expiry \in PostExpiries :
          PostSubDocument(w, s, v, state, expiry)
    \/ PostReadDocument(w)
    \/ \E s \in SubdocIds : DeleteSubDocumentRow(w, s)
    \/ DeleteDocumentRows(w)
    \/ DeleteReadDocument(w)
    \/ WriteRootVersion(w)
    \/ DropRootVersion(w)

WritersIdle == \A w \in Writers : nb[w].pc = "idle"
=============================================================================
