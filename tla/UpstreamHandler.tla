-------------------------- MODULE UpstreamHandler --------------------------
(***************************************************************************)
(* The exchange with upstream, the service that may rewrite a device's     *)
(* configuration, and the factory reset of a device (http/multipart.go,    *)
(* http/upstream_connector.go, PreprocessRootDocument and                  *)
(* WriteDocumentFromUpstream of db/service.go).                            *)
(*                                                                         *)
(* With webconfig.upstream.enabled a GET that finds new metadata, or no    *)
(* document, posts the document to upstream, stores what upstream answers  *)
(* and sends the device what is new in it.  A factory reset, a GET with    *)
(* If-None-Match NONE, posts the document too, stores the answer and drops *)
(* what is not in it; without upstream it deletes the document.  Only the  *)
(* device's own requests come here, so one exchange is under way at a time.*)
(* Its steps:                                                              *)
(*                                                                         *)
(*   resetroot, resetset, resetdoc, resetdelete  the calls of a factory    *)
(*            reset before the exchange, or instead of it                  *)
(*   post     PostUpstream                                                 *)
(*   store    SetRootDocumentVersion with the Etag of the answer           *)
(*   write    SetSubDocument of the rows of the answer, DeleteSubDocument  *)
(*            of the rest                                                  *)
(*   respond  the response is built                                        *)
(***************************************************************************)
EXTENDS DocumentHandler, MultipartHandler

CONSTANTS FactoryResets,   \* are devices ever reset?
          UpstreamDrops    \* may upstream's answer to a GET leave out a
                           \* subdocument it was sent?

ASSUME UpstreamAssumption == /\ FactoryResets \in BOOLEAN
                             /\ UpstreamDrops \in BOOLEAN

VARIABLES up,    \* the exchange
          told   \* the metadata upstream has been told of

upstreamVars == <<up, told>>

UpPC == {"idle", "resetroot", "resetset", "resetdoc", "resetdelete",
         "post", "store", "write", "respond"}

Exchange ==
    [pc    : UpPC, op : {"get", "reset"},
     root  : RootVersion,            \* root version of the document posted
     sent  : Document,               \* the document posted
     etag  : RootVersion,            \* the answer: its Etag, its versions,
     final : Versions,
     skip  : BOOLEAN,                \*    and "skip-db-update"
     todo  : SUBSET SubdocIds,       \* rows to be written
     dels  : SUBSET SubdocIds]       \* rows to be deleted

IdleExchange == [pc |-> "idle", op |-> "get", root |-> NoRoot,
                 sent |-> NoDocument, etag |-> NoRoot, final |-> NoVersions,
                 skip |-> FALSE, todo |-> {}, dels |-> {}]

UpstreamTypeOK == /\ up \in Exchange
                  /\ told \in MetaColumn

UpstreamInit == /\ up = IdleExchange
                /\ told = NoMeta

-----------------------------------------------------------------------------
(* A GET, once BuildGetDocument has returned                               *)

\* BuildGetDocument ended in not-found
NotFound(g) ==
    \/ g.status = "404"
    \/ Ids(g.doc) = {} /\ g.cmp # "equals" /\ ~StateCorrectionEnabled

DocumentRoot(g) == IF NotFound(g) THEN NoRoot ELSE g.cloudRoot

\* the document BuildGetDocument returned, filtered by the bitmap of the
\* root document it carries: that read from the table
Outgoing(g) ==
    IF FilterOutputByBitmapEnabled
    THEN FilterByBitmap(Unfiltered(g), g.cloudMeta) ELSE Unfiltered(g)

Restricted(doc, ids) == [s \in SubdocIds |-> IF s \in ids THEN doc[s] ELSE EmptyRow]

\* new metadata, or no document
Posts(g) == g.cmp = "meta" \/ NotFound(g)

RootLocked(g) == g.locked /\ root.locked /\ LockRootDocumentEnabled

\* mget is answered from the tables and marks no row
AnswerMget(g) ==
    [g EXCEPT !.pc = "reply", !.send = Outgoing(g),
              !.status = IF Unfiltered(g) # {} THEN "200"
                         ELSE IF DocumentRoot(g) = NoRoot THEN "404" ELSE "304"]

AnswerFromTables(g) ==
    LET todo == {s \in Outgoing(g) : g.doc[s].state \notin {Deployed, InDeployment}}
    IN  [g EXCEPT !.pc = IF todo = {} THEN "reply" ELSE "update",
                  !.todo = todo, !.send = Outgoing(g),
                  !.status = IF Outgoing(g) = {} THEN "304" ELSE "200"]

UpstreamDecide(h) ==
    /\ get[h].pc = "built"
    /\ LET g == get[h]
       IN  \/ /\ RootLocked(g)
              /\ get' = [get EXCEPT ![h] = [g EXCEPT !.pc = "reply", !.status = "409"]]
              /\ UNCHANGED up
           \/ /\ ~RootLocked(g)
              /\ h = "mget"
              /\ get' = [get EXCEPT ![h] = AnswerMget(g)]
              /\ UNCHANGED up
           \/ /\ ~RootLocked(g)
              /\ h = "device"
              /\ ~Posts(g)
              /\ get' = [get EXCEPT ![h] = AnswerFromTables(g)]
              /\ UNCHANGED up
           \/ /\ ~RootLocked(g)
              /\ h = "device"
              /\ Posts(g)
              /\ up' = [IdleExchange EXCEPT
                           !.pc = "post", !.root = DocumentRoot(g),
                           !.sent = Restricted(g.doc, Outgoing(g))]
              /\ get' = [get EXCEPT ![h].pc = "upstream"]
    /\ UNCHANGED <<storeVars, deviceVars, told>>

-----------------------------------------------------------------------------
(* Factory reset                                                           *)

\* the device has lost what it had and GETs with If-None-Match NONE
DeviceResets ==
    /\ FactoryResets
    /\ "device" \in GetHandlers
    /\ get["device"].pc = "idle"
    /\ dev' = [dev EXCEPT !.root = NoRoot, !.vers = NoVersions]
    /\ get' = [get EXCEPT !["device"] =
                  [IdleGet EXCEPT !.pc = "upstream", !.meta = dev.meta]]
    /\ up' = [IdleExchange EXCEPT !.pc = "resetroot", !.op = "reset"]
    /\ UNCHANGED <<storeVars, poked, events, told>>

\* PreprocessRootDocument: GetRootDocument ...
ResetReadRoot ==
    /\ up.pc = "resetroot"
    /\ up' = [up EXCEPT !.pc = "resetset",
                        !.root = IF root.exists THEN root.version ELSE NoRoot]
    /\ UNCHANGED <<storeVars, deviceVars, get, told>>

\* ... and SetRootDocument of the columns that are not empty, the root
\* version that was read among them
ResetStoreRoot ==
    /\ up.pc = "resetset"
    /\ root' = [root EXCEPT !.exists = TRUE, !.meta = get["device"].meta,
                            !.version = IF up.root = NoRoot THEN @ ELSE up.root]
    /\ up' = [up EXCEPT !.pc = "resetdoc"]
    /\ UNCHANGED <<rows, deviceVars, get, told>>

Reply(g) == /\ get' = [get EXCEPT !["device"] = [g EXCEPT !.pc = "reply"]]
            /\ up' = IdleExchange

ResetReadDocument ==
    /\ up.pc = "resetdoc"
    /\ LET doc == GetDocument(FALSE)
       IN  \/ /\ Ids(doc) = {}
              /\ Reply([get["device"] EXCEPT !.status = "404"])
           \/ /\ Ids(doc) # {}
              /\ up' = [up EXCEPT !.sent = doc,
                           !.pc = IF UpstreamEnabled THEN "post" ELSE "resetdelete"]
              /\ UNCHANGED get
    /\ UNCHANGED <<storeVars, deviceVars, told>>

\* without upstream the document goes; its root version stays
ResetDelete ==
    /\ up.pc = "resetdelete"
    /\ DeleteDocument
    /\ Reply([get["device"] EXCEPT !.status = "404"])
    /\ UNCHANGED <<root, deviceVars, told>>

-----------------------------------------------------------------------------
(* The exchange                                                            *)

\* UpdateSubDocument leaves alone a row the device has, if the document
\* posted had it in the same version; a factory reset presents no versions
HasAlready(s, final) ==
    /\ up.op = "get"
    /\ get["device"].hdrVers[s] = final[s]
    /\ up.sent[s].version = final[s]

\* External: upstream keeps, drops or adds subdocuments, and gives at most
\* one a version of its own.  When it has none it answers 404, an error.
UpstreamVersions(final) ==
    LET new == {s \in SubdocIds : final[s] # 0 /\ final[s] # up.sent[s].version}
    IN  /\ final # NoVersions
        /\ (up.op = "get" /\ ~UpstreamDrops) => \A s \in Ids(up.sent) : final[s] # 0
        /\ Cardinality(new) <= 1
        /\ \A s \in new : final[s] = nextVersion
        /\ new # {} => nextVersion <= MaxVersion
        /\ nextVersion' = IF new = {} THEN nextVersion ELSE nextVersion + 1

\* PostUpstream, and what is made of the answer: on a reset without the
\* blocked subdocuments
PostUpstream(final, skip) ==
    /\ up.pc = "post"
    /\ UpstreamVersions(final)
    /\ told' = get["device"].meta
    /\ LET kept == [s \in SubdocIds |->
                       IF up.op = "reset" /\ s \in Blocked THEN 0 ELSE final[s]]
           ids  == {s \in SubdocIds : kept[s] # 0}
       IN  up' = [up EXCEPT
              !.etag = HashRootVersion(final), !.final = kept, !.skip = skip,
              !.pc = IF skip THEN "respond"
                     ELSE IF up.root # HashRootVersion(final) THEN "store" ELSE "write",
              !.todo = IF skip THEN {} ELSE {s \in ids : ~HasAlready(s, kept)},
              !.dels = IF skip \/ up.op = "get" THEN {} ELSE Ids(up.sent) \ ids]
    /\ UNCHANGED <<storeVars, deviceVars, get, nb, rootStale>>

\* WriteDocumentFromUpstream stores the root version first ...
StoreUpstreamRoot ==
    /\ up.pc = "store"
    /\ SetRootDocumentVersion(up.etag)
    /\ up' = [up EXCEPT !.pc = "write"]
    /\ UNCHANGED <<rows, deviceVars, get, told>>

\* Mutant: the rows the answer dropped stay
UpstreamDeletesNothing(s) ==
    /\ up.pc = "write"
    /\ up.todo = {}
    /\ s \in up.dels
    /\ up' = [up EXCEPT !.dels = @ \ {s}]
    /\ UNCHANGED <<storeVars, deviceVars, get, told>>

\* ... then each row of the answer (UpdateSubDocument) ...
WriteUpstreamRow(s) ==
    /\ up.pc = "write"
    /\ s \in up.todo
    /\ SetSubDocument(s, up.final[s], InDeployment, "none", "nil")
    /\ up' = [up EXCEPT !.todo = @ \ {s}]
    /\ UNCHANGED <<root, deviceVars, get, told>>

\* ... and on a reset drops the others
DeleteUpstreamRow(s) ==
    /\ up.pc = "write"
    /\ up.todo = {}
    /\ s \in up.dels
    /\ DeleteSubDocument(s)
    /\ up' = [up EXCEPT !.dels = @ \ {s}]
    /\ UNCHANGED <<root, deviceVars, get, told>>

StoredAll == up.pc = "write" /\ up.todo = {} /\ up.dels = {}

\* the answer of upstream as a document
FinalDocument == [s \in SubdocIds |-> [EmptyRow EXCEPT !.version = up.final[s]]]

\* Mutant: only what upstream changed is sent
FinalSendableChanged(g) == {s \in Ids(FinalDocument) : up.final[s] # up.sent[s].version}

\* what is sent of it: new to the device, not blocked, in its bitmap
FinalSendable(g) ==
    LET ids == IF up.op = "reset" THEN Ids(FinalDocument)
               ELSE FilterForGet(FinalDocument, up.etag, g.hdrRoot, g.hdrVers) \ Blocked
    IN  IF FilterOutputByBitmapEnabled THEN FilterByBitmap(ids, g.meta) ELSE ids

UpstreamRespond ==
    /\ StoredAll \/ up.pc = "respond"
    /\ LET g      == get["device"]
           send   == FinalSendable(g)
           status == IF up.op = "reset"
                     THEN IF Ids(FinalDocument) = {} THEN "404" ELSE "200"
                     ELSE IF send = {} THEN "304" ELSE "200"
       IN  Reply([g EXCEPT !.doc = FinalDocument, !.cloudRoot = up.etag,
                           !.send = send, !.status = status])
    /\ UNCHANGED <<storeVars, deviceVars, told>>

\* the steps that draw no new version
UpstreamStep ==
    \/ \E h \in GetHandlers : UpstreamDecide(h)
    \/ ResetReadRoot
    \/ ResetStoreRoot
    \/ ResetReadDocument
    \/ ResetDelete
    \/ StoreUpstreamRoot
    \/ \E s \in SubdocIds : WriteUpstreamRow(s)
    \/ \E s \in SubdocIds : DeleteUpstreamRow(s)
    \/ UpstreamRespond
=============================================================================
