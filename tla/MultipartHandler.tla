-------------------------- MODULE MultipartHandler --------------------------
(***************************************************************************)
(* GET /api/v1/device/{mac}/config, by which a device downloads what is    *)
(* new to it: BuildWebconfigResponse (http/multipart.go) around            *)
(* BuildGetDocument and UpdateDocumentStateIndeployment (db/service.go).   *)
(* The same code answers a GET that arrives over MQTT and Kafka.           *)
(*                                                                         *)
(* Two callers are told apart: the device, which presents what it has and  *)
(* applies the answer, and "mget", a tool that presents no versions.  One  *)
(* request of each may be in flight.  The database calls of a handler are  *)
(* separate steps:                                                         *)
(*                                                                         *)
(*   predoc   GetDocument, only when the headers do not pair up            *)
(*   root     GetRootDocument                                              *)
(*   create   SetRootDocument, when there is no root row                   *)
(*   meta     SetRootDocument, when the metadata differs                   *)
(*   doc      GetDocument                                                  *)
(*   correct  SetSubDocument of each row state correction marks            *)
(*   update   SetSubDocument of each row about to be sent                  *)
(*   reply    the response is on its way                                   *)
(*                                                                         *)
(* With upstream enabled, a request is handed to UpstreamHandler once      *)
(* BuildGetDocument has returned:                                          *)
(*                                                                         *)
(*   built    BuildGetDocument has returned                                *)
(*   upstream the request waits for its exchange with upstream             *)
(*                                                                         *)
(* Not here: references into reference_document.                           *)
(***************************************************************************)
EXTENDS Device

CONSTANTS GetHandlers,                 \* subset of {"device", "mget"}
          MismatchedHeaders,           \* may the header lists differ in length?
          StateCorrectionEnabled,      \* webconfig.state_correction_enabled
          LockRootDocumentEnabled,     \* webconfig.lock_root_document_enabled
          FilterOutputByBitmapEnabled,
          UpstreamEnabled              \* webconfig.upstream.enabled

ASSUME GetAssumption == /\ GetHandlers \subseteq {"device", "mget"}
                        /\ MismatchedHeaders \in BOOLEAN
                        /\ StateCorrectionEnabled \in BOOLEAN
                        /\ LockRootDocumentEnabled \in BOOLEAN
                        /\ FilterOutputByBitmapEnabled \in BOOLEAN
                        /\ UpstreamEnabled \in BOOLEAN

VARIABLE get

GetPC      == {"idle", "predoc", "root", "create", "meta", "doc",
               "correct", "update", "reply", "built", "upstream"}
Comparison == {"none", "equals", "version", "meta"}
StatusCode == {"none", "200", "304", "404", "409"}

GetRequest ==
    [pc        : GetPC,
     hdrRoot   : RootVersion, hdrVers : Versions, meta : MetaColumn,
     cloudRoot : RootVersion, cloudMeta : MetaColumn, locked : BOOLEAN,
     cmp       : Comparison,
     hasDoc    : BOOLEAN, doc : Document,
     todo      : SUBSET SubdocIds,     \* rows still to be written
     send      : SUBSET SubdocIds,     \* the multiparts of the response
     status    : StatusCode]

IdleGet == [pc |-> "idle", hdrRoot |-> NoRoot,
            hdrVers |-> NoVersions, meta |-> NoMeta,
            cloudRoot |-> NoRoot, cloudMeta |-> NoMeta, locked |-> FALSE,
            cmp |-> "none", hasDoc |-> FALSE, doc |-> NoDocument,
            todo |-> {}, send |-> {}, status |-> "none"]

GetTypeOK == get \in [GetHandlers -> GetRequest]

GetInit == get = [h \in GetHandlers |-> IdleGet]

-----------------------------------------------------------------------------
(* The decisions of the handler that touch no table.                       *)

\* Mutant: a device that has some root version is taken to have the current one
CompareAnyVersion(h, cloudRoot, cloudMeta, hdrRoot, hdrMeta) ==
    IF h = "mget" THEN "version"
    ELSE IF cloudMeta # hdrMeta THEN "meta"
    ELSE IF cloudRoot = NoRoot \/ hdrRoot = NoRoot THEN "version"
    ELSE "equals"

\* RootDocument.Compare of the stored root document with what the request
\* presents.  VersionOnlyChanged and Missing are handled alike; mget skips
\* the comparison.
Compare(h, cloudRoot, cloudMeta, hdrRoot, hdrMeta) ==
    IF h = "mget" THEN "version"
    ELSE IF cloudMeta # hdrMeta THEN "meta"
    ELSE IF cloudRoot # hdrRoot \/ cloudRoot = NoRoot THEN "version"
    ELSE "equals"

\* The subdocuments state correction finds on the device although their
\* row is not yet Deployed
Correctable(g) ==
    {s \in Ids(g.doc) : /\ g.doc[s].version = g.hdrVers[s]
                          /\ g.doc[s].state \in PendingDownload..Failure}

\* the multiparts of the response, before the bitmap
Unfiltered(g) ==
    IF g.cmp = "meta" THEN Ids(g.doc)
    ELSE FilterForGet(g.doc, g.cloudRoot, g.hdrRoot, g.hdrVers) \ Blocked

\* what is sent: without blocked subdocuments and those the bitmap of the
\* root document excludes, which after a change is the device's
Sendable(g) ==
    LET ids == Unfiltered(g) \ Blocked
    IN  IF FilterOutputByBitmapEnabled
        THEN FilterByBitmap(ids, IF g.cmp = "meta" THEN g.meta ELSE g.cloudMeta)
        ELSE ids

Status(g) ==
    IF g.locked /\ root.locked /\ LockRootDocumentEnabled THEN "409"
    ELSE IF g.cmp = "equals" THEN "304"
    ELSE IF Ids(g.doc) = {} /\ ~StateCorrectionEnabled THEN "404"
    ELSE IF Unfiltered(g) = {} THEN "304"
    ELSE IF Sendable(g) = {} THEN "404"
    ELSE "200"

\* UpdateDocumentStateIndeployment leaves these states alone
ToMark(g) == {s \in Sendable(g) : g.doc[s].state \notin {Deployed, InDeployment}}

Answered(h, g) ==
    LET send == IF Status(g) = "200" THEN Sendable(g) ELSE {}
        todo == IF Status(g) = "200" /\ h # "mget" THEN ToMark(g) ELSE {}
    IN  [g EXCEPT !.pc = IF todo = {} THEN "reply" ELSE "update",
                  !.todo = todo, !.send = send, !.status = Status(g)]

Decide(h, g) ==
    IF UpstreamEnabled THEN [g EXCEPT !.pc = "built"] ELSE Answered(h, g)

AfterDocument(h, g) ==
    IF StateCorrectionEnabled /\ Correctable(g) # {}
    THEN [g EXCEPT !.pc = "correct", !.todo = Correctable(g)]
    ELSE Decide(h, g)

AfterRoot(h, g) ==
    IF ~g.hasDoc /\ (StateCorrectionEnabled \/ g.cmp # "equals")
    THEN [g EXCEPT !.pc = "doc"]
    ELSE IF g.hasDoc THEN AfterDocument(h, g)
    ELSE Decide(h, g)

-----------------------------------------------------------------------------
(* Requests                                                                *)

\* the device GETs, with what it has in its headers; parseVersionMap
\* rejects lists of names and versions that differ in length
DeviceGet(mismatch) ==
    /\ "device" \in GetHandlers
    /\ get["device"].pc = "idle"
    /\ DevicePolls \/ poked
    /\ mismatch => MismatchedHeaders
    /\ get' = [get EXCEPT !["device"] = [@ EXCEPT
                  !.pc = IF mismatch THEN "predoc" ELSE "root",
                  !.hdrRoot = dev.root, !.hdrVers = dev.vers, !.meta = dev.meta]]
    /\ poked' = FALSE
    /\ UNCHANGED <<storeVars, dev, events>>

MgetGet(m) ==
    /\ "mget" \in GetHandlers
    /\ get["mget"].pc = "idle"
    /\ get' = [get EXCEPT !["mget"] = [@ EXCEPT !.pc = "root", !.meta = m]]
    /\ UNCHANGED <<storeVars, deviceVars>>

\* Mutant: the document's versions, without a look at those presented
IsDocumentVersionMap(vers, hdrVers, doc) ==
    \A s \in SubdocIds : vers[s] = doc[s].version

\* RebuildDeviceVersionMap: the versions presented are looked up in the
\* document; a version that two subdocuments share goes to one of them.
IsRebuiltVersionMap(vers, hdrVers, doc) ==
    LET presented == {hdrVers[t] : t \in SubdocIds}
    IN  /\ \A s \in SubdocIds :
              vers[s] # 0 => s \in Ids(doc) /\ vers[s] = doc[s].version
                                             /\ vers[s] \in presented
        /\ \A s \in Ids(doc) : doc[s].version \in presented =>
              Cardinality({t \in SubdocIds : vers[t] = doc[s].version}) = 1

GetReadDocFirst(h) ==
    /\ get[h].pc = "predoc"
    /\ LET doc == GetDocument(FALSE)
       IN  IF Ids(doc) = {}
           THEN get' = [get EXCEPT ![h].pc = IF UpstreamEnabled THEN "built" ELSE "reply",
                                   ![h].cmp = "version", ![h].status = "404"]
           ELSE \E vers \in [SubdocIds -> {0} \cup {doc[s].version : s \in SubdocIds}] :
                  /\ IsRebuiltVersionMap(vers, get[h].hdrVers, doc)
                  /\ get' = [get EXCEPT ![h].pc = "root", ![h].hasDoc = TRUE,
                                        ![h].doc = doc, ![h].hdrVers = vers]
    /\ UNCHANGED <<storeVars, deviceVars>>

\* GetRootDocument; without a row the request goes on with a root document
\* that has the device's metadata and no version
GetReadRoot(h) ==
    /\ get[h].pc = "root"
    /\ LET m == IF root.exists THEN root.meta ELSE get[h].meta
           v == IF root.exists THEN root.version ELSE NoRoot
           g == [get[h] EXCEPT
                    !.cloudRoot = v, !.cloudMeta = m,
                    !.locked = root.exists /\ root.locked,
                    !.cmp = Compare(h, v, m, get[h].hdrRoot, get[h].meta)]
       IN  get' = [get EXCEPT ![h] =
                     IF ~root.exists THEN [g EXCEPT !.pc = "create"]
                     ELSE IF m # g.meta THEN [g EXCEPT !.pc = "meta"]
                     ELSE AfterRoot(h, g)]
    /\ UNCHANGED <<storeVars, deviceVars>>

\* the metadata of the request is stored, for mget too
GetStoreMeta(h) ==
    /\ get[h].pc \in {"create", "meta"}
    /\ SetRootDocument(get[h].meta)
    /\ get' = [get EXCEPT ![h] = AfterRoot(h, get[h])]
    /\ UNCHANGED <<rows, deviceVars>>

GetReadDocument(h) ==
    /\ get[h].pc = "doc"
    /\ get' = [get EXCEPT ![h] =
                 AfterDocument(h, [get[h] EXCEPT !.hasDoc = TRUE,
                                                 !.doc = GetDocument(FALSE)])]
    /\ UNCHANGED <<storeVars, deviceVars>>

\* State correction writes back the row it read, all columns of it, with
\* the state set to Deployed and the error cleared
CorrectState(h, s) ==
    /\ get[h].pc = "correct"
    /\ s \in get[h].todo
    /\ LET r == get[h].doc[s]
           g == [get[h] EXCEPT !.todo = @ \ {s}]
           \* the timestamp read; it may have passed in the meantime
           expiry == IF r.expiry = "live" /\ rows[s].expiry # "past"
                     THEN "live" ELSE "nil"
       IN  /\ SetSubDocument(s, r.version, Deployed, "none", expiry)
           /\ get' = [get EXCEPT ![h] = IF g.todo = {} THEN Decide(h, g) ELSE g]
    /\ UNCHANGED <<root, deviceVars>>

\* Mutant: the Etag is read again once the rows are marked
MarkInDeploymentNewEtag(h, s) ==
    /\ get[h].pc = "update"
    /\ s \in get[h].todo
    /\ SetSubDocument(s, NilVersion, InDeployment, "none", "nil")
    /\ get' = [get EXCEPT ![h].todo = @ \ {s}, ![h].cloudRoot = root.version,
                          ![h].pc = IF get[h].todo = {s} THEN "reply" ELSE "update"]
    /\ UNCHANGED <<root, deviceVars>>

\* UpdateDocumentStateIndeployment
MarkInDeployment(h, s) ==
    /\ get[h].pc = "update"
    /\ s \in get[h].todo
    /\ SetSubDocument(s, NilVersion, InDeployment, "none", "nil")
    /\ get' = [get EXCEPT ![h].todo = @ \ {s},
                          ![h].pc = IF get[h].todo = {s} THEN "reply" ELSE "update"]
    /\ UNCHANGED <<root, deviceVars>>

-----------------------------------------------------------------------------
(* Responses                                                               *)

\* the response reaches the device, which applies what it can
DeviceReceives(applied) ==
    /\ "device" \in GetHandlers
    /\ LET g == get["device"]
       IN  /\ g.pc = "reply"
           /\ applied \subseteq g.send
           /\ \/ /\ g.status = "200"
                 /\ ApplyDocument(g.cloudRoot, VersionMap(g.doc), g.send, applied)
              \/ /\ g.status = "304"
                 /\ Emit({Http304Report})
                 /\ UNCHANGED dev
              \/ /\ g.status \in {"404", "409"}
                 /\ UNCHANGED <<dev, events>>
           /\ get' = [get EXCEPT !["device"] = IdleGet]
    /\ UNCHANGED <<storeVars, poked>>

MgetReceives ==
    /\ "mget" \in GetHandlers
    /\ get["mget"].pc = "reply"
    /\ get' = [get EXCEPT !["mget"] = IdleGet]
    /\ UNCHANGED <<storeVars, deviceVars>>

\* a database error answers 500, or the response is lost on the way
GetFails(h) ==
    /\ get[h].pc # "idle"
    /\ get' = [get EXCEPT ![h] = IdleGet]
    /\ UNCHANGED <<storeVars, deviceVars>>

GetStep(h) ==
    \/ GetReadDocFirst(h)
    \/ GetReadRoot(h)
    \/ GetStoreMeta(h)
    \/ GetReadDocument(h)
    \/ \E s \in SubdocIds : CorrectState(h, s)
    \/ \E s \in SubdocIds : MarkInDeployment(h, s)
=============================================================================
