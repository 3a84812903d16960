-------------------------- MODULE Webconfig_proofs --------------------------
(***************************************************************************)
(* Proofs about Webconfig, for every number of handlers, sub-documents,    *)
(* versions, pokes and failures.                                           *)
(***************************************************************************)
EXTENDS Webconfig, FiniteSetTheorems, TLAPS

-----------------------------------------------------------------------------
(* What the operators of the store return.                                 *)

\* The empty values have their types.
LEMMA EmptyTypes ==
    /\ NoRoot \in RootVersion
    /\ EmptyRow \in Row
    /\ NoDocument \in Document
    /\ NoVersions \in Versions
<1>1. EmptyRow \in Row
  BY DEF EmptyRow, Row, States
<1> QED
  BY <1>1 DEF NoRoot, RootVersion, NoDocument, Document, NoVersions, Versions

\* A root version computed from a version map is a set of pairs of naturals.
LEMMA HashRootVersionType ==
    ASSUME NEW vm \in Versions
    PROVE  HashRootVersion(vm) \in RootVersion
<1> DEFINE names == {s \in SubdocIds : vm[s] # 0}
<1>1. ASSUME NEW s \in names
      PROVE  Cardinality({t \in names : t <= s}) \in Nat
  <2>1. {t \in names : t <= s} \subseteq SubdocIds
    OBVIOUS
  <2>2. IsFiniteSet({t \in names : t <= s})
    BY <2>1, FS_Subset, StoreAssumption
  <2> QED
    BY <2>2, FS_CardinalityType
<1>2. \A s \in names : vm[s] \in Nat
  BY DEF Versions
<1>3. ASSUME NEW s \in names
      PROVE  <<Cardinality({t \in names : t <= s}), vm[s]>> \in Nat \X Nat
  BY <1>1, <1>2, <1>3
<1>4. HashRootVersion(vm) = {<<Cardinality({t \in names : t <= s}), vm[s]>> : s \in names}
  BY DEF HashRootVersion
<1> HIDE DEF names
<1> QED
  BY <1>3, <1>4 DEF RootVersion

\* A document read from the table is a document.
LEMMA GetDocumentType ==
    ASSUME StoreTypeOK, NEW b \in BOOLEAN
    PROVE  GetDocument(b) \in Document
BY DEF StoreTypeOK, GetDocument, Document, EmptyRow, Row, States

\* The versions of a document.
LEMMA VersionMapType ==
    ASSUME NEW doc \in Document
    PROVE  VersionMap(doc) \in Versions
BY DEF VersionMap, Document, Versions, Row

\* SetSubDocument keeps the type of the table, nil columns included.
LEMMA SetSubDocumentType ==
    ASSUME StoreTypeOK, NEW s \in SubdocIds, NEW version \in Nat,
           NEW state \in States \cup {NilState},
           NEW err \in {"none", "set", "nil"},
           NEW expiry \in {"none", "live", "past", "nil"},
           SetSubDocument(s, version, state, err, expiry)
    PROVE  rows' \in [SubdocIds -> Row]
BY DEF StoreTypeOK, SetSubDocument, Row, NilVersion, NilState, States
-----------------------------------------------------------------------------
(* The decisions of the GET handler.                                       *)

\* Whatever it decides, a request stays a request.
LEMMA DecideType ==
    ASSUME NEW h, NEW g \in GetRequest
    PROVE  Decide(h, g) \in GetRequest
<1>1. Sendable(g) \in SUBSET SubdocIds
  BY DEF Sendable, Unfiltered, FilterForGet, FilterByBitmap, Ids
<1>2. ToMark(g) \in SUBSET SubdocIds
  BY <1>1 DEF ToMark
<1>3. Status(g) \in StatusCode
  BY DEF Status, StatusCode
<1> QED
  BY <1>1, <1>2, <1>3 DEF Decide, Answered, GetRequest, GetPC

\* What a request does after GetDocument leaves a request.
LEMMA AfterDocumentType ==
    ASSUME NEW h, NEW g \in GetRequest
    PROVE  AfterDocument(h, g) \in GetRequest
<1>1. Correctable(g) \in SUBSET SubdocIds
  BY DEF Correctable, Ids
<1> QED
  BY <1>1, DecideType DEF AfterDocument, GetRequest, GetPC

\* What a request does after GetRootDocument leaves a request.
LEMMA AfterRootType ==
    ASSUME NEW h, NEW g \in GetRequest
    PROVE  AfterRoot(h, g) \in GetRequest
BY DecideType, AfterDocumentType DEF AfterRoot, GetRequest, GetPC

\* What the device applies keeps the type of its state and of its reports.
LEMMA ApplyDocumentType ==
    ASSUME DeviceTypeOK, NEW etag \in RootVersion, NEW vers \in Versions,
           NEW sent \in SUBSET SubdocIds, NEW applied \in SUBSET SubdocIds,
           ApplyDocument(etag, vers, sent, applied)
    PROVE  dev' \in DeviceState /\ events' \subseteq Event
<1>1. dev' \in DeviceState
  BY DEF ApplyDocument, DeviceTypeOK, DeviceState, Versions
<1>2. \A s \in sent : SubdocReport(s, vers[s], s \in applied) \in SubdocEvent
  BY DEF SubdocReport, SubdocEvent, Versions
<1>3. events' \subseteq Event
  BY <1>2 DEF ApplyDocument, Emit, DeviceTypeOK, Event
<1> QED
  BY <1>1, <1>3

-----------------------------------------------------------------------------
(* Type correctness.                                                       *)

LEMMA WriterTypes ==
    ASSUME StoreTypeOK, WriterTypeOK, NEW w \in Writers, WriterStep(w) \/ WriterFails(w)
    PROVE  StoreTypeOK' /\ WriterTypeOK'
<1>0. IdleWriter \in Writer
  BY EmptyTypes DEF IdleWriter, Writer
<1> USE DEF WriterTypeOK
<1>1. ASSUME NEW s \in SubdocIds, NEW v \in 1..nextVersion,
             NEW state \in PostStates, NEW expiry \in PostExpiries,
             PostSubDocument(w, s, v, state, expiry)
      PROVE  StoreTypeOK' /\ WriterTypeOK'
  <2>1. rows' \in [SubdocIds -> Row]
    BY <1>1, SetSubDocumentType, WriterAssumption DEF PostSubDocument
  <2>2. nextVersion' \in Nat \ {0}
    BY <1>1 DEF PostSubDocument, PostedVersion
  <2>3. [IdleWriter EXCEPT !.pc = "read", !.op = "post", !.subdoc = s, !.version = v] \in Writer
    <3>1. s \in Nat /\ v \in Nat
      BY StoreAssumption
    <3> QED
      BY <1>0, <3>1 DEF Writer
  <2> QED
    BY <1>1, <2>1, <2>2, <2>3 DEF PostSubDocument, StoreTypeOK
<1>2. CASE PostReadDocument(w)
  <2> DEFINE vm == [VersionMap(GetDocument(TRUE)) EXCEPT ![nb[w].subdoc] = nb[w].version]
  <2>1. vm \in Versions
    BY GetDocumentType, VersionMapType DEF Versions, Writer
  <2>2. HashRootVersion(vm) \in RootVersion
    BY <2>1, HashRootVersionType
  <2>3. nb' = [nb EXCEPT ![w].pc = "root", ![w].newRoot = HashRootVersion(vm)]
    BY <1>2 DEF PostReadDocument
  <2> HIDE DEF vm
  <2>4. nb' \in [Writers -> Writer]
    BY <2>2, <2>3 DEF Writer
  <2> QED
    BY <1>2, <2>4 DEF PostReadDocument, StoreTypeOK, storeVars
<1>3. ASSUME NEW s \in SubdocIds, DeleteSubDocumentRow(w, s)
      PROVE  StoreTypeOK' /\ WriterTypeOK'
  <2>1. [IdleWriter EXCEPT !.pc = "read", !.op = "delete"] \in Writer
    BY <1>0 DEF Writer
  <2> QED
    BY <1>3, <2>1, EmptyTypes DEF DeleteSubDocumentRow, DeleteSubDocument, StoreTypeOK
<1>4. CASE DeleteDocumentRows(w)
  <2>1. [IdleWriter EXCEPT !.pc = "read", !.op = "delete"] \in Writer
    BY <1>0 DEF Writer
  <2> QED
    BY <1>4, <2>1, EmptyTypes DEF DeleteDocumentRows, DeleteDocument, Document, StoreTypeOK
<1>5. CASE DeleteReadDocument(w)
  <2>1. HashRootVersion(VersionMap(GetDocument(FALSE))) \in RootVersion
    BY GetDocumentType, VersionMapType, HashRootVersionType
  <2> DEFINE pc == IF Ids(GetDocument(FALSE)) = {} THEN "droproot" ELSE "root"
  <2>2. [nb[w] EXCEPT !.pc = pc,
                      !.newRoot = HashRootVersion(VersionMap(GetDocument(FALSE)))] \in Writer
    BY <2>1 DEF Writer
  <2>3. nb' \in [Writers -> Writer]
    BY <1>5, <2>2 DEF DeleteReadDocument
  <2> QED
    BY <1>5, <2>3 DEF DeleteReadDocument, StoreTypeOK, storeVars
<1>6. CASE WriteRootVersion(w)
  <2>1. nb[w].newRoot \in RootVersion
    BY DEF Writer
  <2> QED
    BY <1>0, <1>6, <2>1 DEF WriteRootVersion, SetRootDocumentVersion, StoreTypeOK, RootRow
<1>7. CASE DropRootVersion(w)
  BY <1>0, <1>7, EmptyTypes
  DEF DropRootVersion, DeleteRootDocumentVersion, StoreTypeOK, RootRow
<1>8. CASE WriterFails(w)
  BY <1>0, <1>8 DEF WriterFails, StoreTypeOK, storeVars
<1> QED
  BY <1>1, <1>2, <1>3, <1>4, <1>5, <1>6, <1>7, <1>8 DEF WriterStep

\* Steps of the GET handler, and requests.
LEMMA GetTypes ==
    ASSUME StoreTypeOK, DeviceTypeOK, GetTypeOK, NEW h \in GetHandlers,
           GetStep(h) \/ GetFails(h)
    PROVE  StoreTypeOK' /\ DeviceTypeOK' /\ GetTypeOK'
<1>0. IdleGet \in GetRequest
  BY EmptyTypes DEF IdleGet, GetRequest, GetPC, MetaColumn, Comparison, StatusCode
<1> USE DEF GetTypeOK
<1>1. CASE GetReadDocFirst(h)
  <2> DEFINE doc == GetDocument(FALSE)
  <2>1. doc \in Document
    BY GetDocumentType
  <2>2. CASE Ids(doc) = {}
    BY <1>1, <2>2 DEF GetReadDocFirst, GetRequest, GetPC, Comparison, StatusCode, StoreTypeOK,
                      DeviceTypeOK, storeVars, deviceVars
  <2>3. CASE Ids(doc) # {}
    <3>1. PICK vers \in [SubdocIds -> {0} \cup {doc[s].version : s \in SubdocIds}] :
              get' = [get EXCEPT ![h].pc = "root", ![h].hasDoc = TRUE,
                                 ![h].doc = doc, ![h].hdrVers = vers]
      BY <1>1, <2>3 DEF GetReadDocFirst
    <3>2. vers \in Versions
      <4>1. \A s \in SubdocIds : doc[s].version \in Nat
        BY <2>1 DEF Document, Row
      <4> HIDE DEF doc
      <4> QED
        BY <4>1 DEF Versions
    <3> HIDE DEF doc
    <3>3. [get[h] EXCEPT !.pc = "root", !.hasDoc = TRUE, !.doc = doc,
                         !.hdrVers = vers] \in GetRequest
      <4>1. "root" \in GetPC
        BY DEF GetPC
      <4> QED
        BY <2>1, <3>2, <4>1 DEF GetRequest
    <3>4. get' \in [GetHandlers -> GetRequest]
      BY <3>1, <3>3
    <3> QED
      BY <1>1, <3>4 DEF GetReadDocFirst, StoreTypeOK, DeviceTypeOK, storeVars, deviceVars
  <2> QED
    BY <2>2, <2>3
<1>2. CASE GetReadRoot(h)
  <2> DEFINE m == IF root.exists THEN root.meta ELSE get[h].meta
             v == IF root.exists THEN root.version ELSE NoRoot
             g == [get[h] EXCEPT !.cloudRoot = v, !.cloudMeta = m,
                                 !.locked = root.exists /\ root.locked,
                                 !.cmp = Compare(h, v, m, get[h].hdrRoot, get[h].meta)]
             new == IF ~root.exists THEN [g EXCEPT !.pc = "create"]
                    ELSE IF m # g.meta THEN [g EXCEPT !.pc = "meta"]
                    ELSE AfterRoot(h, g)
  <2>1. m \in MetaColumn /\ v \in RootVersion
    BY EmptyTypes DEF StoreTypeOK, RootRow, GetRequest
  <2>2. Compare(h, v, m, get[h].hdrRoot, get[h].meta) \in Comparison
    BY DEF Compare, Comparison
  <2>3. (root.exists /\ root.locked) \in BOOLEAN
    OBVIOUS
  <2>4. get' = [get EXCEPT ![h] = new]
    BY <1>2 DEF GetReadRoot
  <2> HIDE DEF m, v
  <2>5. g \in GetRequest
    BY <2>1, <2>2, <2>3 DEF GetRequest
  <2> HIDE DEF g
  <2>6. new \in GetRequest
    BY <2>5, AfterRootType DEF GetRequest, GetPC
  <2> HIDE DEF new
  <2> QED
    BY <1>2, <2>4, <2>6 DEF GetReadRoot, StoreTypeOK, DeviceTypeOK, storeVars, deviceVars
<1>3. CASE GetStoreMeta(h)
  <2>1. root' \in RootRow
    BY <1>3 DEF GetStoreMeta, SetRootDocument, StoreTypeOK, RootRow, GetRequest
  <2>2. get' \in [GetHandlers -> GetRequest]
    BY <1>3, AfterRootType DEF GetStoreMeta
  <2> QED
    BY <1>3, <2>1, <2>2 DEF GetStoreMeta, StoreTypeOK, DeviceTypeOK, deviceVars
<1>4. CASE GetReadDocument(h)
  <2>1. [get[h] EXCEPT !.hasDoc = TRUE, !.doc = GetDocument(FALSE)] \in GetRequest
    BY GetDocumentType DEF GetRequest
  <2>2. get' \in [GetHandlers -> GetRequest]
    BY <1>4, <2>1, AfterDocumentType DEF GetReadDocument
  <2> QED
    BY <1>4, <2>2 DEF GetReadDocument, StoreTypeOK, DeviceTypeOK, storeVars, deviceVars
<1>5. ASSUME NEW s \in SubdocIds, CorrectState(h, s)
      PROVE  StoreTypeOK' /\ DeviceTypeOK' /\ GetTypeOK'
  <2> DEFINE r == get[h].doc[s]
             g == [get[h] EXCEPT !.todo = @ \ {s}]
             expiry == IF r.expiry = "live" /\ rows[s].expiry # "past"
                       THEN "live" ELSE "nil"
  <2>1. r.version \in Nat /\ Deployed \in States
    BY DEF GetRequest, Document, Row, Deployed, States
  <2>2. SetSubDocument(s, r.version, Deployed, "none", expiry)
    BY <1>5 DEF CorrectState
  <2>3. rows' \in [SubdocIds -> Row]
    BY <2>1, <2>2, SetSubDocumentType
  <2>4. g \in GetRequest
    BY DEF GetRequest
  <2>5. get' = [get EXCEPT ![h] = IF g.todo = {} THEN Decide(h, g) ELSE g]
    BY <1>5 DEF CorrectState
  <2> HIDE DEF g
  <2>6. get' \in [GetHandlers -> GetRequest]
    BY <2>4, <2>5, DecideType
  <2> QED
    BY <1>5, <2>3, <2>6 DEF CorrectState, StoreTypeOK, DeviceTypeOK, deviceVars
<1>6. ASSUME NEW s \in SubdocIds, MarkInDeployment(h, s)
      PROVE  StoreTypeOK' /\ DeviceTypeOK' /\ GetTypeOK'
  <2>1. NilVersion \in Nat /\ InDeployment \in States
    BY DEF NilVersion, InDeployment, States
  <2>2. rows' \in [SubdocIds -> Row]
    BY <1>6, <2>1, SetSubDocumentType DEF MarkInDeployment
  <2>3. get' \in [GetHandlers -> GetRequest]
    <3>1. [get[h] EXCEPT !.todo = get[h].todo \ {s},
                         !.pc = IF get[h].todo = {s} THEN "reply" ELSE "update"] \in GetRequest
      BY DEF GetRequest, GetPC
    <3> QED
      BY <1>6, <3>1 DEF MarkInDeployment
  <2> QED
    BY <1>6, <2>2, <2>3 DEF MarkInDeployment, StoreTypeOK, DeviceTypeOK, deviceVars
<1>7. CASE GetFails(h)
  BY <1>0, <1>7 DEF GetFails, StoreTypeOK, DeviceTypeOK, storeVars, deviceVars
<1> QED
  BY <1>1, <1>2, <1>3, <1>4, <1>5, <1>6, <1>7 DEF GetStep

\* Requests, responses and upgrades.
LEMMA DeviceTypes ==
    ASSUME StoreTypeOK, DeviceTypeOK, GetTypeOK,
           \/ \E mismatch \in BOOLEAN : DeviceGet(mismatch)
           \/ \E m \in Metas : MgetGet(m)
           \/ \E applied \in SUBSET SubdocIds : DeviceReceives(applied)
           \/ MgetReceives
           \/ \E m \in Metas : Upgrade(m) /\ UNCHANGED <<storeVars, get>>
    PROVE  StoreTypeOK' /\ DeviceTypeOK' /\ GetTypeOK'
<1>0. IdleGet \in GetRequest
  BY EmptyTypes DEF IdleGet, GetRequest, GetPC, MetaColumn, Comparison, StatusCode
<1> USE DEF GetTypeOK
<1>1. ASSUME NEW mismatch \in BOOLEAN, DeviceGet(mismatch)
      PROVE  StoreTypeOK' /\ DeviceTypeOK' /\ GetTypeOK'
  <2>1. dev.root \in RootVersion /\ dev.vers \in Versions /\ dev.meta \in MetaColumn
    BY DEF DeviceTypeOK, DeviceState, MetaColumn
  <2>2. [get["device"] EXCEPT
            !.pc = IF mismatch THEN "predoc" ELSE "root",
            !.hdrRoot = dev.root, !.hdrVers = dev.vers, !.meta = dev.meta] \in GetRequest
    <3>1. "predoc" \in GetPC /\ "root" \in GetPC
      BY DEF GetPC
    <3> QED
      BY <1>1, <2>1, <3>1 DEF DeviceGet, GetRequest
  <2>3. get' \in [GetHandlers -> GetRequest]
    BY <1>1, <2>2 DEF DeviceGet
  <2> QED
    BY <1>1, <2>3 DEF DeviceGet, StoreTypeOK, DeviceTypeOK, storeVars
<1>2. ASSUME NEW m \in Metas, MgetGet(m)
      PROVE  StoreTypeOK' /\ DeviceTypeOK' /\ GetTypeOK'
  <2>1. [get["mget"] EXCEPT !.pc = "root", !.meta = m] \in GetRequest
    BY <1>2 DEF MgetGet, GetRequest, GetPC, MetaColumn
  <2> QED
    BY <1>2, <2>1 DEF MgetGet, StoreTypeOK, DeviceTypeOK, storeVars, deviceVars
<1>3. ASSUME NEW applied \in SUBSET SubdocIds, DeviceReceives(applied)
      PROVE  StoreTypeOK' /\ DeviceTypeOK' /\ GetTypeOK'
  <2> DEFINE g == get["device"]
  <2>1. g \in GetRequest /\ g.send \subseteq SubdocIds
    BY <1>3 DEF DeviceReceives, GetRequest
  <2>2. get' \in [GetHandlers -> GetRequest]
    BY <1>0, <1>3 DEF DeviceReceives
  <2>3. dev' \in DeviceState /\ events' \subseteq Event
    <3>1. CASE ApplyDocument(g.cloudRoot, VersionMap(g.doc), g.send, applied)
      <4>1. g.cloudRoot \in RootVersion /\ VersionMap(g.doc) \in Versions
        BY <2>1, VersionMapType DEF GetRequest
      <4> QED
        BY <2>1, <3>1, <4>1, ApplyDocumentType
    <3>2. CASE Emit({Http304Report}) /\ UNCHANGED dev
      BY <3>2 DEF Emit, Http304Report, DeviceTypeOK, Event, RootdocEvent
    <3> QED
      BY <1>3, <3>1, <3>2 DEF DeviceReceives, DeviceTypeOK
  <2> QED
    BY <1>3, <2>2, <2>3 DEF DeviceReceives, StoreTypeOK, DeviceTypeOK, storeVars
<1>4. CASE MgetReceives
  BY <1>0, <1>4 DEF MgetReceives, StoreTypeOK, DeviceTypeOK, storeVars, deviceVars
<1>5. ASSUME NEW m \in Metas, Upgrade(m), UNCHANGED <<storeVars, get>>
      PROVE  StoreTypeOK' /\ DeviceTypeOK' /\ GetTypeOK'
  BY <1>5 DEF Upgrade, StoreTypeOK, DeviceTypeOK, DeviceState, storeVars
<1> QED
  BY <1>1, <1>2, <1>3, <1>4, <1>5

\* Steps of the report consumers.
LEMMA ReportTypes ==
    ASSUME StoreTypeOK, DeviceTypeOK, ReportTypeOK, NEW c \in Consumers,
           ReportStep(c) \/ ReportFails(c) \/ ReportCrashes(c)
    PROVE  StoreTypeOK' /\ DeviceTypeOK' /\ ReportTypeOK'
<1>0. IdleReport \in Handling /\ IdleReport.pc = "idle"
  BY DEF IdleReport, Handling, Http304Report, Event, RootdocEvent
<1>a. NilVersion \in Nat /\ Deployed \in States /\ Failure \in States
  BY DEF NilVersion, Deployed, Failure, States
<1>1. ASSUME NEW e \in events, TakeReport(c, e)
      PROVE  StoreTypeOK' /\ DeviceTypeOK' /\ ReportTypeOK'
  <2>1. [rep[c] EXCEPT !.pc = "read", !.event = e] \in Handling
    BY DEF DeviceTypeOK, ReportTypeOK, Handling
  <2>2. ReportTypeOK'
    BY <1>1, <2>1 DEF TakeReport, ReportTypeOK
  <2> QED
    BY <1>1, <2>2 DEF TakeReport, StoreTypeOK, DeviceTypeOK, storeVars
<1>2. CASE Read304(c)
  <2> DEFINE todo == {s \in Ids(GetDocument(FALSE)) :
                        NeedsUpdateForHttp304(GetDocument(FALSE)[s])}
             new  == IF todo = {} THEN IdleReport
                     ELSE [rep[c] EXCEPT !.pc = "mark", !.todo = todo]
  <2>1. todo \in SUBSET SubdocIds
    BY DEF Ids
  <2>2. rep' = [rep EXCEPT ![c] = new]
    BY <1>2 DEF Read304
  <2> HIDE DEF todo
  <2>3. new \in Handling /\ new.pc # "set"
    BY <1>0, <2>1 DEF ReportTypeOK, Handling
  <2> HIDE DEF new
  <2> QED
    BY <1>2, <2>2, <2>3 DEF Read304, ReportTypeOK, StoreTypeOK, DeviceTypeOK,
                            storeVars, deviceVars
<1>3. ASSUME NEW s \in SubdocIds, MarkDeployed(c, s)
      PROVE  StoreTypeOK' /\ DeviceTypeOK' /\ ReportTypeOK'
  <2>1. rows' \in [SubdocIds -> Row]
    BY <1>3, <1>a, SetSubDocumentType DEF MarkDeployed
  <2> DEFINE new == IF rep[c].todo = {s} THEN IdleReport
                    ELSE [rep[c] EXCEPT !.todo = rep[c].todo \ {s}]
  <2>2. new \in Handling /\ new.pc # "set"
    BY <1>0, <1>3 DEF MarkDeployed, ReportTypeOK, Handling
  <2>3. ReportTypeOK'
    <3>1. rep' = [rep EXCEPT ![c] = new]
      BY <1>3 DEF MarkDeployed
    <3> HIDE DEF new
    <3> QED
      BY <2>2, <3>1 DEF ReportTypeOK
  <2> QED
    BY <1>3, <2>1, <2>3 DEF MarkDeployed, StoreTypeOK, DeviceTypeOK, deviceVars
<1>4. CASE ReadSubdoc(c)
  <2>1. rep[c].event \in SubdocEvent
    BY <1>4 DEF ReadSubdoc, ReportTypeOK, Handling, Event, RootdocEvent
  <2>2. [rep[c] EXCEPT !.pc = "set"] \in Handling
    BY DEF ReportTypeOK, Handling
  <2>3. ReportTypeOK'
    BY <1>0, <1>4, <2>1, <2>2 DEF ReadSubdoc, ReportTypeOK
  <2> QED
    BY <1>4, <2>3 DEF ReadSubdoc, StoreTypeOK, DeviceTypeOK, storeVars, deviceVars
<1>5. CASE SetReportedState(c)
  <2>1. rep[c].event.subdoc \in SubdocIds
    BY <1>5 DEF SetReportedState, ReportTypeOK, SubdocEvent
  <2>2. rows' \in [SubdocIds -> Row]
    BY <1>5, <1>a, <2>1, SetSubDocumentType DEF SetReportedState
  <2>3. ReportTypeOK'
    BY <1>0, <1>5 DEF SetReportedState, ReportTypeOK
  <2> QED
    BY <1>5, <2>2, <2>3 DEF SetReportedState, StoreTypeOK, DeviceTypeOK, deviceVars
<1>6. CASE ReportFails(c)
  BY <1>0, <1>6 DEF ReportFails, ReportTypeOK, StoreTypeOK, DeviceTypeOK,
                    storeVars, deviceVars
<1>7. CASE ReportCrashes(c)
  <2>1. rep[c].event \in Event
    BY DEF ReportTypeOK, Handling
  <2> QED
    BY <1>0, <1>7, <2>1 DEF ReportCrashes, ReportTypeOK, StoreTypeOK, DeviceTypeOK, storeVars
<1> QED
  BY <1>1, <1>2, <1>3, <1>4, <1>5, <1>6, <1>7 DEF ReportStep

\* Steps of the poke handlers, and the documents they push.
LEMMA PokeTypes ==
    ASSUME StoreTypeOK, DeviceTypeOK, PokeTypeOK,
           \/ \E p \in Pokers : PokeStep(p) \/ PokeFails(p)
           \/ \E m \in push : PushArrives(m, Names(m.vers))
    PROVE  StoreTypeOK' /\ DeviceTypeOK' /\ PokeTypeOK'
<1>0. \A code \in PokeAnswer : IdlePoke(code) \in Poke
  BY EmptyTypes DEF IdlePoke, Poke
<1> USE DEF PokeTypeOK
<1>1. ASSUME NEW p \in Pokers, NEW route \in PokeRoutes, PokeReadDocument(p, route)
      PROVE  StoreTypeOK' /\ DeviceTypeOK' /\ PokeTypeOK'
  <2> DEFINE doc  == GetDocument(FALSE)
             send == [s \in SubdocIds |-> IF s \in FilterForMqttSend(doc) \ Blocked
                                           THEN doc[s] ELSE EmptyRow]
  <2>1. send \in Document
    <3>1. doc \in Document
      BY GetDocumentType
    <3> HIDE DEF doc
    <3> QED
      BY <3>1, EmptyTypes DEF Document
  <2>2. CASE \E code \in PokeAnswer : Answer(p, code)
    BY <1>0, <1>1, <2>2 DEF PokeReadDocument, NewPoke, Answer, StoreTypeOK, DeviceTypeOK,
                            storeVars, deviceVars
  <2>3. CASE pk' = [pk EXCEPT ![p] = [IdlePoke("none") EXCEPT
                       !.pc = "root", !.route = route, !.send = send]]
    <3>1. route \in {"mqtt", "webpa"}
      BY <1>1 DEF PokeReadDocument
    <3> HIDE DEF send
    <3>2. [IdlePoke("none") EXCEPT !.pc = "root", !.route = route, !.send = send] \in Poke
      BY <1>0, <2>1, <3>1 DEF Poke, PokeAnswer
    <3> QED
      BY <1>1, <2>3, <3>2 DEF PokeReadDocument, NewPoke, StoreTypeOK, DeviceTypeOK,
                              storeVars, deviceVars
  <2> QED
    BY <1>1, <2>2, <2>3 DEF PokeReadDocument, PokeAnswer
<1>2. ASSUME NEW p \in Pokers, PokeReadRoot(p)
      PROVE  StoreTypeOK' /\ DeviceTypeOK' /\ PokeTypeOK'
  <2>1. CASE \E code \in PokeAnswer : Answer(p, code)
    BY <1>0, <1>2, <2>1 DEF PokeReadRoot, Answer, StoreTypeOK, DeviceTypeOK,
                            storeVars, deviceVars
  <2>2. CASE pk' = [pk EXCEPT ![p].pc = "post", ![p].etag = root.version]
    <3>1. [pk[p] EXCEPT !.pc = "post", !.etag = root.version] \in Poke
      BY DEF Poke, StoreTypeOK, RootRow
    <3> QED
      BY <1>2, <2>2, <3>1 DEF PokeReadRoot, StoreTypeOK, DeviceTypeOK, storeVars, deviceVars
  <2> QED
    BY <1>2, <2>1, <2>2 DEF PokeReadRoot, PokeAnswer
<1>3. ASSUME NEW p \in Pokers, PokePostMqtt(p)
      PROVE  StoreTypeOK' /\ DeviceTypeOK' /\ PokeTypeOK'
  <2>1. pk[p].etag \in RootVersion /\ VersionMap(pk[p].send) \in Versions
    BY VersionMapType DEF Poke
  <2>2. [pk[p] EXCEPT !.pc = "states", !.todo = Ids(pk[p].send)] \in Poke
    BY DEF Poke, Ids
  <2> QED
    BY <1>3, <2>1, <2>2 DEF PokePostMqtt, PushMessage, StoreTypeOK, DeviceTypeOK,
                            storeVars, deviceVars
<1>4. ASSUME NEW p \in Pokers, NEW s \in SubdocIds, PokeMarkInDeployment(p, s)
      PROVE  StoreTypeOK' /\ DeviceTypeOK' /\ PokeTypeOK'
  <2>1. NilVersion \in Nat /\ InDeployment \in States
    BY DEF NilVersion, InDeployment, States
  <2>2. rows' \in [SubdocIds -> Row]
    BY <1>4, <2>1, SetSubDocumentType DEF PokeMarkInDeployment
  <2> DEFINE new == IF pk[p].todo = {s} THEN IdlePoke("202")
                    ELSE [pk[p] EXCEPT !.todo = pk[p].todo \ {s}]
  <2>3. new \in Poke
    BY <1>0 DEF Poke, PokeAnswer
  <2>4. pk' = [pk EXCEPT ![p] = new]
    BY <1>4 DEF PokeMarkInDeployment
  <2> HIDE DEF new
  <2> QED
    BY <1>4, <2>2, <2>3, <2>4 DEF PokeMarkInDeployment, StoreTypeOK, DeviceTypeOK, deviceVars
<1>5. ASSUME NEW p \in Pokers, PokeCpeAction(p)
      PROVE  StoreTypeOK' /\ DeviceTypeOK' /\ PokeTypeOK'
  <2>1. [IdlePoke("none") EXCEPT !.pc = "post", !.route = "webpa"] \in Poke
    BY <1>0 DEF Poke, PokeAnswer
  <2> QED
    BY <1>5, <2>1 DEF PokeCpeAction, NewPoke, StoreTypeOK, DeviceTypeOK, storeVars, deviceVars
<1>6. ASSUME NEW p \in Pokers, PokeWebpa(p)
      PROVE  StoreTypeOK' /\ DeviceTypeOK' /\ PokeTypeOK'
  BY <1>0, <1>6 DEF PokeWebpa, Answer, PokeAnswer, StoreTypeOK, DeviceTypeOK, storeVars
<1>7. ASSUME NEW p \in Pokers, PokeFails(p)
      PROVE  StoreTypeOK' /\ DeviceTypeOK' /\ PokeTypeOK'
  BY <1>0, <1>7 DEF PokeFails, Answer, PokeAnswer, StoreTypeOK, DeviceTypeOK,
                    storeVars, deviceVars
<1>8. ASSUME NEW m \in push, PushArrives(m, Names(m.vers))
      PROVE  StoreTypeOK' /\ DeviceTypeOK' /\ PokeTypeOK'
  <2>1. m.etag \in RootVersion /\ m.vers \in Versions /\ Names(m.vers) \in SUBSET SubdocIds
    BY DEF PushMessage, Names
  <2>2. dev' \in DeviceState /\ events' \subseteq Event
    BY <1>8, <2>1, ApplyDocumentType DEF PushArrives
  <2> QED
    BY <1>8, <2>2 DEF PushArrives, StoreTypeOK, DeviceTypeOK, storeVars
<1> QED
  BY <1>1, <1>2, <1>3, <1>4, <1>5, <1>6, <1>7, <1>8 DEF PokeStep

\* Every step keeps the types.
LEMMA TypeStep ==
    ASSUME TypeOK, [Next]_vars
    PROVE  TypeOK'
<1> USE DEF TypeOK
<1>1. ASSUME NEW w \in Writers, Write(w)
      PROVE  TypeOK'
  BY <1>1, WriterTypes DEF Write, DeviceTypeOK, GetTypeOK, ReportTypeOK, PokeTypeOK,
                           deviceVars, pokeVars
<1>2. ASSUME NEW h \in GetHandlers, Serve(h)
      PROVE  TypeOK'
  BY <1>2, GetTypes DEF Serve, WriterTypeOK, ReportTypeOK, PokeTypeOK, writerVars, pokeVars
<1>3. ASSUME NEW h \in GetHandlers, NEW mismatch \in BOOLEAN, Request(h, mismatch)
      PROVE  TypeOK'
  BY <1>3, DeviceTypes DEF Request, WriterTypeOK, ReportTypeOK, PokeTypeOK, writerVars, pokeVars
<1>4. ASSUME NEW h \in GetHandlers, Response(h)
      PROVE  TypeOK'
  <2>1. get[h].send \in SUBSET SubdocIds
    BY <1>4 DEF GetTypeOK, GetRequest
  <2> QED
    BY <1>4, <2>1, DeviceTypes DEF Response, WriterTypeOK, ReportTypeOK, PokeTypeOK,
                                   writerVars, pokeVars
<1>5. ASSUME NEW c \in Consumers, Report(c)
      PROVE  TypeOK'
  BY <1>5, ReportTypes DEF Report, WriterTypeOK, GetTypeOK, PokeTypeOK, writerVars, pokeVars
<1>6. CASE (\E p \in Pokers : PokeDevice(p)) \/ Push
  BY <1>6, PokeTypes DEF PokeDevice, Push, WriterTypeOK, GetTypeOK, ReportTypeOK, writerVars
<1>7. CASE Tick
  <2>1. StoreTypeOK'
    <3>1. ASSUME NEW s \in SubdocIds, Expire(s)
          PROVE  StoreTypeOK'
      BY <3>1 DEF Expire, StoreTypeOK, Row
    <3>2. CASE LockRunsOut
      BY <3>2 DEF LockRunsOut, StoreTypeOK, RootRow
    <3> QED
      BY <1>7, <3>1, <3>2 DEF Tick
  <2> QED
    BY <1>7, <2>1 DEF Tick, WriterTypeOK, DeviceTypeOK, GetTypeOK, ReportTypeOK, PokeTypeOK,
                      writerVars, deviceVars, pokeVars
<1>8. CASE Disturb
  <2>0. disturbances' \in Nat
    BY <1>8 DEF Disturb
  <2>1. ASSUME NEW w \in Writers, WriterFails(w), UNCHANGED <<deviceVars, get, rep, pokeVars>>
        PROVE  TypeOK'
    BY <2>0, <2>1, WriterTypes DEF DeviceTypeOK, GetTypeOK, ReportTypeOK, PokeTypeOK,
                                   deviceVars, pokeVars
  <2>2. ASSUME NEW h \in GetHandlers, GetFails(h), UNCHANGED <<writerVars, rep, pokeVars>>
        PROVE  TypeOK'
    BY <2>0, <2>2, GetTypes DEF WriterTypeOK, ReportTypeOK, PokeTypeOK, writerVars, pokeVars
  <2>3. ASSUME "device" \in GetHandlers, NEW applied \in SUBSET get["device"].send,
               DeviceReceives(applied), UNCHANGED <<writerVars, rep, pokeVars>>
        PROVE  TypeOK'
    <3>1. applied \in SUBSET SubdocIds
      BY <2>3 DEF GetTypeOK, GetRequest
    <3> QED
      BY <2>0, <2>3, <3>1, DeviceTypes DEF WriterTypeOK, ReportTypeOK, PokeTypeOK,
                                           writerVars, pokeVars
  <2>4. ASSUME NEW c \in Consumers, ReportFails(c) \/ ReportCrashes(c),
               UNCHANGED <<writerVars, get, pokeVars>>
        PROVE  TypeOK'
    BY <2>0, <2>4, ReportTypes DEF WriterTypeOK, GetTypeOK, PokeTypeOK, writerVars, pokeVars
  <2>5. ASSUME NEW p \in Pokers, PokeFails(p), UNCHANGED <<writerVars, get, rep>>
        PROVE  TypeOK'
    BY <2>0, <2>5, PokeTypes DEF WriterTypeOK, GetTypeOK, ReportTypeOK, writerVars
  <2>6. ASSUME NEW m \in Metas, Upgrade(m),
               UNCHANGED <<storeVars, writerVars, get, rep, pokeVars>>
        PROVE  TypeOK'
    BY <2>0, <2>6, DeviceTypes DEF WriterTypeOK, ReportTypeOK, PokeTypeOK,
                                   writerVars, pokeVars
  <2>7. ASSUME LockRootDocument, UNCHANGED <<writerVars, deviceVars, get, rep, pokeVars>>
        PROVE  TypeOK'
    <3>1. StoreTypeOK'
      BY <2>7 DEF LockRootDocument, StoreTypeOK, RootRow
    <3> QED
      BY <2>0, <2>7, <3>1 DEF WriterTypeOK, DeviceTypeOK, GetTypeOK, ReportTypeOK,
                              PokeTypeOK, writerVars, deviceVars, pokeVars
  <2> QED
    BY <1>8, <2>1, <2>2, <2>3, <2>4, <2>5, <2>6, <2>7 DEF Disturb
<1>9. CASE UNCHANGED vars
  BY <1>9 DEF vars, storeVars, writerVars, deviceVars, pokeVars, StoreTypeOK, WriterTypeOK,
              DeviceTypeOK, GetTypeOK, ReportTypeOK, PokeTypeOK
<1> QED
  BY <1>1, <1>2, <1>3, <1>4, <1>5, <1>6, <1>7, <1>8, <1>9 DEF Next

\* The tables start empty and every handler idle.
LEMMA TypeInit == Init => TypeOK
<1> SUFFICES ASSUME Init PROVE TypeOK
  OBVIOUS
<1>1. StoreTypeOK
  BY EmptyTypes DEF Init, StoreInit, StoreTypeOK, Document, RootRow, MetaColumn
<1>2. WriterTypeOK
  <2>1. IdleWriter \in Writer
    BY EmptyTypes DEF IdleWriter, Writer
  <2>2. nextVersion \in Nat \ {0}
    BY DEF Init, WriterInit
  <2>3. rootStale \in BOOLEAN
    BY Zenon DEF Init, WriterInit
  <2> QED
    BY <2>1, <2>2, <2>3 DEF Init, WriterInit, WriterTypeOK
<1>3. DeviceTypeOK
  BY EmptyTypes DEF Init, DeviceInit, DeviceTypeOK, DeviceState
<1>4. GetTypeOK
  <2>1. IdleGet \in GetRequest
    BY EmptyTypes DEF IdleGet, GetRequest, GetPC, MetaColumn, Comparison, StatusCode
  <2> QED
    BY <2>1 DEF Init, GetInit, GetTypeOK
<1>5. ReportTypeOK
  BY DEF Init, ReportInit, ReportTypeOK, IdleReport, Handling, Http304Report, Event,
         RootdocEvent
<1>6. PokeTypeOK
  <2>1. IdlePoke("none") \in Poke
    BY EmptyTypes DEF IdlePoke, Poke, PokeAnswer
  <2> QED
    BY <2>1 DEF Init, PokeInit, PokeTypeOK
<1> QED
  BY <1>1, <1>2, <1>3, <1>4, <1>5, <1>6 DEF Init, TypeOK

\* Every row, root document, request, report and poke keeps its type, however
\* the handlers of http/, db/ and kafka/ interleave and fail.
THEOREM TypeCorrect == Spec => []TypeOK
BY TypeInit, TypeStep, PTL DEF Spec

-----------------------------------------------------------------------------
(* Pokes that go through webpa.                                            *)

\* A poke that pushes nothing leaves the tables and what the device has alone,
\* and never comes to push anything.
LEMMA PokePrompts ==
    ASSUME TypeOK, "mqtt" \notin PokeRoutes, NothingPushed, NEW p \in Pokers,
           PokeStep(p) \/ PokeFails(p)
    PROVE  NothingPushed' /\ UNCHANGED <<rows, root, dev, events>>
<1>0. pk \in [Pokers -> Poke]
  BY DEF TypeOK, PokeTypeOK
<1>a. /\ pk[p].pc # "states"
      /\ pk[p].pc # "idle" => pk[p].route = "webpa"
      /\ push = {}
  BY DEF NothingPushed
<1>1. ASSUME push' = push, \A q \in Pokers \ {p} : pk'[q] = pk[q],
             pk'[p].pc # "states", pk'[p].pc # "idle" => pk'[p].route = "webpa"
      PROVE  NothingPushed'
  BY <1>0, <1>1 DEF NothingPushed
<1>2. ASSUME NEW code, push' = push, Answer(p, code)
      PROVE  NothingPushed'
  <2>1. pk'[p] = IdlePoke(code) /\ \A q \in Pokers \ {p} : pk'[q] = pk[q]
    BY <1>0, <1>2 DEF Answer
  <2>2. IdlePoke(code).pc = "idle"
    BY DEF IdlePoke
  <2> QED
    BY <1>1, <1>2, <2>1, <2>2
<1>3. ASSUME NEW route \in PokeRoutes, PokeReadDocument(p, route)
      PROVE  NothingPushed' /\ UNCHANGED <<rows, root, dev, events>>
  <2>1. route = "webpa" /\ push' = push /\ UNCHANGED <<rows, root, dev, events>>
    BY <1>3 DEF PokeReadDocument, storeVars, deviceVars
  <2>2. CASE \E code : Answer(p, code)
    BY <1>2, <2>1, <2>2
  <2>3. CASE \E send : pk' = [pk EXCEPT ![p] = [IdlePoke("none") EXCEPT
                                 !.pc = "root", !.route = route, !.send = send]]
    <3>1. PICK send : pk' = [pk EXCEPT ![p] = [IdlePoke("none") EXCEPT
                                !.pc = "root", !.route = route, !.send = send]]
      BY <2>3
    <3>2. pk'[p].pc = "root" /\ pk'[p].route = "webpa"
      BY <1>0, <2>1, <3>1 DEF IdlePoke
    <3>3. \A q \in Pokers \ {p} : pk'[q] = pk[q]
      BY <1>0, <3>1
    <3> QED
      BY <1>1, <2>1, <3>2, <3>3
  <2> QED
    BY <1>3, <2>1, <2>2, <2>3 DEF PokeReadDocument
<1>4. CASE PokeReadRoot(p)
  <2>1. push' = push /\ UNCHANGED <<rows, root, dev, events>>
    BY <1>4 DEF PokeReadRoot, storeVars, deviceVars
  <2>2. CASE \E code : Answer(p, code)
    BY <1>2, <2>1, <2>2
  <2>3. CASE pk' = [pk EXCEPT ![p].pc = "post", ![p].etag = root.version]
    <3>1. pk' = [pk EXCEPT ![p] = [pk[p] EXCEPT !.pc = "post", !.etag = root.version]]
      BY <1>0, <2>3
    <3>2. pk[p] \in Poke /\ pk[p].route = "webpa"
      BY <1>0, <1>4, <1>a DEF PokeReadRoot
    <3>3. pk'[p].pc = "post" /\ pk'[p].route = "webpa"
      BY <1>0, <3>1, <3>2 DEF Poke
    <3>4. \A q \in Pokers \ {p} : pk'[q] = pk[q]
      BY <1>0, <3>1
    <3> QED
      BY <1>1, <2>1, <3>3, <3>4
  <2> QED
    BY <1>4, <2>1, <2>2, <2>3 DEF PokeReadRoot
<1>5. CASE PokePostMqtt(p) \/ \E s \in SubdocIds : PokeMarkInDeployment(p, s)
  BY <1>5, <1>a DEF PokePostMqtt, PokeMarkInDeployment
<1>6. CASE PokeCpeAction(p)
  <2>1. /\ pk'[p].pc = "post" /\ pk'[p].route = "webpa" /\ push' = push
        /\ \A q \in Pokers \ {p} : pk'[q] = pk[q]
        /\ UNCHANGED <<rows, root, dev, events>>
    BY <1>0, <1>6 DEF PokeCpeAction, IdlePoke, storeVars, deviceVars
  <2> QED
    BY <1>1, <2>1
<1>7. CASE PokeWebpa(p) \/ PokeFails(p)
  BY <1>2, <1>7 DEF PokeWebpa, PokeFails, storeVars, deviceVars
<1> QED
  BY <1>3, <1>4, <1>5, <1>6, <1>7 DEF PokeStep

\* Without the route mqtt nothing is ever pushed.
LEMMA StepPushesNothing ==
    ASSUME TypeOK, "mqtt" \notin PokeRoutes, NothingPushed, [Next]_vars
    PROVE  NothingPushed'
<1>1. CASE UNCHANGED pokeVars
  BY <1>1 DEF pokeVars, NothingPushed
<1>2. ASSUME NEW p \in Pokers, PokeStep(p) \/ PokeFails(p)
      PROVE  NothingPushed'
  BY <1>2, PokePrompts
<1>3. ~Push
  BY DEF Push, NothingPushed
<1>4. CASE Disturb
  BY <1>1, <1>2, <1>4 DEF Disturb
<1> QED
  BY <1>1, <1>2, <1>3, <1>4 DEF Next, vars, Write, Serve, Request, Response, Report, PokeDevice,
                                Tick
=============================================================================
