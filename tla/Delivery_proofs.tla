-------------------------- MODULE Delivery_proofs --------------------------
(***************************************************************************)
(* No update is missed: the proof that DeliveryInv is inductive when the   *)
(* environment is Disciplined, and that NoMissedUpdate follows.  And the   *)
(* refinement: Webconfig implements AtomicDelivery, so that a device never *)
(* goes back to an older version.                                          *)
(*                                                                         *)
(* The argument.  A row gets a version no root version contains yet        *)
(* (VersionsPosted), so a write never breaks what is known of the root     *)
(* versions around; the handler that wrote it then reads the rows back and *)
(* stores a root version that accounts for all of them (WriterCovers,      *)
(* RootCovers).  A GET reads the root document before the rows, so each    *)
(* row its Etag accounts for is in the document it sends or on the device  *)
(* (RootBeforeDocument, DownloadCovers, DeviceCovers).  A POST, DELETE or  *)
(* expiry is atomic where it changes a row, a download where it reads the  *)
(* document; all other steps leave what the device is to have alone.       *)
(***************************************************************************)
EXTENDS Webconfig_proofs

\* A step that neither posts nor deletes: versions stay, and no row that has
\* expired becomes current again.
RowsKept ==
    \A s \in SubdocIds : /\ rows'[s].version = rows[s].version
                         /\ Current(s)' => Current(s)

\* A step that touches nothing but states, metadata and requests.
Quiet == /\ RowsKept
         /\ UNCHANGED <<nb, nextVersion, rootStale>>
         /\ root'.version = root.version
         /\ dev'.root = dev.root
         /\ dev'.vers = dev.vers

-----------------------------------------------------------------------------
\* What a root version accounts for is what went into it.
LEMMA VersionsInHash ==
    ASSUME NEW vm \in Versions
    PROVE  VersionsIn(HashRootVersion(vm)) = {vm[s] : s \in {t \in SubdocIds : vm[t] # 0}}
<1> DEFINE names == {s \in SubdocIds : vm[s] # 0}
<1>1. HashRootVersion(vm) = {<<Cardinality({t \in names : t <= s}), vm[s]>> : s \in names}
  BY DEF HashRootVersion
<1> HIDE DEF names
<1>2. ASSUME NEW x \in VersionsIn(HashRootVersion(vm))
      PROVE  x \in {vm[s] : s \in names}
  <2>1. PICK p \in HashRootVersion(vm) : x = p[2]
    BY <1>2 DEF VersionsIn
  <2>2. PICK s \in names : p = <<Cardinality({t \in names : t <= s}), vm[s]>>
    BY <1>1, <2>1
  <2> QED
    BY <2>1, <2>2
<1>3. ASSUME NEW s \in names
      PROVE  vm[s] \in VersionsIn(HashRootVersion(vm))
  <2> DEFINE p == <<Cardinality({t \in names : t <= s}), vm[s]>>
  <2>1. p \in HashRootVersion(vm) /\ p[2] = vm[s]
    BY <1>1
  <2> QED
    BY <2>1 DEF VersionsIn
<1>4. VersionsIn(HashRootVersion(vm)) = {vm[s] : s \in names}
  BY <1>2, <1>3
<1> QED
  BY <1>4 DEF names

\* The versions of a root version are naturals.
LEMMA VersionsInNat ==
    ASSUME NEW r \in RootVersion
    PROVE  VersionsIn(r) \subseteq Nat
BY DEF VersionsIn, RootVersion

\* A state written without a version and an expiry keeps the rows.
LEMMA SetStateKeepsRows ==
    ASSUME StoreTypeOK, NEW s \in SubdocIds, NEW state, NEW err,
           SetSubDocument(s, NilVersion, state, err, "nil")
    PROVE  RowsKept
BY DEF StoreTypeOK, SetSubDocument, RowsKept, Current, InDocument, Row, NilVersion

\* A step that writes no row keeps the rows.
LEMMA SameRowsKeepRows ==
    ASSUME UNCHANGED rows
    PROVE  RowsKept
BY DEF RowsKept, Current, InDocument

\* Quiet steps deliver nothing new.
LEMMA QuietDeliverable ==
    ASSUME TypeOK, TypeOK', Disciplined, Quiet
    PROVE  /\ Deliverable' \subseteq Deliverable
           /\ \A s \in Deliverable' : rows'[s].version = rows[s].version
<1>1. dev.meta \in Metas /\ dev'.meta \in Metas
  BY DEF TypeOK, DeviceTypeOK, DeviceState
<1>2. FilterOutputByBitmapEnabled => Supports[dev.meta] = Supports[dev'.meta]
  BY <1>1 DEF Disciplined
<1> QED
  BY <1>2 DEF Quiet, RowsKept, Deliverable, Current

\* Quiet steps keep what is known of the writers, the tables and the device.
LEMMA QuietCovers ==
    ASSUME TypeOK, TypeOK', Disciplined, DeliveryInv, NothingPushed', Quiet
    PROVE  WriterCovers' /\ RootCovers' /\ DeviceCovers'
<1>1. WriterCovers'
  BY DEF DeliveryInv, WriterCovers, Quiet, RowsKept
<1>2. RootCovers'
  BY DEF DeliveryInv, RootCovers, Quiet, RowsKept, WritersIdle
<1>3. DeviceCovers'
  BY QuietDeliverable DEF DeliveryInv, DeviceCovers, Quiet
<1> QED
  BY <1>1, <1>2, <1>3

\* Quiet steps keep what an answer under way brings.
LEMMA QuietAnswer ==
    ASSUME TypeOK, TypeOK', Disciplined, Quiet, AnswerCovers(get["device"]),
           get'["device"].cloudRoot = get["device"].cloudRoot,
           get'["device"].send = get["device"].send,
           get'["device"].doc = get["device"].doc
    PROVE  AnswerCovers(get["device"])'
BY QuietDeliverable DEF AnswerCovers, Quiet

\* A quiet step of one request: what is left to show is about that request.
LEMMA QuietRequest ==
    ASSUME TypeOK, TypeOK', Disciplined, DeliveryInv, NothingPushed', Quiet, NEW h \in GetHandlers,
           \A k \in GetHandlers \ {h} : get'[k] = get[k],
           \A v \in VersionsIn(get'[h].cloudRoot) : v < nextVersion,
           get'[h].pc \notin {"predoc", "correct"},
           get'[h].pc \in {"idle", "root", "create", "meta", "doc"} => ~get'[h].hasDoc,
           h = "device" => DownloadCovers'
    PROVE  DeliveryInv'
<1>1. VersionsPosted'
  BY DEF DeliveryInv, VersionsPosted, Quiet, RowsKept
<1>2. RootBeforeDocument'
  BY DEF DeliveryInv, RootBeforeDocument
<1>3. DownloadCovers'
  <2>1. SUFFICES ASSUME h # "device", "device" \in GetHandlers
                 PROVE  DownloadCovers'
    BY DEF DownloadCovers
  <2>2. get'["device"] = get["device"]
    BY <2>1
  <2>3. AnswerCovers(get["device"]) => AnswerCovers(get["device"])'
    BY <2>2, QuietAnswer
  <2> QED
    BY <2>1, <2>2, <2>3 DEF DeliveryInv, DownloadCovers, CompareCovers, Quiet
<1> QED
  BY <1>1, <1>2, <1>3, QuietCovers DEF DeliveryInv, Quiet

\* A quiet step that leaves the requests alone.
LEMMA QuietElsewhere ==
    ASSUME TypeOK, TypeOK', Disciplined, DeliveryInv, NothingPushed', Quiet, UNCHANGED get
    PROVE  DeliveryInv'
<1>1. VersionsPosted'
  BY DEF DeliveryInv, VersionsPosted, Quiet, RowsKept
<1>2. RootBeforeDocument'
  BY DEF DeliveryInv, RootBeforeDocument
<1>3. DownloadCovers'
  <2>1. AnswerCovers(get["device"]) => AnswerCovers(get["device"])'
    BY QuietAnswer
  <2> QED
    BY <2>1 DEF DeliveryInv, DownloadCovers, CompareCovers, Quiet
<1> QED
  BY <1>1, <1>2, <1>3, QuietCovers DEF DeliveryInv, Quiet

\* Rows that stay or go do not affect what is known of the device.
LEMMA UntouchedDevice ==
    ASSUME DeliveryInv, UNCHANGED <<dev, get>>,
           \A s \in SubdocIds : rows'[s] = rows[s] \/ rows'[s] = EmptyRow
    PROVE  DeviceCovers' /\ DownloadCovers'
<1>1. /\ Deliverable' \subseteq Deliverable
      /\ \A s \in Deliverable' : rows'[s].version = rows[s].version
  BY DEF Deliverable, InDocument, EmptyRow
<1>2. DeviceCovers'
  BY <1>1 DEF DeliveryInv, DeviceCovers
<1>3. DownloadCovers'
  BY <1>1 DEF DeliveryInv, DownloadCovers, CompareCovers, AnswerCovers
<1> QED
  BY <1>2, <1>3

-----------------------------------------------------------------------------
(* Writers.                                                                *)

\* what a step of a northbound handler may do to the rows
RowPosted(s) == /\ rows'[s].version = nextVersion
                /\ \A t \in SubdocIds \ {s} : rows'[t] = rows[t]

RowsLeft == \A s \in SubdocIds : rows'[s] = rows[s] \/ (Deletes /\ rows'[s] = EmptyRow)

\* A northbound handler keeps the tables in order when no other is under way.
LEMMA WriterTables ==
    ASSUME TypeOK, TypeOK', \A v, x \in Writers : v = x, ~ReuseVersions,
           VersionsPosted, WriterCovers, RootCovers, NEW w \in Writers,
           WriterStep(w) \/ WriterFails(w), UNCHANGED <<deviceVars, get>>
    PROVE  /\ VersionsPosted' /\ WriterCovers' /\ RootCovers'
           /\ RowsLeft \/ \E s \in SubdocIds : RowPosted(s)
<1>a. \A v \in Writers : v = w
  OBVIOUS
<1>c. nextVersion \in Nat \ {0} /\ \A s \in SubdocIds : rows[s].version \in Nat
  BY DEF TypeOK, WriterTypeOK, StoreTypeOK, Row
<1>d. nb \in [Writers -> Writer]
  BY DEF TypeOK, WriterTypeOK
<1>1. ASSUME NEW s \in SubdocIds, NEW v \in 1..nextVersion,
             NEW state \in PostStates, NEW expiry \in PostExpiries,
             PostSubDocument(w, s, v, state, expiry)
      PROVE  VersionsPosted' /\ WriterCovers' /\ RootCovers' /\ RowPosted(s)
  <2>1. v = nextVersion /\ nextVersion' = nextVersion + 1
    BY <1>1 DEF PostSubDocument, PostedVersion
  <2>2. RowPosted(s)
    BY <1>1, <1>c, <2>1
    DEF RowPosted, PostSubDocument, SetSubDocument, NilVersion, TypeOK, StoreTypeOK, Row
  <2>3. /\ nb'[w].pc = "read" /\ nb'[w].op = "post"
        /\ nb'[w].subdoc = s /\ nb'[w].version = nextVersion /\ nb'[w].newRoot = {}
    BY <1>1, <1>d, <2>1 DEF PostSubDocument, IdleWriter, NoRoot
  <2>4. VersionsPosted'
    <3>1. \A t \in SubdocIds : rows'[t].version < nextVersion'
      BY <1>c, <2>1, <2>2 DEF VersionsPosted, RowPosted
    <3>2. \A x \in Nat : x < nextVersion => x < nextVersion'
      BY <1>c, <2>1
    <3>3. /\ VersionsIn(root'.version) \subseteq Nat
          /\ VersionsIn(dev'.root) \subseteq Nat
          /\ \A h \in GetHandlers : VersionsIn(get'[h].cloudRoot) \subseteq Nat
      BY VersionsInNat DEF TypeOK, StoreTypeOK, RootRow, DeviceTypeOK, DeviceState,
                           GetTypeOK, GetRequest
    <3>4. UNCHANGED <<root, dev, get>>
      BY <1>1 DEF PostSubDocument, deviceVars
    <3>5. \A x \in Writers : nb'[x].version < nextVersion' /\ VersionsIn(nb'[x].newRoot) = {}
      BY <1>a, <1>c, <2>1, <2>3 DEF VersionsIn
    <3> QED
      BY <3>1, <3>2, <3>3, <3>4, <3>5 DEF VersionsPosted
  <2>5. WriterCovers'
    BY <1>a, <2>2, <2>3 DEF WriterCovers, RowPosted
  <2>6. RootCovers'
    BY <1>a, <2>3 DEF RootCovers, WritersIdle
  <2> QED
    BY <2>2, <2>4, <2>5, <2>6
<1>2. ASSUME PostReadDocument(w)
      PROVE  VersionsPosted' /\ WriterCovers' /\ RootCovers' /\ RowsLeft
  <2> DEFINE vm == [VersionMap(GetDocument(TRUE)) EXCEPT ![nb[w].subdoc] = nb[w].version]
  <2>1. /\ vm \in Versions
        /\ \A t \in SubdocIds : vm[t] = rows[t].version
    <3>1. /\ nb[w].subdoc \in SubdocIds
          /\ rows[nb[w].subdoc].version = nb[w].version
      BY <1>2 DEF PostReadDocument, WriterCovers
    <3>2. \A t \in SubdocIds : VersionMap(GetDocument(TRUE))[t] = rows[t].version
      BY DEF VersionMap, GetDocument, InDocument, EmptyRow
    <3>3. VersionMap(GetDocument(TRUE)) \in Versions
      BY GetDocumentType, VersionMapType DEF TypeOK
    <3> QED
      BY <1>c, <3>1, <3>2, <3>3 DEF Versions
  <2>2. nb' = [nb EXCEPT ![w].pc = "root", ![w].newRoot = HashRootVersion(vm)]
    BY <1>2 DEF PostReadDocument
  <2> HIDE DEF vm
  <2>3. VersionsIn(HashRootVersion(vm)) = {rows[t].version : t \in {u \in SubdocIds : rows[u].version # 0}}
    BY <2>1, VersionsInHash
  <2>4. nb'[w].pc = "root" /\ nb'[w].newRoot = HashRootVersion(vm) /\ nb'[w].version = nb[w].version
    BY <1>d, <2>2 DEF Writer
  <2>5. UNCHANGED <<rows, root, nextVersion, rootStale, dev, get>>
    BY <1>2 DEF PostReadDocument, storeVars, deviceVars
  <2>6. VersionsPosted'
    BY <1>a, <2>3, <2>4, <2>5 DEF VersionsPosted
  <2>7. WriterCovers'
    BY <1>a, <2>3, <2>4, <2>5 DEF WriterCovers, Current, InDocument
  <2>8. RootCovers'
    BY <2>4 DEF RootCovers, WritersIdle
  <2> QED
    BY <2>5, <2>6, <2>7, <2>8 DEF RowsLeft
<1>3. ASSUME DeleteDocumentRows(w) \/ \E s \in SubdocIds : DeleteSubDocumentRow(w, s)
      PROVE  VersionsPosted' /\ WriterCovers' /\ RootCovers' /\ RowsLeft
  <2>1. RowsLeft
    BY <1>3 DEF RowsLeft, DeleteDocumentRows, DeleteDocument, NoDocument,
                DeleteSubDocumentRow, DeleteSubDocument, TypeOK, StoreTypeOK
  <2>2. /\ nb'[w].pc = "read" /\ nb'[w].op = "delete"
        /\ nb'[w].version = 0 /\ nb'[w].newRoot = {}
    BY <1>3, <1>d DEF DeleteDocumentRows, DeleteSubDocumentRow, IdleWriter, NoRoot
  <2>3. UNCHANGED <<root, nextVersion, dev, get>>
    BY <1>3 DEF DeleteDocumentRows, DeleteSubDocumentRow, deviceVars
  <2>4. VersionsPosted'
    BY <1>a, <1>c, <2>1, <2>2, <2>3 DEF VersionsPosted, RowsLeft, EmptyRow, VersionsIn
  <2>5. WriterCovers'
    BY <1>a, <2>2 DEF WriterCovers
  <2>6. RootCovers'
    BY <2>2 DEF RootCovers, WritersIdle
  <2> QED
    BY <2>1, <2>4, <2>5, <2>6
<1>4. ASSUME DeleteReadDocument(w)
      PROVE  VersionsPosted' /\ WriterCovers' /\ RootCovers' /\ RowsLeft
  <2> DEFINE doc == GetDocument(FALSE)
             vm  == VersionMap(doc)
  <2>1. vm \in Versions
    BY GetDocumentType, VersionMapType DEF TypeOK
  <2>2. \A t \in SubdocIds : vm[t] = IF Current(t) THEN rows[t].version ELSE 0
    BY DEF VersionMap, GetDocument, Current, EmptyRow
  <2>3. /\ nb'[w].pc = IF Ids(doc) = {} THEN "droproot" ELSE "root"
        /\ nb'[w].newRoot = HashRootVersion(vm)
        /\ nb'[w].version = nb[w].version
    BY <1>4, <1>d DEF DeleteReadDocument, Writer
  <2>4. Ids(doc) = {t \in SubdocIds : Current(t)}
    BY DEF Ids, GetDocument, Current, InDocument, EmptyRow
  <2> HIDE DEF doc, vm
  <2>5. VersionsIn(HashRootVersion(vm)) = {vm[t] : t \in {u \in SubdocIds : vm[u] # 0}}
    BY <2>1, VersionsInHash
  <2>6. UNCHANGED <<rows, root, nextVersion, rootStale, dev, get>>
    BY <1>4 DEF DeleteReadDocument, storeVars, deviceVars
  <2>7. VersionsPosted'
    <3>1. \A x \in VersionsIn(HashRootVersion(vm)) : x < nextVersion
      BY <2>2, <2>5 DEF VersionsPosted
    <3> QED
      BY <1>a, <2>3, <2>6, <3>1 DEF VersionsPosted
  <2>8. WriterCovers'
    <3>1. \A t \in SubdocIds : Current(t) => rows[t].version \in VersionsIn(HashRootVersion(vm))
      BY <2>2, <2>5 DEF Current, InDocument
    <3>2. \A t \in SubdocIds : Current(t)' = Current(t)
      BY <2>6 DEF Current, InDocument
    <3> QED
      BY <1>a, <2>3, <2>4, <2>6, <3>1, <3>2 DEF WriterCovers
  <2>9. RootCovers'
    BY <2>3 DEF RootCovers, WritersIdle
  <2> QED
    BY <2>6, <2>7, <2>8, <2>9 DEF RowsLeft
<1>5. ASSUME WriteRootVersion(w) \/ DropRootVersion(w)
      PROVE  VersionsPosted' /\ WriterCovers' /\ RootCovers' /\ RowsLeft
  <2>1. nb'[w].pc = "idle" /\ nb'[w].version = 0 /\ nb'[w].newRoot = {}
    BY <1>5, <1>d DEF WriteRootVersion, DropRootVersion, IdleWriter, NoRoot
  <2>2. UNCHANGED <<rows, nextVersion, dev, get>>
    BY <1>5 DEF WriteRootVersion, DropRootVersion, deviceVars
  <2>3. \/ nb[w].pc = "root" /\ root'.version = nb[w].newRoot
        \/ nb[w].pc = "droproot" /\ root'.version = {}
    BY <1>5 DEF WriteRootVersion, DropRootVersion, SetRootDocumentVersion,
                DeleteRootDocumentVersion, NoRoot, TypeOK, StoreTypeOK, RootRow
  <2>4. VersionsPosted'
    BY <1>a, <1>c, <2>1, <2>2, <2>3 DEF VersionsPosted, VersionsIn
  <2>5. WriterCovers'
    BY <1>a, <2>1 DEF WriterCovers
  <2>6. RootCovers'
    BY <2>2, <2>3 DEF RootCovers, WriterCovers, Current, InDocument
  <2> QED
    BY <2>2, <2>4, <2>5, <2>6 DEF RowsLeft
<1>6. ASSUME WriterFails(w)
      PROVE  VersionsPosted' /\ WriterCovers' /\ RootCovers' /\ RowsLeft
  <2>1. nb'[w].pc = "idle" /\ nb'[w].version = 0 /\ nb'[w].newRoot = {}
    BY <1>6, <1>d DEF WriterFails, IdleWriter, NoRoot
  <2>2. UNCHANGED <<rows, root, nextVersion, dev, get>> /\ rootStale'
    BY <1>6 DEF WriterFails, storeVars, deviceVars
  <2>3. VersionsPosted'
    BY <1>a, <1>c, <2>1, <2>2 DEF VersionsPosted, VersionsIn
  <2>4. WriterCovers'
    BY <1>a, <2>1 DEF WriterCovers
  <2>5. RootCovers'
    BY <2>2 DEF RootCovers
  <2> QED
    BY <2>2, <2>3, <2>4, <2>5 DEF RowsLeft
<1> QED
  BY <1>1, <1>2, <1>3, <1>4, <1>5, <1>6 DEF WriterStep

\* The row posted has a version no root version around accounts for.
LEMMA WriterDelivers ==
    ASSUME TypeOK, TypeOK', Disciplined, DeliveryInv, NothingPushed', NEW w \in Writers,
           WriterStep(w) \/ WriterFails(w),
           UNCHANGED <<deviceVars, get, rep, pokeVars>>
    PROVE  DeliveryInv'
<1>1. /\ VersionsPosted' /\ WriterCovers' /\ RootCovers'
      /\ RowsLeft \/ \E s \in SubdocIds : RowPosted(s)
  BY WriterTables DEF Disciplined, DeliveryInv
<1>2. RootBeforeDocument' /\ UNCHANGED <<dev, get>>
  BY DEF DeliveryInv, RootBeforeDocument, pokeVars, deviceVars
<1>3. CASE RowsLeft
  BY <1>1, <1>2, <1>3, UntouchedDevice DEF DeliveryInv, RowsLeft
<1>4. ASSUME NEW s \in SubdocIds, RowPosted(s) PROVE DeviceCovers' /\ DownloadCovers'
  <2>1. nextVersion \in Nat
    BY DEF TypeOK, WriterTypeOK
  <2>2. nextVersion \notin VersionsIn(dev.root)
    BY <2>1 DEF DeliveryInv, VersionsPosted
  <2>3. Deliverable' \subseteq (Deliverable \cap SubdocIds) \cup {s}
    BY <1>2, <1>4 DEF Deliverable, InDocument, RowPosted
  <2>4. DeviceCovers'
    BY <1>2, <1>4, <2>2, <2>3 DEF DeliveryInv, DeviceCovers, RowPosted
  <2>5. ASSUME "device" \in GetHandlers, AnswerCovers(get["device"])
        PROVE  AnswerCovers(get["device"])'
    <3>1. nextVersion \notin VersionsIn(get["device"].cloudRoot)
      BY <2>1, <2>5 DEF DeliveryInv, VersionsPosted
    <3> QED
      BY <1>2, <1>4, <2>2, <2>3, <2>5, <3>1 DEF AnswerCovers, RowPosted
  <2> QED
    BY <1>2, <2>4, <2>5 DEF DeliveryInv, DownloadCovers, CompareCovers
<1> QED
  BY <1>1, <1>2, <1>3, <1>4 DEF DeliveryInv

-----------------------------------------------------------------------------
(* Requests.                                                               *)

\* What Decide leaves as it was, and what it decides.
LEMMA DecideFacts ==
    ASSUME Disciplined, NEW h, NEW g \in GetRequest
    PROVE  /\ Decide(h, g).pc \in {"update", "reply"}
           /\ Decide(h, g).cloudRoot = g.cloudRoot
           /\ Decide(h, g).hdrVers = g.hdrVers
           /\ Decide(h, g).meta = g.meta
           /\ Decide(h, g).doc = g.doc
           /\ Decide(h, g).status = Status(g)
           /\ Status(g) = "200" => Decide(h, g).send = Sendable(g)
BY DEF Disciplined, Decide, Answered, GetRequest

\* A document built from the rows as they are leaves out nothing the device lacks.
LEMMA SendsAllNew ==
    ASSUME TypeOK, Disciplined, NEW g \in GetRequest, g.doc = GetDocument(FALSE),
           g.hdrVers = dev.vers, g.meta \in Metas, CompareCovers(g), g.cmp # "equals",
           NEW s \in Deliverable, s \notin Sendable(g)
    PROVE  dev.vers[s] = rows[s].version
<1>1. s \in Ids(g.doc) /\ g.doc[s].version = rows[s].version
  BY DEF Deliverable, InDocument, GetDocument, Ids
<1>2. FilterOutputByBitmapEnabled => \A m \in Metas : s \in Supports[m]
  BY DEF Deliverable, Disciplined, TypeOK, DeviceTypeOK, DeviceState
<1>3. s \notin Blocked
  BY DEF Deliverable
<1>4. CASE g.cmp = "meta"
  <2>1. s \in Unfiltered(g) \ Blocked
    BY <1>1, <1>3, <1>4 DEF Unfiltered
  <2> QED
    BY <1>2, <1>4, <2>1, StoreAssumption DEF Sendable, FilterByBitmap
<1>5. CASE g.cmp # "meta"
  <2>1. g.cloudMeta \in Metas /\ (g.hdrRoot # NoRoot => g.hdrRoot # g.cloudRoot)
    BY <1>5 DEF CompareCovers
  <2>2. s \notin Unfiltered(g) \ Blocked
    BY <1>2, <1>5, <2>1, StoreAssumption DEF Sendable, FilterByBitmap
  <2>3. g.doc[s].version = g.hdrVers[s]
    BY <1>1, <1>3, <1>5, <2>1, <2>2 DEF Unfiltered, FilterForGet
  <2> QED
    BY <1>1, <2>3
<1> QED
  BY <1>4, <1>5

\* A response of 200 built from the rows as they are brings all that is new.
LEMMA DecideCovers ==
    ASSUME TypeOK, Disciplined, NEW g \in GetRequest, g.doc = GetDocument(FALSE),
           g.hdrVers = dev.vers, g.meta \in Metas, CompareCovers(g), Status(g) = "200"
    PROVE  AnswerCovers(Decide("device", g))
<1>1. \A s \in Deliverable : g.doc[s].version = rows[s].version
  BY DEF Deliverable, InDocument, GetDocument
<1>2. g.cmp # "equals"
  BY DEF Status
<1>3. \A s \in Deliverable : s \notin Sendable(g) => dev.vers[s] = rows[s].version
  BY <1>2, SendsAllNew
<1>4. Decide("device", g).send = Sendable(g) /\ Decide("device", g).doc = g.doc
  BY DecideFacts
<1> QED
  BY <1>1, <1>3, <1>4 DEF AnswerCovers

\* A request that has read the root document and not yet the rows.
LEMMA AfterRootFacts ==
    ASSUME Disciplined, NEW h, NEW g \in GetRequest, ~g.hasDoc
    PROVE  /\ AfterRoot(h, g).cloudRoot = g.cloudRoot
           /\ AfterRoot(h, g).hdrVers = g.hdrVers
           /\ AfterRoot(h, g).meta = g.meta
           /\ \/ AfterRoot(h, g) = [g EXCEPT !.pc = "doc"]
              \/ AfterRoot(h, g).pc \in {"update", "reply"} /\ AfterRoot(h, g).status # "200"
<1>1. CASE g.cmp = "equals"
  <2>1. AfterRoot(h, g) = Decide(h, g)
    BY <1>1 DEF AfterRoot, Disciplined
  <2>2. Status(g) # "200"
    BY <1>1 DEF Status
  <2> QED
    BY <2>1, <2>2, DecideFacts
<1>2. CASE g.cmp # "equals"
  <2>1. AfterRoot(h, g) = [g EXCEPT !.pc = "doc"]
    BY <1>2 DEF AfterRoot
  <2> QED
    BY <2>1 DEF GetRequest
<1> QED
  BY <1>1, <1>2

\* GetReadRoot: the root version is one the cloud has, and a comparison that
\* says "version" is of metadata that agree.
LEMMA ReadRootDelivers ==
    ASSUME TypeOK, TypeOK', Disciplined, DeliveryInv, NothingPushed', NEW h \in GetHandlers,
           GetReadRoot(h), Quiet
    PROVE  DeliveryInv'
<1> DEFINE m == IF root.exists THEN root.meta ELSE get[h].meta
           v == IF root.exists THEN root.version ELSE NoRoot
           g == [get[h] EXCEPT !.cloudRoot = v, !.cloudMeta = m,
                               !.locked = root.exists /\ root.locked,
                               !.cmp = Compare(h, v, m, get[h].hdrRoot, get[h].meta)]
           new == IF ~root.exists THEN [g EXCEPT !.pc = "create"]
                  ELSE IF m # g.meta THEN [g EXCEPT !.pc = "meta"]
                  ELSE AfterRoot(h, g)
<1>0. get \in [GetHandlers -> GetRequest]
  BY DEF TypeOK, GetTypeOK
<1>1. get' = [get EXCEPT ![h] = new]
  BY DEF GetReadRoot
<1>2. \A x \in VersionsIn(v) : x < nextVersion
  BY DEF DeliveryInv, VersionsPosted, VersionsIn, NoRoot
<1>3. m \in MetaColumn /\ v \in RootVersion
  BY <1>0, EmptyTypes DEF TypeOK, StoreTypeOK, RootRow, GetRequest
<1>4. Compare(h, v, m, get[h].hdrRoot, get[h].meta) \in Comparison
  BY DEF Compare, Comparison
<1>5. (root.exists /\ root.locked) \in BOOLEAN
  OBVIOUS
<1>6. get[h].pc = "root"
  BY DEF GetReadRoot
<1>7. ~get[h].hasDoc
  BY <1>6 DEF DeliveryInv, RootBeforeDocument
<1>8. h = "device" => get[h].hdrVers = dev.vers /\ get[h].meta \in Metas
  BY <1>6 DEF DeliveryInv, DownloadCovers
<1>9. h = "device" =>
         \/ Compare(h, v, m, get[h].hdrRoot, get[h].meta) \in {"equals", "meta"}
         \/ m \in Metas /\ (get[h].hdrRoot # NoRoot => get[h].hdrRoot # v)
  BY <1>8 DEF Compare
<1> HIDE DEF m, v
<1>10. g \in GetRequest
  BY <1>0, <1>3, <1>4, <1>5 DEF GetRequest
<1>11. /\ g.cloudRoot = v /\ g.hdrVers = get[h].hdrVers /\ g.meta = get[h].meta
       /\ ~g.hasDoc
       /\ h = "device" => CompareCovers(g)
  BY <1>0, <1>7, <1>9 DEF GetRequest, CompareCovers
<1> HIDE DEF g
<1>12. /\ new.cloudRoot = v /\ new.hdrVers = get[h].hdrVers /\ new.meta = get[h].meta
       /\ \/ /\ new.pc \in {"create", "meta", "doc"}
             /\ ~new.hasDoc
             /\ h = "device" => CompareCovers(new)
          \/ new.pc \in {"update", "reply"} /\ new.status # "200"
  <2>1. ASSUME NEW pc \in {"create", "meta", "doc"}
        PROVE  LET n == [g EXCEPT !.pc = pc]
               IN  /\ n.cloudRoot = v /\ n.hdrVers = get[h].hdrVers /\ n.meta = get[h].meta
                   /\ n.pc = pc /\ ~n.hasDoc
                   /\ h = "device" => CompareCovers(n)
    BY <1>10, <1>11 DEF GetRequest, CompareCovers
  <2>2. CASE new = AfterRoot(h, g)
    <3>1. CASE AfterRoot(h, g) = [g EXCEPT !.pc = "doc"]
      BY <2>1, <2>2, <3>1
    <3>2. CASE AfterRoot(h, g).pc \in {"update", "reply"} /\ AfterRoot(h, g).status # "200"
      <4>1. /\ AfterRoot(h, g).cloudRoot = v
            /\ AfterRoot(h, g).hdrVers = get[h].hdrVers
            /\ AfterRoot(h, g).meta = get[h].meta
        BY <1>10, <1>11, AfterRootFacts
      <4> HIDE DEF new
      <4> QED
        BY <2>2, <3>2, <4>1
    <3> QED
      BY <1>10, <1>11, <3>1, <3>2, AfterRootFacts
  <2> QED
    BY <2>1, <2>2
<1> HIDE DEF new
<1>13. get'[h] = new /\ \A k \in GetHandlers \ {h} : get'[k] = get[k]
  BY <1>0, <1>1
<1>14. h = "device" => DownloadCovers'
  BY <1>8, <1>12, <1>13 DEF DownloadCovers, CompareCovers, Quiet
<1> QED
  BY <1>2, <1>12, <1>13, <1>14, QuietRequest

\* GetReadDocument: the answer is built from the rows as they are.
LEMMA ReadDocumentDelivers ==
    ASSUME TypeOK, TypeOK', Disciplined, DeliveryInv, NothingPushed', NEW h \in GetHandlers,
           GetReadDocument(h), Quiet
    PROVE  DeliveryInv'
<1> DEFINE g == [get[h] EXCEPT !.hasDoc = TRUE, !.doc = GetDocument(FALSE)]
<1>0. get \in [GetHandlers -> GetRequest]
  BY DEF TypeOK, GetTypeOK
<1>1. get' = [get EXCEPT ![h] = Decide(h, g)]
  BY DEF GetReadDocument, AfterDocument, Disciplined
<1>2. g \in GetRequest
  BY <1>0, GetDocumentType DEF GetRequest, TypeOK
<1>3. /\ g.doc = GetDocument(FALSE) /\ g.cloudRoot = get[h].cloudRoot
      /\ g.hdrVers = get[h].hdrVers /\ g.meta = get[h].meta
      /\ CompareCovers(get[h]) => CompareCovers(g)
  BY <1>0 DEF GetRequest, CompareCovers
<1> HIDE DEF g
<1>4. get'[h] = Decide(h, g) /\ \A k \in GetHandlers \ {h} : get'[k] = get[k]
  BY <1>0, <1>1
<1>5. \A v \in VersionsIn(get'[h].cloudRoot) : v < nextVersion
  BY <1>2, <1>3, <1>4, DecideFacts DEF DeliveryInv, VersionsPosted
<1>6. get'[h].pc \in {"update", "reply"}
  BY <1>2, <1>4, DecideFacts
<1>7. ASSUME h = "device" PROVE DownloadCovers'
  <2>1. /\ get[h].hdrVers = dev.vers /\ get[h].meta \in Metas
        /\ CompareCovers(get[h])
    BY <1>7 DEF GetReadDocument, DeliveryInv, DownloadCovers
  <2>2. UNCHANGED <<rows, dev>>
    BY DEF GetReadDocument, storeVars, deviceVars
  <2>3. Status(g) = "200" => AnswerCovers(Decide("device", g))
    BY <1>2, <1>3, <2>1, DecideCovers
  <2>4. Deliverable' = Deliverable
    BY <2>2 DEF Deliverable, InDocument
  <2>5. Status(g) = "200" => AnswerCovers(get["device"])'
    BY <1>4, <1>7, <2>2, <2>3, <2>4 DEF AnswerCovers
  <2>6. /\ get'["device"].status = Status(g)
        /\ get'["device"].hdrVers = dev'.vers /\ get'["device"].meta \in Metas
    BY <1>2, <1>3, <1>4, <1>7, <2>1, <2>2, DecideFacts
  <2> QED
    BY <1>6, <1>7, <2>5, <2>6 DEF DownloadCovers
<1> QED
  BY <1>4, <1>5, <1>6, <1>7, QuietRequest

\* A request is quiet: it touches metadata and states only.
LEMMA RequestQuiet ==
    ASSUME TypeOK, Disciplined, DeliveryInv, NEW h \in GetHandlers,
           GetStep(h) \/ GetFails(h), UNCHANGED writerVars
    PROVE  Quiet
<1>1. RowsKept
  <2>1. ASSUME NEW s \in SubdocIds, MarkInDeployment(h, s)
        PROVE  RowsKept
    BY <2>1, SetStateKeepsRows DEF MarkInDeployment, TypeOK
  <2>2. ASSUME NEW s \in SubdocIds, CorrectState(h, s)
        PROVE  FALSE
    BY <2>2 DEF CorrectState, DeliveryInv, RootBeforeDocument
  <2> QED
    BY <2>1, <2>2, SameRowsKeepRows
    DEF GetStep, GetReadDocFirst, GetReadRoot, GetStoreMeta, GetReadDocument, GetFails,
        storeVars
<1>2. root'.version = root.version
  BY DEF GetStep, GetReadDocFirst, GetReadRoot, GetStoreMeta, GetReadDocument, GetFails,
         CorrectState, MarkInDeployment, storeVars, SetRootDocument, TypeOK, StoreTypeOK,
         RootRow
<1>3. UNCHANGED dev
  BY DEF GetStep, GetReadDocFirst, GetReadRoot, GetStoreMeta, GetReadDocument, GetFails,
         CorrectState, MarkInDeployment, deviceVars
<1> QED
  BY <1>1, <1>2, <1>3 DEF Quiet, writerVars

\* The other steps of a request.
LEMMA RequestDelivers ==
    ASSUME TypeOK, TypeOK', Disciplined, DeliveryInv, NothingPushed', NEW h \in GetHandlers,
           GetStep(h) \/ GetFails(h), UNCHANGED <<writerVars, pokeVars>>
    PROVE  DeliveryInv'
<1>0. get \in [GetHandlers -> GetRequest]
  BY DEF TypeOK, GetTypeOK
<1>a. Quiet
  BY RequestQuiet
<1>1. CASE GetReadDocFirst(h) \/ \E s \in SubdocIds : CorrectState(h, s)
  BY <1>1 DEF GetReadDocFirst, CorrectState, DeliveryInv, RootBeforeDocument
<1>2. CASE GetReadRoot(h)
  BY <1>2, <1>a, ReadRootDelivers
<1>3. CASE GetStoreMeta(h)
  <2>2. get[h] \in GetRequest /\ ~get[h].hasDoc
    BY <1>0, <1>3 DEF GetStoreMeta, DeliveryInv, RootBeforeDocument
  <2>3. get'[h] = AfterRoot(h, get[h]) /\ \A k \in GetHandlers \ {h} : get'[k] = get[k]
    BY <1>0, <1>3 DEF GetStoreMeta
  <2>4. /\ get'[h].cloudRoot = get[h].cloudRoot
        /\ get'[h].hdrVers = get[h].hdrVers /\ get'[h].meta = get[h].meta
        /\ \/ get'[h] = [get[h] EXCEPT !.pc = "doc"]
           \/ get'[h].pc \in {"update", "reply"} /\ get'[h].status # "200"
    BY <2>2, <2>3, AfterRootFacts
  <2>5. \A v \in VersionsIn(get'[h].cloudRoot) : v < nextVersion
    BY <2>4 DEF DeliveryInv, VersionsPosted
  <2>6. \/ get'[h].pc = "doc" /\ ~get'[h].hasDoc /\ (CompareCovers(get[h]) => CompareCovers(get'[h]))
        \/ get'[h].pc \in {"update", "reply"} /\ get'[h].status # "200"
    BY <2>2, <2>4 DEF GetRequest, CompareCovers
  <2>7. ASSUME h = "device" PROVE DownloadCovers'
    <3>1. /\ get[h].hdrVers = dev.vers /\ get[h].meta \in Metas
          /\ CompareCovers(get[h])
      BY <1>3, <2>7 DEF GetStoreMeta, DeliveryInv, DownloadCovers
    <3> QED
      BY <1>a, <2>4, <2>6, <2>7, <3>1 DEF DownloadCovers, CompareCovers, Quiet
  <2> QED
    BY <1>a, <2>3, <2>5, <2>6, <2>7, QuietRequest
<1>4. CASE GetReadDocument(h)
  BY <1>4, <1>a, ReadDocumentDelivers
<1>5. ASSUME NEW s \in SubdocIds, MarkInDeployment(h, s)
      PROVE  DeliveryInv'
  <2>3. /\ get'[h].pc \in {"update", "reply"} /\ get[h].pc = "update"
        /\ get'[h].cloudRoot = get[h].cloudRoot
        /\ get'[h].hdrVers = get[h].hdrVers /\ get'[h].meta = get[h].meta
        /\ get'[h].send = get[h].send /\ get'[h].doc = get[h].doc
        /\ get'[h].status = get[h].status
        /\ \A k \in GetHandlers \ {h} : get'[k] = get[k]
    BY <1>0, <1>5 DEF MarkInDeployment, GetRequest
  <2>4. \A v \in VersionsIn(get'[h].cloudRoot) : v < nextVersion
    BY <2>3 DEF DeliveryInv, VersionsPosted
  <2>5. ASSUME h = "device" PROVE DownloadCovers'
    <3>1. AnswerCovers(get["device"]) => AnswerCovers(get["device"])'
      BY <1>a, <2>3, <2>5, QuietAnswer
    <3> QED
      BY <1>a, <2>3, <2>5, <3>1 DEF DeliveryInv, DownloadCovers, Quiet
  <2> QED
    BY <1>a, <2>3, <2>4, <2>5, QuietRequest
<1>6. CASE GetFails(h)
  <2>1. get'[h] = IdleGet /\ \A k \in GetHandlers \ {h} : get'[k] = get[k]
    BY <1>0, <1>6 DEF GetFails
  <2> QED
    BY <1>a, <2>1, QuietRequest DEF IdleGet, NoRoot, VersionsIn, DownloadCovers
<1> QED
  BY <1>1, <1>2, <1>3, <1>4, <1>5, <1>6 DEF GetStep

-----------------------------------------------------------------------------
(* The device.                                                             *)

\* A response reaches the device, which applies some of it.
LEMMA ResponseDelivers ==
    ASSUME TypeOK, TypeOK', Disciplined, DeliveryInv, NothingPushed', NEW applied, DeviceReceives(applied),
           UNCHANGED <<writerVars, pokeVars>>
    PROVE  DeliveryInv'
<1> DEFINE g == get["device"]
<1>0. get \in [GetHandlers -> GetRequest] /\ "device" \in GetHandlers
  BY DEF TypeOK, GetTypeOK, DeviceReceives
<1>a. UNCHANGED <<rows, root, nb, nextVersion, rootStale>>
  BY DEF DeviceReceives, writerVars, pokeVars, storeVars
<1>b. get'["device"] = IdleGet /\ \A k \in GetHandlers \ {"device"} : get'[k] = get[k]
  BY <1>0 DEF DeviceReceives
<1>c. DownloadCovers'
  BY <1>b DEF DownloadCovers, IdleGet
<1>1. CASE UNCHANGED dev
  <2>1. Quiet
    BY <1>1, <1>a, SameRowsKeepRows DEF Quiet
  <2>2. /\ \A v \in VersionsIn(get'["device"].cloudRoot) : v < nextVersion
        /\ get'["device"].pc \notin {"predoc", "correct"}
        /\ ~get'["device"].hasDoc
    BY <1>b DEF IdleGet, NoRoot, VersionsIn
  <2> QED
    BY <1>0, <1>b, <1>c, <2>1, <2>2, QuietRequest
<1>2. CASE ~UNCHANGED dev
  <2>1. /\ g.pc = "reply" /\ g.status = "200" /\ applied \subseteq g.send
        /\ ApplyDocument(g.cloudRoot, VersionMap(g.doc), g.send, applied)
    BY <1>2 DEF DeviceReceives
  <2>2. AnswerCovers(g)
    BY <1>0, <2>1 DEF DeliveryInv, DownloadCovers
  <2>3. /\ dev'.meta = dev.meta
        /\ dev'.root = IF applied = g.send THEN g.cloudRoot ELSE dev.root
        /\ \A s \in SubdocIds :
              dev'.vers[s] = IF s \in applied THEN g.doc[s].version ELSE dev.vers[s]
    BY <2>1 DEF ApplyDocument, VersionMap, TypeOK, DeviceTypeOK, DeviceState
  <2>4. Deliverable' = Deliverable /\ Deliverable \subseteq SubdocIds
    BY <1>a, <2>3 DEF Deliverable, InDocument
  <2>5. DeviceCovers'
    <3>1. SUFFICES ASSUME NEW s \in Deliverable,
                          rows[s].version \in VersionsIn(dev'.root)
                   PROVE  dev'.vers[s] = rows[s].version
      BY <1>a, <2>4 DEF DeviceCovers
    <3>2. CASE applied = g.send
      BY <2>2, <2>3, <2>4, <3>1, <3>2 DEF AnswerCovers
    <3>3. CASE applied # g.send
      BY <2>1, <2>2, <2>3, <2>4, <3>1, <3>3 DEF AnswerCovers, DeliveryInv, DeviceCovers
    <3> QED
      BY <3>2, <3>3
  <2>6. VersionsPosted'
    <3>1. \A v \in VersionsIn(dev'.root) : v < nextVersion
      BY <1>0, <2>3 DEF DeliveryInv, VersionsPosted
    <3>2. VersionsIn(get'["device"].cloudRoot) = {}
      BY <1>b DEF IdleGet, NoRoot, VersionsIn
    <3>3. \A h \in GetHandlers : \A v \in VersionsIn(get'[h].cloudRoot) : v < nextVersion
      BY <1>b, <3>2 DEF DeliveryInv, VersionsPosted
    <3> QED
      BY <1>a, <3>1, <3>3 DEF DeliveryInv, VersionsPosted
  <2>7. WriterCovers' /\ RootCovers'
    BY <1>a DEF DeliveryInv, WriterCovers, RootCovers, WritersIdle, Current, InDocument
  <2>8. RootBeforeDocument'
    BY <1>b DEF DeliveryInv, RootBeforeDocument, IdleGet
  <2> QED
    BY <1>a, <1>c, <2>5, <2>6, <2>7, <2>8 DEF DeliveryInv
<1> QED
  BY <1>1, <1>2

\* A request sets out with what the device has.
LEMMA DeviceRequestDelivers ==
    ASSUME TypeOK, TypeOK', Disciplined, DeliveryInv, NothingPushed', NEW mismatch \in BOOLEAN,
           DeviceGet(mismatch), UNCHANGED <<writerVars, pokeVars>>
    PROVE  DeliveryInv'
<1>0. get \in [GetHandlers -> GetRequest] /\ "device" \in GetHandlers
  BY DEF TypeOK, GetTypeOK, DeviceGet
<1>1. Quiet
  BY SameRowsKeepRows DEF DeviceGet, Quiet, writerVars, pokeVars, storeVars
<1>2. /\ get'["device"].pc = "root"
      /\ get'["device"].hdrVers = dev.vers /\ get'["device"].meta = dev.meta
      /\ get'["device"].cloudRoot = get["device"].cloudRoot
      /\ get'["device"].hasDoc = get["device"].hasDoc
      /\ \A k \in GetHandlers \ {"device"} : get'[k] = get[k]
  BY <1>0 DEF DeviceGet, Disciplined, GetRequest
<1>3. ~get["device"].hasDoc
  BY <1>0 DEF DeviceGet, DeliveryInv, RootBeforeDocument
<1>4. \A v \in VersionsIn(get'["device"].cloudRoot) : v < nextVersion
  BY <1>0, <1>2 DEF DeliveryInv, VersionsPosted
<1>5. dev.meta \in Metas
  BY DEF TypeOK, DeviceTypeOK, DeviceState
<1>6. DownloadCovers'
  BY <1>1, <1>2, <1>5 DEF DownloadCovers, Quiet
<1> QED
  BY <1>0, <1>1, <1>2, <1>3, <1>4, <1>6, QuietRequest

\* A request of mget begins or ends: it says nothing about the device.
LEMMA MgetDelivers ==
    ASSUME TypeOK, TypeOK', Disciplined, DeliveryInv, NothingPushed',
           MgetReceives \/ \E m \in Metas : MgetGet(m),
           UNCHANGED <<writerVars, pokeVars>>
    PROVE  DeliveryInv'
<1>0. get \in [GetHandlers -> GetRequest] /\ "mget" \in GetHandlers
  BY DEF TypeOK, GetTypeOK, MgetGet, MgetReceives
<1>1. Quiet
  BY SameRowsKeepRows DEF MgetGet, MgetReceives, Quiet, writerVars, pokeVars, storeVars,
                          deviceVars
<1>2. get' = [get EXCEPT !["mget"] = IdleGet] \/
      \E m \in Metas : /\ get["mget"].pc = "idle"
                       /\ get' = [get EXCEPT !["mget"] = [get["mget"] EXCEPT !.pc = "root",
                                                                           !.meta = m]]
  BY DEF MgetGet, MgetReceives
<1>a. \A k \in GetHandlers \ {"mget"} : get'[k] = get[k]
  BY <1>0, <1>2
<1>b. /\ get'["mget"].pc \in {"idle", "root"}
      /\ \/ get'["mget"] = IdleGet
         \/ /\ get["mget"].pc = "idle"
            /\ get'["mget"].cloudRoot = get["mget"].cloudRoot
            /\ get'["mget"].hasDoc = get["mget"].hasDoc
  <2>1. CASE get' = [get EXCEPT !["mget"] = IdleGet]
    BY <1>0, <2>1 DEF IdleGet
  <2>2. CASE get' # [get EXCEPT !["mget"] = IdleGet]
    <3>1. PICK m \in Metas : /\ get["mget"].pc = "idle"
                             /\ get' = [get EXCEPT !["mget"] = [get["mget"] EXCEPT
                                            !.pc = "root", !.meta = m]]
      BY <1>2, <2>2
    <3> QED
      BY <1>0, <3>1 DEF GetRequest
  <2> QED
    BY <2>1, <2>2
<1>3. ~get'["mget"].hasDoc
  BY <1>0, <1>b DEF DeliveryInv, RootBeforeDocument, IdleGet
<1>4. \A v \in VersionsIn(get'["mget"].cloudRoot) : v < nextVersion
  BY <1>0, <1>b DEF DeliveryInv, VersionsPosted, VersionsIn, IdleGet, NoRoot
<1> QED
  BY <1>0, <1>1, <1>a, <1>b, <1>3, <1>4, QuietRequest

\* Reports change states only.
LEMMA ReportQuiet ==
    ASSUME TypeOK, Disciplined, NEW c \in Consumers,
           ReportStep(c) \/ ReportFails(c) \/ ReportCrashes(c),
           UNCHANGED writerVars
    PROVE  Quiet
<1>1. RowsKept
  <2>1. CASE UNCHANGED rows
    BY <2>1, SameRowsKeepRows
  <2>2. ASSUME NEW s \in SubdocIds, MarkDeployed(c, s)
        PROVE  RowsKept
    BY <2>2, SetStateKeepsRows DEF MarkDeployed, TypeOK
  <2>3. CASE SetReportedState(c)
    <3>1. rep[c].event.subdoc \in SubdocIds
      BY <2>3 DEF SetReportedState, TypeOK, ReportTypeOK, SubdocEvent
    <3>2. \E state, err : SetSubDocument(rep[c].event.subdoc, NilVersion, state, err, "nil")
      BY <2>3 DEF SetReportedState, Disciplined
    <3> QED
      BY <3>1, <3>2, SetStateKeepsRows DEF TypeOK
  <2> QED
    BY <2>1, <2>2, <2>3 DEF ReportStep, TakeReport, Read304, ReadSubdoc, ReportFails,
                            ReportCrashes, storeVars
<1>2. UNCHANGED <<root, dev>>
  BY DEF ReportStep, TakeReport, Read304, MarkDeployed, ReadSubdoc, SetReportedState,
         ReportFails, ReportCrashes, storeVars, deviceVars
<1> QED
  BY <1>1, <1>2 DEF Quiet, writerVars

\* Pokes through webpa only prompt the device.
LEMMA PokeQuiet ==
    ASSUME TypeOK, Disciplined, DeliveryInv, NEW p \in Pokers,
           PokeStep(p) \/ PokeFails(p), UNCHANGED writerVars
    PROVE  Quiet
<1>1. UNCHANGED <<rows, root, dev>>
  BY PokePrompts DEF Disciplined, DeliveryInv
<1> QED
  BY <1>1, SameRowsKeepRows DEF Quiet, writerVars

\* The clock only makes rows expire and locks run out.
LEMMA TickQuiet ==
    ASSUME TypeOK, Tick
    PROVE  Quiet
<1>1. RowsKept /\ root'.version = root.version
  BY DEF Tick, Expire, LockRunsOut, RowsKept, Current, InDocument, TypeOK, StoreTypeOK,
         Row, RootRow
<1> QED
  BY <1>1 DEF Tick, Quiet, writerVars, deviceVars

\* New firmware and a lock change neither rows nor versions.
LEMMA InterventionQuiet ==
    ASSUME TypeOK, UNCHANGED writerVars,
           \/ (\E m \in Metas : Upgrade(m)) /\ UNCHANGED storeVars
           \/ LockRootDocument /\ UNCHANGED deviceVars
    PROVE  Quiet
<1>1. /\ UNCHANGED rows /\ root'.version = root.version
      /\ dev'.root = dev.root /\ dev'.vers = dev.vers
  BY DEF Upgrade, LockRootDocument, storeVars, deviceVars, TypeOK, StoreTypeOK, RootRow,
         DeviceTypeOK, DeviceState
<1> QED
  BY <1>1, SameRowsKeepRows DEF Quiet, writerVars

-----------------------------------------------------------------------------
(* The invariant, and what follows from it.                                *)

LEMMA DeliveryInit == ASSUME Init PROVE DeliveryInv
<1>1. /\ \A s \in SubdocIds : rows[s].version = 0
      /\ root.version = {} /\ dev.root = {} /\ nextVersion = 1 /\ NothingPushed
      /\ \A w \in Writers : nb[w] = IdleWriter
      /\ \A h \in GetHandlers : get[h] = IdleGet
  BY DEF Init, StoreInit, NoDocument, EmptyRow, NoRoot, DeviceInit, PokeInit, WriterInit,
         GetInit, NothingPushed, IdlePoke
<1>2. VersionsPosted
  BY <1>1 DEF VersionsPosted, VersionsIn, IdleWriter, IdleGet, NoRoot
<1>3. WriterCovers /\ RootCovers
  BY <1>1 DEF WriterCovers, RootCovers, IdleWriter, Current, InDocument
<1>4. DeviceCovers
  BY <1>1 DEF DeviceCovers, Deliverable, InDocument
<1>5. RootBeforeDocument /\ DownloadCovers
  BY <1>1 DEF RootBeforeDocument, DownloadCovers, IdleGet
<1> QED
  BY <1>1, <1>2, <1>3, <1>4, <1>5 DEF DeliveryInv

\* Every step of the system preserves the inductive invariant.
LEMMA DeliveryStep ==
    ASSUME TypeOK, TypeOK', Disciplined, DeliveryInv, [Next]_vars
    PROVE  DeliveryInv'
<1>0. NothingPushed'
  BY StepPushesNothing DEF Disciplined, DeliveryInv
<1>1. ASSUME NEW w \in Writers, Write(w)
      PROVE  DeliveryInv'
  BY <1>0, <1>1, WriterDelivers DEF Write
<1>2. ASSUME NEW h \in GetHandlers, Serve(h)
      PROVE  DeliveryInv'
  BY <1>0, <1>2, RequestDelivers DEF Serve
<1>3. ASSUME NEW h \in GetHandlers, NEW mismatch \in BOOLEAN, Request(h, mismatch)
      PROVE  DeliveryInv'
  <2>1. CASE h = "device"
    BY <1>0, <1>3, <2>1, DeviceRequestDelivers DEF Request
  <2>2. CASE h # "device"
    BY <1>0, <1>3, <2>2, MgetDelivers DEF Request
  <2> QED
    BY <2>1, <2>2
<1>4. ASSUME NEW h \in GetHandlers, Response(h)
      PROVE  DeliveryInv'
  <2>1. CASE h = "device"
    BY <1>0, <1>4, <2>1, ResponseDelivers DEF Response
  <2>2. CASE h # "device"
    BY <1>0, <1>4, <2>2, MgetDelivers DEF Response
  <2> QED
    BY <2>1, <2>2
<1>5. ASSUME NEW c \in Consumers, Report(c)
      PROVE  DeliveryInv'
  BY <1>0, <1>5, ReportQuiet, QuietElsewhere DEF Report
<1>6. CASE (\E p \in Pokers : PokeDevice(p)) \/ Push
  <2>1. ~Push
    BY DEF Push, DeliveryInv, NothingPushed
  <2>2. PICK p \in Pokers : PokeDevice(p)
    BY <1>6, <2>1
  <2> QED
    BY <1>0, <2>2, PokeQuiet, QuietElsewhere DEF PokeDevice
<1>7. CASE Tick
  BY <1>0, <1>7, TickQuiet, QuietElsewhere DEF Tick
<1>8. CASE Disturb
  <2>1. ASSUME NEW w \in Writers, WriterFails(w), UNCHANGED <<deviceVars, get, rep, pokeVars>>
        PROVE  DeliveryInv'
    BY <1>0, <2>1, WriterDelivers
  <2>2. ASSUME NEW h \in GetHandlers, GetFails(h), UNCHANGED <<writerVars, rep, pokeVars>>
        PROVE  DeliveryInv'
    BY <1>0, <2>2, RequestDelivers
  <2>3. ASSUME NEW applied, DeviceReceives(applied), UNCHANGED <<writerVars, rep, pokeVars>>
        PROVE  DeliveryInv'
    BY <1>0, <2>3, ResponseDelivers
  <2>4. ASSUME NEW c \in Consumers, ReportFails(c) \/ ReportCrashes(c),
               UNCHANGED <<writerVars, get, pokeVars>>
        PROVE  DeliveryInv'
    BY <1>0, <2>4, ReportQuiet, QuietElsewhere
  <2>5. ASSUME NEW p \in Pokers, PokeFails(p), UNCHANGED <<writerVars, get, rep>>
        PROVE  DeliveryInv'
    BY <1>0, <2>5, PokeQuiet, QuietElsewhere
  <2>6. ASSUME UNCHANGED <<writerVars, get>>,
               \/ (\E m \in Metas : Upgrade(m)) /\ UNCHANGED storeVars
               \/ LockRootDocument /\ UNCHANGED deviceVars
        PROVE  DeliveryInv'
    BY <1>0, <2>6, InterventionQuiet, QuietElsewhere
  <2> QED
    BY <1>8, <2>1, <2>2, <2>3, <2>4, <2>5, <2>6 DEF Disturb
<1>9. CASE UNCHANGED vars
  BY <1>0, <1>9, SameRowsKeepRows, QuietElsewhere
  DEF vars, Quiet, storeVars, writerVars, deviceVars, pokeVars
<1> QED
  BY <1>1, <1>2, <1>3, <1>4, <1>5, <1>6, <1>7, <1>8, <1>9 DEF Next

\* DeliveryInv is an invariant when the environment is disciplined: the order
\* in which the handlers of http/document_handler.go write and BuildGetDocument
\* of db/service.go reads keeps every root version honest.
THEOREM DeliveryInvariant == ASSUME Disciplined PROVE Spec => []DeliveryInv
<1>1. Init => DeliveryInv
  BY DeliveryInit
<1>2. TypeOK /\ TypeOK' /\ DeliveryInv /\ [Next]_vars => DeliveryInv'
  BY DeliveryStep
<1> QED
  BY <1>1, <1>2, TypeCorrect, PTL DEF Spec

\* A device whose root version equals the stored one, which BuildGetDocument
\* answers 304, has every sub-document it may have in its current version.
THEOREM NoUpdateMissed == ASSUME Disciplined PROVE Spec => []NoMissedUpdate
<1>1. DeliveryInv => NoMissedUpdate
  <2>1. SUFFICES ASSUME DeliveryInv, WritersIdle, ~rootStale, dev.root = root.version,
                        NEW s \in Deliverable
                 PROVE  dev.vers[s] = rows[s].version
    BY DEF NoMissedUpdate, DeviceUpToDate
  <2>2. Current(s) /\ s \in SubdocIds
    BY <2>1 DEF Deliverable, Current
  <2> QED
    BY <2>1, <2>2 DEF DeliveryInv, RootCovers, DeviceCovers
<1> QED
  BY <1>1, DeliveryInvariant, PTL

-----------------------------------------------------------------------------
(* What a download brings.                                                 *)

\* A step that leaves the device's request, and what the device has, alone.
AwayFromDevice == /\ Quiet
                  /\ "device" \in GetHandlers => get'["device"] = get["device"]

\* The steps that count for the device: those of the writers, of its own
\* request, and the arrival of a response.
LEMMA StepKinds ==
    ASSUME TypeOK, TypeOK', Disciplined, DeliveryInv, [Next]_vars
    PROVE  \/ AwayFromDevice
           \/ \E w \in Writers : /\ WriterStep(w) \/ WriterFails(w)
                                 /\ UNCHANGED <<deviceVars, get>>
           \/ /\ "device" \in GetHandlers
              /\ GetStep("device") \/ GetFails("device") \/ DeviceGet(FALSE)
              /\ UNCHANGED writerVars
           \/ \E applied : DeviceReceives(applied) /\ UNCHANGED writerVars
<1>1. ASSUME NEW h \in GetHandlers, h # "device", UNCHANGED writerVars,
             \/ GetStep(h) \/ GetFails(h)
             \/ MgetReceives \/ \E m \in Metas : MgetGet(m)
      PROVE  AwayFromDevice
  <2>1. Quiet
    <3>1. CASE GetStep(h) \/ GetFails(h)
      BY <1>1, <3>1, RequestQuiet
    <3>2. CASE MgetReceives \/ \E m \in Metas : MgetGet(m)
      BY <1>1, <3>2, SameRowsKeepRows DEF MgetGet, MgetReceives, Quiet, writerVars, storeVars,
                                          deviceVars
    <3> QED
      BY <1>1, <3>1, <3>2
  <2>2. get \in [GetHandlers -> GetRequest]
    BY DEF TypeOK, GetTypeOK
  <2>3. "device" \in GetHandlers => get'["device"] = get["device"]
    <3>1. CASE MgetReceives \/ \E m \in Metas : MgetGet(m)
      BY <2>2, <3>1 DEF MgetReceives, MgetGet
    <3>2. CASE GetFails(h) \/ GetReadRoot(h) \/ GetStoreMeta(h) \/ GetReadDocument(h)
      BY <1>1, <2>2, <3>2 DEF GetFails, GetReadRoot, GetStoreMeta, GetReadDocument
    <3>3. ASSUME NEW s \in SubdocIds, MarkInDeployment(h, s)
          PROVE  "device" \in GetHandlers => get'["device"] = get["device"]
      BY <1>1, <2>2, <3>3 DEF MarkInDeployment
    <3>4. ~GetReadDocFirst(h) /\ \A s \in SubdocIds : ~CorrectState(h, s)
      BY DEF GetReadDocFirst, CorrectState, DeliveryInv, RootBeforeDocument
    <3> QED
      BY <1>1, <3>1, <3>2, <3>3, <3>4 DEF GetStep
  <2> QED
    BY <2>1, <2>3 DEF AwayFromDevice
<1>2. ASSUME NEW h \in GetHandlers, Serve(h) \/ Response(h) \/ \E x \in BOOLEAN : Request(h, x)
      PROVE  \/ AwayFromDevice
             \/ /\ "device" \in GetHandlers
                /\ GetStep("device") \/ GetFails("device") \/ DeviceGet(FALSE)
                /\ UNCHANGED writerVars
             \/ \E applied : DeviceReceives(applied) /\ UNCHANGED writerVars
  <2>1. \A x \in BOOLEAN : DeviceGet(x) => DeviceGet(FALSE)
    BY DEF DeviceGet, Disciplined
  <2>2. CASE h = "device"
    BY <1>2, <2>1, <2>2 DEF Serve, Response, Request
  <2>3. CASE h # "device"
    BY <1>1, <1>2, <2>3 DEF Serve, Response, Request
  <2> QED
    BY <2>2, <2>3
<1>3. ASSUME \/ \E c \in Consumers : Report(c)
             \/ (\E p \in Pokers : PokeDevice(p)) \/ Push
             \/ Tick
             \/ UNCHANGED vars
      PROVE  AwayFromDevice
  <2>1. Quiet
    <3>1. ~Push
      BY DEF Push, DeliveryInv, NothingPushed
    <3>2. CASE UNCHANGED vars
      BY <3>2, SameRowsKeepRows DEF vars, Quiet, storeVars, writerVars, deviceVars
    <3> QED
      BY <1>3, <3>1, <3>2, ReportQuiet, PokeQuiet, TickQuiet DEF Report, PokeDevice
  <2> QED
    BY <1>3, <2>1 DEF AwayFromDevice, Report, PokeDevice, Push, Tick, vars
<1>4. CASE Disturb
  <2>1. ASSUME NEW c \in Consumers, ReportFails(c) \/ ReportCrashes(c),
               UNCHANGED <<writerVars, get, pokeVars>>
        PROVE  AwayFromDevice
    BY <2>1, ReportQuiet DEF AwayFromDevice
  <2>2. ASSUME NEW p \in Pokers, PokeFails(p), UNCHANGED <<writerVars, get, rep>>
        PROVE  AwayFromDevice
    BY <2>2, PokeQuiet DEF AwayFromDevice
  <2>3. ASSUME UNCHANGED <<writerVars, get>>,
               \/ (\E m \in Metas : Upgrade(m)) /\ UNCHANGED storeVars
               \/ LockRootDocument /\ UNCHANGED deviceVars
        PROVE  AwayFromDevice
    BY <2>3, InterventionQuiet DEF AwayFromDevice
  <2>4. ASSUME NEW h \in GetHandlers, GetFails(h), UNCHANGED <<writerVars, rep, pokeVars>>
        PROVE  \/ AwayFromDevice
               \/ "device" \in GetHandlers /\ GetFails("device") /\ UNCHANGED writerVars
    BY <1>1, <2>4
  <2> QED
    BY <1>4, <2>1, <2>2, <2>3, <2>4 DEF Disturb
<1>5. ASSUME NEW w \in Writers, Write(w)
      PROVE  (WriterStep(w) \/ WriterFails(w)) /\ UNCHANGED <<deviceVars, get>>
  BY <1>5 DEF Write
<1> QED
  BY <1>2, <1>3, <1>4, <1>5 DEF Next

\* What may be sent to a device is what Deliverable says it should get.
LEMMA AdmittedDeliverable ==
    ASSUME TypeOK, Disciplined
    PROVE  Deliverable = {s \in Admitted : Current(s)}
<1>1. dev.meta \in Metas
  BY DEF TypeOK, DeviceTypeOK, DeviceState
<1>2. \A s : FilterOutputByBitmapEnabled =>
          (s \in Supports[dev.meta] <=> \E m \in Metas : s \in Supports[m])
  BY <1>1 DEF Disciplined
<1> QED
  BY <1>2 DEF Deliverable, Admitted, Current

\* Decide sends sub-documents of the document that the device may have, and
\* sends some exactly when it answers 200.
LEMMA DecideOffer ==
    ASSUME Disciplined, NEW h, NEW g \in GetRequest
    PROVE  /\ Decide(h, g).send \subseteq Ids(g.doc) \cap Admitted
           /\ Decide(h, g).status = "200" <=> Decide(h, g).send # {}
<1>1. Unfiltered(g) \subseteq Ids(g.doc)
  BY DEF Unfiltered, FilterForGet
<1>2. Sendable(g) \subseteq Ids(g.doc) \cap Admitted
  <2>1. Sendable(g) \subseteq Unfiltered(g) \ Blocked
    BY DEF Sendable, FilterByBitmap
  <2>2. ASSUME FilterOutputByBitmapEnabled, NEW s \in Sendable(g)
        PROVE  \E m \in Metas : s \in Supports[m]
    BY <2>2, StoreAssumption DEF Sendable, FilterByBitmap, GetRequest, MetaColumn
  <2>3. Ids(g.doc) \subseteq SubdocIds
    BY DEF Ids
  <2> QED
    BY <1>1, <2>1, <2>2, <2>3 DEF Admitted
<1>3. /\ Decide(h, g).send = IF Status(g) = "200" THEN Sendable(g) ELSE {}
      /\ Decide(h, g).status = Status(g)
  BY DEF Disciplined, Decide, Answered, GetRequest
<1>4. Status(g) = "200" => Sendable(g) # {}
  BY DEF Status
<1> QED
  BY <1>2, <1>3, <1>4

\* What is decided from a document of posted versions is sound.
LEMMA DecideSound ==
    ASSUME Disciplined, NEW h, NEW g \in GetRequest,
           \A s \in SubdocIds : g.doc[s].version < nextVersion
    PROVE  OfferSound(Decide(h, g))
BY DecideFacts, DecideOffer DEF OfferSound

LEMMA AfterRootSound ==
    ASSUME Disciplined, NEW h, NEW g \in GetRequest, ~g.hasDoc,
           \A s \in SubdocIds : g.doc[s].version < nextVersion
    PROVE  OfferSound(AfterRoot(h, g))
<1>1. CASE g.cmp = "equals"
  BY <1>1, DecideSound DEF AfterRoot, Disciplined
<1>2. CASE g.cmp # "equals"
  BY <1>2 DEF AfterRoot, OfferSound, GetRequest
<1> QED
  BY <1>1, <1>2

\* A step that neither changes what the device has nor what its request read
\* keeps a download sound.
LEMMA OfferKept ==
    ASSUME TypeOK, TypeOK', OfferInv, nextVersion' >= nextVersion, dev'.vers = dev.vers,
           "device" \in GetHandlers => get'["device"] = get["device"]
    PROVE  OfferInv'
<1>1. nextVersion \in Nat /\ nextVersion' \in Nat
  BY DEF TypeOK, WriterTypeOK
<1>2. \A s \in SubdocIds : dev.vers[s] \in Nat
  BY DEF TypeOK, DeviceTypeOK, DeviceState, Versions
<1>3. "device" \in GetHandlers =>
         \A s \in SubdocIds : get["device"].doc[s].version \in Nat
  BY DEF TypeOK, GetTypeOK, GetRequest, Document, Row
<1>4. \A s \in SubdocIds : dev'.vers[s] < nextVersion'
  BY <1>1, <1>2 DEF OfferInv
<1>5. ASSUME "device" \in GetHandlers
      PROVE  OfferSound(get["device"])'
  <2>1. OfferSound(get["device"])
    BY <1>5 DEF OfferInv
  <2>2. get'["device"] = get["device"]
    BY <1>5
  <2>3. \A s \in SubdocIds : get'["device"].doc[s].version < nextVersion'
    BY <1>1, <1>3, <1>5, <2>1, <2>2 DEF OfferSound
  <2> QED
    BY <2>1, <2>2, <2>3 DEF OfferSound
<1> QED
  BY <1>4, <1>5 DEF OfferInv

\* Until it reads the rows, a request has no document and answers no 200.
LEMMA RootRequest ==
    ASSUME TypeOK, DeliveryInv, NEW h \in GetHandlers, GetReadRoot(h) \/ GetStoreMeta(h)
    PROVE  \E n \in GetRequest :
              /\ n.doc = get[h].doc /\ ~n.hasDoc
              /\ \/ get'[h] = AfterRoot(h, n)
                 \/ \E pc \in {"create", "meta"} : get'[h] = [n EXCEPT !.pc = pc]
<1> DEFINE g == get[h]
<1>0. get \in [GetHandlers -> GetRequest]
  BY DEF TypeOK, GetTypeOK
<1>1. ~g.hasDoc
  BY DEF GetReadRoot, GetStoreMeta, DeliveryInv, RootBeforeDocument
<1>2. CASE GetStoreMeta(h)
  BY <1>0, <1>1, <1>2 DEF GetStoreMeta
<1>3. CASE GetReadRoot(h)
  <2> DEFINE m == IF root.exists THEN root.meta ELSE g.meta
             v == IF root.exists THEN root.version ELSE NoRoot
             n == [g EXCEPT !.cloudRoot = v, !.cloudMeta = m,
                            !.locked = root.exists /\ root.locked,
                            !.cmp = Compare(h, v, m, g.hdrRoot, g.meta)]
  <2>1. get'[h] = IF ~root.exists THEN [n EXCEPT !.pc = "create"]
                  ELSE IF m # n.meta THEN [n EXCEPT !.pc = "meta"]
                  ELSE AfterRoot(h, n)
    BY <1>0, <1>3 DEF GetReadRoot
  <2>2. m \in MetaColumn /\ v \in RootVersion
    BY <1>0, EmptyTypes DEF TypeOK, StoreTypeOK, RootRow, GetRequest
  <2>3. Compare(h, v, m, g.hdrRoot, g.meta) \in Comparison
    BY DEF Compare, Comparison
  <2> HIDE DEF m, v
  <2>4. n \in GetRequest /\ n.doc = g.doc /\ ~n.hasDoc
    BY <1>0, <1>1, <2>2, <2>3 DEF GetRequest
  <2> HIDE DEF n
  <2> QED
    BY <2>1, <2>4
<1> QED
  BY <1>2, <1>3

\* The steps of the device's request keep its download sound.
LEMMA RequestOffers ==
    ASSUME TypeOK, TypeOK', Disciplined, DeliveryInv, OfferInv, "device" \in GetHandlers,
           GetStep("device") \/ GetFails("device") \/ DeviceGet(FALSE), UNCHANGED writerVars
    PROVE  OfferInv'
<1> DEFINE g == get["device"]
<1>0. get \in [GetHandlers -> GetRequest] /\ g \in GetRequest
  BY DEF TypeOK, GetTypeOK
<1>a. UNCHANGED nextVersion /\ dev'.vers = dev.vers
  <2>1. CASE DeviceGet(FALSE)
    BY <2>1 DEF DeviceGet, writerVars
  <2>2. CASE GetStep("device") \/ GetFails("device")
    BY <2>2, RequestQuiet DEF Quiet
  <2> QED
    BY <2>1, <2>2
<1>b. OfferSound(g) /\ \A s \in SubdocIds : dev.vers[s] < nextVersion
  BY DEF OfferInv
<1>c. \A s \in SubdocIds : g.doc[s].version < nextVersion
  BY <1>b DEF OfferSound
<1>d. SUFFICES OfferSound(get'["device"])
  <2>1. OfferSound(get["device"])' <=> OfferSound(get'["device"])
    BY <1>a DEF OfferSound
  <2> QED
    BY <1>a, <1>b, <2>1 DEF OfferInv
<1>1. CASE DeviceGet(FALSE)
  <2>1. get'["device"].pc = "root" /\ get'["device"].doc = g.doc
    BY <1>0, <1>1 DEF DeviceGet, GetRequest
  <2> QED
    BY <1>c, <2>1 DEF OfferSound
<1>2. CASE GetReadRoot("device") \/ GetStoreMeta("device")
  <2>1. PICK n \in GetRequest :
              /\ n.doc = g.doc /\ ~n.hasDoc
              /\ \/ get'["device"] = AfterRoot("device", n)
                 \/ \E pc \in {"create", "meta"} : get'["device"] = [n EXCEPT !.pc = pc]
    BY <1>2, RootRequest
  <2> HIDE DEF g
  <2>2. OfferSound(AfterRoot("device", n))
    BY <1>c, <2>1, AfterRootSound
  <2>3. \A pc \in {"create", "meta"} : OfferSound([n EXCEPT !.pc = pc])
    BY <1>c, <2>1 DEF OfferSound, GetRequest
  <2> QED
    BY <2>1, <2>2, <2>3
<1>3. CASE GetReadDocument("device")
  <2> DEFINE n == [g EXCEPT !.hasDoc = TRUE, !.doc = GetDocument(FALSE)]
  <2>1. get'["device"] = Decide("device", n)
    BY <1>0, <1>3 DEF GetReadDocument, AfterDocument, Disciplined
  <2>2. n \in GetRequest /\ n.doc = GetDocument(FALSE)
    BY <1>0, GetDocumentType DEF GetRequest, TypeOK
  <2>3. \A s \in SubdocIds : GetDocument(FALSE)[s].version < nextVersion
    <3>1. /\ nextVersion \in Nat /\ 0 < nextVersion
          /\ \A s \in SubdocIds : rows[s].version \in Nat /\ rows[s].version < nextVersion
      BY DEF DeliveryInv, VersionsPosted, TypeOK, WriterTypeOK, StoreTypeOK, Row
    <3>2. \A s \in SubdocIds : GetDocument(FALSE)[s].version \in {rows[s].version, 0}
      BY DEF GetDocument, EmptyRow
    <3> QED
      BY <3>1, <3>2
  <2> HIDE DEF n
  <2> QED
    BY <2>1, <2>2, <2>3, DecideSound
<1>4. ASSUME NEW s \in SubdocIds, MarkInDeployment("device", s)
      PROVE  OfferSound(get'["device"])
  <2>1. /\ get'["device"].doc = g.doc /\ get'["device"].send = g.send
        /\ get'["device"].status = g.status /\ g.pc = "update"
    BY <1>0, <1>4 DEF MarkInDeployment, GetRequest
  <2> QED
    BY <1>b, <2>1 DEF OfferSound
<1>5. CASE GetFails("device")
  <2>1. get'["device"] = IdleGet
    BY <1>0, <1>5 DEF GetFails
  <2> QED
    BY <2>1 DEF OfferSound, IdleGet, NoDocument, EmptyRow, TypeOK, WriterTypeOK
<1>6. ~GetReadDocFirst("device") /\ \A s \in SubdocIds : ~CorrectState("device", s)
  BY DEF GetReadDocFirst, CorrectState, DeliveryInv, RootBeforeDocument
<1> QED
  BY <1>1, <1>2, <1>3, <1>4, <1>5, <1>6 DEF GetStep

\* What the arrival of a response does: nothing to the tables and, unless it
\* is a 200, nothing to the device.
LEMMA ResponseFacts ==
    ASSUME TypeOK, NEW applied, DeviceReceives(applied)
    PROVE  /\ UNCHANGED <<rows, root>>
           /\ "device" \in GetHandlers
           /\ get["device"].pc = "reply" /\ applied \subseteq get["device"].send
           /\ get'["device"] = IdleGet
           /\ \/ /\ get["device"].status = "200"
                 /\ dev'.root = IF applied = get["device"].send THEN get["device"].cloudRoot
                                ELSE dev.root
                 /\ \A s \in SubdocIds :
                       dev'.vers[s] = IF s \in applied THEN get["device"].doc[s].version
                                      ELSE dev.vers[s]
              \/ get["device"].status # "200" /\ UNCHANGED dev
<1>1. get \in [GetHandlers -> GetRequest]
  BY DEF TypeOK, GetTypeOK
<1>2. /\ UNCHANGED <<rows, root>>
      /\ "device" \in GetHandlers
      /\ get["device"].pc = "reply" /\ applied \subseteq get["device"].send
      /\ get'["device"] = IdleGet
  BY <1>1 DEF DeviceReceives, storeVars
<1>3. CASE get["device"].status = "200"
  <2>1. ApplyDocument(get["device"].cloudRoot, VersionMap(get["device"].doc),
                      get["device"].send, applied)
    BY <1>3 DEF DeviceReceives
  <2> QED
    BY <1>2, <1>3, <2>1 DEF ApplyDocument, VersionMap, TypeOK, DeviceTypeOK, DeviceState
<1>4. CASE get["device"].status # "200"
  BY <1>2, <1>4 DEF DeviceReceives
<1> QED
  BY <1>3, <1>4

\* OfferInv is inductive beside DeliveryInv.
LEMMA OfferStep ==
    ASSUME TypeOK, TypeOK', Disciplined, DeliveryInv, OfferInv, [Next]_vars
    PROVE  OfferInv'
<1>0. nextVersion \in Nat \ {0}
  BY DEF TypeOK, WriterTypeOK
<1>1. CASE AwayFromDevice
  BY <1>0, <1>1, OfferKept DEF AwayFromDevice, Quiet
<1>2. ASSUME NEW w \in Writers, WriterStep(w) \/ WriterFails(w), UNCHANGED <<deviceVars, get>>
      PROVE  OfferInv'
  <2>1. nextVersion' >= nextVersion
    <3>1. ASSUME NEW s, NEW v \in 1..nextVersion, NEW state, NEW expiry,
                 PostSubDocument(w, s, v, state, expiry)
          PROVE  nextVersion' >= nextVersion
      BY <1>0, <3>1 DEF PostSubDocument, PostedVersion
    <3>2. CASE UNCHANGED nextVersion
      BY <1>0, <3>2
    <3> QED
      BY <1>2, <3>1, <3>2
      DEF WriterStep, WriterFails, PostReadDocument, DeleteSubDocumentRow, DeleteDocumentRows,
          DeleteReadDocument, WriteRootVersion, DropRootVersion
  <2> QED
    BY <1>2, <2>1, OfferKept DEF deviceVars
<1>3. ASSUME NEW applied, DeviceReceives(applied), UNCHANGED writerVars
      PROVE  OfferInv'
  <2>1. /\ "device" \in GetHandlers /\ get'["device"] = IdleGet /\ UNCHANGED nextVersion
        /\ \A s \in SubdocIds :
              \/ dev'.vers[s] = dev.vers[s]
              \/ dev'.vers[s] = get["device"].doc[s].version
    BY <1>3, ResponseFacts DEF writerVars
  <2>2. OfferSound(get["device"])'
    BY <1>0, <2>1 DEF OfferSound, IdleGet, NoDocument, EmptyRow
  <2> QED
    BY <2>1, <2>2 DEF OfferInv, OfferSound
<1> QED
  BY <1>1, <1>2, <1>3, StepKinds, RequestOffers

-----------------------------------------------------------------------------
(* The refinement.                                                         *)

\* The mapped variables by component, and their types.
LEMMA MappingFacts ==
    ASSUME TypeOK
    PROVE  /\ Wanted \in [Admitted -> Nat] /\ Held \in [Admitted -> Nat]
           /\ Offer \in [Admitted -> Nat] /\ InSync \in BOOLEAN
           /\ Admitted \subseteq SubdocIds
<1>1. Admitted \subseteq SubdocIds
  BY DEF Admitted
<1>2. \A s \in SubdocIds : rows[s].version \in Nat /\ dev.vers[s] \in Nat
  BY DEF TypeOK, StoreTypeOK, Row, DeviceTypeOK, DeviceState, Versions
<1>3. Underway => \A s \in SubdocIds : get["device"].doc[s].version \in Nat
  BY DEF Underway, TypeOK, GetTypeOK, GetRequest, Document, Row
<1>4. Wanted \in [Admitted -> Nat] /\ Held \in [Admitted -> Nat]
  BY <1>1, <1>2 DEF Wanted, Held
<1>5. Offer \in [Admitted -> Nat]
  BY <1>1, <1>3 DEF Offer, InOffer
<1> QED
  BY <1>1, <1>4, <1>5 DEF InSync, WritersIdle

\* A step after which the root versions agree leaves the device lacking nothing.
LEMMA InSyncCovers ==
    ASSUME TypeOK', Disciplined, DeliveryInv', InSync'
    PROVE  Atomic!Behind' = {}
<1>1. SUFFICES ASSUME NEW s \in Admitted, Current(s)'
               PROVE  dev'.vers[s] = rows'[s].version
  BY DEF Atomic!Behind, Wanted, Held, Admitted
<1>2. s \in Deliverable' /\ s \in SubdocIds
  <2>1. dev'.meta \in Metas
    BY DEF TypeOK, DeviceTypeOK, DeviceState
  <2>2. FilterOutputByBitmapEnabled => s \in Supports[dev'.meta]
    BY <1>1, <2>1 DEF Disciplined, Admitted
  <2> QED
    BY <1>1, <2>2 DEF Deliverable, Admitted, Current
<1>3. rows'[s].version \in VersionsIn(root'.version)
  BY <1>1, <1>2 DEF InSync, DeliveryInv, RootCovers
<1> QED
  BY <1>2, <1>3 DEF InSync, DeliveryInv, DeviceCovers

\* A step that makes nothing current, starts or ends no download and brings
\* no agreement of the root versions is at most a withdrawal.
LEMMA QuietIsWithdraw ==
    ASSUME TypeOK, TypeOK',
           \A s \in Admitted : Current(s)' => Current(s) /\ rows'[s].version = rows[s].version,
           Offer' = Offer, Held' = Held, InSync' => InSync
    PROVE  Atomic!Next
<1> DEFINE S == {s \in Admitted : ~Current(s)'}
<1>1. Wanted' = [s \in Admitted |-> IF s \in S THEN 0 ELSE Wanted[s]]
  BY DEF Wanted, Admitted
<1>2. InSync' \in {InSync, FALSE}
  <2>1. InSync \in BOOLEAN /\ InSync' \in BOOLEAN
    BY DEF InSync, WritersIdle
  <2> QED
    BY <2>1
<1>3. Atomic!Withdraw(S)
  BY <1>1, <1>2 DEF Atomic!Withdraw
<1> HIDE DEF S
<1>4. S \in SUBSET Admitted
  BY DEF S
<1> QED
  BY <1>3, <1>4 DEF Atomic!Next

\* Without a response of 200 under way there is no offer.
LEMMA NoOffer ==
    ASSUME InOffer = {}
    PROVE  Offer = Atomic!Nothing
BY DEF Offer, Atomic!Nothing

\* With one, the offer is what it sends.
LEMMA OfferedIsSent ==
    ASSUME OfferInv
    PROVE  Atomic!Offered = InOffer /\ InOffer \subseteq Admitted
<1>1. CASE Underway
  <2>1. get["device"].send \subseteq Ids(get["device"].doc) \cap Admitted
    BY <1>1 DEF Underway, OfferInv, OfferSound
  <2> QED
    BY <1>1, <2>1 DEF Atomic!Offered, Offer, InOffer, Ids
<1>2. CASE ~Underway
  BY <1>2 DEF Atomic!Offered, Offer, InOffer
<1> QED
  BY <1>1, <1>2

\* A response of 200 on its way is an offer of something.
LEMMA OfferSomething ==
    ASSUME OfferInv, InOffer # {}
    PROVE  Offer # Atomic!Nothing
<1>1. PICK s \in Admitted : s \in InOffer
  BY OfferedIsSent
<1>2. Offer[s] # 0
  BY <1>1, OfferedIsSent DEF Atomic!Offered
<1> QED
  BY <1>1, <1>2 DEF Atomic!Nothing

\* Steps away from the device.
LEMMA AwayIsWithdraw ==
    ASSUME TypeOK, TypeOK', AwayFromDevice
    PROVE  Atomic!Next
<1>1. Held' = Held
  BY DEF AwayFromDevice, Quiet, Held, Admitted
<1>2. Offer' = Offer
  BY DEF AwayFromDevice, Offer, InOffer, Underway, Admitted
<1>3. InSync' => InSync
  BY DEF AwayFromDevice, Quiet, InSync, WritersIdle
<1>4. \A s \in Admitted : Current(s)' => Current(s) /\ rows'[s].version = rows[s].version
  BY DEF AwayFromDevice, Quiet, RowsKept, Admitted
<1> QED
  BY <1>1, <1>2, <1>3, <1>4, QuietIsWithdraw

\* Steps of the northbound handlers: a POST of a sub-document the device may
\* have, an agreement of the root versions, or at most a withdrawal.
LEMMA WriterIsAtomic ==
    ASSUME TypeOK, TypeOK', Disciplined, DeliveryInv, DeliveryInv', OfferInv,
           NEW w \in Writers, WriterStep(w) \/ WriterFails(w), UNCHANGED <<deviceVars, get>>
    PROVE  Atomic!Next
<1>0. Held' = Held /\ Offer' = Offer
  BY DEF deviceVars, Held, Offer, InOffer, Underway, Admitted
<1>a. nb \in [Writers -> Writer] /\ \A v \in Writers : v = w
  BY DEF TypeOK, WriterTypeOK, Disciplined
<1>b. nextVersion \in Nat \ {0} /\ \A s \in SubdocIds : rows[s].version \in Nat
  BY DEF TypeOK, WriterTypeOK, StoreTypeOK, Row
<1>1. ASSUME NEW s \in SubdocIds, NEW v \in 1..nextVersion,
             NEW state \in PostStates, NEW expiry \in PostExpiries,
             PostSubDocument(w, s, v, state, expiry)
      PROVE  Atomic!Next
  <2>1. v = nextVersion /\ v \in 1..MaxVersion /\ v # 0
    BY <1>1, <1>b, WriterAssumption DEF PostSubDocument, PostedVersion, Disciplined
  <2>2. ~InSync'
    <3>1. nb'[w].pc = "read"
      BY <1>1, <1>a DEF PostSubDocument, IdleWriter
    <3> QED
      BY <3>1 DEF InSync, WritersIdle
  <2>3. \A t \in SubdocIds \ {s} : Current(t)' = Current(t) /\ rows'[t].version = rows[t].version
    BY <1>1 DEF PostSubDocument, SetSubDocument, Current, InDocument, TypeOK, StoreTypeOK
  <2>4. CASE s \notin Admitted \/ ~Current(s)'
    <3>1. \A t \in Admitted : Current(t)' => Current(t) /\ rows'[t].version = rows[t].version
      BY <2>3, <2>4 DEF Admitted
    <3> QED
      BY <1>0, <2>2, <3>1, QuietIsWithdraw
  <2>5. CASE s \in Admitted /\ Current(s)'
    <3>1. rows'[s].version = v
      BY <1>1, <2>1 DEF PostSubDocument, SetSubDocument, NilVersion, TypeOK, StoreTypeOK, Row
    <3>2. Wanted' = [Wanted EXCEPT ![s] = v]
      BY <2>3, <2>5, <3>1 DEF Wanted, Admitted
    <3>3. v > Wanted[s] /\ v > Held[s] /\ v > Offer[s]
      <4>1. rows[s].version < v /\ dev.vers[s] < v
        BY <2>1 DEF DeliveryInv, VersionsPosted, OfferInv
      <4>2. Underway => get["device"].doc[s].version < v
        BY <2>1 DEF OfferInv, OfferSound, Underway
      <4>3. /\ Wanted[s] = rows[s].version \/ Wanted[s] = 0
            /\ Held[s] = dev.vers[s]
            /\ Offer[s] = 0 \/ (Underway /\ Offer[s] = get["device"].doc[s].version)
        <5>1. Wanted[s] = rows[s].version \/ Wanted[s] = 0
          BY <2>5 DEF Wanted
        <5>2. Held[s] = dev.vers[s]
          BY <2>5 DEF Held
        <5>3. Offer[s] = 0 \/ (Underway /\ Offer[s] = get["device"].doc[s].version)
          BY <2>5 DEF Offer, InOffer
        <5> QED
          BY <5>1, <5>2, <5>3
      <4>4. Wanted[s] \in Nat /\ Held[s] \in Nat /\ Offer[s] \in Nat
        BY <2>5, MappingFacts
      <4> QED
        BY <1>b, <2>1, <4>1, <4>2, <4>3, <4>4
    <3>4. Atomic!Post(s, v)
      BY <1>0, <2>2, <3>2, <3>3 DEF Atomic!Post
    <3> QED
      BY <2>1, <2>5, <3>4 DEF Atomic!Next
  <2> QED
    BY <2>4, <2>5
<1>2. ASSUME WriteRootVersion(w) \/ DropRootVersion(w)
      PROVE  Atomic!Next
  <2>1. UNCHANGED rows
    BY <1>2 DEF WriteRootVersion, DropRootVersion
  <2>2. CASE InSync'
    <3>1. Wanted' = Wanted
      BY <2>1 DEF Wanted, Current, InDocument, Admitted
    <3>2. Atomic!Behind' = {}
      BY <2>2, InSyncCovers
    <3>3. Atomic!Behind = {}
      BY <1>0, <3>1, <3>2 DEF Atomic!Behind
    <3>4. InSync' = TRUE
      BY <2>2 DEF InSync, WritersIdle
    <3>5. Atomic!Settle
      BY <1>0, <3>1, <3>3, <3>4 DEF Atomic!Settle
    <3> QED
      BY <3>5 DEF Atomic!Next
  <2>3. CASE ~InSync'
    <3>1. \A s \in Admitted : Current(s)' => Current(s) /\ rows'[s].version = rows[s].version
      BY <2>1 DEF Current, InDocument
    <3> QED
      BY <1>0, <2>3, <3>1, QuietIsWithdraw
  <2> QED
    BY <2>2, <2>3
<1>3. ASSUME \/ PostReadDocument(w) \/ DeleteReadDocument(w) \/ DeleteDocumentRows(w)
             \/ (\E s \in SubdocIds : DeleteSubDocumentRow(w, s)) \/ WriterFails(w)
      PROVE  Atomic!Next
  <2>1. ~InSync'
    <3>1. CASE WriterFails(w)
      BY <3>1 DEF WriterFails, InSync
    <3>2. CASE ~WriterFails(w)
      <4>1. nb'[w].pc # "idle"
        <5>1. CASE PostReadDocument(w)
          BY <1>a, <5>1 DEF PostReadDocument, Writer
        <5>3. CASE DeleteReadDocument(w)
          BY <1>a, <5>3 DEF DeleteReadDocument, Writer
        <5>2. CASE DeleteDocumentRows(w) \/ \E s \in SubdocIds : DeleteSubDocumentRow(w, s)
          BY <1>a, <5>2 DEF DeleteDocumentRows, DeleteSubDocumentRow, IdleWriter
        <5> QED
          BY <1>3, <3>2, <5>1, <5>2, <5>3
      <4> QED
        BY <4>1 DEF InSync, WritersIdle
    <3> QED
      BY <3>1, <3>2
  <2>2. \A s \in SubdocIds : rows'[s] = rows[s] \/ rows'[s] = EmptyRow
    BY <1>3 DEF PostReadDocument, DeleteReadDocument, DeleteDocumentRows, DeleteDocument,
                DeleteSubDocumentRow, DeleteSubDocument, NoDocument, WriterFails, storeVars,
                TypeOK, StoreTypeOK
  <2>3. \A s \in Admitted : Current(s)' => Current(s) /\ rows'[s].version = rows[s].version
    BY <2>2 DEF Current, InDocument, EmptyRow, Admitted
  <2> QED
    BY <1>0, <2>1, <2>3, QuietIsWithdraw
<1> QED
  BY <1>1, <1>2, <1>3 DEF WriterStep

\* GetReadDocument takes the snapshot a download brings.
LEMMA ReadDocumentIsOffer ==
    ASSUME TypeOK, TypeOK', Disciplined, DeliveryInv, OfferInv', "device" \in GetHandlers,
           GetReadDocument("device"), UNCHANGED writerVars
    PROVE  Atomic!Next
<1> DEFINE g == get["device"]
           n == [g EXCEPT !.hasDoc = TRUE, !.doc = GetDocument(FALSE)]
<1>0. get \in [GetHandlers -> GetRequest]
  BY DEF TypeOK, GetTypeOK
<1>1. get'["device"] = Decide("device", n)
  BY <1>0 DEF GetReadDocument, AfterDocument, Disciplined
<1>2. /\ n \in GetRequest /\ n.doc = GetDocument(FALSE)
      /\ n.hdrVers = g.hdrVers /\ n.meta = g.meta
      /\ CompareCovers(g) => CompareCovers(n)
  BY <1>0, GetDocumentType DEF GetRequest, TypeOK, CompareCovers
<1>3. g.hdrVers = dev.vers /\ g.meta \in Metas /\ CompareCovers(g)
  BY DEF GetReadDocument, DeliveryInv, DownloadCovers
<1>4. UNCHANGED <<rows, root, dev, nb, nextVersion, rootStale>>
  BY DEF GetReadDocument, storeVars, deviceVars, writerVars
<1>5. Wanted' = Wanted /\ Held' = Held /\ InSync' = InSync
  BY <1>4 DEF Wanted, Held, InSync, WritersIdle, Current, InDocument, Admitted
<1>6. InOffer = {}
  BY DEF GetReadDocument, InOffer, Underway
<1>7. InOffer' = get'["device"].send /\ Underway'
  <2>1. get'["device"].pc \in {"update", "reply"}
    BY <1>1, <1>2, DecideFacts
  <2> QED
    BY <2>1 DEF InOffer, Underway
<1> HIDE DEF n
<1>8. CASE InOffer' = {}
  <2>1. Offer' = Offer
    BY <1>6, <1>8 DEF Offer, Admitted
  <2>2. \A s \in Admitted : Current(s)' => Current(s) /\ rows'[s].version = rows[s].version
    BY <1>4 DEF Current, InDocument
  <2> QED
    BY <1>5, <2>1, <2>2, QuietIsWithdraw
<1>9. CASE InOffer' # {}
  <2> DEFINE S == get'["device"].send
  <2>1. S = Sendable(n) /\ Status(n) = "200" /\ get'["device"].doc = GetDocument(FALSE)
    <3>1. S # {} /\ S = Decide("device", n).send
      BY <1>1, <1>7, <1>9
    <3>2. Status(n) = "200"
      BY <1>2, <3>1, DecideFacts, DecideOffer
    <3>3. Decide("device", n).send = Sendable(n) /\ Decide("device", n).doc = n.doc
      BY <1>2, <3>2, DecideFacts
    <3> QED
      BY <1>1, <1>2, <3>1, <3>2, <3>3
  <2>2. S \subseteq Ids(GetDocument(FALSE)) \cap Admitted
    BY <1>1, <1>2, DecideOffer
  <2>3. \A s \in S : Current(s) /\ GetDocument(FALSE)[s].version = rows[s].version
    BY <2>2 DEF Ids, GetDocument, Current, InDocument, EmptyRow
  <2>4. n.cmp # "equals"
    BY <2>1 DEF Status
  <2>5. Atomic!Behind \subseteq S
    <3>1. SUFFICES ASSUME NEW s \in Admitted, Current(s), s \notin Sendable(n)
                   PROVE  dev.vers[s] = rows[s].version
      BY <2>1 DEF Atomic!Behind, Wanted, Held
    <3>2. s \in Deliverable
      BY <3>1, AdmittedDeliverable
    <3> QED
      BY <1>2, <1>3, <2>4, <3>1, <3>2, SendsAllNew
  <2>6. \A s \in S : Wanted[s] # 0 /\ Wanted[s] = rows[s].version
    BY <2>2, <2>3 DEF Wanted, Current, InDocument
  <2>7. Offer' = [s \in Admitted |-> IF s \in S THEN Wanted[s] ELSE 0]
    BY <1>7, <2>1, <2>3, <2>6 DEF Offer, Admitted
  <2>8. Offer = Atomic!Nothing
    BY <1>6, NoOffer
  <2>9. S # {} /\ S \in SUBSET Admitted
    BY <1>7, <1>9, <2>2
  <2> HIDE DEF S
  <2>10. Atomic!Offer(S)
    BY <1>5, <2>5, <2>6, <2>7, <2>8, <2>9 DEF Atomic!Offer
  <2> QED
    BY <2>9, <2>10 DEF Atomic!Next
<1> QED
  BY <1>8, <1>9

\* The other steps of the device's request: none starts a download, and a
\* failure drops the one under way.
LEMMA RequestIsAtomic ==
    ASSUME TypeOK, TypeOK', Disciplined, DeliveryInv, DeliveryInv', OfferInv, OfferInv',
           "device" \in GetHandlers,
           GetStep("device") \/ GetFails("device") \/ DeviceGet(FALSE), UNCHANGED writerVars
    PROVE  Atomic!Next
<1> DEFINE g == get["device"]
<1>0. get \in [GetHandlers -> GetRequest]
  BY DEF TypeOK, GetTypeOK
<1>a. Quiet
  <2>1. CASE DeviceGet(FALSE)
    BY <2>1, SameRowsKeepRows DEF DeviceGet, Quiet, writerVars, storeVars
  <2>2. CASE GetStep("device") \/ GetFails("device")
    BY <2>2, RequestQuiet
  <2> QED
    BY <2>1, <2>2
<1>b. Held' = Held /\ InSync' = InSync
  BY <1>a DEF Quiet, Held, Admitted, InSync, WritersIdle
<1>c. \A s \in Admitted : Current(s)' => Current(s) /\ rows'[s].version = rows[s].version
  BY <1>a DEF Quiet, RowsKept, Admitted
<1>d. Offer' = Offer => Atomic!Next
  BY <1>b, <1>c, QuietIsWithdraw
<1>e. InOffer = {} /\ InOffer' = {} => Offer' = Offer
  BY DEF Offer, Admitted
<1>1. CASE DeviceGet(FALSE)
  <2>1. g.pc = "idle" /\ get'["device"].pc = "root"
    BY <1>0, <1>1 DEF DeviceGet, GetRequest
  <2> QED
    BY <1>d, <1>e, <2>1 DEF InOffer, Underway
<1>2. CASE GetReadRoot("device") \/ GetStoreMeta("device")
  <2>1. g.pc \in {"root", "create", "meta"}
    BY <1>2 DEF GetReadRoot, GetStoreMeta
  <2>2. PICK n \in GetRequest :
              /\ n.doc = g.doc /\ ~n.hasDoc
              /\ \/ get'["device"] = AfterRoot("device", n)
                 \/ \E pc \in {"create", "meta"} : get'["device"] = [n EXCEPT !.pc = pc]
    BY <1>2, RootRequest
  <2>3. ~Underway' \/ get'["device"].status # "200"
    BY <2>2, AfterRootFacts DEF Underway, GetRequest
  <2> QED
    BY <1>d, <1>e, <2>1, <2>3 DEF InOffer, Underway, OfferInv, OfferSound
<1>3. CASE GetReadDocument("device")
  BY <1>3, ReadDocumentIsOffer
<1>4. ASSUME NEW s \in SubdocIds, MarkInDeployment("device", s)
      PROVE  Atomic!Next
  <2>1. /\ g.pc = "update" /\ get'["device"].pc \in {"update", "reply"}
        /\ get'["device"].send = g.send /\ get'["device"].doc = g.doc
    BY <1>0, <1>4 DEF MarkInDeployment, GetRequest
  <2>2. InOffer' = InOffer
    BY <2>1 DEF InOffer, Underway
  <2> QED
    BY <1>d, <2>1, <2>2 DEF Offer, Admitted
<1>5. CASE GetFails("device")
  <2>1. InOffer' = {}
    BY <1>0, <1>5 DEF GetFails, IdleGet, InOffer, Underway
  <2>2. CASE InOffer = {}
    BY <1>d, <1>e, <2>1, <2>2
  <2>3. CASE InOffer # {}
    <3>1. Offer # Atomic!Nothing /\ Atomic!Offered # {}
      BY <2>3, OfferSomething, OfferedIsSent
    <3>2. Offer' = Atomic!Nothing
      BY <2>1 DEF Offer, Atomic!Nothing, Admitted
    <3>3. Wanted' = Wanted
      BY <1>5 DEF GetFails, storeVars, Wanted, Current, InDocument, Admitted
    <3>4. Held' = [s \in Admitted |-> IF s \in {} THEN Offer[s] ELSE Held[s]]
      BY <1>b, MappingFacts
    <3>5. InSync' \in BOOLEAN /\ (InSync' => Atomic!Behind' = {})
      BY InSyncCovers DEF InSync, WritersIdle
    <3>6. Atomic!Deliver({})
      BY <1>b, <3>1, <3>2, <3>3, <3>4, <3>5 DEF Atomic!Deliver
    <3> QED
      BY <3>6 DEF Atomic!Next
  <2> QED
    BY <2>2, <2>3
<1>6. ~GetReadDocFirst("device") /\ \A s \in SubdocIds : ~CorrectState("device", s)
  BY DEF GetReadDocFirst, CorrectState, DeliveryInv, RootBeforeDocument
<1> QED
  BY <1>1, <1>2, <1>3, <1>4, <1>5, <1>6 DEF GetStep

\* The arrival of a response delivers what is applied of it.
LEMMA ResponseIsDeliver ==
    ASSUME TypeOK, TypeOK', Disciplined, DeliveryInv', OfferInv, NEW applied,
           DeviceReceives(applied), UNCHANGED writerVars
    PROVE  Atomic!Next
<1> DEFINE g == get["device"]
<1>0. /\ UNCHANGED <<rows, root, nb, nextVersion, rootStale>>
      /\ "device" \in GetHandlers
      /\ g.pc = "reply" /\ applied \subseteq g.send
      /\ get'["device"] = IdleGet
  BY ResponseFacts DEF writerVars
<1>a. Wanted' = Wanted
  BY <1>0 DEF Wanted, Current, InDocument, Admitted
<1>b. InOffer = g.send /\ InOffer' = {}
  BY <1>0 DEF InOffer, Underway, IdleGet
<1>c. Offer' = Atomic!Nothing
  BY <1>b DEF Offer, Atomic!Nothing, Admitted
<1>d. g.status = "200" <=> g.send # {}
  BY <1>0 DEF OfferInv, OfferSound
<1>1. CASE g.status # "200"
  <2>1. UNCHANGED dev
    BY <1>1, ResponseFacts
  <2>2. Held' = Held /\ InSync' = InSync
    BY <1>0, <2>1 DEF Held, InSync, WritersIdle, Admitted
  <2>3. Offer' = Offer
    BY <1>1, <1>b, <1>c, <1>d, NoOffer
  <2>4. \A s \in Admitted : Current(s)' => Current(s) /\ rows'[s].version = rows[s].version
    BY <1>0 DEF Current, InDocument
  <2> QED
    BY <2>2, <2>3, <2>4, QuietIsWithdraw
<1>2. CASE g.status = "200"
  <2>1. /\ dev'.root = IF applied = g.send THEN g.cloudRoot ELSE dev.root
        /\ \A s \in SubdocIds :
              dev'.vers[s] = IF s \in applied THEN g.doc[s].version ELSE dev.vers[s]
    BY <1>2, ResponseFacts
  <2>2. Offer # Atomic!Nothing /\ Atomic!Offered = g.send
    BY <1>2, <1>b, <1>d, OfferSomething, OfferedIsSent
  <2>3. Held' = [s \in Admitted |-> IF s \in applied THEN Offer[s] ELSE Held[s]]
    <3>1. \A s \in Admitted : s \in applied => Offer[s] = g.doc[s].version
      BY <1>0, <1>b DEF Offer
    <3> QED
      BY <2>1, <3>1 DEF Held, Admitted
  <2>4. applied # g.send => InSync' = InSync
    BY <1>0, <2>1 DEF InSync, WritersIdle
  <2>5. InSync' \in BOOLEAN /\ (InSync' => Atomic!Behind' = {})
    BY InSyncCovers DEF InSync, WritersIdle
  <2>6. Atomic!Deliver(applied)
    BY <1>a, <1>c, <2>2, <2>3, <2>4, <2>5 DEF Atomic!Deliver
  <2> QED
    BY <1>0, <2>2, <2>6 DEF Atomic!Next
<1> QED
  BY <1>1, <1>2

\* Every step of the system is a step of the atomic one.
LEMMA StepIsAtomic ==
    ASSUME TypeOK, TypeOK', Disciplined, DeliveryInv, DeliveryInv', OfferInv, OfferInv',
           [Next]_vars
    PROVE  Atomic!Next
<1>1. ASSUME NEW w \in Writers, WriterStep(w) \/ WriterFails(w), UNCHANGED <<deviceVars, get>>
      PROVE  Atomic!Next
  BY <1>1, WriterIsAtomic
<1>2. ASSUME NEW applied, DeviceReceives(applied), UNCHANGED writerVars
      PROVE  Atomic!Next
  BY <1>2, ResponseIsDeliver
<1> QED
  BY <1>1, <1>2, StepKinds, AwayIsWithdraw, RequestIsAtomic

\* Atomic steps never take the device past what is under way or wanted.
LEMMA AheadStep ==
    ASSUME TypeOK, TypeOK', Atomic!NeverAhead, Atomic!Next
    PROVE  Atomic!NeverAhead'
<1>1. /\ Wanted \in [Admitted -> Nat] /\ Held \in [Admitted -> Nat]
      /\ Offer \in [Admitted -> Nat]
  BY MappingFacts
<1>2. ASSUME NEW s \in Admitted, NEW v \in 1..MaxVersion, Atomic!Post(s, v)
      PROVE  Atomic!NeverAhead'
  BY <1>1, <1>2, WriterAssumption DEF Atomic!Post, Atomic!NeverAhead
<1>3. ASSUME NEW S \in SUBSET Admitted, Atomic!Withdraw(S)
      PROVE  Atomic!NeverAhead'
  BY <1>1, <1>3 DEF Atomic!Withdraw, Atomic!NeverAhead
<1>4. ASSUME NEW S \in SUBSET Admitted, Atomic!Offer(S)
      PROVE  Atomic!NeverAhead'
  BY <1>1, <1>4 DEF Atomic!Offer, Atomic!NeverAhead
<1>5. ASSUME NEW S \in SUBSET Atomic!Offered, Atomic!Deliver(S)
      PROVE  Atomic!NeverAhead'
  BY <1>1, <1>5 DEF Atomic!Deliver, Atomic!NeverAhead, Atomic!Offered, Atomic!Nothing
<1>6. CASE Atomic!Settle
  BY <1>6 DEF Atomic!Settle, Atomic!NeverAhead
<1> QED
  BY <1>2, <1>3, <1>4, <1>5, <1>6 DEF Atomic!Next

\* What the device applies is no older than what it has.
LEMMA NoRollback ==
    ASSUME TypeOK, TypeOK', Disciplined, DeliveryInv, OfferInv, Atomic!NeverAhead,
           [Next]_vars
    PROVE  \A s \in SubdocIds : dev'.vers[s] >= dev.vers[s]
<1>0. \A s \in SubdocIds : dev.vers[s] \in Nat
  BY DEF TypeOK, DeviceTypeOK, DeviceState, Versions
<1>1. ASSUME NEW applied, DeviceReceives(applied), NEW s \in SubdocIds
      PROVE  dev'.vers[s] >= dev.vers[s]
  <2>1. CASE dev'.vers[s] = dev.vers[s]
    BY <1>0, <2>1
  <2>2. CASE dev'.vers[s] # dev.vers[s]
    <3>1. /\ "device" \in GetHandlers /\ get["device"].pc = "reply"
          /\ s \in get["device"].send
          /\ dev'.vers[s] = get["device"].doc[s].version
      BY <1>1, <2>2, ResponseFacts
    <3>2. s \in InOffer /\ s \in Admitted
      BY <3>1, OfferedIsSent DEF InOffer, Underway
    <3>3. Offer[s] # 0 /\ Offer[s] = dev'.vers[s] /\ Held[s] = dev.vers[s]
      BY <3>1, <3>2, OfferedIsSent DEF Offer, Held, Atomic!Offered
    <3> QED
      BY <3>2, <3>3 DEF Atomic!NeverAhead
  <2> QED
    BY <2>1, <2>2
<1>2. CASE dev'.vers = dev.vers
  BY <1>0, <1>2
<1>3. ASSUME "device" \in GetHandlers,
             GetStep("device") \/ GetFails("device") \/ DeviceGet(FALSE), UNCHANGED writerVars
      PROVE  dev'.vers = dev.vers
  BY <1>3, RequestQuiet DEF DeviceGet, Quiet
<1> QED
  BY <1>1, <1>2, <1>3, StepKinds DEF AwayFromDevice, Quiet, deviceVars

\* Initially nothing is posted, under way or on the device.
LEMMA AtomicInit == ASSUME Init PROVE OfferInv /\ Atomic!Init /\ Atomic!NeverAhead
<1>1. /\ \A s \in SubdocIds : rows[s].version = 0 /\ dev.vers[s] = 0
      /\ dev.root = NoRoot /\ nextVersion = 1
      /\ "device" \in GetHandlers => get["device"] = IdleGet
  BY DEF Init, StoreInit, NoDocument, EmptyRow, DeviceInit, NoVersions, WriterInit, GetInit
<1>2. OfferInv
  BY <1>1 DEF OfferInv, OfferSound, IdleGet, NoDocument, EmptyRow
<1>3. /\ \A s \in Admitted : Wanted[s] = 0 /\ Held[s] = 0 /\ Offer[s] = 0
      /\ Wanted = Atomic!Nothing /\ Held = Atomic!Nothing /\ Offer = Atomic!Nothing
  BY <1>1 DEF Wanted, Held, Offer, InOffer, Underway, IdleGet, Admitted, Current, InDocument,
              Atomic!Nothing
<1>4. InSync = FALSE
  BY <1>1 DEF InSync
<1>5. Atomic!Init
  BY <1>3, <1>4 DEF Atomic!Init
<1>6. Atomic!NeverAhead
  BY <1>3 DEF Atomic!NeverAhead
<1> QED
  BY <1>2, <1>5, <1>6

\* OfferInv is an invariant: what BuildWebconfigResponse (http/multipart.go)
\* sends is part of the document it read, filtered by block list and bitmap,
\* and it answers 200 exactly when something is left to send.
THEOREM OfferInvariant == ASSUME Disciplined PROVE Spec => []OfferInv
<1>1. Init => OfferInv
  BY AtomicInit
<1>2. TypeOK /\ TypeOK' /\ DeliveryInv /\ OfferInv /\ [Next]_vars => OfferInv'
  BY OfferStep
<1> QED
  BY <1>1, <1>2, TypeCorrect, DeliveryInvariant, PTL DEF Spec

\* The interleaved calls of the handlers on the two tables implement the atomic
\* configuration of AtomicDelivery: a POST or DELETE takes effect with its row
\* write, a download with its GetDocument, and the root versions of cloud and
\* device agree only when the device lacks nothing.
THEOREM DeliveryImplements == ASSUME Disciplined PROVE Spec => ImplementsAtomicDelivery
<1>1. Init => Atomic!Init
  BY AtomicInit
<1>2. TypeOK /\ TypeOK' /\ DeliveryInv /\ DeliveryInv' /\ OfferInv /\ OfferInv' /\ [Next]_vars
         => [Atomic!Next]_(Atomic!deliveryVars)
  BY StepIsAtomic
<1> QED
  BY <1>1, <1>2, TypeCorrect, DeliveryInvariant, OfferInvariant, PTL
  DEF Spec, ImplementsAtomicDelivery, Atomic!Spec

\* A device never goes back to an older version of a sub-document, however
\* late the response that DeviceReceives applies and whatever was posted,
\* deleted or downloaded since its document was read.
THEOREM NeverOlder == ASSUME Disciplined PROVE Spec => DeviceNeverRollsBack
<1>1. Init => Atomic!NeverAhead
  BY AtomicInit
<1>2. TypeOK /\ TypeOK' /\ DeliveryInv /\ DeliveryInv' /\ OfferInv /\ OfferInv'
         /\ Atomic!NeverAhead /\ [Next]_vars => Atomic!NeverAhead'
  BY StepIsAtomic, AheadStep
<1>3. Spec => []Atomic!NeverAhead
  BY <1>1, <1>2, TypeCorrect, DeliveryInvariant, OfferInvariant, PTL DEF Spec
<1>4. TypeOK /\ TypeOK' /\ DeliveryInv /\ OfferInv /\ Atomic!NeverAhead /\ [Next]_vars
         => [\A s \in SubdocIds : dev'.vers[s] >= dev.vers[s]]_vars
  BY NoRollback
<1> QED
  BY <1>3, <1>4, TypeCorrect, DeliveryInvariant, OfferInvariant, PTL
  DEF Spec, DeviceNeverRollsBack
=============================================================================
