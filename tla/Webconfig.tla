------------------------------ MODULE Webconfig ------------------------------
(***************************************************************************)
(* The server as one device sees it: the northbound handlers, the GET      *)
(* handler, the report consumers and the poke handlers run concurrently on *)
(* the same two tables, and none of them holds a lock or a transaction     *)
(* across two database calls.                                              *)
(***************************************************************************)
EXTENDS DocumentHandler, MultipartHandler, StateReport, PokeHandler

CONSTANT MaxDisturbances   \* bound on failures, losses and interventions

ASSUME DisturbanceAssumption == MaxDisturbances \in Nat

VARIABLE disturbances

vars == <<storeVars, writerVars, deviceVars, get, rep, pokeVars, disturbances>>

TypeOK == /\ StoreTypeOK
          /\ WriterTypeOK
          /\ DeviceTypeOK
          /\ GetTypeOK
          /\ ReportTypeOK
          /\ PokeTypeOK
          /\ disturbances \in Nat

Init == /\ StoreInit
        /\ WriterInit
        /\ DeviceInit
        /\ GetInit
        /\ ReportInit
        /\ PokeInit
        /\ disturbances = 0

-----------------------------------------------------------------------------
Write(w) ==
    /\ WriterStep(w)
    /\ UNCHANGED <<deviceVars, get, rep, pokeVars, disturbances>>

Serve(h) ==
    /\ GetStep(h)
    /\ UNCHANGED <<writerVars, rep, pokeVars, disturbances>>

\* a request of the device, with headers that may not pair up, or of mget
Request(h, mismatch) ==
    /\ IF h = "device" THEN DeviceGet(mismatch) ELSE \E m \in Metas : MgetGet(m)
    /\ UNCHANGED <<writerVars, rep, pokeVars, disturbances>>

\* the response arrives, and the device applies all of it
Response(h) ==
    /\ IF h = "device" THEN DeviceReceives(get[h].send) ELSE MgetReceives
    /\ UNCHANGED <<writerVars, rep, pokeVars, disturbances>>

Report(c) ==
    /\ ReportStep(c)
    /\ UNCHANGED <<writerVars, get, pokeVars, disturbances>>

PokeDevice(p) ==
    /\ PokeStep(p)
    /\ UNCHANGED <<writerVars, get, rep, disturbances>>

\* the device applies all of a pushed document
Push ==
    /\ \E m \in push : PushArrives(m, Names(m.vers))
    /\ UNCHANGED <<writerVars, get, rep, disturbances>>

Tick ==
    /\ (\E s \in SubdocIds : Expire(s)) \/ LockRunsOut
    /\ UNCHANGED <<writerVars, deviceVars, get, rep, pokeVars, disturbances>>

\* What may go wrong, or is done from outside, a bounded number of times
Disturb ==
    /\ disturbances < MaxDisturbances
    /\ disturbances' = disturbances + 1
    /\ \/ /\ \E w \in Writers : WriterFails(w)
          /\ UNCHANGED <<deviceVars, get, rep, pokeVars>>
       \/ /\ \E h \in GetHandlers : GetFails(h)
          /\ UNCHANGED <<writerVars, rep, pokeVars>>
       \/ /\ "device" \in GetHandlers
          /\ \E applied \in SUBSET get["device"].send :
                /\ applied # get["device"].send
                /\ DeviceReceives(applied)
          /\ UNCHANGED <<writerVars, rep, pokeVars>>
       \/ /\ \E c \in Consumers : ReportFails(c) \/ ReportCrashes(c)
          /\ UNCHANGED <<writerVars, get, pokeVars>>
       \/ /\ \E p \in Pokers : PokeFails(p)
          /\ UNCHANGED <<writerVars, get, rep>>
       \/ /\ \E m \in Metas : Upgrade(m)
          /\ UNCHANGED <<storeVars, writerVars, get, rep, pokeVars>>
       \/ /\ LockRootDocument
          /\ UNCHANGED <<writerVars, deviceVars, get, rep, pokeVars>>

Next == \/ \E w \in Writers : Write(w)
        \/ \E h \in GetHandlers : Serve(h) \/ Response(h)
        \/ \E h \in GetHandlers, mismatch \in BOOLEAN : Request(h, mismatch)
        \/ \E c \in Consumers : Report(c)
        \/ \E p \in Pokers : PokeDevice(p)
        \/ Push
        \/ Tick
        \/ Disturb

Spec == Init /\ [][Next]_vars

(* Goroutines and the device keep going.  Nobody has to POST, DELETE, poke *)
(* or call mget, but a handler that has started goes on.                   *)
Fairness ==
    /\ \A w \in Writers : WF_vars(nb[w].pc # "idle" /\ Write(w))
    /\ \A h \in GetHandlers : WF_vars(Serve(h)) /\ WF_vars(Response(h))
    /\ WF_vars(Request("device", FALSE))
    /\ \A c \in Consumers : WF_vars(Report(c))
    /\ \A p \in Pokers : WF_vars(pk[p].pc # "idle" /\ PokeDevice(p))
    /\ WF_vars(Push)
    /\ WF_vars(Tick)

FairSpec == Spec /\ Fairness

-----------------------------------------------------------------------------
(* Safety                                                                  *)

\* the subdocuments a GET of the device is meant to bring up to date
Deliverable ==
    {s \in SubdocIds \ Blocked :
        /\ InDocument(rows[s], FALSE)
        /\ FilterOutputByBitmapEnabled => s \in Supports[dev.meta]}

DeviceUpToDate == \A s \in Deliverable : dev.vers[s] = rows[s].version

(* A device that presents the root version the cloud has is answered 304   *)
(* without a look at its subdocuments (RootDocument.Compare).  So once     *)
(* every write that was accepted has finished and no download is under way,*)
(* such a device must have all of them: otherwise an update is missed      *)
(* until the next write.                                                   *)
NoMissedUpdate ==
    (/\ WritersIdle
     /\ ~rootStale
     /\ \A h \in GetHandlers : get[h].pc = "idle"
     /\ push = {}
     /\ dev.root # NoRoot
     /\ dev.root = root.version
     /\ dev.meta = root.meta) => DeviceUpToDate

(* No interleaving of the five writers of the state column (POST, GET,     *)
(* reports, state correction, poke) leaves a subdocument Deployed with the *)
(* error of an earlier failure beside it.                                  *)
DeployedHasNoError ==
    \A s \in SubdocIds : rows[s].state = Deployed => rows[s].err = "none"

(* Only the northbound handlers change the configuration: whoever updates  *)
(* the state of a row (a download, a report, a poke) does it from what it  *)
(* read some steps ago and must not bring back the version it read.        *)
StateUpdatesKeepVersions ==
    [][\A s \in SubdocIds : rows'[s].version # rows[s].version => nb' # nb]_vars

(* "mget fakes no meta change so that meta are not updated": a request of  *)
(* mget never changes the metadata stored for the device.                  *)
MgetKeepsMeta ==
    [][\A h \in GetHandlers :
          (h = "mget" /\ get'[h] # get[h] /\ root.meta # NoMeta)
             => root'.meta = root.meta]_vars

(* "Webconfig uses the RDK webpa service to prompt the webconfig client on *)
(* the devices to download the prepared configurations": a poke that finds *)
(* nothing to do finds a device that is up to date.                        *)
PokePromptsWhenBehind ==
    [][\A p \in Pokers :
          (pokes' # pokes /\ pk'[p].answer = "204") => DeviceUpToDate]_vars

(* RebuildDeviceVersionMap guesses from bare versions which subdocuments   *)
(* the device has; with versions that are not shared between subdocuments  *)
(* the guess never credits the device with a version it does not have.     *)
HeadersNeverOverstate ==
    "device" \in GetHandlers =>
        \A s \in SubdocIds : get["device"].hdrVers[s] \in {0, dev.vers[s]}

-----------------------------------------------------------------------------
(* Why NoMissedUpdate holds: the inductive invariant.                      *)

\* what the guarantee asks of the environment
Disciplined ==
    /\ \A v, w \in Writers : v = w             \* one northbound call at a time
    /\ ~ReuseVersions                          \* every POST has a new version
    /\ ~MismatchedHeaders
    /\ ~StateCorrectionEnabled
    /\ ~UpstreamEnabled
    /\ PrecookSubdocs = {}                     \* no report renews an expiry
    /\ "mqtt" \notin PokeRoutes                \* pokes prompt, and push nothing
    /\ FilterOutputByBitmapEnabled =>
          \A m, n \in Metas : Supports[m] = Supports[n]

\* the versions that went into a root version
VersionsIn(r) == {p[2] : p \in r}

Current(s) == InDocument(rows[s], FALSE)

\* nothing in the system knows a version not yet posted
VersionsPosted ==
    /\ \A s \in SubdocIds : rows[s].version < nextVersion
    /\ \A v \in VersionsIn(root.version) : v < nextVersion
    /\ \A v \in VersionsIn(dev.root) : v < nextVersion
    /\ \A w \in Writers : /\ nb[w].version < nextVersion
                          /\ \A v \in VersionsIn(nb[w].newRoot) : v < nextVersion
    /\ \A h \in GetHandlers : \A v \in VersionsIn(get[h].cloudRoot) : v < nextVersion

\* the row a POST wrote is still there when the document is read back, and a
\* writer about to store a root version has seen every current row
WriterCovers ==
    \A w \in Writers :
        /\ nb[w].pc = "read" /\ nb[w].op = "post" =>
              /\ nb[w].subdoc \in SubdocIds
              /\ rows[nb[w].subdoc].version = nb[w].version
        /\ nb[w].pc = "root" =>
              \A s \in SubdocIds : Current(s) => rows[s].version \in VersionsIn(nb[w].newRoot)
        /\ nb[w].pc = "droproot" => \A s \in SubdocIds : ~Current(s)

\* at rest, the stored root version accounts for every current row
RootCovers ==
    (WritersIdle /\ ~rootStale) =>
        \A s \in SubdocIds : Current(s) => rows[s].version \in VersionsIn(root.version)

\* the device has each current row its root version accounts for
DeviceCovers ==
    \A s \in Deliverable : rows[s].version \in VersionsIn(dev.root)
                              => dev.vers[s] = rows[s].version

\* every GET reads the root document first and the document after it
RootBeforeDocument ==
    \A h \in GetHandlers :
        /\ get[h].pc \notin {"predoc", "correct"}
        /\ get[h].pc \in {"idle", "root", "create", "meta", "doc"} => ~get[h].hasDoc

\* a request that may yet be answered 200 compares what the device has ...
CompareCovers(g) ==
    \/ g.cmp \in {"equals", "meta"}
    \/ /\ g.cloudMeta \in Metas
       /\ g.hdrRoot # NoRoot => g.hdrRoot # g.cloudRoot

\* ... and a response of 200 brings each row that its Etag, or the one the
\* device has, accounts for, unless the device has it
AnswerCovers(g) ==
    \A s \in Deliverable :
        rows[s].version \in VersionsIn(g.cloudRoot) \cup VersionsIn(dev.root) =>
            IF s \in g.send THEN g.doc[s].version = rows[s].version
                            ELSE dev.vers[s] = rows[s].version

DownloadCovers ==
    "device" \in GetHandlers =>
        LET g == get["device"]
        IN  /\ g.pc # "idle" => g.hdrVers = dev.vers /\ g.meta \in Metas
            /\ g.pc \in {"create", "meta", "doc"} => CompareCovers(g)
            /\ g.pc \in {"update", "reply"} /\ g.status = "200" => AnswerCovers(g)

\* no poke has pushed a document or is about to
NothingPushed ==
    /\ push = {}
    /\ \A p \in Pokers : /\ pk[p].pc # "states"
                         /\ pk[p].pc # "idle" => pk[p].route = "webpa"

DeliveryInv == /\ VersionsPosted
               /\ WriterCovers
               /\ RootCovers
               /\ DeviceCovers
               /\ RootBeforeDocument
               /\ DownloadCovers
               /\ NothingPushed

-----------------------------------------------------------------------------
(* The handlers as atomic operations: the refinement mapping.              *)

\* what the device may be sent, whatever its firmware
Admitted ==
    {s \in SubdocIds \ Blocked :
        FilterOutputByBitmapEnabled => \E m \in Metas : s \in Supports[m]}

Wanted == [s \in Admitted |-> IF Current(s) THEN rows[s].version ELSE 0]

\* a download exists from the moment its document is read to its arrival
Underway == "device" \in GetHandlers /\ get["device"].pc \in {"update", "reply"}
InOffer  == IF Underway THEN get["device"].send ELSE {}
Offer    == [s \in Admitted |-> IF s \in InOffer THEN get["device"].doc[s].version ELSE 0]

Held     == [s \in Admitted |-> dev.vers[s]]

\* the next request is answered 304 without a look at the sub-documents
InSync   == /\ WritersIdle
            /\ ~rootStale
            /\ dev.root # NoRoot
            /\ dev.root = root.version

Atomic == INSTANCE AtomicDelivery WITH
              Subdocs <- Admitted, Posted <- 1..MaxVersion,
              wanted <- Wanted, offer <- Offer, held <- Held, inSync <- InSync

(* The calls of the handlers on the two tables, interleaved in any way,    *)
(* look to the device like atomic operations on one configuration: each    *)
(* download is a snapshot that leaves out nothing the device lacks, and    *)
(* the root versions agree only when the device has everything.            *)
ImplementsAtomicDelivery == Atomic!Spec

\* why it does, beside DeliveryInv: a download brings sub-documents the device
\* may have, exactly when it is a 200, and no version that was not posted
OfferSound(g) ==
    /\ \A s \in SubdocIds : g.doc[s].version < nextVersion
    /\ g.pc \in {"update", "reply"} =>
          /\ g.send \subseteq Ids(g.doc) \cap Admitted
          /\ g.status = "200" <=> g.send # {}

OfferInv ==
    /\ \A s \in SubdocIds : dev.vers[s] < nextVersion
    /\ "device" \in GetHandlers => OfferSound(get["device"])

(* A device never goes back to an older version, although a response may   *)
(* arrive long after the document it carries was read.                     *)
DeviceNeverRollsBack ==
    [][\A s \in SubdocIds : dev'.vers[s] >= dev.vers[s]]_vars

-----------------------------------------------------------------------------
(* Liveness                                                                *)

(* When the writers have come to rest, the device ends up with the current *)
(* version of every subdocument it may have, whatever was lost or failed   *)
(* before.                                                                 *)
EventuallyDelivered == <>[](rootStale \/ DeviceUpToDate)

(* ... and the states the cloud shows for them end up Deployed, although   *)
(* reports are delayed, lost, repeated and race with downloads and pokes.  *)
EventuallyDeployed ==
    <>[](rootStale \/ \A s \in Deliverable : rows[s].state = Deployed)
=============================================================================
