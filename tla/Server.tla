------------------------------- MODULE Server -------------------------------
(***************************************************************************)
(* Webconfig together with the exchange with upstream and the factory      *)
(* reset, which run in the GET handler and write the same tables.          *)
(***************************************************************************)
EXTENDS Webconfig, UpstreamHandler

ASSUME ServerAssumption == "device" \in GetHandlers

VARIABLE crossed   \* has a northbound call met a request of the device that
                   \* had begun to read the tables, was an exchange cut short
                   \* while it stored its answer, or did a GET post less than
                   \* the whole document?

serverVars == <<vars, upstreamVars, crossed>>

ServerTypeOK == /\ TypeOK
                /\ UpstreamTypeOK
                /\ crossed \in BOOLEAN

ServerInit == /\ Init
              /\ UpstreamInit
              /\ crossed = FALSE

-----------------------------------------------------------------------------
\* the device's request holds a document or a root version it will go by
Reading == LET g == get["device"]
           IN  \/ g.pc \in {"create", "meta", "doc", "correct", "built", "upstream"}
               \/ g.pc = "root" /\ g.hasDoc

PostedWhole == (get["device"].pc = "built" /\ up'.pc = "post")
                  => Ids(up'.sent) = Ids(get["device"].doc)

Observe == crossed' = \/ crossed
                      \/ Reading /\ nb' # nb
                      \/ (Reading /\ ~WritersIdle)'
                      \/ /\ up.pc \in {"store", "write"}
                         /\ get'["device"].pc = "idle"
                      \/ ~PostedWhole

\* a step of Webconfig; a request that fails takes its exchange with it
Alone(step) ==
    /\ step
    /\ up' = IF get'["device"].pc = "upstream" THEN up ELSE IdleExchange
    /\ told' = told
    /\ Observe

Exchanges ==
    /\ UpstreamStep
    /\ UNCHANGED <<writerVars, rep, pokeVars, disturbances>>
    /\ Observe

UpstreamAnswers ==
    /\ \E final \in [SubdocIds -> {0, nextVersion} \cup {up.sent[s].version : s \in SubdocIds}],
          skip \in BOOLEAN : PostUpstream(final, skip)
    /\ UNCHANGED <<rep, pokeVars, disturbances>>
    /\ Observe

FactoryReset ==
    /\ disturbances < MaxDisturbances
    /\ disturbances' = disturbances + 1
    /\ DeviceResets
    /\ UNCHANGED <<writerVars, rep, pokeVars>>
    /\ Observe

ServerNext == \/ Alone(Next)
              \/ Exchanges
              \/ UpstreamAnswers
              \/ FactoryReset

ServerSpec == ServerInit /\ [][ServerNext]_serverVars

(* The fairness of Webconfig; the goroutine that runs an exchange goes on, *)
(* and upstream answers.                                                   *)
ServerFairness ==
    /\ \A w \in Writers : WF_serverVars(Alone(nb[w].pc # "idle" /\ Write(w)))
    /\ \A h \in GetHandlers : /\ WF_serverVars(Alone(Serve(h)))
                              /\ WF_serverVars(Alone(Response(h)))
    /\ WF_serverVars(Alone(Request("device", FALSE)))
    /\ \A c \in Consumers : WF_serverVars(Alone(Report(c)))
    /\ WF_serverVars(Alone(Tick))
    /\ WF_serverVars(Exchanges)
    /\ WF_serverVars(UpstreamAnswers)

FairServerSpec == ServerSpec /\ ServerFairness

-----------------------------------------------------------------------------
(* WriteDocumentFromUpstream has no transaction around its calls: it       *)
(* stores the root version first and then row after row, leaving alone the *)
(* rows the device has.  Unless a northbound call came in between, an      *)
(* exchange that ends without an error leaves the tables as upstream wants *)
(* them: its Etag, its versions, and after a factory reset nothing else.   *)
ExchangeStored ==
    [][(StoredAll /\ up'.pc = "idle" /\ get'["device"].pc = "reply" /\ ~crossed) =>
          /\ root.version = up.etag
          /\ \A s \in SubdocIds : up.final[s] # 0 => rows[s].version = up.final[s]
          /\ up.op = "reset" =>
                \A s \in SubdocIds : Current(s) => up.final[s] # 0]_serverVars

(* The guarantee of NoMissedUpdate survives the second source of root      *)
(* versions: the Etag upstream computes is stored and handed to the device *)
(* before the rows it stands for are all there.                            *)
NoMissedUpstreamUpdate == crossed \/ NoMissedUpdate

-----------------------------------------------------------------------------
(* Why HeadersNeverOverstate holds: the inductive invariant.               *)

\* what it asks of the environment
UniqueVersions == ~ReuseVersions /\ "mqtt" \notin PokeRoutes

\* the versions that are anywhere taken for versions of a sub-document
VersionsAt(s) ==
    {rows[s].version, dev.vers[s], up.sent[s].version, up.final[s]}
        \cup UNION {{get[h].doc[s].version, get[h].hdrVers[s]} : h \in GetHandlers}

\* a version belongs to one sub-document
VersionsOwned ==
    \A s \in SubdocIds : \A v \in VersionsAt(s) \ {0} :
        /\ v < nextVersion
        /\ \A t \in SubdocIds \ {s} : v \notin VersionsAt(t)

HeaderInv == VersionsOwned /\ HeadersNeverOverstate /\ NothingPushed

-----------------------------------------------------------------------------
(* Why ExchangeStored holds: the inductive invariant.                      *)

\* doc has the versions of the table, and every row that is current
Fits(doc) == \A s \in SubdocIds : /\ doc[s].version # 0 => rows[s].version = doc[s].version
                                  /\ Current(s) => doc[s].version # 0

\* a root version that was read, or the root document did not exist
RootFits(r) == r \in {NoRoot, root.version}

\* an exchange is under way exactly while its request waits for it; mget
\* presents no versions, so that it corrects no state
RequestsInStep ==
    /\ up.pc = "idle" <=> get["device"].pc # "upstream"
    /\ get["device"].pc = "idle" => get["device"] = IdleGet
    /\ "mget" \in GetHandlers => /\ get["mget"].hdrVers = NoVersions
                                 /\ get["mget"].pc \notin {"predoc", "correct"}

\* what a request has read is still in the tables
StillThere(g) ==
    /\ g.pc \in {"predoc", "root", "create", "meta", "doc", "correct"} => g.status = "none"
    /\ g.pc = "predoc" => ~g.hasDoc /\ g.doc = NoDocument
    /\ g.pc \in {"root", "create", "meta", "doc", "correct"} /\ g.hasDoc => Fits(g.doc)
    /\ g.pc \in {"create", "meta", "doc", "correct"} => RootFits(g.cloudRoot)
    /\ g.pc = "correct" => g.hasDoc /\ g.todo \subseteq Ids(g.doc)
    /\ g.pc = "built" /\ (Posts(g) \/ g.cmp # "equals") =>
          Fits(g.doc) /\ RootFits(DocumentRoot(g))

RequestFits == StillThere(get["device"])

\* the exchange has stored what it need not write any more
ExchangeFits ==
    /\ up.pc \in {"resetset", "resetdoc", "post"} => RootFits(up.root)
    /\ up.pc = "post" =>
          \A s \in SubdocIds :
              /\ up.sent[s].version # 0 => rows[s].version = up.sent[s].version
              /\ up.op = "reset" /\ Current(s) => up.sent[s].version # 0
    /\ up.pc \in {"store", "write"} =>
          \A s \in SubdocIds :
              /\ up.final[s] # 0 => s \notin up.dels /\ (s \in up.todo \/ rows[s].version = up.final[s])
              /\ s \in up.todo => up.final[s] # 0
              /\ up.op = "reset" /\ Current(s) => up.final[s] # 0 \/ s \in up.dels
    /\ up.pc = "write" => root.version = up.etag

ExchangeInv ==
    /\ RequestsInStep
    /\ ~crossed => (Reading => WritersIdle) /\ RequestFits /\ ExchangeFits

-----------------------------------------------------------------------------
(* Why NoMissedUpstreamUpdate holds: the inductive invariant.              *)

\* what it asks of the environment: sub-documents stay in the tables unless
\* a factory reset drops them
UpstreamDisciplined ==
    /\ \A v, w \in Writers : v = w             \* one northbound call at a time
    /\ UniqueVersions
    /\ ~Deletes
    /\ PostExpiries \subseteq {"nil"}
    /\ PrecookSubdocs = {}
    /\ ~UpstreamDrops
    /\ FilterOutputByBitmapEnabled =>
          \A m, n \in Metas : Supports[m] = Supports[n]

NothingExpires ==
    \A s \in SubdocIds : /\ rows[s].expiry = "none"
                         /\ \A h \in GetHandlers : get[h].doc[s].expiry = "none"

\* the root version of the device does not account for some row: it is not,
\* and will not be, that of the tables
Behind == \E s \in SubdocIds : Current(s) /\ rows[s].version \notin VersionsIn(dev.root)

\* a response brings each row its Etag accounts for, unless the device has
\* it; applied in part, it takes away none that the device has
ResponseCovers(g) ==
    /\ \A s \in Deliverable :
          rows[s].version \in VersionsIn(g.cloudRoot) =>
              IF s \in g.send THEN g.doc[s].version = rows[s].version
                              ELSE dev.vers[s] = rows[s].version
    /\ \/ Behind
       \/ \A s, t \in g.send : s = t
       \/ \A s \in Deliverable \cap g.send : g.doc[s].version = rows[s].version

\* the request presents every current version the device has ...
Presents(g) ==
    \A s \in SubdocIds : Current(s) /\ dev.vers[s] = rows[s].version
                            => g.hdrVers[s] = dev.vers[s]

\* ... and what it was compared with is what it goes by
Compared(g) ==
    /\ CompareCovers(g)
    /\ g.cmp = "equals" => g.hdrRoot = g.cloudRoot /\ g.hdrRoot # NoRoot

BringsAll(g) ==
    /\ g.pc # "idle" => g.meta \in Metas /\ Presents(g)
    /\ (\/ g.pc \in {"create", "meta", "doc", "correct"}
        \/ g.pc = "built" /\ g.status # "404") => Compared(g)
    /\ g.pc \in {"update", "reply"} /\ g.status = "200" => ResponseCovers(g)

RequestCovers == BringsAll(get["device"])

\* the answer of upstream accounts for every row there will be, and has at
\* most one version that is in no table yet
ExchangeCovers ==
    LET new == {s \in SubdocIds : up.final[s] \notin {0, rows[s].version}}
    IN  /\ up.op = "reset" \/ up.dels # {} => dev.root = NoRoot
        /\ \A v \in VersionsIn(up.etag) : v < nextVersion
        /\ up.pc = "post" => \A s \in SubdocIds : Current(s) => up.sent[s].version # 0
        /\ up.pc \in {"store", "write"} =>
              \A s \in SubdocIds : Current(s) => up.final[s] # 0 \/ s \in up.dels
        /\ up.pc \in {"store", "write", "respond"} =>
              /\ \A s \in SubdocIds : up.final[s] # 0 => up.final[s] \in VersionsIn(up.etag)
              /\ \A s \in SubdocIds \ Blocked :
                    Current(s) /\ rows[s].version \in VersionsIn(up.etag)
                        => up.final[s] = rows[s].version
              /\ \A s \in new : up.final[s] \notin VersionsIn(dev.root) \cup {dev.vers[s]}
              /\ \A s, t \in new : s = t

TablesCover == /\ VersionsPosted
               /\ WriterCovers
               /\ RootCovers \/ up.pc = "write"
               /\ DeviceCovers \/ Behind

UpstreamInv == /\ NothingExpires
               /\ ~crossed => TablesCover /\ RequestCovers /\ ExchangeCovers

-----------------------------------------------------------------------------
(* Why a device is only sent what its firmware supports: the inductive     *)
(* invariant.                                                              *)

\* nothing is sent before the decision; by then the root document that was
\* read has the metadata of the request, or is known to have another
SendsSupported(g) ==
    /\ g.pc \notin {"update", "reply"} => g.send = {}
    /\ (\/ g.pc \in {"create", "meta", "doc", "correct"}
        \/ g.pc = "built" /\ g.status # "404") => g.cmp = "meta" \/ g.cloudMeta = g.meta
    /\ g.send # {} => g.meta \in Metas /\ g.send \subseteq Supports[g.meta]

SupportedInv == FilterOutputByBitmapEnabled => SendsSupported(get["device"])
=============================================================================
