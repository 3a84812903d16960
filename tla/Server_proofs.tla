---------------------------- MODULE Server_proofs ----------------------------
(***************************************************************************)
(* Proofs about Server, the handlers together with the exchange with       *)
(* upstream and the factory reset, for any number of handlers, versions,   *)
(* sub-documents, reports and failures.                                    *)
(***************************************************************************)
EXTENDS MCServer, Delivery_proofs

-----------------------------------------------------------------------------
(* Types.                                                                  *)

LEMMA IdleTypes == IdleGet \in GetRequest /\ IdleExchange \in Exchange
<1>1. IdleGet \in GetRequest
  BY EmptyTypes DEF IdleGet, GetRequest, GetPC, MetaColumn, Comparison, StatusCode
<1>2. IdleExchange \in Exchange
  BY EmptyTypes DEF IdleExchange, Exchange, UpPC
<1> QED
  BY <1>1, <1>2

\* The request of the device, answered.
LEMMA ReplyTypes ==
    ASSUME GetTypeOK, NEW g \in GetRequest, Reply(g)
    PROVE  GetTypeOK' /\ up' \in Exchange
<1>1. [g EXCEPT !.pc = "reply"] \in GetRequest
  BY DEF GetRequest, GetPC
<1> QED
  BY <1>1, IdleTypes DEF Reply, GetTypeOK

\* What the handler decides once BuildGetDocument has returned.
LEMMA UpstreamDecideTypes ==
    ASSUME ServerTypeOK, NEW h \in GetHandlers, UpstreamDecide(h)
    PROVE  GetTypeOK' /\ up' \in Exchange
<1> DEFINE g == get[h]
<1>0. /\ get \in [GetHandlers -> GetRequest] /\ g \in GetRequest
      /\ up \in Exchange /\ root \in RootRow
  BY DEF ServerTypeOK, TypeOK, GetTypeOK, UpstreamTypeOK, StoreTypeOK
<1>1. Outgoing(g) \in SUBSET SubdocIds
  BY StoreAssumption DEF Outgoing, FilterByBitmap, Unfiltered, FilterForGet, Ids
<1>2. CASE get' = [get EXCEPT ![h] = [g EXCEPT !.pc = "reply", !.status = "409"]] /\ UNCHANGED up
  <2>1. [g EXCEPT !.pc = "reply", !.status = "409"] \in GetRequest
    BY <1>0 DEF GetRequest, GetPC, StatusCode
  <2> QED
    BY <1>0, <1>2, <2>1 DEF GetTypeOK
<1>3. CASE get' = [get EXCEPT ![h] = AnswerMget(g)] /\ UNCHANGED up
  <2>1. AnswerMget(g) \in GetRequest
    BY <1>0, <1>1 DEF AnswerMget, GetRequest, GetPC, StatusCode
  <2> QED
    BY <1>0, <1>3, <2>1 DEF GetTypeOK
<1>4. CASE get' = [get EXCEPT ![h] = AnswerFromTables(g)] /\ UNCHANGED up
  <2> DEFINE todo == {s \in Outgoing(g) : g.doc[s].state \notin {Deployed, InDeployment}}
  <2>1. todo \in SUBSET SubdocIds
    BY <1>1
  <2>2. AnswerFromTables(g) =
            [g EXCEPT !.pc = IF todo = {} THEN "reply" ELSE "update",
                      !.todo = todo, !.send = Outgoing(g),
                      !.status = IF Outgoing(g) = {} THEN "304" ELSE "200"]
    BY DEF AnswerFromTables
  <2> HIDE DEF todo
  <2>3. AnswerFromTables(g) \in GetRequest
    BY <1>0, <1>1, <2>1, <2>2 DEF GetRequest, GetPC, StatusCode
  <2> QED
    BY <1>0, <1>4, <2>3 DEF GetTypeOK
<1>5. CASE /\ up' = [IdleExchange EXCEPT !.pc = "post", !.root = DocumentRoot(g),
                                         !.sent = Restricted(g.doc, Outgoing(g))]
           /\ get' = [get EXCEPT ![h].pc = "upstream"]
  <2>1. DocumentRoot(g) \in RootVersion
    BY <1>0, EmptyTypes DEF DocumentRoot, GetRequest
  <2>2. Restricted(g.doc, Outgoing(g)) \in Document
    BY <1>0, EmptyTypes DEF Restricted, GetRequest, Document
  <2>3. up' \in Exchange
    BY <1>5, <2>1, <2>2, IdleTypes DEF Exchange, UpPC
  <2>4. [g EXCEPT !.pc = "upstream"] \in GetRequest
    BY <1>0 DEF GetRequest, GetPC
  <2> QED
    BY <1>0, <1>5, <2>3, <2>4 DEF GetTypeOK
<1> QED
  BY <1>2, <1>3, <1>4, <1>5 DEF UpstreamDecide

\* The steps of an exchange, and of a factory reset.
LEMMA UpstreamTypes ==
    ASSUME ServerTypeOK, UpstreamStep
    PROVE  StoreTypeOK' /\ GetTypeOK' /\ up' \in Exchange /\ UNCHANGED <<deviceVars, told>>
<1>0. /\ StoreTypeOK /\ GetTypeOK /\ up \in Exchange
      /\ rows \in [SubdocIds -> Row] /\ root \in RootRow
      /\ get \in [GetHandlers -> GetRequest] /\ get["device"] \in GetRequest
  BY ServerAssumption DEF ServerTypeOK, TypeOK, GetTypeOK, UpstreamTypeOK, StoreTypeOK
<1> DEFINE Goal == StoreTypeOK' /\ GetTypeOK' /\ up' \in Exchange /\ UNCHANGED <<deviceVars, told>>
<1>1. ASSUME NEW h \in GetHandlers, UpstreamDecide(h) PROVE Goal
  BY <1>0, <1>1, UpstreamDecideTypes DEF UpstreamDecide, StoreTypeOK, storeVars
<1>2. CASE ResetReadRoot
  <2>1. (IF root.exists THEN root.version ELSE NoRoot) \in RootVersion
    BY <1>0, EmptyTypes DEF RootRow
  <2>2. up' \in Exchange
    BY <1>0, <1>2, <2>1 DEF ResetReadRoot, Exchange, UpPC
  <2> QED
    BY <1>0, <1>2, <2>2 DEF ResetReadRoot, StoreTypeOK, GetTypeOK, storeVars
<1>3. CASE ResetStoreRoot
  <2>1. /\ get["device"].meta \in MetaColumn
        /\ (IF up.root = NoRoot THEN root.version ELSE up.root) \in RootVersion
    BY <1>0 DEF GetRequest, Exchange, RootRow
  <2>2. root' \in RootRow
    BY <1>0, <1>3, <2>1 DEF ResetStoreRoot, RootRow
  <2>3. up' \in Exchange
    BY <1>0, <1>3 DEF ResetStoreRoot, Exchange, UpPC
  <2> QED
    BY <1>0, <1>3, <2>2, <2>3 DEF ResetStoreRoot, StoreTypeOK, GetTypeOK
<1>4. [get["device"] EXCEPT !.status = "404"] \in GetRequest
  BY <1>0 DEF GetRequest, StatusCode
<1>5. CASE ResetReadDocument
  <2>1. CASE Reply([get["device"] EXCEPT !.status = "404"])
    BY <1>0, <1>4, <1>5, <2>1, ReplyTypes DEF ResetReadDocument, StoreTypeOK, storeVars
  <2>2. CASE /\ up' = [up EXCEPT !.sent = GetDocument(FALSE),
                                 !.pc = IF UpstreamEnabled THEN "post" ELSE "resetdelete"]
             /\ UNCHANGED get
    <3>1. GetDocument(FALSE) \in Document
      BY <1>0, GetDocumentType
    <3>2. up' \in Exchange
      BY <1>0, <2>2, <3>1 DEF Exchange, UpPC
    <3> QED
      BY <1>0, <1>5, <2>2, <3>2 DEF ResetReadDocument, StoreTypeOK, GetTypeOK, storeVars
  <2> QED
    BY <1>5, <2>1, <2>2 DEF ResetReadDocument
<1>6. CASE ResetDelete
  <2>1. rows' \in [SubdocIds -> Row]
    BY <1>6, EmptyTypes DEF ResetDelete, DeleteDocument, NoDocument
  <2> QED
    BY <1>0, <1>4, <1>6, <2>1, ReplyTypes DEF ResetDelete, StoreTypeOK
<1>7. CASE StoreUpstreamRoot
  <2>1. root' \in RootRow
    BY <1>0, <1>7 DEF StoreUpstreamRoot, SetRootDocumentVersion, RootRow, Exchange
  <2>2. up' \in Exchange
    BY <1>0, <1>7 DEF StoreUpstreamRoot, Exchange, UpPC
  <2> QED
    BY <1>0, <1>7, <2>1, <2>2 DEF StoreUpstreamRoot, StoreTypeOK, GetTypeOK
<1>8. ASSUME NEW s \in SubdocIds, WriteUpstreamRow(s) PROVE Goal
  <2>1. up.final[s] \in Nat
    BY <1>0 DEF Exchange, Versions
  <2>2. rows' \in [SubdocIds -> Row]
    BY <1>0, <1>8, <2>1, SetSubDocumentType DEF WriteUpstreamRow, InDeployment, States
  <2>3. up' \in Exchange
    BY <1>0, <1>8 DEF WriteUpstreamRow, Exchange
  <2> QED
    BY <1>0, <1>8, <2>2, <2>3 DEF WriteUpstreamRow, StoreTypeOK, GetTypeOK
<1>9. ASSUME NEW s \in SubdocIds, DeleteUpstreamRow(s) PROVE Goal
  <2>1. rows' \in [SubdocIds -> Row]
    BY <1>0, <1>9, EmptyTypes DEF DeleteUpstreamRow, DeleteSubDocument
  <2>2. up' \in Exchange
    BY <1>0, <1>9 DEF DeleteUpstreamRow, Exchange
  <2> QED
    BY <1>0, <1>9, <2>1, <2>2 DEF DeleteUpstreamRow, StoreTypeOK, GetTypeOK
<1>10. CASE UpstreamRespond
  <2> DEFINE g      == get["device"]
             send   == FinalSendable(g)
             status == IF up.op = "reset"
                       THEN IF Ids(FinalDocument) = {} THEN "404" ELSE "200"
                       ELSE IF send = {} THEN "304" ELSE "200"
             new    == [g EXCEPT !.doc = FinalDocument, !.cloudRoot = up.etag,
                                 !.send = send, !.status = status]
  <2>1. FinalDocument \in Document
    <3>1. \A s \in SubdocIds : up.final[s] \in Nat
      BY <1>0 DEF Exchange, Versions
    <3>2. \A n \in Nat : [EmptyRow EXCEPT !.version = n] \in Row
      BY EmptyTypes DEF Row
    <3> QED
      BY <3>1, <3>2 DEF FinalDocument, Document
  <2>2. send \in SUBSET SubdocIds
    BY DEF FinalSendable, FilterByBitmap, FilterForGet, Ids
  <2>3. up.etag \in RootVersion /\ status \in StatusCode
    BY <1>0 DEF Exchange, StatusCode
  <2>4. Reply(new)
    BY <1>10 DEF UpstreamRespond
  <2> HIDE DEF send, status
  <2>5. new \in GetRequest
    BY <1>0, <2>1, <2>2, <2>3 DEF GetRequest
  <2> HIDE DEF new
  <2> QED
    BY <1>0, <1>10, <2>4, <2>5, ReplyTypes DEF UpstreamRespond, StoreTypeOK, storeVars
<1> QED
  BY <1>1, <1>2, <1>3, <1>5, <1>6, <1>7, <1>8, <1>9, <1>10 DEF UpstreamStep

\* Upstream's answer.
LEMMA PostUpstreamTypes ==
    ASSUME ServerTypeOK, NEW skip \in BOOLEAN,
           NEW final \in [SubdocIds -> {0, nextVersion} \cup {up.sent[s].version : s \in SubdocIds}],
           PostUpstream(final, skip)
    PROVE  up' \in Exchange /\ told' \in MetaColumn /\ nextVersion' \in Nat \ {0}
<1> DEFINE kept == [s \in SubdocIds |->
                       IF up.op = "reset" /\ s \in Blocked THEN 0 ELSE final[s]]
           ids  == {s \in SubdocIds : kept[s] # 0}
<1>0. up \in Exchange /\ nextVersion \in Nat \ {0} /\ get["device"] \in GetRequest
  BY ServerAssumption DEF ServerTypeOK, TypeOK, GetTypeOK, UpstreamTypeOK, WriterTypeOK
<1>1. final \in Versions
  <2>1. \A s \in SubdocIds : up.sent[s].version \in Nat
    BY <1>0 DEF Exchange, Document, Row
  <2> QED
    BY <1>0, <2>1 DEF Versions
<1>2. kept \in Versions /\ HashRootVersion(final) \in RootVersion
  BY <1>1, HashRootVersionType DEF Versions
<1>3. /\ {s \in ids : ~HasAlready(s, kept)} \in SUBSET SubdocIds
      /\ (IF skip THEN {} ELSE {s \in ids : ~HasAlready(s, kept)}) \in SUBSET SubdocIds
      /\ (IF skip \/ up.op = "get" THEN {} ELSE Ids(up.sent) \ ids) \in SUBSET SubdocIds
  BY DEF Ids
<1>4. up' = [up EXCEPT
              !.etag = HashRootVersion(final), !.final = kept, !.skip = skip,
              !.pc = IF skip THEN "respond"
                     ELSE IF up.root # HashRootVersion(final) THEN "store" ELSE "write",
              !.todo = IF skip THEN {} ELSE {s \in ids : ~HasAlready(s, kept)},
              !.dels = IF skip \/ up.op = "get" THEN {} ELSE Ids(up.sent) \ ids]
  BY DEF PostUpstream
<1> DEFINE todo == IF skip THEN {} ELSE {s \in ids : ~HasAlready(s, kept)}
           dels == IF skip \/ up.op = "get" THEN {} ELSE Ids(up.sent) \ ids
<1>5. todo \in SUBSET SubdocIds /\ dels \in SUBSET SubdocIds
  BY <1>3
<1> HIDE DEF kept, ids, todo, dels
<1>6. up' = [up EXCEPT
              !.etag = HashRootVersion(final), !.final = kept, !.skip = skip,
              !.pc = IF skip THEN "respond"
                     ELSE IF up.root # HashRootVersion(final) THEN "store" ELSE "write",
              !.todo = todo, !.dels = dels]
  BY <1>4 DEF todo, dels
<1>7. up' \in Exchange
  BY <1>0, <1>2, <1>5, <1>6 DEF Exchange, UpPC
<1>8. told' \in MetaColumn
  BY <1>0 DEF PostUpstream, GetRequest
<1>9. nextVersion' \in Nat \ {0}
  BY <1>0 DEF PostUpstream, UpstreamVersions
<1> QED
  BY <1>7, <1>8, <1>9

LEMMA ServerTypeInit == ServerInit => ServerTypeOK
BY TypeInit, IdleTypes DEF ServerInit, ServerTypeOK, UpstreamInit, UpstreamTypeOK, MetaColumn

LEMMA ServerTypeStep == ServerTypeOK /\ [ServerNext]_serverVars => ServerTypeOK'
<1> SUFFICES ASSUME ServerTypeOK, [ServerNext]_serverVars PROVE ServerTypeOK'
  OBVIOUS
<1>0. TypeOK /\ up \in Exchange /\ told \in MetaColumn /\ crossed \in BOOLEAN
  BY DEF ServerTypeOK, UpstreamTypeOK
<1>1. Observe => crossed' \in BOOLEAN
  BY Zenon DEF Observe
<1>2. CASE Alone(Next)
  <2>1. TypeOK'
    BY <1>0, <1>2, TypeStep DEF Alone
  <2>2. up' \in Exchange /\ told' \in MetaColumn
    BY <1>0, <1>2, IdleTypes DEF Alone
  <2> QED
    BY <1>1, <1>2, <2>1, <2>2 DEF Alone, ServerTypeOK, UpstreamTypeOK
<1>3. CASE Exchanges
  <2>1. StoreTypeOK' /\ GetTypeOK' /\ up' \in Exchange /\ UNCHANGED <<deviceVars, told>>
    BY <1>3, UpstreamTypes DEF Exchanges
  <2>2. TypeOK'
    BY <1>0, <1>3, <2>1 DEF Exchanges, TypeOK, WriterTypeOK, DeviceTypeOK, ReportTypeOK, PokeTypeOK,
                            writerVars, deviceVars, pokeVars
  <2> QED
    BY <1>0, <1>1, <1>3, <2>1, <2>2 DEF Exchanges, ServerTypeOK, UpstreamTypeOK
<1>4. CASE UpstreamAnswers
  <2>1. PICK final \in [SubdocIds -> {0, nextVersion} \cup {up.sent[s].version : s \in SubdocIds}],
             skip \in BOOLEAN : PostUpstream(final, skip)
    BY <1>4 DEF UpstreamAnswers
  <2>2. up' \in Exchange /\ told' \in MetaColumn /\ nextVersion' \in Nat \ {0}
    BY <2>1, PostUpstreamTypes
  <2>3. UNCHANGED <<storeVars, deviceVars, get, nb, rootStale, rep, pokeVars, disturbances>>
    BY <1>4, <2>1 DEF UpstreamAnswers, PostUpstream
  <2>4. TypeOK'
    BY <1>0, <2>2, <2>3 DEF TypeOK, StoreTypeOK, WriterTypeOK, DeviceTypeOK, GetTypeOK, ReportTypeOK,
                            PokeTypeOK, storeVars, deviceVars, pokeVars
  <2> QED
    BY <1>1, <1>4, <2>2, <2>4 DEF UpstreamAnswers, ServerTypeOK, UpstreamTypeOK
<1>5. CASE FactoryReset
  <2>1. dev' \in DeviceState
    BY <1>0, <1>5, EmptyTypes DEF FactoryReset, DeviceResets, TypeOK, DeviceTypeOK, DeviceState
  <2>2. dev.meta \in MetaColumn
    BY <1>0 DEF TypeOK, DeviceTypeOK, DeviceState, MetaColumn
  <2>3. [IdleGet EXCEPT !.pc = "upstream", !.meta = dev.meta] \in GetRequest
    BY <2>2, IdleTypes DEF GetRequest, GetPC
  <2>4. get' \in [GetHandlers -> GetRequest]
    BY <1>0, <1>5, <2>3 DEF FactoryReset, DeviceResets, TypeOK, GetTypeOK
  <2>5. up' \in Exchange
    BY <1>5, IdleTypes DEF FactoryReset, DeviceResets, Exchange, UpPC
  <2>6. disturbances' \in Nat
    BY <1>0, <1>5 DEF FactoryReset, TypeOK
  <2>7. TypeOK'
    BY <1>0, <1>5, <2>1, <2>4, <2>6
       DEF FactoryReset, DeviceResets, TypeOK, StoreTypeOK, WriterTypeOK, DeviceTypeOK, GetTypeOK,
           ReportTypeOK, PokeTypeOK, storeVars, writerVars, pokeVars
  <2> QED
    BY <1>0, <1>1, <1>5, <2>5, <2>7
       DEF FactoryReset, DeviceResets, ServerTypeOK, UpstreamTypeOK
<1>6. CASE UNCHANGED serverVars
  <2>1. TypeOK'
    BY <1>0, <1>6, TypeStep DEF serverVars
  <2> QED
    BY <1>0, <1>6, <2>1 DEF serverVars, upstreamVars, ServerTypeOK, UpstreamTypeOK
<1> QED
  BY <1>2, <1>3, <1>4, <1>5, <1>6 DEF ServerNext

(* The types hold with upstream and factory resets too, for every set of   *)
(* handlers and every configuration of them (ServerTypeOK).                *)
THEOREM ServerTypeCorrect == ServerSpec => []ServerTypeOK
BY ServerTypeInit, ServerTypeStep, PTL DEF ServerSpec

-----------------------------------------------------------------------------
(* The steps of Webconfig, by what they leave alone.                       *)

WriterTurn ==
    /\ \E w \in Writers : WriterStep(w) \/ WriterFails(w)
    /\ UNCHANGED <<deviceVars, get, rep, pokeVars>>

ServeTurn ==
    /\ \E h \in GetHandlers : GetStep(h)
    /\ UNCHANGED <<writerVars, rep, pokeVars>>

RequestTurn ==
    /\ \/ \E mismatch \in BOOLEAN : DeviceGet(mismatch)
       \/ \E m \in Metas : MgetGet(m)
       \/ \E applied \in SUBSET SubdocIds : DeviceReceives(applied)
       \/ MgetReceives
       \/ \E h \in GetHandlers : GetFails(h)
    /\ UNCHANGED <<writerVars, rep, pokeVars>>

ReportTurn ==
    /\ \E c \in Consumers : ReportStep(c) \/ ReportFails(c) \/ ReportCrashes(c)
    /\ UNCHANGED <<writerVars, get, pokeVars>>

PokeTurn ==
    /\ \/ \E p \in Pokers : PokeStep(p) \/ PokeFails(p)
       \/ \E m \in push : PushArrives(m, Names(m.vers))
    /\ UNCHANGED <<writerVars, get, rep>>

ClockTurn ==
    /\ (\E s \in SubdocIds : Expire(s)) \/ LockRunsOut \/ LockRootDocument
    /\ UNCHANGED <<writerVars, deviceVars, get, rep, pokeVars>>

UpgradeTurn ==
    /\ \E m \in Metas : Upgrade(m)
    /\ UNCHANGED <<storeVars, writerVars, get, rep, pokeVars>>

LEMMA Turns ==
    ASSUME TypeOK, Next
    PROVE  \/ WriterTurn \/ ServeTurn \/ RequestTurn \/ ReportTurn
           \/ PokeTurn \/ ClockTurn \/ UpgradeTurn
<1>0. \A h \in GetHandlers : get[h].send \in SUBSET SubdocIds
  BY DEF TypeOK, GetTypeOK, GetRequest
<1>1. ASSUME NEW w \in Writers, Write(w) PROVE WriterTurn
  BY <1>1 DEF Write, WriterTurn
<1>2. ASSUME NEW h \in GetHandlers, Serve(h) PROVE ServeTurn
  BY <1>2 DEF Serve, ServeTurn
<1>3. ASSUME NEW h \in GetHandlers, NEW mismatch \in BOOLEAN, Request(h, mismatch) PROVE RequestTurn
  BY <1>3 DEF Request, RequestTurn
<1>4. ASSUME NEW h \in GetHandlers, Response(h) PROVE RequestTurn
  BY <1>0, <1>4 DEF Response, RequestTurn
<1>5. ASSUME NEW c \in Consumers, Report(c) PROVE ReportTurn
  BY <1>5 DEF Report, ReportTurn
<1>6. CASE (\E p \in Pokers : PokeDevice(p)) \/ Push
  BY <1>6 DEF PokeDevice, Push, PokeTurn
<1>7. CASE Tick
  BY <1>7 DEF Tick, ClockTurn
<1>8. CASE Disturb
  <2>1. CASE (\E w \in Writers : WriterFails(w)) /\ UNCHANGED <<deviceVars, get, rep, pokeVars>>
    BY <2>1 DEF WriterTurn
  <2>2. CASE (\E h \in GetHandlers : GetFails(h)) /\ UNCHANGED <<writerVars, rep, pokeVars>>
    BY <2>2 DEF RequestTurn
  <2>3. ASSUME "device" \in GetHandlers, NEW applied \in SUBSET get["device"].send,
               DeviceReceives(applied), UNCHANGED <<writerVars, rep, pokeVars>>
        PROVE  RequestTurn
    BY <1>0, <2>3 DEF RequestTurn
  <2>4. CASE /\ \E c \in Consumers : ReportFails(c) \/ ReportCrashes(c)
             /\ UNCHANGED <<writerVars, get, pokeVars>>
    BY <2>4 DEF ReportTurn
  <2>5. CASE (\E p \in Pokers : PokeFails(p)) /\ UNCHANGED <<writerVars, get, rep>>
    BY <2>5 DEF PokeTurn
  <2>6. CASE /\ \E m \in Metas : Upgrade(m)
             /\ UNCHANGED <<storeVars, writerVars, get, rep, pokeVars>>
    BY <2>6 DEF UpgradeTurn
  <2>7. CASE LockRootDocument /\ UNCHANGED <<writerVars, deviceVars, get, rep, pokeVars>>
    BY <2>7 DEF ClockTurn
  <2> QED
    BY <1>8, <2>1, <2>2, <2>3, <2>4, <2>5, <2>6, <2>7 DEF Disturb
<1> QED
  BY <1>1, <1>2, <1>3, <1>4, <1>5, <1>6, <1>7, <1>8 DEF Next

-----------------------------------------------------------------------------
(* What the steps of a GET leave alone.                                    *)

\* what a request has learned, as opposed to where it stands
SameFindings(f, g) ==
    /\ f.hdrRoot = g.hdrRoot /\ f.hdrVers = g.hdrVers /\ f.meta = g.meta
    /\ f.cloudRoot = g.cloudRoot /\ f.cloudMeta = g.cloudMeta /\ f.cmp = g.cmp
    /\ f.hasDoc = g.hasDoc /\ f.doc = g.doc

LEMMA FindingsKept ==
    ASSUME NEW h, NEW g \in GetRequest
    PROVE  /\ SameFindings(Decide(h, g), g)
           /\ SameFindings(AfterDocument(h, g), g)
           /\ SameFindings(AfterRoot(h, g), g)
<1>1. SameFindings(Decide(h, g), g)
  BY DEF Decide, Answered, SameFindings, GetRequest
<1>2. SameFindings(AfterDocument(h, g), g)
  BY <1>1 DEF AfterDocument, SameFindings, GetRequest
<1> QED
  BY <1>1, <1>2 DEF AfterRoot, SameFindings, GetRequest

\* What a step of a GET reads and writes, as far as versions go.
LEMMA GetStepKeeps ==
    ASSUME TypeOK, NEW h \in GetHandlers, GetStep(h)
    PROVE  /\ UNCHANGED dev
           /\ \A k \in GetHandlers \ {h} : get'[k] = get[k]
           /\ get'[h].doc \in {get[h].doc, GetDocument(FALSE)}
           /\ get'[h].hdrVers = get[h].hdrVers \/ GetReadDocFirst(h)
           /\ \A s \in SubdocIds :
                 rows'[s].version \in {rows[s].version, get[h].doc[s].version}
<1> DEFINE Goal == /\ UNCHANGED dev
                   /\ \A k \in GetHandlers \ {h} : get'[k] = get[k]
                   /\ get'[h].doc \in {get[h].doc, GetDocument(FALSE)}
                   /\ get'[h].hdrVers = get[h].hdrVers \/ GetReadDocFirst(h)
                   /\ \A s \in SubdocIds :
                         rows'[s].version \in {rows[s].version, get[h].doc[s].version}
<1>0. get \in [GetHandlers -> GetRequest] /\ get[h] \in GetRequest /\ rows \in [SubdocIds -> Row]
  BY DEF TypeOK, GetTypeOK, StoreTypeOK
<1>1. CASE GetReadDocFirst(h)
  <2>1. UNCHANGED <<rows, dev>>
    BY <1>1 DEF GetReadDocFirst, storeVars, deviceVars
  <2>2. ASSUME NEW pc, NEW cmp, NEW status,
               get' = [get EXCEPT ![h].pc = pc, ![h].cmp = cmp, ![h].status = status]
        PROVE  Goal
    BY <1>0, <1>1, <2>1, <2>2 DEF GetRequest
  <2>3. ASSUME NEW vers,
               get' = [get EXCEPT ![h].pc = "root", ![h].hasDoc = TRUE,
                                  ![h].doc = GetDocument(FALSE), ![h].hdrVers = vers]
        PROVE  Goal
    <3> DEFINE doc == GetDocument(FALSE)
    <3>1. get' = [get EXCEPT ![h].pc = "root", ![h].hasDoc = TRUE, ![h].doc = doc, ![h].hdrVers = vers]
      BY <2>3
    <3> HIDE DEF doc
    <3>2. get'[h].doc = doc /\ \A k \in GetHandlers \ {h} : get'[k] = get[k]
      BY <1>0, <3>1 DEF GetRequest
    <3>3. \A s \in SubdocIds : rows'[s].version \in {rows[s].version, get[h].doc[s].version}
      BY <2>1
    <3> QED
      BY <1>1, <2>1, <3>2, <3>3 DEF doc
  <2>4. CASE Ids(GetDocument(FALSE)) = {}
    <3>1. get' = [get EXCEPT ![h].pc = IF UpstreamEnabled THEN "built" ELSE "reply",
                             ![h].cmp = "version", ![h].status = "404"]
      BY <1>1, <2>4 DEF GetReadDocFirst
    <3> QED
      BY <2>2, <3>1
  <2>5. CASE Ids(GetDocument(FALSE)) # {}
    <3>1. \E vers : get' = [get EXCEPT ![h].pc = "root", ![h].hasDoc = TRUE,
                                       ![h].doc = GetDocument(FALSE), ![h].hdrVers = vers]
      BY <1>1, <2>5, Zenon DEF GetReadDocFirst
    <3> QED
      BY <2>3, <3>1
  <2> QED
    BY <2>4, <2>5
<1>2. CASE GetReadRoot(h)
  <2> DEFINE m == IF root.exists THEN root.meta ELSE get[h].meta
             v == IF root.exists THEN root.version ELSE NoRoot
             g == [get[h] EXCEPT !.cloudRoot = v, !.cloudMeta = m,
                                 !.locked = root.exists /\ root.locked,
                                 !.cmp = Compare(h, v, m, get[h].hdrRoot, get[h].meta)]
             new == IF ~root.exists THEN [g EXCEPT !.pc = "create"]
                    ELSE IF m # g.meta THEN [g EXCEPT !.pc = "meta"]
                    ELSE AfterRoot(h, g)
  <2>1. m \in MetaColumn /\ v \in RootVersion
    BY <1>0, EmptyTypes DEF TypeOK, StoreTypeOK, RootRow, GetRequest
  <2>2. Compare(h, v, m, get[h].hdrRoot, get[h].meta) \in Comparison
    BY DEF Compare, Comparison
  <2>3. (root.exists /\ root.locked) \in BOOLEAN
    BY DEF TypeOK, StoreTypeOK, RootRow
  <2>4. get' = [get EXCEPT ![h] = new] /\ UNCHANGED <<rows, dev>>
    BY <1>2 DEF GetReadRoot, storeVars, deviceVars
  <2> HIDE DEF m, v
  <2>5. g \in GetRequest /\ g.doc = get[h].doc /\ g.hdrVers = get[h].hdrVers
    BY <1>0, <2>1, <2>2, <2>3 DEF GetRequest
  <2> HIDE DEF g
  <2>6. new.doc = g.doc /\ new.hdrVers = g.hdrVers
    BY <2>5, FindingsKept DEF SameFindings, GetRequest
  <2> HIDE DEF new
  <2> QED
    BY <1>0, <2>4, <2>5, <2>6
<1>3. CASE GetStoreMeta(h)
  BY <1>0, <1>3, FindingsKept DEF GetStoreMeta, SameFindings, deviceVars
<1>4. CASE GetReadDocument(h)
  <2> DEFINE g == [get[h] EXCEPT !.hasDoc = TRUE, !.doc = GetDocument(FALSE)]
  <2>1. g \in GetRequest /\ g.doc = GetDocument(FALSE) /\ g.hdrVers = get[h].hdrVers
    BY <1>0, GetDocumentType DEF GetRequest, TypeOK
  <2>2. get' = [get EXCEPT ![h] = AfterDocument(h, g)] /\ UNCHANGED <<rows, dev>>
    BY <1>4 DEF GetReadDocument, storeVars, deviceVars
  <2> HIDE DEF g
  <2>3. AfterDocument(h, g).doc = GetDocument(FALSE) /\ AfterDocument(h, g).hdrVers = get[h].hdrVers
    BY <2>1, FindingsKept DEF SameFindings
  <2> QED
    BY <1>0, <2>2, <2>3
<1>5. ASSUME NEW s \in SubdocIds, CorrectState(h, s) PROVE Goal
  <2> DEFINE g == [get[h] EXCEPT !.todo = @ \ {s}]
  <2>1. g \in GetRequest /\ g.doc = get[h].doc /\ g.hdrVers = get[h].hdrVers
    BY <1>0 DEF GetRequest
  <2>2. get' = [get EXCEPT ![h] = IF g.todo = {} THEN Decide(h, g) ELSE g] /\ UNCHANGED dev
    BY <1>5 DEF CorrectState, deviceVars
  <2> HIDE DEF g
  <2>3. get'[h].doc = get[h].doc /\ get'[h].hdrVers = get[h].hdrVers
    BY <1>0, <2>1, <2>2, FindingsKept DEF SameFindings
  <2>4. \A t \in SubdocIds : rows'[t].version \in {rows[t].version, get[h].doc[t].version}
    BY <1>0, <1>5 DEF CorrectState, SetSubDocument
  <2> QED
    BY <1>0, <2>2, <2>3, <2>4
<1>6. ASSUME NEW s \in SubdocIds, MarkInDeployment(h, s) PROVE Goal
  <2>1. \A t \in SubdocIds : rows'[t].version = rows[t].version
    BY <1>0, <1>6 DEF MarkInDeployment, SetSubDocument, NilVersion
  <2>2. get'[h].doc = get[h].doc /\ get'[h].hdrVers = get[h].hdrVers
    BY <1>0, <1>6 DEF MarkInDeployment, GetRequest
  <2> QED
    BY <1>0, <1>6, <2>1, <2>2 DEF MarkInDeployment, deviceVars
<1> QED
  BY <1>1, <1>2, <1>3, <1>4, <1>5, <1>6 DEF GetStep

-----------------------------------------------------------------------------
(* A version belongs to one sub-document.                                  *)

\* a version that s has already, or none
From(s, v) == v \in VersionsAt(s) \cup {0}

\* no version is new to s
NothingNew(s) ==
    /\ From(s, rows'[s].version) /\ From(s, dev'.vers[s])
    /\ From(s, up'.sent[s].version) /\ From(s, up'.final[s])
    /\ \A h \in GetHandlers : From(s, get'[h].doc[s].version) /\ From(s, get'[h].hdrVers[s])

\* What VersionsAt collects.
LEMMA VersionsAtHas ==
    ASSUME NEW s \in SubdocIds
    PROVE  /\ From(s, 0)
           /\ From(s, rows[s].version) /\ From(s, dev.vers[s])
           /\ From(s, up.sent[s].version) /\ From(s, up.final[s])
           /\ \A h \in GetHandlers : From(s, get[h].doc[s].version) /\ From(s, get[h].hdrVers[s])
BY DEF From, VersionsAt

LEMMA VersionsAtNat ==
    ASSUME ServerTypeOK, NEW s \in SubdocIds
    PROVE  VersionsAt(s) \subseteq Nat
<1>1. rows[s].version \in Nat /\ dev.vers[s] \in Nat
  BY DEF ServerTypeOK, TypeOK, StoreTypeOK, DeviceTypeOK, DeviceState, Versions, Row
<1>2. up.sent[s].version \in Nat /\ up.final[s] \in Nat
  BY DEF ServerTypeOK, UpstreamTypeOK, Exchange, Document, Versions, Row
<1>3. \A h \in GetHandlers : get[h].doc[s].version \in Nat /\ get[h].hdrVers[s] \in Nat
  BY DEF ServerTypeOK, TypeOK, GetTypeOK, GetRequest, Document, Versions, Row
<1> QED
  BY <1>1, <1>2, <1>3 DEF VersionsAt

\* A step that brings no version keeps the versions apart ...
LEMMA NothingNewOwned ==
    ASSUME VersionsOwned, UNCHANGED nextVersion, \A s \in SubdocIds : NothingNew(s)
    PROVE  VersionsOwned'
<1>1. \A s \in SubdocIds : VersionsAt(s)' \subseteq VersionsAt(s) \cup {0}
  <2> SUFFICES ASSUME NEW s \in SubdocIds, NEW v \in VersionsAt(s)' PROVE From(s, v)
    BY DEF From
  <2>1. \/ v \in {rows'[s].version, dev'.vers[s], up'.sent[s].version, up'.final[s]}
        \/ \E h \in GetHandlers : v \in {get'[h].doc[s].version, get'[h].hdrVers[s]}
    BY DEF VersionsAt
  <2> QED
    BY <2>1 DEF NothingNew
<1> QED
  BY <1>1 DEF VersionsOwned

\* ... and so does one that brings a new one to one sub-document.
LEMMA OneNewOwned ==
    ASSUME ServerTypeOK, VersionsOwned, nextVersion' = nextVersion + 1, NEW x \in SubdocIds,
           \A s \in SubdocIds : VersionsAt(s)' \subseteq
               VersionsAt(s) \cup {0} \cup (IF s = x THEN {nextVersion} ELSE {})
    PROVE  VersionsOwned'
<1>1. nextVersion \in Nat \ {0}
  BY DEF ServerTypeOK, TypeOK, WriterTypeOK
<1>2. ASSUME NEW s \in SubdocIds, NEW v \in VersionsAt(s)' \ {0}
      PROVE  v < nextVersion' /\ \A t \in SubdocIds \ {s} : v \notin VersionsAt(t)'
  <2>1. CASE v \in VersionsAt(s)
    <3>1. v < nextVersion /\ v \in Nat
      BY <1>2, <2>1, VersionsAtNat DEF VersionsOwned
    <3>2. \A t \in SubdocIds \ {s} : v \notin VersionsAt(t)
      BY <1>2, <2>1 DEF VersionsOwned
    <3>3. v # nextVersion /\ v < nextVersion'
      BY <1>1, <3>1
    <3> QED
      BY <1>2, <3>2, <3>3
  <2>2. CASE v \notin VersionsAt(s)
    <3>1. s = x /\ v = nextVersion
      BY <1>2, <2>2
    <3>2. \A t \in SubdocIds : nextVersion \notin VersionsAt(t)
      <4>1. ASSUME NEW t \in SubdocIds, nextVersion \in VersionsAt(t) PROVE FALSE
        BY <1>1, <4>1 DEF VersionsOwned
      <4> QED
        BY <4>1
    <3> QED
      BY <1>1, <1>2, <3>1, <3>2
  <2> QED
    BY <2>1, <2>2
<1> QED
  BY <1>2 DEF VersionsOwned

\* A step that has nothing to do with the exchange keeps it or ends it.
LEMMA ExchangeVersions ==
    ASSUME NEW s \in SubdocIds, up' = up \/ up' = IdleExchange
    PROVE  From(s, up'.sent[s].version) /\ From(s, up'.final[s])
<1>1. IdleExchange.sent[s].version = 0 /\ IdleExchange.final[s] = 0
  BY DEF IdleExchange, NoDocument, NoVersions, EmptyRow
<1> QED
  BY <1>1, VersionsAtHas

\* A step that leaves the requests and the versions on the device alone.
LEMMA RowsOnlyOwned ==
    ASSUME HeaderInv, UNCHANGED <<get, nextVersion>>, NothingPushed', dev'.vers = dev.vers,
           up' = up \/ up' = IdleExchange,
           \A s \in SubdocIds : From(s, rows'[s].version)
    PROVE  HeaderInv'
<1>1. \A s \in SubdocIds : NothingNew(s)
  BY ExchangeVersions, VersionsAtHas DEF NothingNew
<1> QED
  BY <1>1, NothingNewOwned DEF HeaderInv, HeadersNeverOverstate

\* The northbound handlers: a POST brings a version never seen before.
LEMMA WriterOwned ==
    ASSUME ServerTypeOK, UniqueVersions, HeaderInv, NEW w \in Writers,
           WriterStep(w) \/ WriterFails(w),
           UNCHANGED <<dev, get>>, NothingPushed', up' = up \/ up' = IdleExchange
    PROVE  HeaderInv'
<1>0. rows \in [SubdocIds -> Row] /\ nextVersion \in Nat \ {0}
  BY DEF ServerTypeOK, TypeOK, StoreTypeOK, WriterTypeOK
<1>1. ASSUME NEW x \in SubdocIds, NEW v \in 1..nextVersion,
             NEW state \in PostStates, NEW expiry \in PostExpiries,
             PostSubDocument(w, x, v, state, expiry)
      PROVE  HeaderInv'
  <2>1. v = nextVersion /\ nextVersion' = nextVersion + 1
    BY <1>1 DEF PostSubDocument, PostedVersion, UniqueVersions
  <2>2. /\ rows'[x].version = nextVersion
        /\ \A s \in SubdocIds \ {x} : rows'[s] = rows[s]
    BY <1>0, <1>1, <2>1 DEF PostSubDocument, SetSubDocument, NilVersion
  <2>3. ASSUME NEW s \in SubdocIds, NEW u \in VersionsAt(s)'
        PROVE  From(s, u) \/ (s = x /\ u = nextVersion)
    <3>1. \/ u \in {rows'[s].version, dev.vers[s], up'.sent[s].version, up'.final[s]}
          \/ \E h \in GetHandlers : u \in {get[h].doc[s].version, get[h].hdrVers[s]}
      BY <2>3 DEF VersionsAt
    <3>2. From(s, rows'[s].version) \/ (s = x /\ rows'[s].version = nextVersion)
      BY <2>2, VersionsAtHas DEF From
    <3>3. /\ From(s, dev.vers[s])
          /\ \A h \in GetHandlers : From(s, get[h].doc[s].version) /\ From(s, get[h].hdrVers[s])
      BY VersionsAtHas
    <3>4. From(s, up'.sent[s].version) /\ From(s, up'.final[s])
      BY ExchangeVersions
    <3> QED
      BY <3>1, <3>2, <3>3, <3>4 DEF From
  <2>4. VersionsOwned'
    BY <2>1, <2>3, OneNewOwned DEF From, HeaderInv
  <2> QED
    BY <2>4 DEF HeaderInv, HeadersNeverOverstate
<1>2. CASE DeleteDocumentRows(w) \/ \E s \in SubdocIds : DeleteSubDocumentRow(w, s)
  <2>1. \A s \in SubdocIds : rows'[s] = rows[s] \/ rows'[s].version = 0
    BY <1>0, <1>2 DEF DeleteDocumentRows, DeleteDocument, NoDocument, EmptyRow,
                      DeleteSubDocumentRow, DeleteSubDocument
  <2>2. UNCHANGED nextVersion
    BY <1>2 DEF DeleteDocumentRows, DeleteSubDocumentRow
  <2> QED
    BY <2>1, <2>2, VersionsAtHas, RowsOnlyOwned
<1>3. CASE \/ PostReadDocument(w) \/ DeleteReadDocument(w) \/ WriteRootVersion(w)
           \/ DropRootVersion(w) \/ WriterFails(w)
  <2>1. UNCHANGED <<rows, nextVersion>>
    BY <1>3 DEF PostReadDocument, DeleteReadDocument, WriteRootVersion, DropRootVersion,
                WriterFails, storeVars
  <2> QED
    BY <2>1, VersionsAtHas, RowsOnlyOwned
<1> QED
  BY <1>1, <1>2, <1>3 DEF WriterStep
\* The versions of the document are those of the rows.
LEMMA DocumentVersions ==
    \A s \in SubdocIds : From(s, GetDocument(FALSE)[s].version)
<1>1. \A s \in SubdocIds : GetDocument(FALSE)[s].version \in {0, rows[s].version}
  BY DEF GetDocument, EmptyRow
<1> QED
  BY <1>1, VersionsAtHas

\* The versions presented are looked up in the document: a version found
\* there under some name is the version that sub-document has on the device.
LEMMA RebuiltOwned ==
    ASSUME ServerTypeOK, VersionsOwned, HeadersNeverOverstate, NEW h \in GetHandlers,
           NEW vers \in [SubdocIds -> {0} \cup {GetDocument(FALSE)[s].version : s \in SubdocIds}],
           IsRebuiltVersionMap(vers, get[h].hdrVers, GetDocument(FALSE))
    PROVE  \A s \in SubdocIds : vers[s] = 0 \/ vers[s] = get[h].hdrVers[s]
<1> SUFFICES ASSUME NEW s \in SubdocIds, vers[s] # 0 PROVE vers[s] = get[h].hdrVers[s]
  OBVIOUS
<1>1. vers[s] = GetDocument(FALSE)[s].version
  BY DEF IsRebuiltVersionMap
<1>2. PICK t \in SubdocIds : vers[s] = get[h].hdrVers[t]
  BY DEF IsRebuiltVersionMap
<1>3. vers[s] \in VersionsAt(s)
  BY <1>1, DocumentVersions DEF From
<1>4. vers[s] \in VersionsAt(t)
  BY <1>2, VersionsAtHas DEF From
<1>5. s = t
  BY <1>3, <1>4 DEF VersionsOwned
<1> QED
  BY <1>2, <1>5

\* A step of a GET handler.
LEMMA GetOwned ==
    ASSUME ServerTypeOK, HeaderInv, NEW h \in GetHandlers, GetStep(h),
           UNCHANGED nextVersion, NothingPushed', up' = up \/ up' = IdleExchange
    PROVE  HeaderInv'
<1>0. TypeOK /\ VersionsOwned /\ HeadersNeverOverstate
  BY DEF ServerTypeOK, HeaderInv
<1>1. /\ UNCHANGED dev
      /\ \A k \in GetHandlers \ {h} : get'[k] = get[k]
      /\ get'[h].doc \in {get[h].doc, GetDocument(FALSE)}
      /\ get'[h].hdrVers = get[h].hdrVers \/ GetReadDocFirst(h)
      /\ \A s \in SubdocIds : rows'[s].version \in {rows[s].version, get[h].doc[s].version}
  BY <1>0, GetStepKeeps
<1>2. \A s \in SubdocIds : get'[h].hdrVers[s] \in {0, get[h].hdrVers[s]}
  <2>1. CASE GetReadDocFirst(h)
    <3>0. get \in [GetHandlers -> GetRequest]
      BY <1>0 DEF TypeOK, GetTypeOK
    <3>1. CASE Ids(GetDocument(FALSE)) = {}
      <4>1. get' = [get EXCEPT ![h].pc = IF UpstreamEnabled THEN "built" ELSE "reply",
                               ![h].cmp = "version", ![h].status = "404"]
        BY <2>1, <3>1 DEF GetReadDocFirst
      <4> QED
        BY <3>0, <4>1 DEF GetRequest
    <3>2. CASE Ids(GetDocument(FALSE)) # {}
      <4>1. PICK vers \in [SubdocIds -> {0} \cup {GetDocument(FALSE)[s].version : s \in SubdocIds}] :
               /\ IsRebuiltVersionMap(vers, get[h].hdrVers, GetDocument(FALSE))
               /\ get' = [get EXCEPT ![h].pc = "root", ![h].hasDoc = TRUE,
                                     ![h].doc = GetDocument(FALSE), ![h].hdrVers = vers]
        BY <2>1, <3>2, Zenon DEF GetReadDocFirst
      <4>2. \A s \in SubdocIds : vers[s] = 0 \/ vers[s] = get[h].hdrVers[s]
        BY <1>0, <4>1, RebuiltOwned
      <4>3. get'[h].hdrVers = vers
        BY <3>0, <4>1 DEF GetRequest
      <4> QED
        BY <4>2, <4>3
    <3> QED
      BY <3>1, <3>2
  <2> QED
    BY <1>1, <2>1
<1>3. ASSUME NEW s \in SubdocIds PROVE NothingNew(s)
  <2>1. From(s, rows'[s].version) /\ From(s, dev'.vers[s])
    BY <1>1, VersionsAtHas
  <2>2. From(s, up'.sent[s].version) /\ From(s, up'.final[s])
    BY ExchangeVersions
  <2>3. From(s, get'[h].doc[s].version) /\ From(s, get'[h].hdrVers[s])
    BY <1>1, <1>2, DocumentVersions, VersionsAtHas
  <2>4. \A k \in GetHandlers \ {h} : From(s, get'[k].doc[s].version) /\ From(s, get'[k].hdrVers[s])
    BY <1>1, VersionsAtHas
  <2> QED
    BY <2>1, <2>2, <2>3, <2>4 DEF NothingNew
<1>4. VersionsOwned'
  BY <1>0, <1>3, NothingNewOwned
<1>5. HeadersNeverOverstate'
  BY <1>0, <1>1, <1>2 DEF HeadersNeverOverstate
<1> QED
  BY <1>4, <1>5 DEF HeaderInv
\* A step that leaves the rows and the exchange alone.
LEMMA DeviceOnlyOwned ==
    ASSUME HeaderInv, UNCHANGED <<rows, nextVersion>>, NothingPushed', up' = up \/ up' = IdleExchange,
           \A s \in SubdocIds : From(s, dev'.vers[s]),
           \A h \in GetHandlers, s \in SubdocIds :
               /\ get'[h].doc[s].version \in {0, get[h].doc[s].version}
               /\ From(s, get'[h].hdrVers[s]),
           HeadersNeverOverstate'
    PROVE  HeaderInv'
<1>1. \A s \in SubdocIds : NothingNew(s)
  BY ExchangeVersions, VersionsAtHas DEF NothingNew
<1> QED
  BY <1>1, NothingNewOwned DEF HeaderInv

\* Requests and responses.
LEMMA DeviceOwned ==
    ASSUME ServerTypeOK, HeaderInv, UNCHANGED nextVersion, NothingPushed', up' = up \/ up' = IdleExchange,
           \/ \E mismatch \in BOOLEAN : DeviceGet(mismatch)
           \/ \E m \in Metas : MgetGet(m)
           \/ \E applied \in SUBSET SubdocIds : DeviceReceives(applied)
           \/ MgetReceives
           \/ \E h \in GetHandlers : GetFails(h)
    PROVE  HeaderInv'
<1>0. /\ get \in [GetHandlers -> GetRequest] /\ HeadersNeverOverstate
      /\ dev \in DeviceState
  BY DEF ServerTypeOK, TypeOK, GetTypeOK, HeaderInv, DeviceTypeOK
<1>1. \A s \in SubdocIds : IdleGet.doc[s].version = 0 /\ IdleGet.hdrVers[s] = 0
  BY DEF IdleGet, NoDocument, NoVersions, EmptyRow
<1>2. ASSUME NEW h \in GetHandlers, get' = [get EXCEPT ![h] = IdleGet], UNCHANGED <<rows, dev>>
      PROVE  HeaderInv'
  <2>1. \A k \in GetHandlers : get'[k] = get[k] \/ get'[k] = IdleGet
    BY <1>0, <1>2
  <2>2. HeadersNeverOverstate'
    BY <1>0, <1>1, <1>2, <2>1 DEF HeadersNeverOverstate
  <2> QED
    BY <1>1, <1>2, <2>1, <2>2, VersionsAtHas, DeviceOnlyOwned
<1>3. ASSUME NEW mismatch \in BOOLEAN, DeviceGet(mismatch) PROVE HeaderInv'
  <2>1. /\ "device" \in GetHandlers /\ UNCHANGED <<rows, dev>>
        /\ \A k \in GetHandlers \ {"device"} : get'[k] = get[k]
        /\ get'["device"].doc = get["device"].doc /\ get'["device"].hdrVers = dev.vers
    BY <1>0, <1>3 DEF DeviceGet, storeVars, GetRequest
  <2>2. HeadersNeverOverstate'
    BY <2>1 DEF HeadersNeverOverstate
  <2> QED
    BY <2>1, <2>2, VersionsAtHas, DeviceOnlyOwned
<1>4. ASSUME NEW m \in Metas, MgetGet(m) PROVE HeaderInv'
  <2>1. /\ UNCHANGED <<rows, dev>>
        /\ \A k \in GetHandlers : get'[k].doc = get[k].doc /\ get'[k].hdrVers = get[k].hdrVers
    BY <1>0, <1>4 DEF MgetGet, storeVars, deviceVars, GetRequest
  <2>2. HeadersNeverOverstate'
    BY <1>0, <2>1 DEF HeadersNeverOverstate
  <2> QED
    BY <2>1, <2>2, VersionsAtHas, DeviceOnlyOwned
<1>5. ASSUME NEW applied \in SUBSET SubdocIds, DeviceReceives(applied) PROVE HeaderInv'
  <2>0. /\ "device" \in GetHandlers /\ UNCHANGED rows
        /\ get' = [get EXCEPT !["device"] = IdleGet]
    BY <1>5 DEF DeviceReceives, storeVars
  <2>1. \A s \in SubdocIds : dev'.vers[s] \in {dev.vers[s], get["device"].doc[s].version}
    <3>1. CASE UNCHANGED dev
      BY <3>1
    <3>2. CASE ApplyDocument(get["device"].cloudRoot, VersionMap(get["device"].doc),
                             get["device"].send, applied)
      BY <1>0, <3>2 DEF ApplyDocument, VersionMap, DeviceState
    <3> QED
      BY <1>5, <3>1, <3>2 DEF DeviceReceives
  <2>2. \A k \in GetHandlers : get'[k] = get[k] \/ get'[k] = IdleGet
    BY <1>0, <2>0
  <2>3. \A s \in SubdocIds : get'["device"].hdrVers[s] = 0
    BY <1>0, <1>1, <2>0
  <2>4. HeadersNeverOverstate'
    BY <2>3 DEF HeadersNeverOverstate
  <2> QED
    BY <1>1, <2>0, <2>1, <2>2, <2>4, VersionsAtHas, DeviceOnlyOwned
<1>6. CASE MgetReceives
  BY <1>2, <1>6 DEF MgetReceives, storeVars, deviceVars
<1>7. ASSUME NEW h \in GetHandlers, GetFails(h) PROVE HeaderInv'
  BY <1>2, <1>7 DEF GetFails, storeVars, deviceVars
<1> QED
  BY <1>3, <1>4, <1>5, <1>6, <1>7

\* Steps that write states at most.
LEMMA StatesOwned ==
    ASSUME ServerTypeOK, HeaderInv, UNCHANGED <<get, nextVersion>>, NothingPushed',
           up' = up \/ up' = IdleExchange,
           \/ \E c \in Consumers : ReportStep(c) \/ ReportFails(c) \/ ReportCrashes(c)
           \/ \E s \in SubdocIds : Expire(s) /\ UNCHANGED dev
           \/ UNCHANGED <<rows, dev>>
           \/ \E m \in Metas : Upgrade(m) /\ UNCHANGED rows
    PROVE  HeaderInv'
<1>0. rows \in [SubdocIds -> Row] /\ dev \in DeviceState
  BY DEF ServerTypeOK, TypeOK, StoreTypeOK, DeviceTypeOK
<1>1. dev'.vers = dev.vers /\ \A s \in SubdocIds : rows'[s].version = rows[s].version
  <2>1. ASSUME NEW c \in Consumers, ReportStep(c) \/ ReportFails(c) \/ ReportCrashes(c)
        PROVE  UNCHANGED dev /\ \A s \in SubdocIds : rows'[s].version = rows[s].version
    <3>1. UNCHANGED dev
      BY <2>1 DEF ReportStep, ReportFails, ReportCrashes, TakeReport, Read304, MarkDeployed,
                  ReadSubdoc, SetReportedState, deviceVars
    <3>2. CASE UNCHANGED rows
      BY <3>1, <3>2
    <3>3. ASSUME NEW t, NEW state, NEW err, NEW expiry,
                 SetSubDocument(t, NilVersion, state, err, expiry)
          PROVE  \A s \in SubdocIds : rows'[s].version = rows[s].version
      BY <1>0, <3>3 DEF SetSubDocument
    <3>4. CASE SetReportedState(c)
      BY <3>1, <3>3, <3>4 DEF SetReportedState
    <3>5. ASSUME NEW t \in SubdocIds, MarkDeployed(c, t)
          PROVE  \A s \in SubdocIds : rows'[s].version = rows[s].version
      BY <3>3, <3>5 DEF MarkDeployed
    <3> QED
      BY <2>1, <3>1, <3>2, <3>4, <3>5
         DEF ReportStep, ReportFails, ReportCrashes, TakeReport, Read304, ReadSubdoc, storeVars
  <2>2. ASSUME NEW t \in SubdocIds, Expire(t)
        PROVE  \A s \in SubdocIds : rows'[s].version = rows[s].version
    BY <1>0, <2>2 DEF Expire, Row
  <2>3. ASSUME NEW m \in Metas, Upgrade(m) PROVE dev'.vers = dev.vers
    BY <1>0, <2>3 DEF Upgrade, DeviceState
  <2> QED
    BY <2>1, <2>2, <2>3
<1> QED
  BY <1>1, VersionsAtHas, RowsOnlyOwned
\* A step of Webconfig.
LEMMA AloneOwned ==
    ASSUME ServerTypeOK, UniqueVersions, HeaderInv, Alone(Next)
    PROVE  HeaderInv'
<1>0. TypeOK /\ Next /\ (up' = up \/ up' = IdleExchange) /\ NothingPushed'
  BY StepPushesNothing DEF ServerTypeOK, Alone, UniqueVersions, HeaderInv
<1>1. CASE WriterTurn
  BY <1>0, <1>1, WriterOwned DEF WriterTurn, deviceVars, pokeVars
<1>2. CASE ServeTurn
  BY <1>0, <1>2, GetOwned DEF ServeTurn, writerVars, pokeVars
<1>3. CASE RequestTurn
  BY <1>0, <1>3, DeviceOwned DEF RequestTurn, writerVars, pokeVars
<1>4. CASE ReportTurn
  BY <1>0, <1>4, StatesOwned DEF ReportTurn, writerVars, pokeVars
<1>5. CASE PokeTurn
  <2>1. PICK p \in Pokers : PokeStep(p) \/ PokeFails(p)
    BY <1>5 DEF PokeTurn, HeaderInv, NothingPushed
  <2>2. UNCHANGED <<rows, dev>>
    BY <1>0, <2>1, PokePrompts DEF UniqueVersions, HeaderInv
  <2> QED
    BY <1>0, <1>5, <2>2, StatesOwned DEF PokeTurn, writerVars
<1>6. CASE ClockTurn
  BY <1>0, <1>6, StatesOwned
     DEF ClockTurn, LockRunsOut, LockRootDocument, writerVars, deviceVars, pokeVars
<1>7. CASE UpgradeTurn
  BY <1>0, <1>7, StatesOwned DEF UpgradeTurn, storeVars, writerVars, pokeVars
<1> QED
  BY <1>0, <1>1, <1>2, <1>3, <1>4, <1>5, <1>6, <1>7, Turns

\* An exchange copies versions between the tables, the request and upstream.
LEMMA ExchangesOwned ==
    ASSUME ServerTypeOK, HeaderInv, UpstreamStep, UNCHANGED nextVersion, NothingPushed'
    PROVE  HeaderInv'
<1>0. /\ get \in [GetHandlers -> GetRequest] /\ get["device"] \in GetRequest
      /\ up \in Exchange /\ rows \in [SubdocIds -> Row]
      /\ VersionsOwned /\ HeadersNeverOverstate
  BY ServerAssumption DEF ServerTypeOK, TypeOK, GetTypeOK, UpstreamTypeOK, StoreTypeOK, HeaderInv
<1> DEFINE Copies ==
      /\ dev'.vers = dev.vers
      /\ \A s \in SubdocIds :
            /\ rows'[s].version \in {0, rows[s].version, up.final[s]}
            /\ From(s, up'.sent[s].version)
            /\ up'.final[s] \in {0, up.final[s]}
            /\ \A h \in GetHandlers :
                  /\ get'[h].doc[s].version \in {get[h].doc[s].version, up.final[s]}
                  /\ get'[h].hdrVers = get[h].hdrVers
<1>1. Copies => HeaderInv'
  <2> SUFFICES ASSUME Copies PROVE HeaderInv'
    OBVIOUS
  <2>1. \A s \in SubdocIds : NothingNew(s)
    BY VersionsAtHas DEF NothingNew
  <2>2. HeadersNeverOverstate'
    BY <1>0 DEF HeadersNeverOverstate
  <2> QED
    BY <1>0, <2>1, <2>2, NothingNewOwned DEF HeaderInv
<1>2. \A s \in SubdocIds : IdleExchange.sent[s].version = 0 /\ IdleExchange.final[s] = 0
  BY DEF IdleExchange, NoDocument, NoVersions, EmptyRow
<1>3. ASSUME NEW h \in GetHandlers, UpstreamDecide(h) PROVE Copies
  <2>0. UNCHANGED <<rows, dev>>
    BY <1>3 DEF UpstreamDecide, storeVars, deviceVars
  <2>1. ASSUME NEW g, get' = [get EXCEPT ![h] = g], g.doc = get[h].doc, g.hdrVers = get[h].hdrVers,
               up' = up
        PROVE  Copies
    <3>1. \A k \in GetHandlers : get'[k].doc = get[k].doc /\ get'[k].hdrVers = get[k].hdrVers
      BY <1>0, <2>1
    <3> QED
      BY <2>0, <2>1, <3>1, VersionsAtHas
  <2>2. CASE get' = [get EXCEPT ![h] = [get[h] EXCEPT !.pc = "reply", !.status = "409"]] /\ UNCHANGED up
    BY <1>0, <2>1, <2>2 DEF GetRequest
  <2>3. CASE get' = [get EXCEPT ![h] = AnswerMget(get[h])] /\ UNCHANGED up
    <3>1. AnswerMget(get[h]).doc = get[h].doc /\ AnswerMget(get[h]).hdrVers = get[h].hdrVers
      BY <1>0 DEF AnswerMget, GetRequest
    <3> QED
      BY <2>1, <2>3, <3>1
  <2>4. CASE get' = [get EXCEPT ![h] = AnswerFromTables(get[h])] /\ UNCHANGED up
    <3>1. /\ AnswerFromTables(get[h]).doc = get[h].doc
          /\ AnswerFromTables(get[h]).hdrVers = get[h].hdrVers
      BY <1>0 DEF AnswerFromTables, GetRequest
    <3> QED
      BY <2>1, <2>4, <3>1
  <2>5. CASE /\ up' = [IdleExchange EXCEPT !.pc = "post", !.root = DocumentRoot(get[h]),
                                           !.sent = Restricted(get[h].doc, Outgoing(get[h]))]
             /\ get' = [get EXCEPT ![h].pc = "upstream"]
    <3>1. \A k \in GetHandlers : get'[k].doc = get[k].doc /\ get'[k].hdrVers = get[k].hdrVers
      BY <1>0, <2>5 DEF GetRequest
    <3>2. \A s \in SubdocIds : up'.final[s] = 0
      BY <1>2, <2>5, IdleTypes DEF Exchange
    <3>3. up'.sent = Restricted(get[h].doc, Outgoing(get[h]))
      BY <2>5, IdleTypes DEF Exchange
    <3>4. \A s \in SubdocIds : up'.sent[s].version \in {0, get[h].doc[s].version}
      BY <3>3 DEF Restricted, EmptyRow
    <3> QED
      BY <2>0, <3>1, <3>2, <3>4, VersionsAtHas
  <2> QED
    BY <1>3, <2>2, <2>3, <2>4, <2>5 DEF UpstreamDecide
<1>4. ASSUME ResetReadRoot \/ ResetStoreRoot \/ StoreUpstreamRoot PROVE Copies
  <2>1. UNCHANGED <<rows, dev, get>>
    BY <1>4 DEF ResetReadRoot, ResetStoreRoot, StoreUpstreamRoot, storeVars, deviceVars
  <2>2. up'.sent = up.sent /\ up'.final = up.final
    BY <1>0, <1>4 DEF ResetReadRoot, ResetStoreRoot, StoreUpstreamRoot, Exchange
  <2> QED
    BY <2>1, <2>2, VersionsAtHas
<1>5. ASSUME NEW g, Reply(g), g.hdrVers = get["device"].hdrVers, UNCHANGED dev,
             g \in GetRequest,
             \A s \in SubdocIds : /\ g.doc[s].version \in {get["device"].doc[s].version, up.final[s]}
                                  /\ rows'[s].version \in {0, rows[s].version}
      PROVE  Copies
  <2>1. get' = [get EXCEPT !["device"] = [g EXCEPT !.pc = "reply"]] /\ up' = IdleExchange
    BY <1>5 DEF Reply
  <2>2. [g EXCEPT !.pc = "reply"].doc = g.doc /\ [g EXCEPT !.pc = "reply"].hdrVers = g.hdrVers
    BY <1>5 DEF GetRequest
  <2>3. /\ get'["device"].doc = g.doc /\ get'["device"].hdrVers = g.hdrVers
        /\ \A k \in GetHandlers \ {"device"} : get'[k] = get[k]
    BY <1>0, <2>1, <2>2, ServerAssumption
  <2> QED
    BY <1>2, <1>5, <2>1, <2>3, VersionsAtHas
<1>6. LET g == [get["device"] EXCEPT !.status = "404"]
      IN  g \in GetRequest /\ g.doc = get["device"].doc /\ g.hdrVers = get["device"].hdrVers
  BY <1>0 DEF GetRequest, StatusCode
<1>7. ASSUME ResetReadDocument PROVE Copies
  <2>0. UNCHANGED <<rows, dev>>
    BY <1>7 DEF ResetReadDocument, storeVars, deviceVars
  <2>1. CASE Reply([get["device"] EXCEPT !.status = "404"])
    BY <1>5, <1>6, <2>0, <2>1
  <2>2. CASE /\ up' = [up EXCEPT !.sent = GetDocument(FALSE),
                                 !.pc = IF UpstreamEnabled THEN "post" ELSE "resetdelete"]
             /\ UNCHANGED get
    <3>1. up'.sent = GetDocument(FALSE) /\ up'.final = up.final
      BY <1>0, <2>2 DEF Exchange
    <3> QED
      BY <2>0, <2>2, <3>1, DocumentVersions
  <2> QED
    BY <1>7, <2>1, <2>2 DEF ResetReadDocument
<1>8. ASSUME ResetDelete PROVE Copies
  <2>1. \A s \in SubdocIds : rows'[s].version = 0
    BY <1>8 DEF ResetDelete, DeleteDocument, NoDocument, EmptyRow
  <2> QED
    BY <1>5, <1>6, <1>8, <2>1 DEF ResetDelete, deviceVars
<1>9. ASSUME NEW x \in SubdocIds, WriteUpstreamRow(x) \/ DeleteUpstreamRow(x) PROVE Copies
  <2>1. up'.sent = up.sent /\ up'.final = up.final /\ UNCHANGED <<dev, get>>
    BY <1>0, <1>9 DEF WriteUpstreamRow, DeleteUpstreamRow, Exchange, deviceVars
  <2>2. \A s \in SubdocIds : rows'[s].version \in {0, rows[s].version, up.final[s]}
    BY <1>0, <1>9 DEF WriteUpstreamRow, DeleteUpstreamRow, SetSubDocument, DeleteSubDocument, EmptyRow
  <2> QED
    BY <2>1, <2>2, VersionsAtHas
<1>10. ASSUME UpstreamRespond PROVE Copies
  <2>0. UNCHANGED <<rows, dev>>
    BY <1>10 DEF UpstreamRespond, storeVars, deviceVars
  <2>1. PICK send, status :
           Reply([get["device"] EXCEPT !.doc = FinalDocument, !.cloudRoot = up.etag,
                                       !.send = send, !.status = status])
    BY <1>10, Zenon DEF UpstreamRespond
  <2>2. up' = IdleExchange
    BY <2>1 DEF Reply
  <2>3. /\ get'["device"].doc = FinalDocument /\ get'["device"].hdrVers = get["device"].hdrVers
        /\ \A k \in GetHandlers \ {"device"} : get'[k] = get[k]
    <3> DEFINE doc == FinalDocument
    <3>1. get' = [get EXCEPT !["device"] =
                     [[get["device"] EXCEPT !.doc = doc, !.cloudRoot = up.etag,
                                            !.send = send, !.status = status]
                      EXCEPT !.pc = "reply"]]
      BY <2>1 DEF Reply
    <3> HIDE DEF doc
    <3>2. /\ get'["device"].doc = doc /\ get'["device"].hdrVers = get["device"].hdrVers
          /\ \A k \in GetHandlers \ {"device"} : get'[k] = get[k]
      BY <1>0, <3>1, ServerAssumption DEF GetRequest
    <3> QED
      BY <3>2 DEF doc
  <2>4. \A s \in SubdocIds : FinalDocument[s].version = up.final[s]
    BY DEF FinalDocument, EmptyRow
  <2> QED
    BY <1>2, <2>0, <2>2, <2>3, <2>4, VersionsAtHas
<1> QED
  BY <1>1, <1>3, <1>4, <1>7, <1>8, <1>9, <1>10 DEF UpstreamStep

\* Upstream's answer: the versions it was sent, and at most one new one.
LEMMA AnswerOwned ==
    ASSUME ServerTypeOK, HeaderInv, NEW skip \in BOOLEAN,
           NEW final \in [SubdocIds -> {0, nextVersion} \cup {up.sent[s].version : s \in SubdocIds}],
           PostUpstream(final, skip), NothingPushed'
    PROVE  HeaderInv'
<1> DEFINE new  == {s \in SubdocIds : final[s] # 0 /\ final[s] # up.sent[s].version}
           kept == [s \in SubdocIds |->
                       IF up.op = "reset" /\ s \in Blocked THEN 0 ELSE final[s]]
<1>0. /\ up \in Exchange /\ VersionsOwned /\ HeadersNeverOverstate
      /\ UNCHANGED <<rows, dev, get>>
  BY DEF ServerTypeOK, UpstreamTypeOK, HeaderInv, PostUpstream, storeVars, deviceVars
<1>1. /\ Cardinality(new) <= 1
      /\ \A s \in new : final[s] = nextVersion
      /\ nextVersion' = IF new = {} THEN nextVersion ELSE nextVersion + 1
  BY DEF PostUpstream, UpstreamVersions
<1>2. up'.sent = up.sent /\ up'.final = kept
  <2>1. \E pc, todo, dels, etag :
           up' = [up EXCEPT !.etag = etag, !.final = kept, !.skip = skip,
                            !.pc = pc, !.todo = todo, !.dels = dels]
    BY Zenon DEF PostUpstream
  <2> HIDE DEF kept
  <2> QED
    BY <1>0, <2>1 DEF Exchange
<1>3. \A s \in SubdocIds : s \notin new => kept[s] \in {0, up.sent[s].version}
  OBVIOUS
<1>4. \A s \in SubdocIds : s \in new => kept[s] \in {0, nextVersion}
  BY <1>1
<1> HIDE DEF kept
<1>5. HeadersNeverOverstate'
  BY <1>0 DEF HeadersNeverOverstate
<1>6. ASSUME NEW s \in SubdocIds, NEW v \in VersionsAt(s)'
      PROVE  From(s, v) \/ (s \in new /\ v = nextVersion)
  <2>1. \/ v \in {rows[s].version, dev.vers[s], up.sent[s].version, kept[s]}
        \/ \E h \in GetHandlers : v \in {get[h].doc[s].version, get[h].hdrVers[s]}
    BY <1>0, <1>2, <1>6 DEF VersionsAt
  <2>2. From(s, kept[s]) \/ (s \in new /\ kept[s] = nextVersion)
    BY <1>3, <1>4, VersionsAtHas
  <2>3. /\ From(s, rows[s].version) /\ From(s, dev.vers[s]) /\ From(s, up.sent[s].version)
        /\ \A h \in GetHandlers : From(s, get[h].doc[s].version) /\ From(s, get[h].hdrVers[s])
    BY VersionsAtHas
  <2> QED
    BY <2>1, <2>2, <2>3
<1>7. CASE new = {}
  <2>1. \A s \in SubdocIds : VersionsAt(s)' \subseteq VersionsAt(s) \cup {0}
    BY <1>6, <1>7 DEF From
  <2> QED
    BY <1>0, <1>1, <1>5, <1>7, <2>1 DEF VersionsOwned, HeaderInv
<1>8. CASE new # {}
  <2>1. PICK x \in new : TRUE
    BY <1>8
  <2>2. IsFiniteSet(new)
    BY FS_Subset, StoreAssumption
  <2>3. Cardinality(new \ {x}) = Cardinality(new) - 1 /\ IsFiniteSet(new \ {x})
    BY <2>1, <2>2, FS_RemoveElement
  <2>4. Cardinality(new \ {x}) = 0
    BY <1>1, <2>2, <2>3, FS_CardinalityType
  <2>5. new = {x}
    BY <2>1, <2>3, <2>4, FS_EmptySet
  <2>6. \A s \in SubdocIds : VersionsAt(s)' \subseteq
            VersionsAt(s) \cup {0} \cup (IF s = x THEN {nextVersion} ELSE {})
    BY <1>6, <2>5 DEF From
  <2> HIDE DEF new
  <2>7. VersionsOwned'
    BY <1>0, <1>1, <1>8, <2>1, <2>6, OneNewOwned DEF new
  <2> QED
    BY <1>5, <2>7 DEF HeaderInv
<1> QED
  BY <1>7, <1>8

LEMMA HeaderInit == ServerInit => HeaderInv
<1> SUFFICES ASSUME ServerInit PROVE HeaderInv
  OBVIOUS
<1>1. /\ rows = NoDocument /\ up = IdleExchange /\ dev.vers = NoVersions
      /\ NothingPushed
      /\ get = [h \in GetHandlers |-> IdleGet]
  BY DEF ServerInit, Init, StoreInit, UpstreamInit, DeviceInit, GetInit, PokeInit,
         NothingPushed, IdlePoke
<1>2. \A s \in SubdocIds : VersionsAt(s) \subseteq {0}
  BY <1>1 DEF VersionsAt, NoDocument, NoVersions, IdleExchange, IdleGet, EmptyRow
<1>3. HeadersNeverOverstate
  BY <1>1 DEF HeadersNeverOverstate, IdleGet, NoVersions
<1> QED
  BY <1>1, <1>2, <1>3 DEF HeaderInv, VersionsOwned

LEMMA HeaderStep ==
    ASSUME ServerTypeOK, UniqueVersions, HeaderInv, [ServerNext]_serverVars
    PROVE  HeaderInv'
<1>0. ASSUME UNCHANGED pokeVars PROVE NothingPushed'
  BY <1>0 DEF HeaderInv, NothingPushed, pokeVars
<1>1. CASE Alone(Next)
  BY <1>1, AloneOwned
<1>2. CASE Exchanges
  BY <1>0, <1>2, ExchangesOwned DEF Exchanges, writerVars
<1>3. CASE UpstreamAnswers
  BY <1>0, <1>3, AnswerOwned DEF UpstreamAnswers
<1>4. CASE FactoryReset
  <2>0. get \in [GetHandlers -> GetRequest] /\ dev \in DeviceState
    BY DEF ServerTypeOK, TypeOK, GetTypeOK, DeviceTypeOK
  <2>1. /\ UNCHANGED <<rows, nextVersion>> /\ dev'.vers = NoVersions
        /\ up' = [IdleExchange EXCEPT !.pc = "resetroot", !.op = "reset"]
        /\ get' = [get EXCEPT !["device"] = [IdleGet EXCEPT !.pc = "upstream", !.meta = dev.meta]]
    BY <1>4, <2>0 DEF FactoryReset, DeviceResets, DeviceState, storeVars, writerVars
  <2>2. /\ up'.sent = NoDocument /\ up'.final = NoVersions
        /\ get'["device"].doc = NoDocument /\ get'["device"].hdrVers = NoVersions
        /\ \A k \in GetHandlers \ {"device"} : get'[k] = get[k]
    BY <2>0, <2>1, ServerAssumption DEF IdleExchange, IdleGet
  <2>3. \A s \in SubdocIds : NoDocument[s].version = 0 /\ NoVersions[s] = 0
    BY DEF NoDocument, NoVersions, EmptyRow
  <2>4. \A s \in SubdocIds : NothingNew(s)
    BY <2>1, <2>2, <2>3, VersionsAtHas DEF NothingNew
  <2>5. HeadersNeverOverstate'
    BY <2>2, <2>3 DEF HeadersNeverOverstate
  <2> QED
    BY <1>0, <1>4, <2>1, <2>4, <2>5, NothingNewOwned DEF HeaderInv, FactoryReset
<1>5. CASE UNCHANGED serverVars
  BY <1>0, <1>5, StatesOwned
     DEF serverVars, vars, upstreamVars, storeVars, writerVars, deviceVars
<1> QED
  BY <1>1, <1>2, <1>3, <1>4, <1>5 DEF ServerNext

(* HeaderInv is an invariant when every POST has a new version and nothing *)
(* is pushed: GetDocument, the rows state correction writes back, the      *)
(* document posted to upstream and its answer carry a version from place   *)
(* to place, always under the name it was first posted with.               *)
THEOREM HeaderInvariant == ASSUME UniqueVersions PROVE ServerSpec => []HeaderInv
<1>1. ServerInit => HeaderInv
  BY HeaderInit
<1>2. ServerTypeOK /\ HeaderInv /\ [ServerNext]_serverVars => HeaderInv'
  BY HeaderStep
<1> QED
  BY <1>1, <1>2, ServerTypeCorrect, PTL DEF ServerSpec

(* RebuildDeviceVersionMap (db/service.go), which guesses names from bare  *)
(* versions, credits the device with no version it does not have, for any  *)
(* number of sub-documents, versions, failures and factory resets          *)
(* (HeadersNeverOverstate).                                                *)
THEOREM HeadersRight == ASSUME UniqueVersions PROVE ServerSpec => []HeadersNeverOverstate
<1>1. HeaderInv => HeadersNeverOverstate
  BY DEF HeaderInv
<1> QED
  BY <1>1, HeaderInvariant, PTL
-----------------------------------------------------------------------------
(* An exchange stores what upstream answered.                              *)

\* The rows and the root version, as far as a request has read them.
TablesKept == RowsKept /\ root'.version = root.version

\* What was just read is in the tables.
LEMMA DocumentFits == Fits(GetDocument(FALSE))
BY DEF Fits, GetDocument, Current, InDocument, EmptyRow

\* Once BuildGetDocument has all it wants ...
LEMMA DecideThere ==
    ASSUME NEW h, NEW g \in GetRequest, g.status = "none", RootFits(g.cloudRoot),
           Fits(g.doc) \/ g.cmp = "equals"
    PROVE  /\ StillThere(Decide(h, g))
           /\ Decide(h, g).pc \in {"built", "update", "reply"}
<1>1. CASE UpstreamEnabled
  <2> DEFINE d == Decide(h, g)
  <2>1. d = [g EXCEPT !.pc = "built"]
    BY <1>1 DEF Decide
  <2>2. /\ d.pc = "built" /\ d.status = "none" /\ d.cmp = g.cmp /\ d.doc = g.doc
        /\ d.cloudRoot = g.cloudRoot
    BY <2>1 DEF GetRequest
  <2> HIDE DEF d
  <2>3. Posts(d) => Fits(d.doc)
    BY <2>2 DEF Posts, NotFound
  <2>4. RootFits(DocumentRoot(d))
    BY <2>2 DEF DocumentRoot, RootFits
  <2>5. StillThere(d)
    BY <2>2, <2>3, <2>4 DEF StillThere
  <2> QED
    BY <2>2, <2>5 DEF d
<1>2. CASE ~UpstreamEnabled
  <2>1. Decide(h, g).pc \in {"update", "reply"}
    BY <1>2 DEF Decide, Answered, GetRequest
  <2> QED
    BY <2>1 DEF StillThere
<1> QED
  BY <1>1, <1>2

\* ... once it has the document ...
LEMMA AfterDocumentThere ==
    ASSUME NEW h, NEW g \in GetRequest, g.status = "none", RootFits(g.cloudRoot),
           g.hasDoc, Fits(g.doc)
    PROVE  /\ StillThere(AfterDocument(h, g))
           /\ AfterDocument(h, g).pc \in {"correct", "built", "update", "reply"}
<1>1. CASE StateCorrectionEnabled /\ Correctable(g) # {}
  <2> DEFINE d == AfterDocument(h, g)
  <2>1. d = [g EXCEPT !.pc = "correct", !.todo = Correctable(g)]
    BY <1>1 DEF AfterDocument
  <2>2. /\ d.pc = "correct" /\ d.status = "none" /\ d.doc = g.doc /\ d.hasDoc
        /\ d.cloudRoot = g.cloudRoot /\ d.todo = Correctable(g)
    BY <2>1 DEF GetRequest
  <2>3. Correctable(g) \subseteq Ids(g.doc)
    BY DEF Correctable
  <2> HIDE DEF d
  <2> QED
    BY <2>2, <2>3 DEF StillThere, d
<1>2. CASE ~(StateCorrectionEnabled /\ Correctable(g) # {})
  <2>1. AfterDocument(h, g) = Decide(h, g)
    BY <1>2 DEF AfterDocument
  <2> QED
    BY <2>1, DecideThere
<1> QED
  BY <1>1, <1>2

\* ... and once it has the root document.
LEMMA AfterRootThere ==
    ASSUME NEW h, NEW g \in GetRequest, g.status = "none", RootFits(g.cloudRoot),
           g.hasDoc => Fits(g.doc)
    PROVE  /\ StillThere(AfterRoot(h, g))
           /\ AfterRoot(h, g).pc \in {"doc", "correct", "built", "update", "reply"}
<1>1. CASE ~g.hasDoc /\ (StateCorrectionEnabled \/ g.cmp # "equals")
  <2>1. AfterRoot(h, g) = [g EXCEPT !.pc = "doc"]
    BY <1>1 DEF AfterRoot
  <2> QED
    BY <1>1, <2>1 DEF GetRequest, StillThere
<1>2. CASE g.hasDoc
  <2>1. AfterRoot(h, g) = AfterDocument(h, g)
    BY <1>2 DEF AfterRoot
  <2> QED
    BY <1>2, <2>1, AfterDocumentThere
<1>3. CASE ~g.hasDoc /\ ~(StateCorrectionEnabled \/ g.cmp # "equals")
  <2>1. AfterRoot(h, g) = Decide(h, g)
    BY <1>3 DEF AfterRoot
  <2> QED
    BY <1>3, <2>1, DecideThere
<1> QED
  BY <1>1, <1>2, <1>3

\* What is in the tables stays there when they are kept.
LEMMA KeptRequest ==
    ASSUME TablesKept, NEW g, get'["device"] = g, StillThere(g)
    PROVE  RequestFits'
<1>1. ASSUME NEW doc, Fits(doc) PROVE Fits(doc)'
  BY <1>1 DEF Fits, TablesKept, RowsKept
<1>2. ASSUME NEW r, RootFits(r) PROVE RootFits(r)'
  BY <1>2 DEF RootFits, TablesKept
<1>3. Fits(g.doc) => Fits(g.doc)'
  BY <1>1
<1>4. /\ RootFits(g.cloudRoot) => RootFits(g.cloudRoot)'
      /\ RootFits(DocumentRoot(g)) => RootFits(DocumentRoot(g))'
  BY <1>2
<1>5. StillThere(g)'
  BY <1>3, <1>4 DEF StillThere
<1> QED
  BY <1>5 DEF RequestFits

LEMMA KeptExchange ==
    ASSUME TablesKept, ExchangeFits, UNCHANGED up
    PROVE  ExchangeFits'
BY DEF TablesKept, RowsKept, ExchangeFits, RootFits

LEMMA NoExchange ==
    ASSUME up' = IdleExchange
    PROVE  ExchangeFits' /\ up'.pc = "idle"
BY DEF ExchangeFits, IdleExchange
\* Reports, pokes, the clock and upgrades keep the tables as a request has
\* read them, unless a report may bring an expired row back.
LEMMA QuietTurns ==
    ASSUME TypeOK, PrecookSubdocs = {}, ReportTurn \/ PokeTurn \/ ClockTurn \/ UpgradeTurn
    PROVE  TablesKept /\ UNCHANGED get
<1>0. StoreTypeOK /\ rows \in [SubdocIds -> Row] /\ root \in RootRow
  BY DEF TypeOK, StoreTypeOK
<1>1. ASSUME UNCHANGED storeVars PROVE TablesKept
  BY <1>1, SameRowsKeepRows DEF storeVars, TablesKept
<1>2. ASSUME NEW s \in SubdocIds, NEW state, NEW err,
             SetSubDocument(s, NilVersion, state, err, "nil"), UNCHANGED root
      PROVE  TablesKept
  BY <1>0, <1>2, SetStateKeepsRows DEF TablesKept
<1>3. CASE ReportTurn
  <2>1. PICK c \in Consumers : ReportStep(c) \/ ReportFails(c) \/ ReportCrashes(c)
    BY <1>3 DEF ReportTurn
  <2>2. ASSUME NEW s \in SubdocIds, MarkDeployed(c, s) PROVE TablesKept
    BY <1>2, <2>2 DEF MarkDeployed
  <2>3. ASSUME SetReportedState(c) PROVE TablesKept
    <3>1. rep[c].event.subdoc \in SubdocIds
      BY <2>3 DEF SetReportedState, TypeOK, ReportTypeOK, SubdocEvent
    <3> QED
      BY <1>2, <2>3, <3>1 DEF SetReportedState
  <2>4. TablesKept
    BY <1>1, <2>1, <2>2, <2>3
       DEF ReportStep, ReportFails, ReportCrashes, TakeReport, Read304, ReadSubdoc
  <2> QED
    BY <1>3, <2>4 DEF ReportTurn
<1>4. CASE PokeTurn
  <2>1. ASSUME NEW p \in Pokers, NEW s \in SubdocIds, PokeMarkInDeployment(p, s) PROVE TablesKept
    BY <1>2, <2>1 DEF PokeMarkInDeployment
  <2>2. ASSUME NEW p \in Pokers, PokeStep(p) \/ PokeFails(p) PROVE TablesKept
    BY <1>1, <2>1, <2>2
       DEF PokeStep, PokeFails, PokeReadDocument, PokeReadRoot, PokePostMqtt, PokeCpeAction, PokeWebpa
  <2>3. TablesKept
    BY <1>1, <1>4, <2>2 DEF PokeTurn, PushArrives
  <2> QED
    BY <1>4, <2>3 DEF PokeTurn
<1>5. CASE ClockTurn
  <2>1. ASSUME NEW s \in SubdocIds, Expire(s) PROVE TablesKept
    BY <1>0, <2>1 DEF Expire, TablesKept, RowsKept, Current, InDocument, Row
  <2>2. ASSUME LockRunsOut \/ LockRootDocument PROVE TablesKept
    BY <1>0, <2>2, SameRowsKeepRows DEF LockRunsOut, LockRootDocument, TablesKept, RootRow
  <2> QED
    BY <1>5, <2>1, <2>2 DEF ClockTurn
<1>6. CASE UpgradeTurn
  BY <1>1, <1>6 DEF UpgradeTurn
<1> QED
  BY <1>3, <1>4, <1>5, <1>6

\* A northbound call never stands still.
LEMMA WriterMoves ==
    ASSUME TypeOK, WriterTurn
    PROVE  nb' # nb
<1>0. nb \in [Writers -> Writer]
  BY DEF TypeOK, WriterTypeOK
<1>1. PICK w \in Writers : WriterStep(w) \/ WriterFails(w)
  BY DEF WriterTurn
<1>2. nb'[w].pc # nb[w].pc
  <2>1. CASE WriterFails(w)
    BY <1>0, <2>1 DEF WriterFails, IdleWriter
  <2>2. CASE \E s \in SubdocIds, v \in 1..nextVersion, state \in PostStates, expiry \in PostExpiries :
               PostSubDocument(w, s, v, state, expiry)
    BY <1>0, <2>2 DEF PostSubDocument, IdleWriter
  <2>3. CASE PostReadDocument(w)
    <3>1. \E vr : nb' = [nb EXCEPT ![w].pc = "root", ![w].newRoot = vr]
      BY <2>3, Zenon DEF PostReadDocument
    <3> QED
      BY <1>0, <2>3, <3>1 DEF PostReadDocument, Writer
  <2>4. CASE (\E s \in SubdocIds : DeleteSubDocumentRow(w, s)) \/ DeleteDocumentRows(w)
    BY <1>0, <2>4 DEF DeleteSubDocumentRow, DeleteDocumentRows, IdleWriter
  <2>5. CASE DeleteReadDocument(w)
    <3>1. \E vr : \E pc \in {"root", "droproot"} : nb' = [nb EXCEPT ![w].pc = pc, ![w].newRoot = vr]
      BY <2>5 DEF DeleteReadDocument
    <3> QED
      BY <1>0, <2>5, <3>1 DEF DeleteReadDocument, Writer
  <2>6. CASE WriteRootVersion(w) \/ DropRootVersion(w)
    BY <1>0, <2>6 DEF WriteRootVersion, DropRootVersion, IdleWriter
  <2> QED
    BY <1>1, <2>1, <2>2, <2>3, <2>4, <2>5, <2>6 DEF WriterStep
<1> QED
  BY <1>2

\* The step of a GET that corrects no state.
LEMMA ServeKeeps ==
    ASSUME TypeOK, NEW h \in GetHandlers, GetStep(h), get[h].pc # "correct"
    PROVE  TablesKept
<1>0. StoreTypeOK /\ root \in RootRow
  BY DEF TypeOK, StoreTypeOK
<1>1. ASSUME UNCHANGED storeVars PROVE TablesKept
  BY <1>1, SameRowsKeepRows DEF storeVars, TablesKept
<1>2. ASSUME GetStoreMeta(h) PROVE TablesKept
  BY <1>0, <1>2, SameRowsKeepRows DEF GetStoreMeta, SetRootDocument, TablesKept, RootRow
<1>3. ASSUME NEW s \in SubdocIds, MarkInDeployment(h, s) PROVE TablesKept
  BY <1>0, <1>3, SetStateKeepsRows DEF MarkInDeployment, TablesKept
<1> QED
  BY <1>1, <1>2, <1>3 DEF GetStep, GetReadDocFirst, GetReadRoot, GetReadDocument, CorrectState
\* where a request goes from where it has read something; one that presents
\* no versions corrects no state
Onward(g) == {"root", "create", "meta", "doc", "built", "update", "reply"}
                \cup (IF g.hdrVers = NoVersions THEN {} ELSE {"correct"})

LEMMA DecideOnward ==
    ASSUME NEW h, NEW g \in GetRequest
    PROVE  /\ Decide(h, g).pc \in Onward(g)
           /\ AfterDocument(h, g).pc \in Onward(g)
           /\ AfterRoot(h, g).pc \in Onward(g)
<1>1. Decide(h, g).pc \in {"built", "update", "reply"}
  BY DEF Decide, Answered, GetRequest
<1>2. Correctable(g) # {} => g.hdrVers # NoVersions
  BY DEF Correctable, Ids, NoVersions
<1>3. AfterDocument(h, g).pc \in Onward(g)
  BY <1>1, <1>2 DEF AfterDocument, Onward, GetRequest
<1>4. AfterRoot(h, g).pc \in Onward(g)
  BY <1>1, <1>3 DEF AfterRoot, Onward, GetRequest
<1> QED
  BY <1>1, <1>3, <1>4 DEF Onward

\* A request that waits for its response, or for upstream, takes no step, and
\* one that takes a step goes on.
LEMMA ServeOnward ==
    ASSUME TypeOK, NEW h \in GetHandlers, GetStep(h)
    PROVE  /\ get[h].pc \in {"predoc", "correct"} \/ get'[h].pc \in Onward(get[h])
           /\ get'[h].pc \notin {"idle", "predoc", "upstream"}
           /\ get[h].pc \notin {"idle", "built", "upstream", "reply"}
<1>0. get \in [GetHandlers -> GetRequest] /\ get[h] \in GetRequest /\ StoreTypeOK
  BY DEF TypeOK, GetTypeOK
<1>a. Onward(get[h]) \cap {"idle", "predoc", "upstream"} = {}
  BY DEF Onward
<1>1. CASE GetReadDocFirst(h)
  <2>1. ASSUME Ids(GetDocument(FALSE)) = {} PROVE get'[h].pc \in {"built", "reply"}
    <3>1. get' = [get EXCEPT ![h].pc = IF UpstreamEnabled THEN "built" ELSE "reply",
                             ![h].cmp = "version", ![h].status = "404"]
      BY <1>1, <2>1 DEF GetReadDocFirst
    <3> QED
      BY <1>0, <3>1 DEF GetRequest
  <2>2. ASSUME Ids(GetDocument(FALSE)) # {} PROVE get'[h].pc = "root"
    <3>1. \E doc, vers : get' = [get EXCEPT ![h].pc = "root", ![h].hasDoc = TRUE,
                                            ![h].doc = doc, ![h].hdrVers = vers]
      BY <1>1, <2>2, Zenon DEF GetReadDocFirst
    <3> QED
      BY <1>0, <3>1 DEF GetRequest
  <2> QED
    BY <1>1, <2>1, <2>2 DEF GetReadDocFirst
<1>2. CASE GetReadRoot(h)
  <2> DEFINE m == IF root.exists THEN root.meta ELSE get[h].meta
             v == IF root.exists THEN root.version ELSE NoRoot
             g == [get[h] EXCEPT !.cloudRoot = v, !.cloudMeta = m,
                                 !.locked = root.exists /\ root.locked,
                                 !.cmp = Compare(h, v, m, get[h].hdrRoot, get[h].meta)]
  <2>1. m \in MetaColumn /\ v \in RootVersion /\ (root.exists /\ root.locked) \in BOOLEAN
    BY <1>0, EmptyTypes DEF StoreTypeOK, RootRow, GetRequest
  <2>2. Compare(h, v, m, get[h].hdrRoot, get[h].meta) \in Comparison
    BY DEF Compare, Comparison
  <2>3. get' = [get EXCEPT ![h] = IF ~root.exists THEN [g EXCEPT !.pc = "create"]
                                  ELSE IF m # g.meta THEN [g EXCEPT !.pc = "meta"]
                                  ELSE AfterRoot(h, g)]
    BY <1>2 DEF GetReadRoot
  <2> HIDE DEF m, v
  <2>4. g \in GetRequest /\ g.hdrVers = get[h].hdrVers
    BY <1>0, <2>1, <2>2 DEF GetRequest
  <2> HIDE DEF g
  <2>5. AfterRoot(h, g).pc \in Onward(get[h])
    BY <2>4, DecideOnward DEF Onward
  <2>6. [g EXCEPT !.pc = "create"].pc = "create" /\ [g EXCEPT !.pc = "meta"].pc = "meta"
    BY <2>4 DEF GetRequest
  <2>7. get'[h].pc \in Onward(get[h])
    BY <1>0, <2>3, <2>5, <2>6 DEF Onward
  <2> QED
    BY <1>2, <1>a, <2>7 DEF GetReadRoot
<1>3. CASE GetStoreMeta(h)
  <2>1. get'[h].pc \in Onward(get[h])
    BY <1>0, <1>3, DecideOnward DEF GetStoreMeta
  <2> QED
    BY <1>3, <1>a, <2>1 DEF GetStoreMeta
<1>4. CASE GetReadDocument(h)
  <2> DEFINE g == [get[h] EXCEPT !.hasDoc = TRUE, !.doc = GetDocument(FALSE)]
  <2>1. g \in GetRequest /\ g.hdrVers = get[h].hdrVers
    BY <1>0, GetDocumentType DEF GetRequest
  <2>2. get' = [get EXCEPT ![h] = AfterDocument(h, g)]
    BY <1>4 DEF GetReadDocument
  <2> HIDE DEF g
  <2>3. get'[h].pc \in Onward(get[h])
    BY <1>0, <2>1, <2>2, DecideOnward DEF Onward
  <2> QED
    BY <1>4, <1>a, <2>3 DEF GetReadDocument
<1>5. ASSUME NEW s \in SubdocIds, CorrectState(h, s)
      PROVE  /\ get'[h].pc \notin {"idle", "predoc", "upstream"}
             /\ get[h].pc = "correct"
  <2> DEFINE g == [get[h] EXCEPT !.todo = @ \ {s}]
  <2>1. g \in GetRequest /\ g.pc = get[h].pc /\ g.hdrVers = get[h].hdrVers
    BY <1>0 DEF GetRequest
  <2>2. get' = [get EXCEPT ![h] = IF g.todo = {} THEN Decide(h, g) ELSE g]
    BY <1>5 DEF CorrectState
  <2>3. get[h].pc = "correct"
    BY <1>5 DEF CorrectState
  <2> HIDE DEF g
  <2>4. Decide(h, g).pc \in Onward(get[h])
    BY <2>1, DecideOnward DEF Onward
  <2> QED
    BY <1>0, <1>a, <2>1, <2>2, <2>3, <2>4
<1>6. ASSUME NEW s \in SubdocIds, MarkInDeployment(h, s)
      PROVE  get'[h].pc \in {"update", "reply"} /\ get[h].pc = "update"
  BY <1>0, <1>6 DEF MarkInDeployment, GetRequest
<1> QED
  BY <1>1, <1>2, <1>3, <1>4, <1>5, <1>6 DEF GetStep, Onward
\* A request and its exchange stay in step when Webconfig takes a step.
LEMMA AloneInStep ==
    ASSUME TypeOK, up \in Exchange, RequestsInStep, Alone(Next)
    PROVE  RequestsInStep'
<1>0. /\ get \in [GetHandlers -> GetRequest] /\ get["device"] \in GetRequest /\ Next
      /\ up' = IF get'["device"].pc = "upstream" THEN up ELSE IdleExchange
  BY ServerAssumption DEF TypeOK, GetTypeOK, Alone
<1> DEFINE Moves ==
      /\ get'["device"].pc = "upstream" => get["device"].pc = "upstream"
      /\ get'["device"].pc = "idle" => get'["device"] = IdleGet
      /\ "mget" \in GetHandlers => /\ get'["mget"].hdrVers = NoVersions
                                   /\ get'["mget"].pc \notin {"predoc", "correct"}
<1>1. Moves => RequestsInStep'
  <2>1. IdleExchange.pc = "idle"
    BY DEF IdleExchange
  <2> QED
    BY <1>0, <2>1 DEF RequestsInStep
<1>2. ASSUME UNCHANGED get PROVE Moves
  BY <1>2 DEF RequestsInStep
<1>3. ASSUME ServeTurn PROVE Moves
  <2>1. PICK h \in GetHandlers : GetStep(h)
    BY <1>3 DEF ServeTurn
  <2>2. \A k \in GetHandlers \ {h} : get'[k] = get[k]
    BY <2>1, GetStepKeeps
  <2>3. get'[h].pc \notin {"idle", "predoc", "upstream"}
    BY <2>1, ServeOnward
  <2>4. CASE h = "device"
    BY <2>2, <2>3, <2>4 DEF RequestsInStep
  <2>5. CASE h = "mget"
    <3>1. get[h].hdrVers = NoVersions /\ get[h].pc \notin {"predoc", "correct"}
      BY <2>5 DEF RequestsInStep
    <3>2. get'[h].hdrVers = get[h].hdrVers
      BY <2>1, <3>1, GetStepKeeps DEF GetReadDocFirst
    <3>3. get'[h].pc \in Onward(get[h])
      BY <2>1, <3>1, ServeOnward
    <3>4. get'["device"] = get["device"]
      BY <2>2, <2>5, ServerAssumption
    <3> QED
      BY <2>5, <3>1, <3>2, <3>3, <3>4 DEF RequestsInStep, Onward
  <2> QED
    BY <2>4, <2>5, GetAssumption
<1>4. ASSUME RequestTurn PROVE Moves
  <2>0. IdleGet.pc = "idle" /\ IdleGet.hdrVers = NoVersions
    BY DEF IdleGet
  <2>1. ASSUME NEW h \in GetHandlers, get' = [get EXCEPT ![h] = IdleGet] PROVE Moves
    BY <1>0, <2>0, <2>1, ServerAssumption DEF RequestsInStep
  <2>2. ASSUME NEW mismatch \in BOOLEAN, DeviceGet(mismatch) PROVE Moves
    <3>1. /\ get'["device"].pc \in {"predoc", "root"}
          /\ \A k \in GetHandlers \ {"device"} : get'[k] = get[k]
      BY <1>0, <2>2 DEF DeviceGet, GetRequest
    <3> QED
      BY <3>1 DEF RequestsInStep
  <2>3. ASSUME NEW m \in Metas, MgetGet(m) PROVE Moves
    <3>1. /\ get'["mget"].pc = "root" /\ get'["mget"].hdrVers = get["mget"].hdrVers
          /\ get'["device"] = get["device"] /\ "mget" \in GetHandlers
      BY <1>0, <2>3, ServerAssumption DEF MgetGet, GetRequest
    <3> QED
      BY <3>1 DEF RequestsInStep
  <2>4. ASSUME NEW applied \in SUBSET SubdocIds, DeviceReceives(applied) PROVE Moves
    BY <2>1, <2>4 DEF DeviceReceives
  <2>5. ASSUME MgetReceives PROVE Moves
    BY <2>1, <2>5 DEF MgetReceives
  <2>6. ASSUME NEW h \in GetHandlers, GetFails(h) PROVE Moves
    BY <2>1, <2>6 DEF GetFails
  <2> QED
    BY <1>4, <2>2, <2>3, <2>4, <2>5, <2>6 DEF RequestTurn
<1>5. WriterTurn \/ ReportTurn \/ PokeTurn \/ ClockTurn \/ UpgradeTurn => UNCHANGED get
  BY DEF WriterTurn, ReportTurn, PokeTurn, ClockTurn, UpgradeTurn
<1> QED
  BY <1>0, <1>1, <1>2, <1>3, <1>4, <1>5, Turns

\* A step of the device's GET keeps what it has read.
LEMMA DeviceServeFits ==
    ASSUME TypeOK, GetStep("device"), RequestFits
    PROVE  TablesKept /\ RequestFits'
<1>0. /\ get \in [GetHandlers -> GetRequest] /\ get["device"] \in GetRequest /\ StoreTypeOK
      /\ rows \in [SubdocIds -> Row]
      /\ "device" \in GetHandlers /\ StillThere(get["device"])
  BY ServerAssumption DEF TypeOK, GetTypeOK, RequestFits, StoreTypeOK
<1>1. CASE GetReadDocFirst("device")
  <2>0. get["device"].pc = "predoc"
    BY <1>1 DEF GetReadDocFirst
  <2>1. TablesKept
    BY <1>0, <2>0, ServeKeeps
  <2>2. get["device"].status = "none" /\ get["device"].doc = NoDocument
    BY <1>0, <2>0 DEF StillThere
  <2>3. CASE Ids(GetDocument(FALSE)) = {}
    <3> DEFINE g == [get["device"] EXCEPT !.pc = IF UpstreamEnabled THEN "built" ELSE "reply",
                                          !.cmp = "version", !.status = "404"]
    <3>1. get' = [get EXCEPT !["device"].pc = IF UpstreamEnabled THEN "built" ELSE "reply",
                             !["device"].cmp = "version", !["device"].status = "404"]
      BY <1>1, <2>3 DEF GetReadDocFirst
    <3>2. get'["device"] = g
      BY <1>0, <3>1
    <3>3. g.pc \in {"built", "reply"} /\ g.status = "404" /\ g.doc = NoDocument
      BY <1>0, <2>2 DEF GetRequest
    <3> HIDE DEF g
    <3>4. \A s \in SubdocIds : ~Current(s)
      BY <2>3 DEF Ids, GetDocument, Current, InDocument
    <3>5. Fits(g.doc)
      BY <3>3, <3>4 DEF Fits, NoDocument, EmptyRow
    <3>6. RootFits(DocumentRoot(g))
      BY <3>3 DEF DocumentRoot, NotFound, RootFits
    <3>7. StillThere(g)
      BY <3>3, <3>5, <3>6 DEF StillThere
    <3> QED
      BY <2>1, <3>2, <3>7, KeptRequest
  <2>4. CASE Ids(GetDocument(FALSE)) # {}
    <3> DEFINE doc == GetDocument(FALSE)
    <3>1. PICK vers : get' = [get EXCEPT !["device"].pc = "root", !["device"].hasDoc = TRUE,
                                         !["device"].doc = doc, !["device"].hdrVers = vers]
      BY <1>1, <2>4, Zenon DEF GetReadDocFirst
    <3>2. Fits(doc)
      BY DocumentFits
    <3> HIDE DEF doc
    <3>3. /\ get'["device"].pc = "root" /\ get'["device"].status = "none"
          /\ get'["device"].doc = doc
      BY <1>0, <2>2, <3>1 DEF GetRequest
    <3>4. ASSUME NEW g, g = get'["device"] PROVE StillThere(g)
      BY <3>2, <3>3, <3>4 DEF StillThere
    <3> QED
      BY <2>1, <3>4, KeptRequest
  <2> QED
    BY <2>3, <2>4
<1>2. CASE GetReadRoot("device")
  <2>0. get["device"].pc = "root"
    BY <1>2 DEF GetReadRoot
  <2>1. TablesKept
    BY <1>0, <2>0, ServeKeeps
  <2> DEFINE m == IF root.exists THEN root.meta ELSE get["device"].meta
             v == IF root.exists THEN root.version ELSE NoRoot
             g == [get["device"] EXCEPT !.cloudRoot = v, !.cloudMeta = m,
                                 !.locked = root.exists /\ root.locked,
                                 !.cmp = Compare("device", v, m, get["device"].hdrRoot, get["device"].meta)]
             new == IF ~root.exists THEN [g EXCEPT !.pc = "create"]
                    ELSE IF m # g.meta THEN [g EXCEPT !.pc = "meta"]
                    ELSE AfterRoot("device", g)
  <2>2. m \in MetaColumn /\ v \in RootVersion /\ (root.exists /\ root.locked) \in BOOLEAN
    BY <1>0, EmptyTypes DEF StoreTypeOK, RootRow, GetRequest
  <2>3. Compare("device", v, m, get["device"].hdrRoot, get["device"].meta) \in Comparison
    BY DEF Compare, Comparison
  <2>4. get' = [get EXCEPT !["device"] = new] /\ RootFits(v)
    BY <1>2 DEF GetReadRoot, RootFits
  <2> HIDE DEF m, v
  <2>5. /\ g \in GetRequest /\ g.cloudRoot = v /\ g.status = get["device"].status
        /\ g.hasDoc = get["device"].hasDoc /\ g.doc = get["device"].doc
    BY <1>0, <2>2, <2>3 DEF GetRequest
  <2> HIDE DEF g
  <2>6. g.status = "none" /\ (g.hasDoc => Fits(g.doc)) /\ RootFits(g.cloudRoot)
    BY <1>0, <2>0, <2>4, <2>5 DEF StillThere
  <2>7. StillThere(AfterRoot("device", g))
    BY <2>5, <2>6, AfterRootThere
  <2>8. StillThere([g EXCEPT !.pc = "create"]) /\ StillThere([g EXCEPT !.pc = "meta"])
    BY <2>5, <2>6 DEF StillThere, GetRequest
  <2>9. StillThere(new)
    BY <2>7, <2>8
  <2> HIDE DEF new
  <2> QED
    BY <1>0, <2>1, <2>4, <2>9, KeptRequest
<1>3. CASE GetStoreMeta("device")
  <2>0. get["device"].pc \in {"create", "meta"}
    BY <1>3 DEF GetStoreMeta
  <2>1. TablesKept
    BY <1>0, <2>0, ServeKeeps
  <2>2. StillThere(AfterRoot("device", get["device"]))
    BY <1>0, <2>0, AfterRootThere DEF StillThere
  <2>3. get'["device"] = AfterRoot("device", get["device"])
    BY <1>0, <1>3 DEF GetStoreMeta
  <2> QED
    BY <2>1, <2>2, <2>3, KeptRequest
<1>4. CASE GetReadDocument("device")
  <2>0. get["device"].pc = "doc"
    BY <1>4 DEF GetReadDocument
  <2>1. TablesKept
    BY <1>0, <2>0, ServeKeeps
  <2> DEFINE g == [get["device"] EXCEPT !.hasDoc = TRUE, !.doc = GetDocument(FALSE)]
  <2>2. /\ g \in GetRequest /\ g.hasDoc /\ g.doc = GetDocument(FALSE)
        /\ g.status = get["device"].status /\ g.cloudRoot = get["device"].cloudRoot
    BY <1>0, GetDocumentType DEF GetRequest
  <2>3. get' = [get EXCEPT !["device"] = AfterDocument("device", g)]
    BY <1>4 DEF GetReadDocument
  <2> HIDE DEF g
  <2>4. g.status = "none" /\ RootFits(g.cloudRoot)
    BY <1>0, <2>0, <2>2 DEF StillThere
  <2>5. StillThere(AfterDocument("device", g))
    BY <2>2, <2>4, AfterDocumentThere, DocumentFits
  <2> QED
    BY <1>0, <2>1, <2>3, <2>5, KeptRequest
<1>5. ASSUME NEW s \in SubdocIds, CorrectState("device", s) PROVE TablesKept /\ RequestFits'
  <2> DEFINE g == [get["device"] EXCEPT !.todo = @ \ {s}]
             r == get["device"].doc[s]
             expiry == IF r.expiry = "live" /\ rows[s].expiry # "past" THEN "live" ELSE "nil"
  <2>0. /\ get["device"].pc = "correct" /\ s \in get["device"].todo
        /\ SetSubDocument(s, r.version, Deployed, "none", expiry) /\ UNCHANGED root
        /\ get' = [get EXCEPT !["device"] = IF g.todo = {} THEN Decide("device", g) ELSE g]
    BY <1>5 DEF CorrectState
  <2>1. /\ Fits(get["device"].doc) /\ s \in Ids(get["device"].doc)
        /\ RootFits(get["device"].cloudRoot) /\ get["device"].status = "none"
        /\ get["device"].hasDoc /\ get["device"].todo \subseteq Ids(get["device"].doc)
    BY <1>0, <2>0 DEF StillThere
  <2>2. rows[s].version = r.version /\ r.version # 0
    BY <2>1 DEF Fits, Ids
  <2>3. RowsKept
    BY <1>0, <2>0, <2>2 DEF SetSubDocument, RowsKept, Current, InDocument, Row
  <2>4. /\ g \in GetRequest /\ g.pc = "correct" /\ g.status = "none" /\ g.hasDoc
        /\ g.doc = get["device"].doc /\ g.cloudRoot = get["device"].cloudRoot
        /\ g.todo \subseteq get["device"].todo
    BY <1>0, <2>0, <2>1 DEF GetRequest
  <2> HIDE DEF g
  <2>5. StillThere(g) /\ StillThere(Decide("device", g))
    BY <2>1, <2>4, DecideThere DEF StillThere
  <2>6. TablesKept
    BY <2>0, <2>3 DEF TablesKept
  <2> QED
    BY <1>0, <2>0, <2>5, <2>6, KeptRequest
<1>6. ASSUME NEW s \in SubdocIds, MarkInDeployment("device", s) PROVE TablesKept /\ RequestFits'
  <2>1. get'["device"].pc \in {"update", "reply"} /\ get["device"].pc = "update"
    BY <1>0, <1>6 DEF MarkInDeployment, GetRequest
  <2>2. TablesKept
    BY <1>0, <2>1, ServeKeeps
  <2> QED
    BY <2>1, <2>2 DEF RequestFits, StillThere
<1> QED
  BY <1>1, <1>2, <1>3, <1>4, <1>5, <1>6 DEF GetStep
\* what an undisturbed step starts from
Undisturbed == ~crossed /\ ~crossed' /\ Observe

\* While the device's request goes by what it has read, no writer moves, and
\* none is under way when it begins.
LEMMA NobodyWrites ==
    ASSUME Undisturbed
    PROVE  /\ Reading => nb' = nb
           /\ (Reading => WritersIdle)'
BY DEF Undisturbed, Observe

\* A request that is not reading has nothing at stake in the tables.
LEMMA NotReading ==
    ASSUME TypeOK, RequestsInStep, RequestFits, ~Reading, UNCHANGED get
    PROVE  RequestFits' /\ get["device"].pc # "upstream"
BY DEF Reading, RequestFits, StillThere

\* A step of Webconfig keeps what the request and the exchange rely on.
LEMMA AloneFits ==
    ASSUME TypeOK, PrecookSubdocs = {}, RequestsInStep, RequestFits, ExchangeFits,
           Undisturbed, Alone(Next)
    PROVE  RequestFits' /\ ExchangeFits'
<1>0. /\ get \in [GetHandlers -> GetRequest] /\ get["device"] \in GetRequest /\ Next
      /\ up' = IF get'["device"].pc = "upstream" THEN up ELSE IdleExchange
      /\ "device" \in GetHandlers
  BY ServerAssumption DEF TypeOK, GetTypeOK, Alone
<1>1. ASSUME TablesKept PROVE ExchangeFits'
  BY <1>0, <1>1, KeptExchange, NoExchange
<1>2. ASSUME TablesKept, get'["device"] = get["device"] PROVE RequestFits'
  BY <1>2, KeptRequest DEF RequestFits
<1>3. CASE WriterTurn
  <2>1. ~Reading /\ UNCHANGED get
    BY <1>3, WriterMoves, NobodyWrites DEF WriterTurn
  <2>2. RequestFits' /\ get["device"].pc # "upstream"
    BY <2>1, NotReading
  <2> QED
    BY <1>0, <2>1, <2>2, NoExchange
<1>4. CASE ServeTurn
  <2>1. PICK h \in GetHandlers : GetStep(h)
    BY <1>4 DEF ServeTurn
  <2>2. CASE h = "device"
    BY <1>1, <2>1, <2>2, DeviceServeFits
  <2>3. CASE h = "mget"
    <3>1. get["mget"].pc # "correct"
      BY <2>3 DEF RequestsInStep
    <3>2. TablesKept
      BY <2>1, <2>3, <3>1, ServeKeeps
    <3>3. get'["device"] = get["device"]
      BY <1>0, <2>1, <2>3, GetStepKeeps
    <3> QED
      BY <1>1, <1>2, <3>2, <3>3
  <2> QED
    BY <2>2, <2>3, GetAssumption
<1>5. CASE RequestTurn
  <2>1. TablesKept
    BY <1>5, SameRowsKeepRows
       DEF RequestTurn, DeviceGet, MgetGet, DeviceReceives, MgetReceives, GetFails, storeVars, TablesKept
  <2>2. ASSUME NEW h \in GetHandlers, get' = [get EXCEPT ![h] = IdleGet] PROVE RequestFits'
    <3>1. CASE h = "device"
      <4>1. get'["device"].pc = "idle"
        BY <1>0, <2>2, <3>1 DEF IdleGet
      <4> QED
        BY <4>1 DEF RequestFits, StillThere
    <3>2. CASE h # "device"
      BY <1>0, <1>2, <2>1, <2>2, <3>2
    <3> QED
      BY <3>1, <3>2
  <2>3. ASSUME NEW mismatch \in BOOLEAN, DeviceGet(mismatch) PROVE RequestFits'
    <3>1. get["device"] = IdleGet
      BY <2>3 DEF DeviceGet, RequestsInStep
    <3>2. /\ get'["device"].pc \in {"predoc", "root"} /\ get'["device"].status = "none"
          /\ ~get'["device"].hasDoc /\ get'["device"].doc = NoDocument
      BY <1>0, <2>3, <3>1 DEF DeviceGet, IdleGet
    <3> QED
      BY <3>2 DEF RequestFits, StillThere
  <2>4. ASSUME NEW m \in Metas, MgetGet(m) PROVE RequestFits'
    BY <1>0, <1>2, <2>1, <2>4 DEF MgetGet
  <2>5. RequestFits'
    BY <1>0, <1>5, <2>2, <2>3, <2>4 DEF RequestTurn, DeviceReceives, MgetReceives, GetFails
  <2> QED
    BY <1>1, <2>1, <2>5
<1>6. CASE ReportTurn \/ PokeTurn \/ ClockTurn \/ UpgradeTurn
  BY <1>1, <1>2, <1>6, QuietTurns
<1> QED
  BY <1>0, <1>3, <1>4, <1>5, <1>6, Turns

\* The Etag of an answer is never empty: the answer has a sub-document.
LEMMA EtagNotEmpty ==
    ASSUME NEW final \in Versions, final # NoVersions
    PROVE  HashRootVersion(final) # NoRoot
<1>1. PICK s \in SubdocIds : final[s] # 0
  BY DEF Versions, NoVersions
<1>2. final[s] \in VersionsIn(HashRootVersion(final))
  BY <1>1, VersionsInHash
<1> QED
  BY <1>2 DEF VersionsIn, NoRoot

\* What is made of the answer.
LEMMA AnswerFits ==
    ASSUME ServerTypeOK, RequestsInStep, RequestFits, ExchangeFits, NEW skip \in BOOLEAN,
           NEW final \in [SubdocIds -> {0, nextVersion} \cup {up.sent[s].version : s \in SubdocIds}],
           PostUpstream(final, skip)
    PROVE  RequestsInStep' /\ RequestFits' /\ ExchangeFits'
<1> DEFINE kept == [s \in SubdocIds |->
                       IF up.op = "reset" /\ s \in Blocked THEN 0 ELSE final[s]]
           ids  == {s \in SubdocIds : kept[s] # 0}
           etag == HashRootVersion(final)
           todo == IF skip THEN {} ELSE {s \in ids : ~HasAlready(s, kept)}
           dels == IF skip \/ up.op = "get" THEN {} ELSE Ids(up.sent) \ ids
           pc   == IF skip THEN "respond" ELSE IF up.root # etag THEN "store" ELSE "write"
<1>0. /\ up \in Exchange /\ up.pc = "post" /\ final # NoVersions
      /\ UNCHANGED <<rows, root, get>>
  BY DEF ServerTypeOK, UpstreamTypeOK, PostUpstream, UpstreamVersions, storeVars
<1>1. final \in Versions
  <2>1. \A s \in SubdocIds : up.sent[s].version \in Nat
    BY <1>0 DEF Exchange, Document, Row
  <2>2. nextVersion \in Nat
    BY DEF ServerTypeOK, TypeOK, WriterTypeOK
  <2> QED
    BY <2>1, <2>2 DEF Versions
<1>2. etag # NoRoot
  BY <1>0, <1>1, EtagNotEmpty
<1>3. up' = [up EXCEPT !.etag = etag, !.final = kept, !.skip = skip, !.pc = pc,
                       !.todo = todo, !.dels = dels]
  BY DEF PostUpstream
<1>4. RootFits(up.root)
  BY <1>0 DEF ExchangeFits
<1>5. pc = "write" => root.version = etag
  BY <1>2, <1>4 DEF RootFits
<1>6. ASSUME NEW s \in SubdocIds, ~skip
      PROVE  /\ kept[s] # 0 => s \notin dels /\ (s \in todo \/ rows[s].version = kept[s])
             /\ s \in todo => kept[s] # 0
             /\ (up.op = "reset" /\ Current(s)) => (kept[s] # 0 \/ s \in dels)
  <2>1. /\ up.sent[s].version # 0 => rows[s].version = up.sent[s].version
        /\ (up.op = "reset" /\ Current(s)) => up.sent[s].version # 0
    BY <1>0 DEF ExchangeFits
  <2>2. s \in ids <=> kept[s] # 0
    OBVIOUS
  <2>3. s \in todo <=> s \in ids /\ ~HasAlready(s, kept)
    BY <1>6
  <2>4. s \in dels <=> up.op # "get" /\ s \in Ids(up.sent) /\ s \notin ids
    BY <1>6
  <2>5. HasAlready(s, kept) => up.sent[s].version = kept[s]
    BY DEF HasAlready
  <2> HIDE DEF kept, ids, todo, dels
  <2> QED
    BY <2>1, <2>2, <2>3, <2>4, <2>5 DEF Ids
<1>7. pc \in {"respond", "store", "write"} /\ (skip => pc = "respond")
  OBVIOUS
<1> HIDE DEF kept, ids, etag, todo, dels, pc
<1>8. /\ up'.pc = pc /\ up'.final = kept /\ up'.todo = todo /\ up'.dels = dels
      /\ up'.etag = etag /\ up'.op = up.op
  BY <1>0, <1>3 DEF Exchange
<1>9. ExchangeFits'
  BY <1>0, <1>5, <1>6, <1>7, <1>8 DEF ExchangeFits, Current
<1>10. RequestsInStep' /\ RequestFits'
  <2>1. get["device"].pc = "upstream"
    BY <1>0 DEF RequestsInStep
  <2> QED
    BY <1>0, <1>7, <1>8, <2>1 DEF RequestsInStep, RequestFits, StillThere
<1> QED
  BY <1>9, <1>10
\* The response of the device's request ends its exchange.
LEMMA ReplyFits ==
    ASSUME TypeOK, RequestsInStep, NEW g, "pc" \in DOMAIN g, Reply(g)
    PROVE  RequestsInStep' /\ RequestFits' /\ ExchangeFits'
<1>0. get \in [GetHandlers -> GetRequest]
  BY DEF TypeOK, GetTypeOK
<1>1. /\ get'["device"].pc = "reply" /\ up' = IdleExchange
      /\ \A k \in GetHandlers \ {"device"} : get'[k] = get[k]
  BY <1>0, ServerAssumption DEF Reply
<1>2. ExchangeFits' /\ up'.pc = "idle"
  BY <1>1, NoExchange
<1> QED
  BY <1>1, <1>2 DEF RequestsInStep, RequestFits, StillThere

\* The steps of an exchange that touch neither a request nor how far it is.
LEMMA RequestWaits ==
    ASSUME RequestsInStep, up.pc # "idle", up'.pc # "idle", UNCHANGED get
    PROVE  RequestsInStep' /\ RequestFits'
<1>1. get["device"].pc = "upstream"
  BY DEF RequestsInStep
<1> QED
  BY <1>1 DEF RequestsInStep, RequestFits, StillThere

\* RequestsInStep needs no condition.
LEMMA ExchangesInStep ==
    ASSUME TypeOK, up \in Exchange, RequestsInStep, UpstreamStep
    PROVE  RequestsInStep'
<1>0. get \in [GetHandlers -> GetRequest] /\ get["device"] \in GetRequest
  BY ServerAssumption DEF TypeOK, GetTypeOK
<1>1. ASSUME NEW h \in GetHandlers, UpstreamDecide(h) PROVE RequestsInStep'
  <2>0. get[h].pc = "built" /\ get[h] \in GetRequest
    BY <1>0, <1>1 DEF UpstreamDecide
  <2>1. ASSUME NEW g, get' = [get EXCEPT ![h] = g], g.pc \in {"reply", "update"},
               g.hdrVers = get[h].hdrVers, up' = up
        PROVE  RequestsInStep'
    <3>1. /\ get'[h] = g /\ \A k \in GetHandlers \ {h} : get'[k] = get[k]
      BY <1>0, <2>1
    <3> QED
      BY <2>0, <2>1, <3>1, ServerAssumption DEF RequestsInStep
  <2>2. CASE get' = [get EXCEPT ![h] = [get[h] EXCEPT !.pc = "reply", !.status = "409"]] /\ UNCHANGED up
    BY <2>0, <2>1, <2>2 DEF GetRequest
  <2>3. CASE get' = [get EXCEPT ![h] = AnswerMget(get[h])] /\ UNCHANGED up
    <3>1. AnswerMget(get[h]).pc = "reply" /\ AnswerMget(get[h]).hdrVers = get[h].hdrVers
      BY <2>0 DEF AnswerMget, GetRequest
    <3> QED
      BY <2>1, <2>3, <3>1
  <2>4. CASE get' = [get EXCEPT ![h] = AnswerFromTables(get[h])] /\ UNCHANGED up
    <3>1. /\ AnswerFromTables(get[h]).pc \in {"reply", "update"}
          /\ AnswerFromTables(get[h]).hdrVers = get[h].hdrVers
      BY <2>0 DEF AnswerFromTables, GetRequest
    <3> QED
      BY <2>1, <2>4, <3>1
  <2>5. CASE /\ h = "device"
             /\ up' = [IdleExchange EXCEPT !.pc = "post", !.root = DocumentRoot(get[h]),
                                           !.sent = Restricted(get[h].doc, Outgoing(get[h]))]
             /\ get' = [get EXCEPT ![h].pc = "upstream"]
    <3>1. up'.pc = "post"
      BY <2>5, IdleTypes DEF Exchange
    <3>2. get'["device"].pc = "upstream" /\ \A k \in GetHandlers \ {"device"} : get'[k] = get[k]
      BY <1>0, <2>5 DEF GetRequest
    <3> QED
      BY <3>1, <3>2 DEF RequestsInStep
  <2> QED
    BY <1>1, <2>2, <2>3, <2>4, <2>5 DEF UpstreamDecide
<1>2. CASE ResetReadRoot \/ ResetStoreRoot \/ StoreUpstreamRoot
  <2>1. up.pc # "idle" /\ up'.pc # "idle" /\ UNCHANGED get
    BY <1>2 DEF ResetReadRoot, ResetStoreRoot, StoreUpstreamRoot, Exchange
  <2> QED
    BY <2>1, RequestWaits
<1>3. CASE ResetReadDocument
  <2>1. CASE Reply([get["device"] EXCEPT !.status = "404"])
    BY <1>0, <2>1, ReplyFits DEF GetRequest
  <2>2. CASE /\ up' = [up EXCEPT !.sent = GetDocument(FALSE),
                                 !.pc = IF UpstreamEnabled THEN "post" ELSE "resetdelete"]
             /\ UNCHANGED get
    <3>1. up.pc # "idle" /\ up'.pc # "idle"
      BY <1>3, <2>2 DEF ResetReadDocument, Exchange
    <3> QED
      BY <2>2, <3>1, RequestWaits
  <2> QED
    BY <1>3, <2>1, <2>2 DEF ResetReadDocument
<1>4. CASE ResetDelete
  BY <1>0, <1>4, ReplyFits DEF ResetDelete, GetRequest
<1>5. CASE \E s \in SubdocIds : WriteUpstreamRow(s) \/ DeleteUpstreamRow(s)
  <2>1. up.pc = "write" /\ up'.pc = "write" /\ UNCHANGED get
    BY <1>5 DEF WriteUpstreamRow, DeleteUpstreamRow, Exchange
  <2> QED
    BY <2>1, RequestWaits
<1>6. CASE UpstreamRespond
  <2>1. PICK doc, etag, send, status :
           Reply([get["device"] EXCEPT !.doc = doc, !.cloudRoot = etag, !.send = send, !.status = status])
    BY <1>6, Zenon DEF UpstreamRespond
  <2> QED
    BY <1>0, <2>1, ReplyFits DEF GetRequest
<1> QED
  BY <1>1, <1>2, <1>3, <1>4, <1>5, <1>6 DEF UpstreamStep

\* The exchange, step by step.
LEMMA ExchangesFit ==
    ASSUME TypeOK, up \in Exchange, RequestsInStep, RequestFits, ExchangeFits, UpstreamStep
    PROVE  RequestFits' /\ ExchangeFits'
<1>0. /\ get \in [GetHandlers -> GetRequest] /\ get["device"] \in GetRequest
      /\ rows \in [SubdocIds -> Row] /\ root \in RootRow
  BY ServerAssumption DEF TypeOK, GetTypeOK, StoreTypeOK
<1>1. ASSUME NEW h \in GetHandlers, UpstreamDecide(h) PROVE RequestFits' /\ ExchangeFits'
  <2>0. /\ get[h].pc = "built" /\ get[h] \in GetRequest /\ TablesKept
    BY <1>0, <1>1, SameRowsKeepRows DEF UpstreamDecide, storeVars, TablesKept
  <2>1. ASSUME NEW g, get' = [get EXCEPT ![h] = g], g.pc \in {"reply", "update"}, up' = up
        PROVE  RequestFits' /\ ExchangeFits'
    <3>1. CASE h = "device"
      <4>1. get'["device"].pc \in {"reply", "update"}
        BY <1>0, <2>1, <3>1
      <4> QED
        BY <2>0, <2>1, <4>1, KeptExchange DEF RequestFits, StillThere
    <3>2. CASE h # "device"
      <4>1. get'["device"] = get["device"]
        BY <1>0, <2>1, <3>2, ServerAssumption
      <4> QED
        BY <2>0, <2>1, <4>1, KeptExchange, KeptRequest DEF RequestFits
    <3> QED
      BY <3>1, <3>2
  <2>2. CASE get' = [get EXCEPT ![h] = [get[h] EXCEPT !.pc = "reply", !.status = "409"]] /\ UNCHANGED up
    BY <2>0, <2>1, <2>2 DEF GetRequest
  <2>3. CASE get' = [get EXCEPT ![h] = AnswerMget(get[h])] /\ UNCHANGED up
    <3>1. AnswerMget(get[h]).pc = "reply"
      BY <2>0 DEF AnswerMget, GetRequest
    <3> QED
      BY <2>1, <2>3, <3>1
  <2>4. CASE get' = [get EXCEPT ![h] = AnswerFromTables(get[h])] /\ UNCHANGED up
    <3>1. AnswerFromTables(get[h]).pc \in {"reply", "update"}
      BY <2>0 DEF AnswerFromTables, GetRequest
    <3> QED
      BY <2>1, <2>4, <3>1
  <2>5. CASE /\ h = "device" /\ Posts(get[h])
             /\ up' = [IdleExchange EXCEPT !.pc = "post", !.root = DocumentRoot(get[h]),
                                           !.sent = Restricted(get[h].doc, Outgoing(get[h]))]
             /\ get' = [get EXCEPT ![h].pc = "upstream"]
    <3> DEFINE sent == Restricted(get[h].doc, Outgoing(get[h]))
               r    == DocumentRoot(get[h])
    <3>1. Fits(get[h].doc) /\ RootFits(r)
      BY <2>0, <2>5 DEF RequestFits, StillThere
    <3>2. \A s \in SubdocIds : sent[s].version # 0 => rows[s].version = sent[s].version
      BY <3>1 DEF Fits, Restricted, EmptyRow
    <3>3. up' = [IdleExchange EXCEPT !.pc = "post", !.root = r, !.sent = sent]
      BY <2>5
    <3> HIDE DEF sent, r
    <3>4. up'.pc = "post" /\ up'.op = "get" /\ up'.root = r /\ up'.sent = sent
      BY <3>3 DEF IdleExchange
    <3>5. UNCHANGED <<rows, root>>
      BY <1>1 DEF UpstreamDecide, storeVars
    <3>6. ExchangeFits'
      BY <3>1, <3>2, <3>4, <3>5 DEF ExchangeFits, RootFits
    <3>7. get'["device"].pc = "upstream"
      BY <1>0, <2>5 DEF GetRequest
    <3> QED
      BY <3>6, <3>7 DEF RequestFits, StillThere
  <2> QED
    BY <1>1, <2>2, <2>3, <2>4, <2>5 DEF UpstreamDecide
<1>2. CASE ResetReadRoot
  <2>1. /\ up.pc = "resetroot" /\ up'.pc = "resetset" /\ UNCHANGED <<rows, root, get>>
        /\ up'.root \in {NoRoot, root.version}
    BY <1>2 DEF ResetReadRoot, storeVars, Exchange
  <2>2. ExchangeFits'
    BY <2>1 DEF ExchangeFits, RootFits
  <2> QED
    BY <2>1, <2>2, RequestWaits
<1>3. CASE ResetStoreRoot
  <2>1. /\ up.pc = "resetset" /\ up'.pc = "resetdoc" /\ up'.root = up.root /\ UNCHANGED <<rows, get>>
        /\ root'.version = IF up.root = NoRoot THEN root.version ELSE up.root
    BY <1>0, <1>3 DEF ResetStoreRoot, Exchange, RootRow
  <2>2. RootFits(up.root)
    BY <2>1 DEF ExchangeFits
  <2>3. ExchangeFits'
    BY <2>1, <2>2 DEF ExchangeFits, RootFits
  <2> QED
    BY <2>1, <2>3, RequestWaits
<1>4. CASE ResetReadDocument
  <2>1. CASE Reply([get["device"] EXCEPT !.status = "404"])
    BY <1>0, <2>1, ReplyFits DEF GetRequest
  <2>2. CASE /\ up' = [up EXCEPT !.sent = GetDocument(FALSE),
                                 !.pc = IF UpstreamEnabled THEN "post" ELSE "resetdelete"]
             /\ UNCHANGED get
    <3> DEFINE doc == GetDocument(FALSE)
    <3>1. Fits(doc) /\ up' = [up EXCEPT !.sent = doc, !.pc = IF UpstreamEnabled THEN "post" ELSE "resetdelete"]
      BY <2>2, DocumentFits
    <3> HIDE DEF doc
    <3>2. /\ up.pc = "resetdoc" /\ up'.pc \in {"post", "resetdelete"} /\ UNCHANGED <<rows, root>>
          /\ up'.root = up.root /\ up'.sent = doc
      BY <1>4, <3>1 DEF ResetReadDocument, Exchange, storeVars
    <3>3. RootFits(up.root)
      BY <3>2 DEF ExchangeFits
    <3>4. ExchangeFits'
      BY <3>1, <3>2, <3>3 DEF ExchangeFits, RootFits, Fits, Current
    <3> QED
      BY <2>2, <3>2, <3>4, RequestWaits
  <2> QED
    BY <1>4, <2>1, <2>2 DEF ResetReadDocument
<1>5. CASE ResetDelete
  BY <1>0, <1>5, ReplyFits DEF ResetDelete, GetRequest
<1>6. CASE StoreUpstreamRoot
  <2>1. /\ up.pc = "store" /\ up' = [up EXCEPT !.pc = "write"] /\ UNCHANGED <<rows, get>>
        /\ root'.version = up.etag
    BY <1>0, <1>6 DEF StoreUpstreamRoot, SetRootDocumentVersion, RootRow
  <2>2. /\ up'.pc = "write" /\ up'.final = up.final /\ up'.todo = up.todo /\ up'.dels = up.dels
        /\ up'.etag = up.etag /\ up'.op = up.op
    BY <2>1 DEF Exchange
  <2>3. ExchangeFits'
    BY <2>1, <2>2 DEF ExchangeFits, Current
  <2> QED
    BY <2>1, <2>2, <2>3, RequestWaits
<1>7. ASSUME NEW x \in SubdocIds, WriteUpstreamRow(x) PROVE RequestFits' /\ ExchangeFits'
  <2>1. /\ up.pc = "write" /\ x \in up.todo /\ UNCHANGED <<root, get>>
        /\ up'.pc = "write" /\ up'.final = up.final /\ up'.todo = up.todo \ {x}
        /\ up'.dels = up.dels /\ up'.etag = up.etag /\ up'.op = up.op
    BY <1>7 DEF WriteUpstreamRow, Exchange
  <2>2. up.final[x] # 0
    BY <2>1 DEF ExchangeFits
  <2>3. rows'[x].version = up.final[x] /\ \A s \in SubdocIds \ {x} : rows'[s] = rows[s]
    BY <1>0, <1>7, <2>2 DEF WriteUpstreamRow, SetSubDocument, NilVersion
  <2>4. ExchangeFits'
    BY <2>1, <2>2, <2>3 DEF ExchangeFits, Current
  <2> QED
    BY <2>1, <2>4, RequestWaits
<1>8. ASSUME NEW x \in SubdocIds, DeleteUpstreamRow(x) PROVE RequestFits' /\ ExchangeFits'
  <2>1. /\ up.pc = "write" /\ x \in up.dels /\ up.todo = {} /\ UNCHANGED <<root, get>>
        /\ up'.pc = "write" /\ up'.final = up.final /\ up'.todo = up.todo
        /\ up'.dels = up.dels \ {x} /\ up'.etag = up.etag /\ up'.op = up.op
    BY <1>8 DEF DeleteUpstreamRow, Exchange
  <2>2. up.final[x] = 0
    BY <2>1 DEF ExchangeFits
  <2>3. rows'[x] = EmptyRow /\ \A s \in SubdocIds \ {x} : rows'[s] = rows[s]
    BY <1>0, <1>8 DEF DeleteUpstreamRow, DeleteSubDocument
  <2>4. ExchangeFits'
    BY <2>1, <2>2, <2>3 DEF ExchangeFits, Current, InDocument, EmptyRow
  <2> QED
    BY <2>1, <2>4, RequestWaits
<1>9. CASE UpstreamRespond
  <2>1. PICK doc, etag, send, status :
           Reply([get["device"] EXCEPT !.doc = doc, !.cloudRoot = etag, !.send = send, !.status = status])
    BY <1>9, Zenon DEF UpstreamRespond
  <2> QED
    BY <1>0, <2>1, ReplyFits DEF GetRequest
<1> QED
  BY <1>1, <1>2, <1>3, <1>4, <1>5, <1>6, <1>7, <1>8, <1>9 DEF UpstreamStep

LEMMA ExchangeInit == ServerInit => ExchangeInv
<1> SUFFICES ASSUME ServerInit PROVE ExchangeInv
  OBVIOUS
<1>1. up = IdleExchange /\ get = [h \in GetHandlers |-> IdleGet] /\ nb = [w \in Writers |-> IdleWriter]
  BY DEF ServerInit, Init, UpstreamInit, GetInit, WriterInit
<1>2. RequestsInStep
  BY <1>1, ServerAssumption DEF RequestsInStep, IdleExchange, IdleGet
<1>3. get["device"] = IdleGet /\ ~Reading
  BY <1>1, ServerAssumption DEF Reading, IdleGet
<1>4. RequestFits /\ ExchangeFits
  BY <1>1, <1>3 DEF RequestFits, StillThere, ExchangeFits, IdleExchange, IdleGet
<1> QED
  BY <1>2, <1>3, <1>4 DEF ExchangeInv

\* RequestsInStep needs no condition, whatever the step.
LEMMA InStep ==
    ASSUME ServerTypeOK, RequestsInStep, [ServerNext]_serverVars
    PROVE  RequestsInStep'
<1>0. TypeOK /\ up \in Exchange
  BY DEF ServerTypeOK, UpstreamTypeOK
<1>1. CASE Alone(Next)
  BY <1>0, <1>1, AloneInStep
<1>2. CASE Exchanges
  BY <1>0, <1>2, ExchangesInStep DEF Exchanges
<1>3. CASE UpstreamAnswers
  <2>1. PICK final, skip : PostUpstream(final, skip)
    BY <1>3 DEF UpstreamAnswers
  <2>2. up.pc = "post" /\ UNCHANGED get
    BY <2>1 DEF PostUpstream
  <2>3. up'.pc \in {"respond", "store", "write"}
    <3>1. \E etag, kept, todo, dels : \E pc \in {"respond", "store", "write"} :
             up' = [up EXCEPT !.etag = etag, !.final = kept, !.skip = skip, !.pc = pc,
                              !.todo = todo, !.dels = dels]
      BY <2>1 DEF PostUpstream
    <3> QED
      BY <1>0, <3>1 DEF Exchange
  <2> QED
    BY <2>2, <2>3, RequestWaits
<1>4. CASE FactoryReset
  <2>0. get \in [GetHandlers -> GetRequest]
    BY <1>0 DEF TypeOK, GetTypeOK
  <2>1. /\ up'.pc = "resetroot" /\ get'["device"].pc = "upstream"
        /\ \A k \in GetHandlers \ {"device"} : get'[k] = get[k]
    BY <1>4, <2>0, ServerAssumption DEF FactoryReset, DeviceResets, IdleExchange, IdleGet
  <2> QED
    BY <2>1 DEF RequestsInStep
<1>5. CASE UNCHANGED serverVars
  BY <1>5 DEF serverVars, vars, upstreamVars, RequestsInStep
<1> QED
  BY <1>1, <1>2, <1>3, <1>4, <1>5 DEF ServerNext

LEMMA ExchangeStep ==
    ASSUME ServerTypeOK, PrecookSubdocs = {}, ExchangeInv, [ServerNext]_serverVars
    PROVE  ExchangeInv'
<1>0. TypeOK /\ up \in Exchange /\ RequestsInStep
  BY DEF ServerTypeOK, UpstreamTypeOK, ExchangeInv
<1>a. RequestsInStep'
  BY <1>0, InStep
<1>1. CASE Alone(Next)
  <2>1. ASSUME ~crossed' PROVE (Reading => WritersIdle)' /\ RequestFits' /\ ExchangeFits'
    <3>1. Undisturbed
      BY <1>1, <2>1 DEF Undisturbed, Alone, Observe
    <3> QED
      BY <1>0, <1>1, <3>1, AloneFits, NobodyWrites DEF Undisturbed, ExchangeInv
  <2> QED
    BY <1>a, <2>1 DEF ExchangeInv
<1>2. CASE Exchanges
  <2>1. ASSUME ~crossed' PROVE (Reading => WritersIdle)' /\ RequestFits' /\ ExchangeFits'
    <3>1. Undisturbed
      BY <1>2, <2>1 DEF Undisturbed, Exchanges, Observe
    <3> QED
      BY <1>0, <1>2, <3>1, ExchangesFit, NobodyWrites DEF Undisturbed, ExchangeInv, Exchanges
  <2> QED
    BY <1>a, <2>1 DEF ExchangeInv
<1>3. CASE UpstreamAnswers
  <2>1. PICK final \in [SubdocIds -> {0, nextVersion} \cup {up.sent[s].version : s \in SubdocIds}],
             skip \in BOOLEAN : PostUpstream(final, skip)
    BY <1>3 DEF UpstreamAnswers
  <2>2. ASSUME ~crossed' PROVE (Reading => WritersIdle)' /\ RequestFits' /\ ExchangeFits'
    <3>1. Undisturbed
      BY <1>3, <2>2 DEF Undisturbed, UpstreamAnswers, Observe
    <3> QED
      BY <1>0, <2>1, <3>1, AnswerFits, NobodyWrites DEF Undisturbed, ExchangeInv
  <2> QED
    BY <1>a, <2>2 DEF ExchangeInv
<1>4. CASE FactoryReset
  <2>0. get \in [GetHandlers -> GetRequest]
    BY <1>0 DEF TypeOK, GetTypeOK
  <2>1. /\ up'.pc = "resetroot" /\ get'["device"].pc = "upstream"
        /\ \A k \in GetHandlers \ {"device"} : get'[k] = get[k]
    BY <1>4, <2>0, ServerAssumption DEF FactoryReset, DeviceResets, IdleExchange, IdleGet
  <2>2. RequestFits' /\ ExchangeFits'
    BY <1>0, <2>1 DEF RequestFits, StillThere, ExchangeFits
  <2>3. ASSUME ~crossed' PROVE (Reading => WritersIdle)'
    BY <1>4, <2>3, NobodyWrites DEF Undisturbed, FactoryReset, Observe
  <2> QED
    BY <1>a, <2>2, <2>3 DEF ExchangeInv
<1>5. CASE UNCHANGED serverVars
  <2>1. UNCHANGED <<rows, root, get, nb, up, crossed>>
    BY <1>5 DEF serverVars, vars, upstreamVars, storeVars, writerVars
  <2>2. TablesKept
    BY <2>1, SameRowsKeepRows DEF TablesKept
  <2>3. (Reading => WritersIdle)' = (Reading => WritersIdle)
    BY <2>1 DEF Reading, WritersIdle
  <2>4. RequestFits => RequestFits'
    BY <2>1, <2>2, KeptRequest DEF RequestFits
  <2>5. ExchangeFits => ExchangeFits'
    BY <2>1, <2>2, KeptExchange
  <2> QED
    BY <1>a, <2>1, <2>3, <2>4, <2>5 DEF ExchangeInv
<1> QED
  BY <1>1, <1>2, <1>3, <1>4, <1>5 DEF ServerNext

(* ExchangeInv is an invariant, whatever fails and however long the        *)
(* exchange takes: until a northbound call crosses it, the tables are as   *)
(* BuildGetDocument read them, but for what WriteDocumentFromUpstream has  *)
(* stored by now.                                                          *)
THEOREM ExchangeInvariant == ASSUME PrecookSubdocs = {} PROVE ServerSpec => []ExchangeInv
<1>1. ServerInit => ExchangeInv
  BY ExchangeInit
<1>2. ServerTypeOK /\ ExchangeInv /\ [ServerNext]_serverVars => ExchangeInv'
  BY ExchangeStep
<1> QED
  BY <1>1, <1>2, ServerTypeCorrect, PTL DEF ServerSpec

(* An exchange that no northbound call crosses and that ends without an    *)
(* error leaves the tables as upstream wants them, although                *)
(* WriteDocumentFromUpstream (db/service.go) writes them call by call      *)
(* (ExchangeStored).                                                       *)
THEOREM ExchangeStoresAll == ASSUME PrecookSubdocs = {} PROVE ServerSpec => ExchangeStored
<1>1. ExchangeInv => (StoredAll /\ ~crossed =>
          /\ root.version = up.etag
          /\ \A s \in SubdocIds : up.final[s] # 0 => rows[s].version = up.final[s]
          /\ up.op = "reset" => \A s \in SubdocIds : Current(s) => up.final[s] # 0)
  BY DEF ExchangeInv, ExchangeFits, StoredAll
<1> QED
  BY <1>1, ExchangeInvariant, PTL DEF ExchangeStored

-----------------------------------------------------------------------------
(* No update is missed with upstream either.                               *)

\* what the tables, the device and the request are known to be when a step
\* that nothing crosses is taken
Orderly == /\ ServerTypeOK
           /\ HeaderInv
           /\ RequestsInStep
           /\ RequestFits
           /\ ExchangeFits
           /\ Reading => WritersIdle
           /\ NothingExpires
           /\ TablesCover
           /\ RequestCovers
           /\ ExchangeCovers

\* Where nothing expires, what is in the table is in the document.
LEMMA CurrentRows ==
    ASSUME NothingExpires
    PROVE  \A s \in SubdocIds : Current(s) <=> rows[s].version # 0
BY DEF NothingExpires, Current, InDocument

LEMMA SameSupports ==
    ASSUME UpstreamDisciplined, NEW m \in Metas, NEW n \in Metas
    PROVE  FilterOutputByBitmapEnabled => Supports[m] = Supports[n]
BY DEF UpstreamDisciplined

\* the versions of the rows and what the device has of them stay
SameVersions == /\ \A s \in SubdocIds : rows'[s].version = rows[s].version
                /\ dev'.root = dev.root
                /\ dev'.vers = dev.vers

\* Steps that change no version deliver and lose nothing.
LEMMA SameDelivery ==
    ASSUME ServerTypeOK, ServerTypeOK', UpstreamDisciplined, NothingExpires, NothingExpires',
           SameVersions
    PROVE  /\ \A s \in SubdocIds : Current(s)' <=> Current(s)
           /\ Deliverable' = Deliverable
           /\ DeviceCovers' <=> DeviceCovers
           /\ Behind' <=> Behind
<1>1. dev.meta \in Metas /\ dev'.meta \in Metas
  BY DEF ServerTypeOK, TypeOK, DeviceTypeOK, DeviceState
<1>2. FilterOutputByBitmapEnabled => Supports[dev'.meta] = Supports[dev.meta]
  BY <1>1, SameSupports
<1>3. \A s \in SubdocIds : Current(s)' <=> Current(s)
  BY DEF NothingExpires, Current, InDocument, SameVersions
<1>4. Deliverable' = Deliverable
  BY <1>2, <1>3 DEF Deliverable, Current
<1>5. DeviceCovers' <=> DeviceCovers
  BY <1>4 DEF DeviceCovers, SameVersions, Deliverable
<1>6. Behind' <=> Behind
  BY <1>3 DEF Behind, SameVersions
<1> QED
  BY <1>3, <1>4, <1>5, <1>6

\* Steps that change no version keep what an answer brings.
LEMMA SameBringing ==
    ASSUME ServerTypeOK, ServerTypeOK', UpstreamDisciplined, NothingExpires, NothingExpires',
           SameVersions, NEW g, get'["device"] = g, BringsAll(g)
    PROVE  RequestCovers'
<1>1. Presents(g) => Presents(g)'
  BY SameDelivery DEF Presents, SameVersions
<1>2. ResponseCovers(g) => ResponseCovers(g)'
  <2>1. ASSUME NEW s \in Deliverable PROVE s \in SubdocIds
    BY <2>1 DEF Deliverable
  <2> QED
    BY <2>1, SameDelivery DEF ResponseCovers, SameVersions
<1>3. Compared(g)' = Compared(g)
  BY DEF Compared, CompareCovers
<1>4. BringsAll(g)'
  BY <1>1, <1>2, <1>3 DEF BringsAll
<1> QED
  BY <1>4 DEF RequestCovers

\* Steps that change no version keep what the answer of upstream accounts for.
LEMMA SameExchange ==
    ASSUME ServerTypeOK, ServerTypeOK', UpstreamDisciplined, NothingExpires, NothingExpires',
           SameVersions, ExchangeCovers, UNCHANGED <<up, nextVersion>>
    PROVE  ExchangeCovers'
<1>1. \A s \in SubdocIds : Current(s)' <=> Current(s)
  BY SameDelivery
<1> QED
  BY <1>1 DEF ExchangeCovers, SameVersions

\* An exchange that is over asks for nothing.
LEMMA OverCovers ==
    ASSUME up' = IdleExchange
    PROVE  ExchangeCovers'
BY DEF ExchangeCovers, IdleExchange, NoRoot, VersionsIn

\* Quiet steps keep the tables covered.
LEMMA QuietTables ==
    ASSUME ServerTypeOK, ServerTypeOK', UpstreamDisciplined, NothingExpires, NothingExpires',
           TablesCover, SameVersions, UNCHANGED <<nb, nextVersion, rootStale>>,
           root'.version = root.version, up.pc = "write" => up'.pc = "write",
           \A h \in GetHandlers : \A v \in VersionsIn(get'[h].cloudRoot) : v < nextVersion
    PROVE  TablesCover'
<1>1. \A s \in SubdocIds : Current(s)' <=> Current(s)
  BY SameDelivery
<1>2. VersionsPosted'
  BY DEF TablesCover, VersionsPosted, SameVersions
<1>3. WriterCovers'
  BY <1>1 DEF TablesCover, WriterCovers, SameVersions
<1>4. RootCovers => RootCovers'
  BY <1>1 DEF RootCovers, WritersIdle, SameVersions
<1>5. DeviceCovers' \/ Behind'
  BY SameDelivery DEF TablesCover
<1> QED
  BY <1>2, <1>3, <1>4, <1>5 DEF TablesCover

-----------------------------------------------------------------------------
\* no row that is read or written has an expiry
NoExpiry(doc) == \A s \in SubdocIds : doc[s].expiry = "none"

LEMMA ExpiryParts ==
    /\ NothingExpires <=> NoExpiry(rows) /\ \A h \in GetHandlers : NoExpiry(get[h].doc)
    /\ NoExpiry(NoDocument)
BY DEF NothingExpires, NoExpiry, NoDocument, EmptyRow

LEMMA SetKeepsExpiry ==
    ASSUME rows \in [SubdocIds -> Row], NoExpiry(rows),
           \E s \in SubdocIds : \E version, state, err : SetSubDocument(s, version, state, err, "nil")
    PROVE  NoExpiry(rows)'
BY DEF NoExpiry, SetSubDocument

\* The steps that write rows.
LEMMA RowsNoExpiry ==
    ASSUME ServerTypeOK, UpstreamDisciplined, NothingExpires, ServerNext
    PROVE  NoExpiry(rows)'
<1>0. /\ TypeOK /\ up \in Exchange /\ rows \in [SubdocIds -> Row] /\ NoExpiry(rows)
      /\ \A h \in GetHandlers : NoExpiry(get[h].doc)
  BY ExpiryParts DEF ServerTypeOK, UpstreamTypeOK, TypeOK, StoreTypeOK
<1>1. ASSUME UNCHANGED rows PROVE NoExpiry(rows)'
  BY <1>0, <1>1 DEF NoExpiry
<1>2. CASE Alone(Next)
  <2>1. CASE WriterTurn
    <3>1. PICK w \in Writers : WriterStep(w) \/ WriterFails(w)
      BY <2>1 DEF WriterTurn
    <3>2. ASSUME NEW s \in SubdocIds, NEW v \in 1..nextVersion,
                 NEW state \in PostStates, NEW expiry \in PostExpiries,
                 PostSubDocument(w, s, v, state, expiry)
          PROVE  NoExpiry(rows)'
      <4>1. SetSubDocument(s, v, state, "none", "nil")
        BY <3>2 DEF PostSubDocument, UpstreamDisciplined
      <4> QED
        BY <1>0, <4>1, SetKeepsExpiry
    <3> QED
      BY <1>1, <3>1, <3>2
         DEF WriterStep, WriterFails, PostReadDocument, DeleteSubDocumentRow, DeleteDocumentRows,
             DeleteReadDocument, WriteRootVersion, DropRootVersion, UpstreamDisciplined, storeVars
  <2>2. CASE ServeTurn
    <3>1. PICK h \in GetHandlers : GetStep(h)
      BY <2>2 DEF ServeTurn
    <3>2. ASSUME NEW s \in SubdocIds, CorrectState(h, s) PROVE NoExpiry(rows)'
      <4>1. SetSubDocument(s, get[h].doc[s].version, Deployed, "none", "nil")
        BY <1>0, <3>2 DEF CorrectState, NoExpiry
      <4> QED
        BY <1>0, <4>1, SetKeepsExpiry
    <3>3. ASSUME NEW s \in SubdocIds, MarkInDeployment(h, s) PROVE NoExpiry(rows)'
      BY <1>0, <3>3, SetKeepsExpiry DEF MarkInDeployment
    <3> QED
      BY <1>1, <3>1, <3>2, <3>3
         DEF GetStep, GetReadDocFirst, GetReadRoot, GetStoreMeta, GetReadDocument, storeVars
  <2>3. CASE RequestTurn
    BY <1>1, <2>3
       DEF RequestTurn, DeviceGet, MgetGet, DeviceReceives, MgetReceives, GetFails, storeVars
  <2>4. CASE ReportTurn
    <3>1. PICK c \in Consumers : ReportStep(c) \/ ReportFails(c) \/ ReportCrashes(c)
      BY <2>4 DEF ReportTurn
    <3>2. ASSUME NEW s \in SubdocIds, MarkDeployed(c, s) PROVE NoExpiry(rows)'
      BY <1>0, <3>2, SetKeepsExpiry DEF MarkDeployed
    <3>3. ASSUME SetReportedState(c) PROVE NoExpiry(rows)'
      <4>1. rep[c].event.subdoc \in SubdocIds
        BY <1>0, <3>3 DEF SetReportedState, TypeOK, ReportTypeOK, SubdocEvent
      <4>2. \E state, err : SetSubDocument(rep[c].event.subdoc, NilVersion, state, err, "nil")
        BY <3>3 DEF SetReportedState, UpstreamDisciplined
      <4> QED
        BY <1>0, <4>1, <4>2, SetKeepsExpiry
    <3> QED
      BY <1>1, <3>1, <3>2, <3>3
         DEF ReportStep, ReportFails, ReportCrashes, TakeReport, Read304, ReadSubdoc, storeVars
  <2>5. CASE PokeTurn
    <3>1. ASSUME NEW p \in Pokers, NEW s \in SubdocIds, PokeMarkInDeployment(p, s)
          PROVE  NoExpiry(rows)'
      BY <1>0, <3>1, SetKeepsExpiry DEF PokeMarkInDeployment
    <3> QED
      BY <1>1, <2>5, <3>1
         DEF PokeTurn, PokeStep, PokeFails, PokeReadDocument, PokeReadRoot, PokePostMqtt,
             PokeCpeAction, PokeWebpa, PushArrives, storeVars
  <2>6. CASE ClockTurn
    BY <1>0, <1>1, <2>6 DEF ClockTurn, Expire, LockRunsOut, LockRootDocument, NoExpiry
  <2>7. CASE UpgradeTurn
    BY <1>1, <2>7 DEF UpgradeTurn, storeVars
  <2> QED
    BY <1>0, <1>2, <2>1, <2>2, <2>3, <2>4, <2>5, <2>6, <2>7, Turns DEF Alone
<1>3. CASE Exchanges
  <2>1. ASSUME NEW s \in SubdocIds, WriteUpstreamRow(s) PROVE NoExpiry(rows)'
    BY <1>0, <2>1, SetKeepsExpiry DEF WriteUpstreamRow
  <2>2. ASSUME NEW s \in SubdocIds, DeleteUpstreamRow(s) PROVE NoExpiry(rows)'
    BY <1>0, <2>2 DEF DeleteUpstreamRow, DeleteSubDocument, NoExpiry, EmptyRow
  <2>3. ASSUME ResetDelete PROVE NoExpiry(rows)'
    BY <2>3, ExpiryParts DEF ResetDelete, DeleteDocument, NoExpiry
  <2> QED
    BY <1>1, <1>3, <2>1, <2>2, <2>3
       DEF Exchanges, UpstreamStep, UpstreamDecide, ResetReadRoot, ResetStoreRoot,
           ResetReadDocument, StoreUpstreamRoot, UpstreamRespond, storeVars
<1>4. CASE UpstreamAnswers \/ FactoryReset
  BY <1>1, <1>4 DEF UpstreamAnswers, PostUpstream, FactoryReset, DeviceResets, storeVars
<1> QED
  BY <1>2, <1>3, <1>4 DEF ServerNext

\* The document of a request: read from the rows, or the answer of upstream.
LEMMA DocumentsNoExpiry ==
    ASSUME ServerTypeOK, NothingExpires, ServerNext, NEW h \in GetHandlers
    PROVE  NoExpiry(get'[h].doc)
<1>0. /\ TypeOK /\ up \in Exchange /\ get \in [GetHandlers -> GetRequest] /\ NoExpiry(rows)
      /\ \A k \in GetHandlers : NoExpiry(get[k].doc) /\ get[k] \in GetRequest
  BY ExpiryParts DEF ServerTypeOK, UpstreamTypeOK, TypeOK, GetTypeOK
<1>1. NoExpiry(GetDocument(FALSE))
  BY <1>0 DEF NoExpiry, GetDocument, EmptyRow
<1>2. NoExpiry(IdleGet.doc)
  BY ExpiryParts DEF IdleGet
<1>3. CASE Alone(Next)
  <2>1. ASSUME UNCHANGED get PROVE NoExpiry(get'[h].doc)
    BY <1>0, <2>1
  <2>2. CASE ServeTurn
    <3>1. PICK k \in GetHandlers : GetStep(k)
      BY <2>2 DEF ServeTurn
    <3>2. /\ \A j \in GetHandlers \ {k} : get'[j] = get[j]
          /\ get'[k].doc \in {get[k].doc, GetDocument(FALSE)}
      BY <1>0, <3>1, GetStepKeeps
    <3> QED
      BY <1>0, <1>1, <3>2
  <2>3. CASE RequestTurn
    <3>1. ASSUME NEW mismatch \in BOOLEAN, DeviceGet(mismatch)
          PROVE  get'[h].doc = get[h].doc
      BY <1>0, <3>1 DEF DeviceGet, GetRequest
    <3>2. ASSUME NEW m \in Metas, MgetGet(m) PROVE get'[h].doc = get[h].doc
      BY <1>0, <3>2 DEF MgetGet, GetRequest
    <3>3. ASSUME NEW k \in GetHandlers, get' = [get EXCEPT ![k] = IdleGet]
          PROVE  get'[h] = IdleGet \/ get'[h] = get[h]
      BY <1>0, <3>3
    <3>4. get'[h].doc = get[h].doc \/ get'[h] = IdleGet \/ get'[h] = get[h]
      BY <2>3, <3>1, <3>2, <3>3 DEF RequestTurn, DeviceReceives, MgetReceives, GetFails
    <3> QED
      BY <1>0, <1>2, <3>4
  <2> QED
    BY <1>0, <1>3, <2>1, <2>2, <2>3, Turns
       DEF Alone, WriterTurn, ReportTurn, PokeTurn, ClockTurn, UpgradeTurn
<1>4. CASE Exchanges
  <2>1. ASSUME UNCHANGED get PROVE NoExpiry(get'[h].doc)
    BY <1>0, <2>1
  <2>2. ASSUME NEW k \in GetHandlers, NEW g, get' = [get EXCEPT ![k] = g], NoExpiry(g.doc)
        PROVE  NoExpiry(get'[h].doc)
    BY <1>0, <2>2
  <2>3. ASSUME NEW k \in GetHandlers, UpstreamDecide(k) PROVE NoExpiry(get'[h].doc)
    <3>1. get[k] \in GetRequest /\ NoExpiry(get[k].doc)
      BY <1>0
    <3>2. /\ [get[k] EXCEPT !.pc = "reply", !.status = "409"].doc = get[k].doc
          /\ [get[k] EXCEPT !.pc = "upstream"].doc = get[k].doc
          /\ AnswerMget(get[k]).doc = get[k].doc
          /\ AnswerFromTables(get[k]).doc = get[k].doc
      BY <3>1 DEF GetRequest, AnswerMget, AnswerFromTables
    <3>3. \E g \in {[get[k] EXCEPT !.pc = "reply", !.status = "409"],
                    [get[k] EXCEPT !.pc = "upstream"], AnswerMget(get[k]),
                    AnswerFromTables(get[k])} : get' = [get EXCEPT ![k] = g]
      BY <2>3 DEF UpstreamDecide
    <3> QED
      BY <2>2, <3>1, <3>2, <3>3
  <2>4. ASSUME NEW g, NoExpiry(g.doc), "doc" \in DOMAIN g, "pc" \in DOMAIN g, Reply(g)
        PROVE  NoExpiry(get'[h].doc)
    <3>1. get' = [get EXCEPT !["device"] = [g EXCEPT !.pc = "reply"]]
      BY <2>4 DEF Reply
    <3>2. [g EXCEPT !.pc = "reply"].doc = g.doc
      BY <2>4
    <3> QED
      BY <2>2, <2>4, <3>1, <3>2, ServerAssumption
  <2>5. ASSUME Reply([get["device"] EXCEPT !.status = "404"]) PROVE NoExpiry(get'[h].doc)
    <3>1. get["device"] \in GetRequest /\ NoExpiry(get["device"].doc)
      BY <1>0, ServerAssumption
    <3>2. [get["device"] EXCEPT !.status = "404"].doc = get["device"].doc
      BY <3>1 DEF GetRequest
    <3> QED
      BY <2>4, <2>5, <3>1, <3>2 DEF GetRequest
  <2>6. CASE UpstreamRespond
    <3> DEFINE doc == FinalDocument
    <3>1. PICK etag, send, status :
             Reply([get["device"] EXCEPT !.doc = doc, !.cloudRoot = etag, !.send = send, !.status = status])
      BY <2>6, Zenon DEF UpstreamRespond
    <3>2. NoExpiry(doc)
      BY DEF FinalDocument, EmptyRow, NoExpiry
    <3>3. get["device"] \in GetRequest
      BY <1>0, ServerAssumption
    <3> HIDE DEF doc
    <3> QED
      BY <2>4, <3>1, <3>2, <3>3 DEF GetRequest
  <2> QED
    BY <1>4, <2>1, <2>3, <2>5, <2>6
       DEF Exchanges, UpstreamStep, ResetReadRoot, ResetStoreRoot, ResetReadDocument, ResetDelete,
           StoreUpstreamRoot, WriteUpstreamRow, DeleteUpstreamRow
<1>5. CASE UpstreamAnswers
  BY <1>0, <1>5 DEF UpstreamAnswers, PostUpstream
<1>6. CASE FactoryReset
  <2>1. get'[h] = get[h] \/ get'[h].doc = IdleGet.doc
    BY <1>0, <1>6 DEF FactoryReset, DeviceResets, IdleGet
  <2> QED
    BY <1>0, <1>2, <2>1
<1> QED
  BY <1>3, <1>4, <1>5, <1>6 DEF ServerNext

LEMMA ExpiryStep ==
    ASSUME ServerTypeOK, UpstreamDisciplined, NothingExpires, [ServerNext]_serverVars
    PROVE  NothingExpires'
<1>1. CASE ServerNext
  BY <1>1, RowsNoExpiry, DocumentsNoExpiry DEF NothingExpires, NoExpiry
<1>2. CASE UNCHANGED serverVars
  BY <1>2 DEF serverVars, vars, storeVars, NothingExpires
<1> QED
  BY <1>1, <1>2

-----------------------------------------------------------------------------
(* The request of the device.                                              *)

\* An answer built from the rows, as Answered and AnswerFromTables build it,
\* brings all that is new.
LEMMA FitAnswer ==
    ASSUME UpstreamDisciplined, ServerTypeOK, HeadersNeverOverstate, NEW g, NEW a,
           Fits(g.doc), a.doc = g.doc, a.cloudRoot = g.cloudRoot,
           \A s \in SubdocIds : g.hdrVers[s] \in {0, dev.vers[s]},
           \A s \in Deliverable : s \in a.send \/ g.doc[s].version = g.hdrVers[s]
    PROVE  ResponseCovers(a)
<1>1. \A s \in Deliverable : /\ s \in SubdocIds /\ g.doc[s].version # 0
                             /\ g.doc[s].version = rows[s].version
  BY DEF Deliverable, Fits, Current
<1>2. \A s \in Deliverable : s \notin a.send => dev.vers[s] = rows[s].version
  BY <1>1
<1> QED
  BY <1>1, <1>2 DEF ResponseCovers

\* What of a document that fits is not held back by the comparison, the
\* blocked sub-documents or the bitmap.
LEMMA Unsent ==
    ASSUME UpstreamDisciplined, ServerTypeOK, NEW g, Fits(g.doc), Compared(g), g.cmp # "equals",
           g.meta \in Metas, NEW s \in Deliverable
    PROVE  /\ s \in Unfiltered(g) \/ g.doc[s].version = g.hdrVers[s]
           /\ s \notin Blocked
           /\ FilterOutputByBitmapEnabled => \A m \in Metas : s \in Supports[m]
           /\ g.cmp = "meta" \/ g.cloudMeta \in Metas
<1>1. s \in Ids(g.doc) /\ s \in SubdocIds /\ s \notin Blocked
  BY DEF Deliverable, Fits, Current, Ids
<1>2. dev.meta \in Metas
  BY DEF ServerTypeOK, TypeOK, DeviceTypeOK, DeviceState
<1>3. FilterOutputByBitmapEnabled => \A m \in Metas : s \in Supports[m]
  BY <1>2 DEF Deliverable, UpstreamDisciplined
<1>4. g.cmp = "meta" \/ (g.cloudMeta \in Metas /\ (g.hdrRoot # NoRoot => g.hdrRoot # g.cloudRoot))
  BY DEF Compared, CompareCovers
<1>5. s \in Unfiltered(g) \/ g.doc[s].version = g.hdrVers[s]
  BY <1>1, <1>4 DEF Unfiltered, FilterForGet
<1> QED
  BY <1>1, <1>3, <1>4, <1>5

\* Once BuildGetDocument has all it wants ...
LEMMA DecideBrings ==
    ASSUME UpstreamDisciplined, ServerTypeOK, HeadersNeverOverstate, NEW g \in GetRequest,
           g.meta \in Metas, Presents(g), Compared(g), Fits(g.doc) \/ g.cmp = "equals",
           g.hdrVers = get["device"].hdrVers
    PROVE  BringsAll(Decide("device", g))
<1> DEFINE d == Decide("device", g)
<1>1. SameFindings(d, g)
  BY FindingsKept
<1>2. Presents(d) /\ Compared(d) /\ d.meta \in Metas
  BY <1>1 DEF SameFindings, Presents, Compared, CompareCovers
<1>3. CASE UpstreamEnabled
  <2>1. d.pc = "built"
    BY <1>3 DEF Decide, GetRequest
  <2> HIDE DEF d
  <2>2. BringsAll(d)
    BY <1>2, <2>1 DEF BringsAll
  <2> QED
    BY <2>2 DEF d
<1>4. CASE ~UpstreamEnabled
  <2>1. /\ d.pc \in {"update", "reply"} /\ d.status = Status(g)
        /\ Status(g) = "200" => d.send = Sendable(g)
    BY <1>4 DEF Decide, Answered, GetRequest
  <2> HIDE DEF d
  <2>2. ASSUME Status(g) = "200" PROVE ResponseCovers(d)
    <3>1. g.cmp # "equals"
      BY <2>2 DEF Status
    <3>2. \A s \in Deliverable : s \in Sendable(g) \/ g.doc[s].version = g.hdrVers[s]
      <4>1. SUFFICES ASSUME NEW s \in Deliverable, s \in Unfiltered(g)
                     PROVE  s \in Sendable(g)
        BY <3>1, Unsent
      <4>2. /\ s \notin Blocked
            /\ FilterOutputByBitmapEnabled => \A m \in Metas : s \in Supports[m]
            /\ g.cmp = "meta" \/ g.cloudMeta \in Metas
        BY <3>1, <4>1, Unsent
      <4> QED
        BY <4>1, <4>2, StoreAssumption DEF Sendable, FilterByBitmap
    <3>3. \A s \in SubdocIds : g.hdrVers[s] \in {0, dev.vers[s]}
      BY ServerAssumption DEF HeadersNeverOverstate
    <3>4. d.doc = g.doc /\ d.cloudRoot = g.cloudRoot
      BY <1>1 DEF SameFindings
    <3> QED
      BY <2>1, <2>2, <3>1, <3>2, <3>3, <3>4, FitAnswer
  <2>3. BringsAll(d)
    BY <1>2, <2>1, <2>2 DEF BringsAll
  <2> QED
    BY <2>3 DEF d
<1> QED
  BY <1>3, <1>4

\* ... once it has the document ...
LEMMA AfterDocumentBrings ==
    ASSUME UpstreamDisciplined, ServerTypeOK, HeadersNeverOverstate, NEW g \in GetRequest,
           g.meta \in Metas, Presents(g), Compared(g), Fits(g.doc),
           g.hdrVers = get["device"].hdrVers
    PROVE  BringsAll(AfterDocument("device", g))
<1>1. CASE StateCorrectionEnabled /\ Correctable(g) # {}
  <2> DEFINE d == AfterDocument("device", g)
  <2>1. d.pc = "correct"
    BY <1>1 DEF AfterDocument, GetRequest
  <2>2. SameFindings(d, g)
    BY FindingsKept
  <2> HIDE DEF d
  <2>3. BringsAll(d)
    BY <2>1, <2>2 DEF SameFindings, BringsAll, Presents, Compared, CompareCovers
  <2> QED
    BY <2>3 DEF d
<1>2. CASE ~(StateCorrectionEnabled /\ Correctable(g) # {})
  <2>1. AfterDocument("device", g) = Decide("device", g)
    BY <1>2 DEF AfterDocument
  <2> QED
    BY <2>1, DecideBrings
<1> QED
  BY <1>1, <1>2

\* ... and once it has the root document.
LEMMA AfterRootBrings ==
    ASSUME UpstreamDisciplined, ServerTypeOK, HeadersNeverOverstate, NEW g \in GetRequest,
           g.meta \in Metas, Presents(g), Compared(g), g.hasDoc => Fits(g.doc),
           g.hdrVers = get["device"].hdrVers
    PROVE  BringsAll(AfterRoot("device", g))
<1>1. CASE ~g.hasDoc /\ (StateCorrectionEnabled \/ g.cmp # "equals")
  <2> DEFINE d == AfterRoot("device", g)
  <2>1. d.pc = "doc"
    BY <1>1 DEF AfterRoot, GetRequest
  <2>2. SameFindings(d, g)
    BY FindingsKept
  <2> HIDE DEF d
  <2>3. BringsAll(d)
    BY <2>1, <2>2 DEF SameFindings, BringsAll, Presents, Compared, CompareCovers
  <2> QED
    BY <2>3 DEF d
<1>2. CASE g.hasDoc
  <2>1. AfterRoot("device", g) = AfterDocument("device", g)
    BY <1>2 DEF AfterRoot
  <2> QED
    BY <1>2, <2>1, AfterDocumentBrings
<1>3. CASE ~g.hasDoc /\ ~(StateCorrectionEnabled \/ g.cmp # "equals")
  <2>1. AfterRoot("device", g) = Decide("device", g)
    BY <1>3 DEF AfterRoot
  <2> QED
    BY <1>3, <2>1, DecideBrings
<1> QED
  BY <1>1, <1>2, <1>3

\* The rebuilt versions have every current one the device presented.
LEMMA RebuiltPresents ==
    ASSUME ServerTypeOK, VersionsOwned, Presents(get["device"]),
           NEW vers \in [SubdocIds -> {0} \cup {GetDocument(FALSE)[s].version : s \in SubdocIds}],
           IsRebuiltVersionMap(vers, get["device"].hdrVers, GetDocument(FALSE)),
           NEW s \in SubdocIds, Current(s), dev.vers[s] = rows[s].version
    PROVE  vers[s] = dev.vers[s]
<1> DEFINE doc == GetDocument(FALSE)
           hdr == get["device"].hdrVers
<1>1. hdr[s] = rows[s].version /\ doc[s].version = rows[s].version /\ rows[s].version # 0
  BY DEF Presents, GetDocument, Current, InDocument
<1>2. Cardinality({t \in SubdocIds : vers[t] = doc[s].version}) = 1
  <2>1. \A x \in Ids(doc) : doc[x].version \in {hdr[t] : t \in SubdocIds} =>
            Cardinality({t \in SubdocIds : vers[t] = doc[x].version}) = 1
    BY Zenon DEF IsRebuiltVersionMap
  <2>2. s \in Ids(doc) /\ doc[s].version \in {hdr[t] : t \in SubdocIds}
    BY <1>1 DEF Ids
  <2> QED
    BY <2>1, <2>2, Zenon
<1>3. PICK t \in SubdocIds : vers[t] = doc[s].version
  <2> DEFINE T == {t \in SubdocIds : vers[t] = doc[s].version}
  <2>1. T # {}
    <3>1. Cardinality(T) = 1
      BY <1>2
    <3> HIDE DEF T
    <3> QED
      BY <3>1, FS_EmptySet
  <2> QED
    BY <2>1
<1>4. vers[t] = doc[t].version
  BY <1>1, <1>3 DEF IsRebuiltVersionMap
<1>5. doc[t].version = rows[t].version
  BY <1>1, <1>3, <1>4 DEF GetDocument, EmptyRow
<1>6. rows[t].version = rows[s].version
  BY <1>1, <1>3, <1>4, <1>5
<1>7. t = s
  BY <1>1, <1>6 DEF VersionsOwned, VersionsAt
<1> QED
  BY <1>1, <1>3, <1>7

\* A step of the device's GET.
LEMMA DeviceServeBrings ==
    ASSUME UpstreamDisciplined, ServerTypeOK, ServerTypeOK', HeaderInv, RequestFits,
           NothingExpires, NothingExpires', RequestCovers, GetStep("device")
    PROVE  SameVersions /\ RequestCovers'
<1>0. /\ get \in [GetHandlers -> GetRequest] /\ get["device"] \in GetRequest /\ StoreTypeOK
      /\ TypeOK /\ "device" \in GetHandlers /\ BringsAll(get["device"]) /\ StillThere(get["device"])
      /\ VersionsOwned /\ HeadersNeverOverstate
  BY ServerAssumption DEF ServerTypeOK, TypeOK, GetTypeOK, RequestFits, RequestCovers, HeaderInv
<1>a. SameVersions
  <2>1. TablesKept
    BY <1>0, DeviceServeFits
  <2>2. UNCHANGED dev
    BY <1>0, GetStepKeeps
  <2> QED
    BY <2>1, <2>2 DEF TablesKept, RowsKept, SameVersions
<1>b. get["device"].pc # "idle"
  BY DEF GetStep, GetReadDocFirst, GetReadRoot, GetStoreMeta, GetReadDocument, CorrectState,
         MarkInDeployment
<1>c. get["device"].meta \in Metas /\ Presents(get["device"])
  BY <1>0, <1>b DEF BringsAll
<1>d. SUFFICES BringsAll(get'["device"])
  <2>1. ASSUME NEW g, g = get'["device"], BringsAll(g) PROVE RequestCovers'
    BY <1>a, <2>1, SameBringing
  <2> QED
    BY <1>a, <2>1
<1>1. CASE GetReadDocFirst("device")
  <2>1. CASE Ids(GetDocument(FALSE)) = {}
    <3>1. get' = [get EXCEPT !["device"].pc = IF UpstreamEnabled THEN "built" ELSE "reply",
                             !["device"].cmp = "version", !["device"].status = "404"]
      BY <1>1, <2>1 DEF GetReadDocFirst
    <3>2. /\ get'["device"].pc \in {"built", "reply"} /\ get'["device"].status = "404"
          /\ get'["device"].meta = get["device"].meta /\ get'["device"].hdrVers = get["device"].hdrVers
      BY <1>0, <3>1 DEF GetRequest
    <3> QED
      BY <1>c, <3>2 DEF BringsAll, Presents
  <2>2. CASE Ids(GetDocument(FALSE)) # {}
    <3> DEFINE doc == GetDocument(FALSE)
    <3>1. PICK vers \in [SubdocIds -> {0} \cup {doc[s].version : s \in SubdocIds}] :
             /\ IsRebuiltVersionMap(vers, get["device"].hdrVers, doc)
             /\ get' = [get EXCEPT !["device"].pc = "root", !["device"].hasDoc = TRUE,
                                   !["device"].doc = doc, !["device"].hdrVers = vers]
      BY <1>1, <2>2 DEF GetReadDocFirst
    <3>2. \A s \in SubdocIds : Current(s) /\ dev.vers[s] = rows[s].version => vers[s] = dev.vers[s]
      BY <1>0, <1>c, <3>1, RebuiltPresents
    <3> HIDE DEF doc
    <3>3. /\ get'["device"].pc = "root" /\ get'["device"].hdrVers = vers
          /\ get'["device"].meta = get["device"].meta
      BY <1>0, <3>1 DEF GetRequest
    <3> QED
      BY <1>c, <3>2, <3>3 DEF BringsAll, Presents
  <2> QED
    BY <2>1, <2>2
<1>2. CASE GetReadRoot("device")
  <2>0. get["device"].pc = "root"
    BY <1>2 DEF GetReadRoot
  <2> DEFINE m == IF root.exists THEN root.meta ELSE get["device"].meta
             v == IF root.exists THEN root.version ELSE NoRoot
             g == [get["device"] EXCEPT !.cloudRoot = v, !.cloudMeta = m,
                                 !.locked = root.exists /\ root.locked,
                                 !.cmp = Compare("device", v, m, get["device"].hdrRoot, get["device"].meta)]
             new == IF ~root.exists THEN [g EXCEPT !.pc = "create"]
                    ELSE IF m # g.meta THEN [g EXCEPT !.pc = "meta"]
                    ELSE AfterRoot("device", g)
  <2>2. m \in MetaColumn /\ v \in RootVersion /\ (root.exists /\ root.locked) \in BOOLEAN
    BY <1>0, EmptyTypes DEF StoreTypeOK, RootRow, GetRequest
  <2>3. Compare("device", v, m, get["device"].hdrRoot, get["device"].meta) \in Comparison
    BY DEF Compare, Comparison
  <2>4. get' = [get EXCEPT !["device"] = new]
    BY <1>2 DEF GetReadRoot
  <2> HIDE DEF m, v
  <2>5. /\ g \in GetRequest /\ g.cloudRoot = v /\ g.cloudMeta = m
        /\ g.cmp = Compare("device", v, m, get["device"].hdrRoot, get["device"].meta)
        /\ g.hdrRoot = get["device"].hdrRoot /\ g.hdrVers = get["device"].hdrVers
        /\ g.meta = get["device"].meta
        /\ g.hasDoc = get["device"].hasDoc /\ g.doc = get["device"].doc
    BY <1>0, <2>2, <2>3 DEF GetRequest
  <2> HIDE DEF g
  <2>6. g.meta \in Metas /\ Presents(g) /\ (g.hasDoc => Fits(g.doc))
    BY <1>0, <1>c, <2>0, <2>5 DEF StillThere, Presents
  <2>7. Compared(g)
    BY <2>5, <2>6 DEF Compared, CompareCovers, Compare
  <2>8. BringsAll(AfterRoot("device", g))
    BY <1>0, <2>5, <2>6, <2>7, AfterRootBrings
  <2>9. ASSUME NEW pc \in {"create", "meta"} PROVE BringsAll([g EXCEPT !.pc = pc])
    <3> DEFINE d == [g EXCEPT !.pc = pc]
    <3>1. SameFindings(d, g) /\ d.pc = pc
      BY <2>5 DEF SameFindings, GetRequest
    <3> HIDE DEF d
    <3>2. BringsAll(d)
      BY <2>6, <2>7, <2>9, <3>1 DEF SameFindings, BringsAll, Presents, Compared, CompareCovers
    <3> QED
      BY <3>2 DEF d
  <2>10. BringsAll(new)
    BY <2>8, <2>9
  <2> HIDE DEF new
  <2> QED
    BY <1>0, <2>4, <2>10
<1>3. CASE GetStoreMeta("device")
  <2>1. get["device"].pc \in {"create", "meta"} /\ get'["device"] = AfterRoot("device", get["device"])
    BY <1>0, <1>3 DEF GetStoreMeta
  <2>2. Compared(get["device"]) /\ (get["device"].hasDoc => Fits(get["device"].doc))
    BY <1>0, <2>1 DEF BringsAll, StillThere
  <2> QED
    BY <1>0, <1>c, <2>1, <2>2, AfterRootBrings
<1>4. CASE GetReadDocument("device")
  <2> DEFINE g == [get["device"] EXCEPT !.hasDoc = TRUE, !.doc = GetDocument(FALSE)]
  <2>1. get["device"].pc = "doc" /\ get' = [get EXCEPT !["device"] = AfterDocument("device", g)]
    BY <1>4 DEF GetReadDocument
  <2>2. /\ g \in GetRequest /\ g.doc = GetDocument(FALSE)
        /\ g.hdrRoot = get["device"].hdrRoot /\ g.hdrVers = get["device"].hdrVers
        /\ g.meta = get["device"].meta /\ g.cmp = get["device"].cmp
        /\ g.cloudRoot = get["device"].cloudRoot /\ g.cloudMeta = get["device"].cloudMeta
    BY <1>0, GetDocumentType DEF GetRequest
  <2> HIDE DEF g
  <2>3. Compared(get["device"])
    BY <1>0, <2>1 DEF BringsAll
  <2>4. Compared(g) /\ Presents(g) /\ g.meta \in Metas /\ Fits(g.doc)
    BY <1>c, <2>2, <2>3, DocumentFits DEF Compared, CompareCovers, Presents
  <2> QED
    BY <1>0, <2>1, <2>2, <2>4, AfterDocumentBrings
<1>5. ASSUME NEW s \in SubdocIds, CorrectState("device", s) PROVE BringsAll(get'["device"])
  <2> DEFINE g == [get["device"] EXCEPT !.todo = @ \ {s}]
  <2>1. /\ get["device"].pc = "correct"
        /\ get' = [get EXCEPT !["device"] = IF g.todo = {} THEN Decide("device", g) ELSE g]
    BY <1>5 DEF CorrectState
  <2>2. g \in GetRequest /\ g.pc = "correct" /\ SameFindings(g, get["device"])
    BY <1>0, <2>1 DEF GetRequest, SameFindings
  <2> HIDE DEF g
  <2>3. Compared(get["device"]) /\ Fits(get["device"].doc)
    BY <1>0, <2>1 DEF BringsAll, StillThere
  <2>4. Compared(g) /\ Presents(g) /\ g.meta \in Metas /\ Fits(g.doc)
    BY <1>c, <2>2, <2>3 DEF Compared, CompareCovers, Presents, SameFindings
  <2>5. BringsAll(Decide("device", g))
    BY <1>0, <2>2, <2>4, DecideBrings DEF SameFindings
  <2>6. BringsAll(g)
    BY <2>2, <2>4 DEF BringsAll
  <2> QED
    BY <1>0, <2>1, <2>5, <2>6
<1>6. ASSUME NEW s \in SubdocIds, MarkInDeployment("device", s) PROVE BringsAll(get'["device"])
  <2>1. /\ get["device"].pc = "update" /\ get'["device"].pc \in {"update", "reply"}
        /\ SameFindings(get'["device"], get["device"])
        /\ get'["device"].status = get["device"].status /\ get'["device"].send = get["device"].send
    BY <1>0, <1>6 DEF MarkInDeployment, GetRequest, SameFindings
  <2> QED
    BY <1>0, <1>c, <2>1 DEF BringsAll, Presents, ResponseCovers, SameFindings
<1> QED
  BY <1>1, <1>2, <1>3, <1>4, <1>5, <1>6 DEF GetStep

-----------------------------------------------------------------------------
(* A step of Webconfig.                                                    *)

\* The root version a request goes by is one it had or one it just read.
LEMMA CloudRoots ==
    ASSUME TypeOK, NEW h \in GetHandlers, GetStep(h)
    PROVE  get'[h].cloudRoot \in {get[h].cloudRoot, root.version, NoRoot}
<1>0. get \in [GetHandlers -> GetRequest] /\ get[h] \in GetRequest /\ StoreTypeOK
  BY DEF TypeOK, GetTypeOK
<1>1. CASE GetReadDocFirst(h)
  <2>1. CASE Ids(GetDocument(FALSE)) = {}
    <3>1. get' = [get EXCEPT ![h].pc = IF UpstreamEnabled THEN "built" ELSE "reply",
                             ![h].cmp = "version", ![h].status = "404"]
      BY <1>1, <2>1 DEF GetReadDocFirst
    <3> QED
      BY <1>0, <3>1 DEF GetRequest
  <2>2. CASE Ids(GetDocument(FALSE)) # {}
    <3>1. PICK vers, doc : get' = [get EXCEPT ![h].pc = "root", ![h].hasDoc = TRUE,
                                              ![h].doc = doc, ![h].hdrVers = vers]
      BY <1>1, <2>2, Zenon DEF GetReadDocFirst
    <3> QED
      BY <1>0, <3>1 DEF GetRequest
  <2> QED
    BY <2>1, <2>2
<1>2. CASE GetReadRoot(h)
  <2> DEFINE m == IF root.exists THEN root.meta ELSE get[h].meta
             v == IF root.exists THEN root.version ELSE NoRoot
             g == [get[h] EXCEPT !.cloudRoot = v, !.cloudMeta = m,
                                 !.locked = root.exists /\ root.locked,
                                 !.cmp = Compare(h, v, m, get[h].hdrRoot, get[h].meta)]
             new == IF ~root.exists THEN [g EXCEPT !.pc = "create"]
                    ELSE IF m # g.meta THEN [g EXCEPT !.pc = "meta"]
                    ELSE AfterRoot(h, g)
  <2>1. m \in MetaColumn /\ v \in RootVersion /\ (root.exists /\ root.locked) \in BOOLEAN
    BY <1>0, EmptyTypes DEF StoreTypeOK, RootRow, GetRequest
  <2>2. Compare(h, v, m, get[h].hdrRoot, get[h].meta) \in Comparison
    BY DEF Compare, Comparison
  <2>3. get' = [get EXCEPT ![h] = new] /\ v \in {root.version, NoRoot}
    BY <1>2 DEF GetReadRoot
  <2> HIDE DEF m, v
  <2>4. g \in GetRequest /\ g.cloudRoot = v
    BY <1>0, <2>1, <2>2 DEF GetRequest
  <2> HIDE DEF g
  <2>5. AfterRoot(h, g).cloudRoot = v
    BY <2>4, FindingsKept DEF SameFindings
  <2>6. [g EXCEPT !.pc = "create"].cloudRoot = v /\ [g EXCEPT !.pc = "meta"].cloudRoot = v
    BY <2>4 DEF GetRequest
  <2>7. new.cloudRoot = v
    BY <2>5, <2>6
  <2> HIDE DEF new
  <2> QED
    BY <1>0, <2>3, <2>7
<1>3. CASE GetStoreMeta(h)
  BY <1>0, <1>3, FindingsKept DEF GetStoreMeta, SameFindings
<1>4. CASE GetReadDocument(h)
  <2> DEFINE g == [get[h] EXCEPT !.hasDoc = TRUE, !.doc = GetDocument(FALSE)]
  <2>1. g \in GetRequest /\ g.cloudRoot = get[h].cloudRoot
    BY <1>0, GetDocumentType DEF GetRequest
  <2>2. get' = [get EXCEPT ![h] = AfterDocument(h, g)]
    BY <1>4 DEF GetReadDocument
  <2> HIDE DEF g
  <2> QED
    BY <1>0, <2>1, <2>2, FindingsKept DEF SameFindings
<1>5. ASSUME NEW s \in SubdocIds, CorrectState(h, s) PROVE get'[h].cloudRoot = get[h].cloudRoot
  <2> DEFINE g == [get[h] EXCEPT !.todo = @ \ {s}]
  <2>1. g \in GetRequest /\ g.cloudRoot = get[h].cloudRoot
    BY <1>0 DEF GetRequest
  <2>2. get' = [get EXCEPT ![h] = IF g.todo = {} THEN Decide(h, g) ELSE g]
    BY <1>5 DEF CorrectState
  <2> HIDE DEF g
  <2>3. Decide(h, g).cloudRoot = g.cloudRoot
    BY <2>1, FindingsKept DEF SameFindings
  <2> QED
    BY <1>0, <2>1, <2>2, <2>3
<1>6. ASSUME NEW s \in SubdocIds, MarkInDeployment(h, s) PROVE get'[h].cloudRoot = get[h].cloudRoot
  BY <1>0, <1>6 DEF MarkInDeployment, GetRequest
<1> QED
  BY <1>1, <1>2, <1>3, <1>4, <1>5, <1>6 DEF GetStep

\* A northbound handler: a row it posts is one the device is behind with.
LEMMA WriterTurnCovers ==
    ASSUME UpstreamDisciplined, Orderly, ServerTypeOK', NothingExpires', Undisturbed,
           Alone(Next), WriterTurn
    PROVE  TablesCover' /\ RequestCovers' /\ ExchangeCovers'
<1>0. /\ TypeOK /\ TypeOK' /\ UNCHANGED <<dev, get>> /\ BringsAll(get["device"])
      /\ VersionsOwned /\ nextVersion \in Nat \ {0} /\ "device" \in GetHandlers
  BY ServerAssumption
     DEF Orderly, ServerTypeOK, WriterTurn, deviceVars, RequestCovers, HeaderInv, TypeOK, WriterTypeOK
<1>1. get["device"].pc # "upstream" /\ up.pc = "idle"
  <2>1. ~Reading
    BY <1>0, WriterMoves, NobodyWrites
  <2> QED
    BY <2>1 DEF Reading, Orderly, RequestsInStep
<1>2. up' = IdleExchange
  BY <1>0, <1>1 DEF Alone
<1>3. PICK w \in Writers : WriterStep(w) \/ WriterFails(w)
  BY DEF WriterTurn
<1>4. VersionsPosted /\ WriterCovers /\ RootCovers
  BY <1>1 DEF Orderly, TablesCover
<1>5. /\ VersionsPosted' /\ WriterCovers' /\ RootCovers'
      /\ RowsLeft \/ \E s \in SubdocIds : RowPosted(s)
  BY <1>0, <1>3, <1>4, WriterTables DEF UpstreamDisciplined, UniqueVersions, WriterTurn
<1>6. CASE RowsLeft
  <2>1. SameVersions
    BY <1>0, <1>6 DEF RowsLeft, SameVersions, UpstreamDisciplined
  <2>2. DeviceCovers' \/ Behind'
    BY <2>1, SameDelivery DEF Orderly, TablesCover
  <2>3. RequestCovers'
    BY <1>0, <2>1, SameBringing DEF Orderly
  <2> QED
    BY <1>2, <1>5, <2>2, <2>3, OverCovers DEF TablesCover
<1>7. ASSUME NEW s \in SubdocIds, RowPosted(s)
      PROVE  TablesCover' /\ RequestCovers' /\ ExchangeCovers'
  <2>1. /\ nextVersion \notin VersionsIn(dev.root) /\ dev.vers[s] # nextVersion
        /\ nextVersion \notin VersionsIn(get["device"].cloudRoot)
    <3>1. dev.vers[s] \in VersionsAt(s)
      BY DEF VersionsAt
    <3> QED
      BY <1>0, <1>4, <3>1 DEF VersionsPosted, VersionsOwned
  <2>2. Behind'
    BY <1>0, <1>7, <2>1 DEF Behind, RowPosted, Current, InDocument, NothingExpires
  <2>3. Presents(get["device"]) => Presents(get["device"])'
    BY <1>0, <1>7, <2>1 DEF Presents, RowPosted, Current, InDocument
  <2>4. ResponseCovers(get["device"]) => ResponseCovers(get["device"])'
    <3>1. Deliverable' \subseteq (Deliverable \cap SubdocIds) \cup {s}
      BY <1>0, <1>7 DEF Deliverable, InDocument, RowPosted
    <3> QED
      BY <1>0, <1>7, <2>1, <2>2, <3>1 DEF ResponseCovers, RowPosted
  <2>5. RequestCovers'
    BY <1>0, <2>3, <2>4 DEF RequestCovers, BringsAll, Compared, CompareCovers
  <2> QED
    BY <1>2, <1>5, <2>2, <2>5, OverCovers DEF TablesCover
<1> QED
  BY <1>5, <1>6, <1>7

\* A step of Webconfig that changes no version.
LEMMA QuietAlone ==
    ASSUME UpstreamDisciplined, Orderly, ServerTypeOK', NothingExpires', SameVersions,
           UNCHANGED writerVars, root'.version = root.version,
           up' = IF get'["device"].pc = "upstream" THEN up ELSE IdleExchange,
           up.pc = "write" => get'["device"].pc = "upstream",
           \A h \in GetHandlers : \A v \in VersionsIn(get'[h].cloudRoot) : v < nextVersion,
           RequestCovers'
    PROVE  TablesCover' /\ RequestCovers' /\ ExchangeCovers'
<1>1. UNCHANGED <<nb, nextVersion, rootStale>>
  BY DEF writerVars
<1>2. TablesCover'
  BY <1>1, QuietTables DEF Orderly
<1>3. ExchangeCovers'
  BY <1>1, SameExchange, OverCovers DEF Orderly
<1> QED
  BY <1>2, <1>3

\* A response of 200 reaches the device, which applies some of it.
LEMMA ReceivesCovers ==
    ASSUME UpstreamDisciplined, Orderly, ServerTypeOK', NothingExpires', NEW applied,
           DeviceReceives(applied), dev' # dev, UNCHANGED writerVars, up' = IdleExchange
    PROVE  TablesCover' /\ RequestCovers' /\ ExchangeCovers'
<1> DEFINE g == get["device"]
<1>0. /\ get \in [GetHandlers -> GetRequest] /\ "device" \in GetHandlers /\ dev \in DeviceState
      /\ BringsAll(g) /\ RequestsInStep
  BY ServerAssumption
     DEF Orderly, ServerTypeOK, TypeOK, GetTypeOK, DeviceTypeOK, RequestCovers
<1>1. /\ g.pc = "reply" /\ g.status = "200" /\ applied \subseteq g.send
      /\ ApplyDocument(g.cloudRoot, VersionMap(g.doc), g.send, applied)
      /\ UNCHANGED <<rows, root, nb, nextVersion, rootStale>>
      /\ get' = [get EXCEPT !["device"] = IdleGet]
  BY DEF DeviceReceives, writerVars, storeVars
<1>2. ResponseCovers(g)
  BY <1>0, <1>1 DEF BringsAll
<1>3. /\ dev'.meta = dev.meta
      /\ dev'.root = IF applied = g.send THEN g.cloudRoot ELSE dev.root
      /\ \A s \in SubdocIds :
            dev'.vers[s] = IF s \in applied THEN g.doc[s].version ELSE dev.vers[s]
  BY <1>0, <1>1 DEF ApplyDocument, VersionMap, DeviceState
<1>4. Deliverable' = Deliverable /\ Deliverable \subseteq SubdocIds
  BY <1>1, <1>3 DEF Deliverable, InDocument
<1>5. up.pc = "idle"
  BY <1>0, <1>1 DEF RequestsInStep
<1>6. VersionsPosted /\ WriterCovers /\ RootCovers /\ (DeviceCovers \/ Behind)
  BY <1>5 DEF Orderly, TablesCover
<1>7. DeviceCovers' \/ Behind'
  <2>1. CASE applied = g.send
    BY <1>1, <1>2, <1>3, <1>4, <2>1 DEF ResponseCovers, DeviceCovers
  <2>2. CASE applied # g.send /\ Behind
    BY <1>1, <1>3, <2>2 DEF Behind, Current, InDocument
  <2>3. CASE applied # g.send /\ ~Behind
    <3>1. DeviceCovers
      BY <1>6, <2>3
    <3>2. CASE \A s, t \in g.send : s = t
      <4>1. applied = {}
        BY <1>1, <2>3, <3>2
      <4> QED
        BY <1>1, <1>3, <1>4, <2>3, <3>1, <4>1 DEF DeviceCovers
    <3>3. CASE \A s \in Deliverable \cap g.send : g.doc[s].version = rows[s].version
      BY <1>1, <1>3, <1>4, <2>3, <3>1, <3>3 DEF DeviceCovers
    <3> QED
      BY <1>2, <2>3, <3>2, <3>3 DEF ResponseCovers
  <2> QED
    BY <2>1, <2>2, <2>3
<1>8. VersionsPosted'
  <2>1. \A v \in VersionsIn(dev'.root) : v < nextVersion
    BY <1>0, <1>3, <1>6 DEF VersionsPosted
  <2>2. \A h \in GetHandlers : get'[h] = get[h] \/ VersionsIn(get'[h].cloudRoot) = {}
    BY <1>0, <1>1 DEF IdleGet, NoRoot, VersionsIn
  <2>3. \A h \in GetHandlers : \A v \in VersionsIn(get'[h].cloudRoot) : v < nextVersion
    BY <1>6, <2>2 DEF VersionsPosted
  <2> QED
    BY <1>1, <1>6, <2>1, <2>3 DEF VersionsPosted
<1>9. WriterCovers' /\ RootCovers'
  BY <1>1, <1>6 DEF WriterCovers, RootCovers, WritersIdle, Current, InDocument
<1>10. RequestCovers'
  <2>1. get'["device"] = IdleGet
    BY <1>0, <1>1
  <2> QED
    BY <2>1 DEF RequestCovers, BringsAll, IdleGet
<1> QED
  BY <1>7, <1>8, <1>9, <1>10, OverCovers DEF TablesCover

\* A GET goes on.
LEMMA ServeTurnCovers ==
    ASSUME UpstreamDisciplined, Orderly, ServerTypeOK', NothingExpires', Alone(Next), ServeTurn
    PROVE  TablesCover' /\ RequestCovers' /\ ExchangeCovers'
<1>0. /\ TypeOK /\ up' = IF get'["device"].pc = "upstream" THEN up ELSE IdleExchange
      /\ UNCHANGED writerVars /\ BringsAll(get["device"]) /\ "device" \in GetHandlers
      /\ RequestsInStep /\ VersionsPosted /\ ServerTypeOK /\ NothingExpires
      /\ HeaderInv /\ RequestFits /\ RequestCovers
  BY ServerAssumption DEF Orderly, ServerTypeOK, Alone, ServeTurn, RequestCovers, TablesCover
<1>1. PICK h \in GetHandlers : GetStep(h)
  BY DEF ServeTurn
<1>2. \A k \in GetHandlers \ {h} : get'[k] = get[k]
  BY <1>0, <1>1, GetStepKeeps
<1>3. \A k \in GetHandlers : \A v \in VersionsIn(get'[k].cloudRoot) : v < nextVersion
  <2>1. get'[h].cloudRoot \in {get[h].cloudRoot, root.version, NoRoot}
    BY <1>0, <1>1, CloudRoots
  <2>2. VersionsIn(NoRoot) = {}
    BY DEF VersionsIn, NoRoot
  <2>3. \A v \in VersionsIn(get'[h].cloudRoot) : v < nextVersion
    BY <1>0, <2>1, <2>2 DEF VersionsPosted
  <2> QED
    BY <1>0, <1>2, <2>3 DEF VersionsPosted
<1>4. CASE h = "device"
  <2>1. SameVersions /\ RequestCovers'
    BY <1>0, <1>1, <1>4, DeviceServeBrings
  <2>2. root'.version = root.version
    BY <1>0, <1>1, <1>4, DeviceServeFits DEF TablesKept
  <2>3. up.pc # "write"
    BY <1>0, <1>1, <1>4, ServeOnward DEF RequestsInStep
  <2> QED
    BY <1>0, <1>3, <2>1, <2>2, <2>3, QuietAlone
<1>5. CASE h = "mget"
  <2>1. get["mget"].pc # "correct"
    BY <1>0, <1>5 DEF RequestsInStep
  <2>2. TablesKept /\ UNCHANGED dev
    BY <1>0, <1>1, <1>5, <2>1, ServeKeeps, GetStepKeeps
  <2>3. SameVersions /\ root'.version = root.version
    BY <2>2 DEF TablesKept, RowsKept, SameVersions
  <2>4. get'["device"] = get["device"]
    BY <1>0, <1>2, <1>5
  <2>5. RequestCovers'
    BY <1>0, <2>3, <2>4, SameBringing
  <2>6. up.pc = "write" => get'["device"].pc = "upstream"
    BY <1>0, <2>4 DEF RequestsInStep
  <2> QED
    BY <1>0, <1>3, <2>3, <2>5, <2>6, QuietAlone
<1> QED
  BY <1>4, <1>5, GetAssumption

\* Requests come and go.
LEMMA RequestTurnCovers ==
    ASSUME UpstreamDisciplined, Orderly, ServerTypeOK', NothingExpires', Undisturbed,
           Alone(Next), RequestTurn
    PROVE  TablesCover' /\ RequestCovers' /\ ExchangeCovers'
<1>0. /\ get \in [GetHandlers -> GetRequest] /\ get["device"] \in GetRequest /\ dev.meta \in Metas
      /\ up' = IF get'["device"].pc = "upstream" THEN up ELSE IdleExchange
      /\ UNCHANGED writerVars /\ BringsAll(get["device"]) /\ "device" \in GetHandlers
      /\ RequestsInStep /\ VersionsPosted /\ ServerTypeOK /\ NothingExpires
  BY ServerAssumption
     DEF Orderly, ServerTypeOK, TypeOK, GetTypeOK, DeviceTypeOK, DeviceState, Alone, RequestTurn,
         RequestCovers, TablesCover
<1>1. UNCHANGED <<rows, root>>
  BY DEF RequestTurn, DeviceGet, MgetGet, DeviceReceives, MgetReceives, GetFails, storeVars
<1>2. ASSUME NEW g, get'["device"] = g, BringsAll(g), UNCHANGED dev,
             g.cloudRoot \in {get["device"].cloudRoot, NoRoot},
             \A k \in GetHandlers \ {"device"} : get'[k].cloudRoot \in {get[k].cloudRoot, NoRoot},
             up.pc = "write" => g.pc = "upstream"
      PROVE  TablesCover' /\ RequestCovers' /\ ExchangeCovers'
  <2>1. SameVersions
    BY <1>1, <1>2 DEF SameVersions
  <2>2. VersionsIn(NoRoot) = {}
    BY DEF VersionsIn, NoRoot
  <2>3. \A k \in GetHandlers : get'[k].cloudRoot \in {get[k].cloudRoot, NoRoot}
    BY <1>2
  <2>4. \A k \in GetHandlers : \A v \in VersionsIn(get'[k].cloudRoot) : v < nextVersion
    BY <1>0, <2>2, <2>3 DEF VersionsPosted
  <2>5. RequestCovers'
    BY <1>0, <1>2, <2>1, SameBringing
  <2> QED
    BY <1>0, <1>1, <1>2, <2>1, <2>4, <2>5, QuietAlone
<1>3. up.pc = "write" => get["device"].pc = "upstream" /\ get'["device"].pc # "idle"
  BY <1>0 DEF RequestsInStep, Undisturbed, Observe
<1>4. ASSUME NEW h \in GetHandlers, get' = [get EXCEPT ![h] = IdleGet], UNCHANGED dev
      PROVE  TablesCover' /\ RequestCovers' /\ ExchangeCovers'
  <2>1. CASE h = "device"
    <3>1. get'["device"] = IdleGet /\ \A k \in GetHandlers \ {"device"} : get'[k] = get[k]
      BY <1>0, <1>4, <2>1
    <3>2. BringsAll(IdleGet) /\ IdleGet.cloudRoot = NoRoot /\ IdleGet.pc = "idle"
      BY DEF BringsAll, IdleGet
    <3> QED
      BY <1>2, <1>3, <1>4, <3>1, <3>2
  <2>2. CASE h # "device"
    <3>1. /\ get'["device"] = get["device"]
          /\ \A k \in GetHandlers \ {"device"} : get'[k] = get[k] \/ get'[k] = IdleGet
      BY <1>0, <1>4, <2>2
    <3>2. \A k \in GetHandlers \ {"device"} : get'[k].cloudRoot \in {get[k].cloudRoot, NoRoot}
      BY <3>1 DEF IdleGet
    <3> QED
      BY <1>0, <1>2, <1>3, <1>4, <3>1, <3>2
  <2> QED
    BY <2>1, <2>2
<1>5. ASSUME NEW mismatch \in BOOLEAN, DeviceGet(mismatch)
      PROVE  TablesCover' /\ RequestCovers' /\ ExchangeCovers'
  <2> DEFINE g == get'["device"]
  <2>1. /\ g.pc \in {"predoc", "root"} /\ g.hdrVers = dev.vers /\ g.meta = dev.meta
        /\ g.cloudRoot = get["device"].cloudRoot /\ UNCHANGED dev
        /\ \A k \in GetHandlers \ {"device"} : get'[k] = get[k]
        /\ get["device"].pc = "idle"
    BY <1>0, <1>5 DEF DeviceGet, GetRequest
  <2>2. BringsAll(g)
    BY <1>0, <2>1 DEF BringsAll, Presents
  <2> HIDE DEF g
  <2>3. up.pc # "write"
    BY <1>3, <2>1
  <2> QED
    BY <1>2, <2>1, <2>2, <2>3 DEF g
<1>6. ASSUME NEW m \in Metas, MgetGet(m)
      PROVE  TablesCover' /\ RequestCovers' /\ ExchangeCovers'
  <2>1. /\ get'["device"] = get["device"] /\ UNCHANGED dev
        /\ \A k \in GetHandlers \ {"device"} : get'[k].cloudRoot = get[k].cloudRoot
    BY <1>0, <1>6 DEF MgetGet, GetRequest, deviceVars
  <2> QED
    BY <1>0, <1>2, <1>3, <2>1
<1>7. ASSUME NEW applied, DeviceReceives(applied)
      PROVE  TablesCover' /\ RequestCovers' /\ ExchangeCovers'
  <2>1. CASE UNCHANGED dev
    BY <1>0, <1>4, <1>7, <2>1 DEF DeviceReceives
  <2>2. CASE dev' # dev
    <3>1. get'["device"].pc # "upstream"
      BY <1>0, <1>7 DEF DeviceReceives, IdleGet
    <3> QED
      BY <1>0, <1>7, <2>2, <3>1, ReceivesCovers
  <2> QED
    BY <2>1, <2>2
<1> QED
  BY <1>4, <1>5, <1>6, <1>7 DEF RequestTurn, MgetReceives, GetFails, deviceVars

\* A step of Webconfig.
LEMMA AloneCovers ==
    ASSUME UpstreamDisciplined, Orderly, ServerTypeOK', NothingExpires', Undisturbed, Alone(Next)
    PROVE  TablesCover' /\ RequestCovers' /\ ExchangeCovers'
<1>0. /\ TypeOK /\ Next /\ up' = IF get'["device"].pc = "upstream" THEN up ELSE IdleExchange
      /\ RequestsInStep /\ VersionsPosted /\ BringsAll(get["device"])
      /\ PrecookSubdocs = {} /\ ServerTypeOK /\ NothingExpires
      /\ dev \in DeviceState
  BY DEF Orderly, ServerTypeOK, Alone, RequestCovers, TablesCover, HeaderInv, UpstreamDisciplined,
         UniqueVersions, TypeOK, DeviceTypeOK
<1>1. CASE ReportTurn \/ PokeTurn \/ ClockTurn \/ UpgradeTurn
  <2>1. TablesKept /\ UNCHANGED get
    BY <1>0, <1>1, QuietTurns
  <2>2. dev'.root = dev.root /\ dev'.vers = dev.vers /\ UNCHANGED writerVars
    <3>1. CASE ReportTurn
      BY <3>1 DEF ReportTurn, ReportStep, TakeReport, Read304, MarkDeployed, ReadSubdoc,
                  SetReportedState, ReportFails, ReportCrashes, deviceVars
    <3>2. CASE PokeTurn
      <4>1. NothingPushed /\ "mqtt" \notin PokeRoutes
        BY DEF Orderly, HeaderInv, UpstreamDisciplined, UniqueVersions
      <4>2. PICK p \in Pokers : PokeStep(p) \/ PokeFails(p)
        BY <3>2, <4>1 DEF PokeTurn, NothingPushed
      <4> QED
        BY <1>0, <3>2, <4>1, <4>2, PokePrompts DEF PokeTurn
    <3>3. CASE ClockTurn
      BY <3>3 DEF ClockTurn, deviceVars
    <3>4. CASE UpgradeTurn
      BY <1>0, <3>4 DEF UpgradeTurn, Upgrade, DeviceState
    <3> QED
      BY <1>1, <3>1, <3>2, <3>3, <3>4
  <2>3. SameVersions /\ root'.version = root.version
    BY <2>1, <2>2 DEF TablesKept, RowsKept, SameVersions
  <2>4. RequestCovers'
    BY <1>0, <2>1, <2>3, SameBringing
  <2>5. up.pc = "write" => get'["device"].pc = "upstream"
    BY <1>0, <2>1 DEF RequestsInStep
  <2>6. \A h \in GetHandlers : \A v \in VersionsIn(get'[h].cloudRoot) : v < nextVersion
    BY <1>0, <2>1 DEF VersionsPosted
  <2> QED
    BY <1>0, <2>2, <2>3, <2>4, <2>5, <2>6, QuietAlone
<1> QED
  BY <1>0, <1>1, Turns, WriterTurnCovers, ServeTurnCovers, RequestTurnCovers

-----------------------------------------------------------------------------
(* The exchange.                                                           *)

\* While an exchange is under way the device's request waits and no writer is
\* under way.
LEMMA UnderWay ==
    ASSUME Orderly, up.pc # "idle"
    PROVE  /\ get["device"].pc = "upstream" /\ get["device"].meta \in Metas
           /\ Presents(get["device"]) /\ BringsAll(get["device"])
           /\ WritersIdle
<1>1. get["device"].pc = "upstream" /\ BringsAll(get["device"])
  BY DEF Orderly, RequestsInStep, RequestCovers
<1>2. WritersIdle
  BY <1>1 DEF Orderly, Reading
<1> QED
  BY <1>1, <1>2 DEF BringsAll

\* Its steps keep the tables covered if they keep the root version covered,
\* and the device's.
LEMMA ExchangeTables ==
    ASSUME Orderly, up.pc # "idle", UNCHANGED <<nb, nextVersion, rootStale>>,
           dev'.root = dev.root,
           \A s \in SubdocIds : rows'[s].version < nextVersion,
           root'.version \in {root.version, up.etag},
           \A h \in GetHandlers : get'[h].cloudRoot \in {get[h].cloudRoot, up.etag},
           RootCovers' \/ up'.pc = "write", DeviceCovers' \/ Behind'
    PROVE  TablesCover'
<1>1. WritersIdle
  BY UnderWay
<1>2. VersionsPosted /\ \A v \in VersionsIn(up.etag) : v < nextVersion
  BY DEF Orderly, TablesCover, ExchangeCovers
<1>3. VersionsPosted'
  <2>1. \A h \in GetHandlers : \A v \in VersionsIn(get'[h].cloudRoot) : v < nextVersion
    BY <1>2 DEF VersionsPosted
  <2>2. \A v \in VersionsIn(root'.version) : v < nextVersion
    BY <1>2 DEF VersionsPosted
  <2> QED
    BY <1>2, <2>1, <2>2 DEF VersionsPosted
<1>4. WriterCovers'
  BY <1>1 DEF WritersIdle, WriterCovers
<1> QED
  BY <1>3, <1>4 DEF TablesCover

\* A request that waits for its exchange relies on what it presented.
LEMMA WaitingCovers ==
    ASSUME Orderly, up.pc # "idle", get'["device"] = get["device"], Presents(get["device"])'
    PROVE  RequestCovers'
<1>1. /\ get["device"].pc = "upstream" /\ get["device"].meta \in Metas
  BY UnderWay
<1> QED
  BY <1>1 DEF RequestCovers, BringsAll

\* The answer from the tables.
LEMMA TablesAnswer ==
    ASSUME UpstreamDisciplined, Orderly, get["device"].pc = "built", ~Posts(get["device"])
    PROVE  BringsAll(AnswerFromTables(get["device"]))
<1> DEFINE g == get["device"]
           a == AnswerFromTables(g)
<1>0. /\ g \in GetRequest /\ BringsAll(g) /\ ServerTypeOK /\ HeadersNeverOverstate /\ StillThere(g)
      /\ "device" \in GetHandlers
  BY ServerAssumption
     DEF Orderly, ServerTypeOK, TypeOK, GetTypeOK, RequestCovers, HeaderInv, RequestFits
<1>1. /\ a.pc \in {"reply", "update"} /\ a.send = Outgoing(g) /\ a.doc = g.doc
      /\ a.cloudRoot = g.cloudRoot /\ a.hdrVers = g.hdrVers /\ a.meta = g.meta
      /\ a.status = IF Outgoing(g) = {} THEN "304" ELSE "200"
  BY <1>0 DEF AnswerFromTables, GetRequest
<1>2. g.cmp # "meta" /\ g.status # "404"
  BY DEF Posts, NotFound
<1>3. g.meta \in Metas /\ Presents(g) /\ Compared(g)
  BY <1>0, <1>2 DEF BringsAll
<1> HIDE DEF a
<1>4. Presents(a)
  BY <1>1, <1>3 DEF Presents
<1>5. ASSUME a.status = "200" PROVE ResponseCovers(a)
  <2>1. Unfiltered(g) # {}
    BY <1>1, <1>5 DEF Outgoing, FilterByBitmap
  <2>2. g.cmp # "equals"
    BY <1>2, <1>3, <2>1 DEF Compared, Unfiltered, FilterForGet
  <2>3. Fits(g.doc)
    BY <1>0, <2>2 DEF StillThere
  <2>4. \A s \in Deliverable : s \in a.send \/ g.doc[s].version = g.hdrVers[s]
    <3>1. SUFFICES ASSUME NEW s \in Deliverable, s \in Unfiltered(g) PROVE s \in Outgoing(g)
      BY <1>0, <1>1, <1>3, <2>2, <2>3, Unsent
    <3>2. /\ FilterOutputByBitmapEnabled => \A m \in Metas : s \in Supports[m]
          /\ g.cloudMeta \in Metas
      BY <1>0, <1>2, <1>3, <2>2, <2>3, Unsent
    <3> QED
      BY <3>1, <3>2, StoreAssumption DEF Outgoing, FilterByBitmap
  <2>5. \A s \in SubdocIds : g.hdrVers[s] \in {0, dev.vers[s]}
    BY <1>0 DEF HeadersNeverOverstate
  <2> QED
    BY <1>0, <1>1, <2>3, <2>4, <2>5, FitAnswer
<1>6. BringsAll(a)
  BY <1>1, <1>3, <1>4, <1>5 DEF BringsAll
<1> QED
  BY <1>6 DEF a

\* A request that posts the whole document posts every current row.
LEMMA PostCovers ==
    ASSUME Orderly, Undisturbed, get["device"].pc = "built", Posts(get["device"]),
           up' = [IdleExchange EXCEPT
                     !.pc = "post", !.root = DocumentRoot(get["device"]),
                     !.sent = Restricted(get["device"].doc, Outgoing(get["device"]))],
           \A s \in SubdocIds : Current(s)' <=> Current(s)
    PROVE  ExchangeCovers'
<1> DEFINE doc  == get["device"].doc
           sent == Restricted(doc, Outgoing(get["device"]))
           r    == DocumentRoot(get["device"])
<1>1. up' = [IdleExchange EXCEPT !.pc = "post", !.root = r, !.sent = sent]
  OBVIOUS
<1> HIDE DEF sent, r
<1>2. /\ up'.pc = "post" /\ up'.op = "get" /\ up'.dels = {} /\ up'.etag = NoRoot /\ up'.sent = sent
  BY <1>1 DEF IdleExchange
<1>3. Ids(sent) = Ids(doc)
  BY <1>2 DEF Undisturbed, Observe, PostedWhole
<1>4. Fits(doc)
  BY DEF Orderly, RequestFits, StillThere
<1>5. \A s \in SubdocIds : Current(s) => sent[s].version # 0
  BY <1>3, <1>4 DEF Ids, Fits
<1> QED
  BY <1>2, <1>5 DEF ExchangeCovers, NoRoot, VersionsIn

\* What a GET does once BuildGetDocument has returned.
LEMMA UpstreamDecideCovers ==
    ASSUME UpstreamDisciplined, Orderly, ServerTypeOK', NothingExpires', Undisturbed,
           NEW h \in GetHandlers, UpstreamDecide(h), UNCHANGED writerVars
    PROVE  TablesCover' /\ RequestCovers' /\ ExchangeCovers'
<1>0. /\ get \in [GetHandlers -> GetRequest] /\ get[h] \in GetRequest /\ get[h].pc = "built"
      /\ "device" \in GetHandlers /\ BringsAll(get["device"]) /\ RequestsInStep
      /\ ServerTypeOK /\ NothingExpires /\ VersionsPosted /\ ExchangeCovers
      /\ UNCHANGED <<rows, root, dev, nb, nextVersion, rootStale>>
  BY ServerAssumption
     DEF Orderly, ServerTypeOK, TypeOK, GetTypeOK, RequestCovers, TablesCover, UpstreamDecide,
         storeVars, deviceVars, writerVars
<1>1. SameVersions
  BY <1>0 DEF SameVersions
<1>2. ASSUME NEW g, get' = [get EXCEPT ![h] = g], g.cloudRoot = get[h].cloudRoot,
             h = "device" => BringsAll(g), up.pc = "write" => up'.pc = "write", ExchangeCovers'
      PROVE  TablesCover' /\ RequestCovers' /\ ExchangeCovers'
  <2>1. get'[h] = g /\ \A k \in GetHandlers \ {h} : get'[k] = get[k]
    BY <1>0, <1>2
  <2>2. \A k \in GetHandlers : \A v \in VersionsIn(get'[k].cloudRoot) : v < nextVersion
    BY <1>0, <1>2, <2>1 DEF VersionsPosted
  <2>3. TablesCover'
    BY <1>0, <1>1, <1>2, <2>2, QuietTables DEF Orderly
  <2>4. BringsAll(get'["device"])
    BY <1>0, <1>2, <2>1
  <2>5. PICK d : d = get'["device"]
    OBVIOUS
  <2>6. RequestCovers'
    BY <1>0, <1>1, <2>4, <2>5, SameBringing
  <2> QED
    BY <1>2, <2>3, <2>6
<1>3. UNCHANGED up => ExchangeCovers'
  BY <1>0, <1>1, SameExchange
<1>4. CASE /\ get' = [get EXCEPT ![h] = [get[h] EXCEPT !.pc = "reply", !.status = "409"]]
           /\ UNCHANGED up
  <2> DEFINE g == [get[h] EXCEPT !.pc = "reply", !.status = "409"]
  <2>1. /\ g.pc = "reply" /\ g.status = "409" /\ g.cloudRoot = get[h].cloudRoot
        /\ g.meta = get[h].meta /\ g.hdrVers = get[h].hdrVers
    BY <1>0 DEF GetRequest
  <2>2. get' = [get EXCEPT ![h] = g]
    BY <1>4
  <2> HIDE DEF g
  <2>3. h = "device" => BringsAll(g)
    BY <1>0, <2>1 DEF BringsAll, Presents
  <2> QED
    BY <1>2, <1>3, <1>4, <2>1, <2>2, <2>3
<1>5. CASE h = "mget" /\ get' = [get EXCEPT ![h] = AnswerMget(get[h])] /\ UNCHANGED up
  <2>1. AnswerMget(get[h]).cloudRoot = get[h].cloudRoot
    BY <1>0 DEF AnswerMget, GetRequest
  <2> QED
    BY <1>2, <1>3, <1>5, <2>1
<1>6. CASE /\ h = "device" /\ ~Posts(get[h])
           /\ get' = [get EXCEPT ![h] = AnswerFromTables(get[h])] /\ UNCHANGED up
  <2>1. AnswerFromTables(get[h]).cloudRoot = get[h].cloudRoot
    BY <1>0 DEF AnswerFromTables, GetRequest
  <2>2. BringsAll(AnswerFromTables(get[h]))
    BY <1>0, <1>6, TablesAnswer
  <2> QED
    BY <1>2, <1>3, <1>6, <2>1, <2>2
<1>7. CASE /\ h = "device" /\ Posts(get[h])
           /\ up' = [IdleExchange EXCEPT !.pc = "post", !.root = DocumentRoot(get[h]),
                                         !.sent = Restricted(get[h].doc, Outgoing(get[h]))]
           /\ get' = [get EXCEPT ![h].pc = "upstream"]
  <2> DEFINE g == [get[h] EXCEPT !.pc = "upstream"]
  <2>1. /\ g.pc = "upstream" /\ g.cloudRoot = get[h].cloudRoot
        /\ g.meta = get[h].meta /\ g.hdrVers = get[h].hdrVers
    BY <1>0 DEF GetRequest
  <2>2. get' = [get EXCEPT ![h] = g]
    BY <1>7
  <2> HIDE DEF g
  <2>3. BringsAll(g)
    BY <1>0, <1>7, <2>1 DEF BringsAll, Presents
  <2>4. ExchangeCovers'
    BY <1>0, <1>1, <1>7, PostCovers, SameDelivery
  <2>5. up.pc # "write"
    BY <1>0, <1>7 DEF RequestsInStep
  <2> QED
    BY <1>2, <2>1, <2>2, <2>3, <2>4, <2>5
<1> QED
  BY <1>4, <1>5, <1>6, <1>7 DEF UpstreamDecide

\* The exchange as far as ExchangeCovers looks at it.
SameAnswer == /\ up'.op = up.op /\ up'.etag = up.etag /\ up'.final = up.final
              /\ up'.dels \subseteq up.dels

\* The request is answered 404 and what was there, or nothing, is left.
LEMMA NotFoundCovers ==
    ASSUME Orderly, up.pc \in {"resetdoc", "resetdelete"},
           UNCHANGED <<root, dev, nb, nextVersion, rootStale>>,
           rows' \in {rows, NoDocument}, Reply([get["device"] EXCEPT !.status = "404"])
    PROVE  TablesCover' /\ RequestCovers' /\ ExchangeCovers'
<1> DEFINE g == [get["device"] EXCEPT !.status = "404", !.pc = "reply"]
<1>0. /\ get \in [GetHandlers -> GetRequest] /\ get["device"] \in GetRequest
      /\ "device" \in GetHandlers /\ nextVersion \in Nat \ {0} /\ VersionsPosted
      /\ RootCovers /\ (DeviceCovers \/ Behind) /\ up.pc # "idle"
  BY ServerAssumption
     DEF Orderly, ServerTypeOK, TypeOK, GetTypeOK, WriterTypeOK, TablesCover
<1>1. get["device"].meta \in Metas /\ Presents(get["device"])
  BY <1>0, UnderWay
<1>2. /\ get' = [get EXCEPT !["device"] = g] /\ up' = IdleExchange
      /\ g.pc = "reply" /\ g.status = "404" /\ g.meta = get["device"].meta
      /\ g.hdrVers = get["device"].hdrVers /\ g.cloudRoot = get["device"].cloudRoot
  BY <1>0 DEF Reply, GetRequest
<1> HIDE DEF g
<1>3. get'["device"] = g /\ \A h \in GetHandlers : get'[h].cloudRoot = get[h].cloudRoot
  BY <1>0, <1>2
<1>4. \A s \in SubdocIds : /\ rows'[s].version \in {0, rows[s].version}
                           /\ Current(s)' => rows'[s] = rows[s] /\ Current(s)
  BY DEF NoDocument, EmptyRow, Current, InDocument
<1>5. \A s \in SubdocIds : rows'[s].version < nextVersion
  BY <1>0, <1>4 DEF VersionsPosted
<1>6. RootCovers'
  BY <1>0, <1>4 DEF RootCovers, WritersIdle
<1>7. DeviceCovers' \/ Behind'
  <2>1. CASE rows' = rows
    BY <1>0, <2>1 DEF DeviceCovers, Deliverable, Behind, Current, InDocument
  <2>2. CASE rows' = NoDocument
    BY <2>2 DEF DeviceCovers, Deliverable, InDocument, NoDocument, EmptyRow
  <2> QED
    BY <2>1, <2>2
<1>8. TablesCover'
  BY <1>0, <1>3, <1>5, <1>6, <1>7, ExchangeTables
<1>9. RequestCovers'
  <2>1. Presents(get["device"])'
    BY <1>1, <1>2, <1>3, <1>4 DEF Presents
  <2> QED
    BY <1>1, <1>2, <1>3, <2>1 DEF RequestCovers, BringsAll
<1> QED
  BY <1>2, <1>8, <1>9, OverCovers

\* The calls of a factory reset before the exchange, or instead of it.
LEMMA ResetStepCovers ==
    ASSUME UpstreamDisciplined, Orderly, ServerTypeOK', NothingExpires', UNCHANGED writerVars,
           ResetReadRoot \/ ResetStoreRoot \/ ResetReadDocument \/ ResetDelete
    PROVE  TablesCover' /\ RequestCovers' /\ ExchangeCovers'
<1>0. /\ up \in Exchange /\ ServerTypeOK /\ NothingExpires /\ TablesCover /\ ExchangeCovers
      /\ UNCHANGED <<nb, nextVersion, rootStale>> /\ VersionsPosted /\ ExchangeFits
      /\ root \in RootRow /\ RequestCovers
  BY DEF Orderly, ServerTypeOK, UpstreamTypeOK, TablesCover, writerVars, TypeOK, StoreTypeOK
<1>1. ASSUME UNCHANGED <<rows, dev, get>>, root'.version = root.version, SameAnswer,
             up.pc # "write", up'.pc \in {"resetset", "resetdoc", "resetdelete", "post"},
             up'.pc = "post" => \A s \in SubdocIds : Current(s) => up'.sent[s].version # 0
      PROVE  TablesCover' /\ RequestCovers' /\ ExchangeCovers'
  <2>1. SameVersions
    BY <1>1 DEF SameVersions
  <2>2. \A h \in GetHandlers : \A v \in VersionsIn(get'[h].cloudRoot) : v < nextVersion
    BY <1>0, <1>1 DEF VersionsPosted
  <2>3. TablesCover'
    BY <1>0, <1>1, <2>1, <2>2, QuietTables
  <2>4. RequestCovers'
    BY <1>0, <1>1, <2>1, SameBringing DEF RequestCovers
  <2>5. \A s \in SubdocIds : Current(s)' <=> Current(s)
    BY <1>1 DEF Current, InDocument
  <2>6. ExchangeCovers'
    BY <1>0, <1>1, <2>5 DEF ExchangeCovers, SameAnswer
  <2> QED
    BY <2>3, <2>4, <2>6
<1>2. CASE ResetReadRoot
  <2>1. SameAnswer /\ up.pc = "resetroot" /\ up'.pc = "resetset"
    BY <1>0, <1>2 DEF ResetReadRoot, SameAnswer, Exchange
  <2> QED
    BY <1>1, <1>2, <2>1 DEF ResetReadRoot, storeVars, deviceVars
<1>3. CASE ResetStoreRoot
  <2>1. SameAnswer /\ up.pc = "resetset" /\ up'.pc = "resetdoc"
    BY <1>0, <1>3 DEF ResetStoreRoot, SameAnswer, Exchange
  <2>2. root'.version = root.version
    BY <1>0, <1>3, <2>1 DEF ResetStoreRoot, RootRow, ExchangeFits, RootFits
  <2> QED
    BY <1>1, <1>3, <2>1, <2>2 DEF ResetStoreRoot, deviceVars
<1>4. CASE ResetReadDocument
  <2>1. CASE Reply([get["device"] EXCEPT !.status = "404"])
    BY <1>0, <1>4, <2>1, NotFoundCovers DEF ResetReadDocument, storeVars, deviceVars
  <2>2. CASE /\ up' = [up EXCEPT !.sent = GetDocument(FALSE),
                                 !.pc = IF UpstreamEnabled THEN "post" ELSE "resetdelete"]
             /\ UNCHANGED get
    <3> DEFINE doc == GetDocument(FALSE)
    <3>1. Fits(doc) /\ up' = [up EXCEPT !.sent = doc, !.pc = IF UpstreamEnabled THEN "post" ELSE "resetdelete"]
      BY <2>2, DocumentFits
    <3> HIDE DEF doc
    <3>2. /\ up.pc = "resetdoc" /\ up'.pc \in {"post", "resetdelete"} /\ up'.sent = doc /\ SameAnswer
      BY <1>0, <1>4, <3>1 DEF ResetReadDocument, Exchange, SameAnswer
    <3>3. \A s \in SubdocIds : Current(s) => up'.sent[s].version # 0
      BY <3>1, <3>2 DEF Fits
    <3> QED
      BY <1>1, <1>4, <2>2, <3>2, <3>3 DEF ResetReadDocument, storeVars, deviceVars
  <2> QED
    BY <1>4, <2>1, <2>2 DEF ResetReadDocument
<1>5. CASE ResetDelete
  BY <1>0, <1>5, NotFoundCovers DEF ResetDelete, DeleteDocument, deviceVars
<1> QED
  BY <1>2, <1>3, <1>4, <1>5

\* WriteDocumentFromUpstream stores the Etag, which accounts for rows that are
\* not written yet ...
LEMMA StoreRootCovers ==
    ASSUME UpstreamDisciplined, Orderly, ServerTypeOK', NothingExpires', UNCHANGED writerVars,
           StoreUpstreamRoot
    PROVE  TablesCover' /\ RequestCovers' /\ ExchangeCovers'
<1>0. /\ up \in Exchange /\ ServerTypeOK /\ NothingExpires /\ ExchangeCovers /\ root \in RootRow
      /\ UNCHANGED <<nb, nextVersion, rootStale, rows, dev, get>> /\ VersionsPosted
      /\ RequestCovers /\ (DeviceCovers \/ Behind) /\ up.pc = "store" /\ root'.version = up.etag
  BY DEF Orderly, ServerTypeOK, UpstreamTypeOK, TablesCover, writerVars, TypeOK, StoreTypeOK,
         RootRow, StoreUpstreamRoot, SetRootDocumentVersion, deviceVars
<1>1. SameAnswer /\ up'.pc = "write"
  BY <1>0 DEF StoreUpstreamRoot, SameAnswer, Exchange
<1>2. SameVersions
  BY <1>0 DEF SameVersions
<1>3. DeviceCovers' \/ Behind'
  BY <1>0, <1>2, SameDelivery
<1>4. TablesCover'
  BY <1>0, <1>1, <1>3, ExchangeTables DEF VersionsPosted
<1>5. RequestCovers'
  BY <1>0, <1>2, SameBringing DEF RequestCovers
<1>6. \A s \in SubdocIds : Current(s)' <=> Current(s)
  BY <1>0 DEF Current, InDocument
<1>7. up'.dels = up.dels
  BY <1>0 DEF StoreUpstreamRoot, Exchange
<1>8. ExchangeCovers'
  BY <1>0, <1>1, <1>6, <1>7 DEF ExchangeCovers, SameAnswer
<1> QED
  BY <1>4, <1>5, <1>8

\* ... then a row: if it is new the device is behind with it ...
LEMMA WriteRowCovers ==
    ASSUME UpstreamDisciplined, Orderly, ServerTypeOK', NothingExpires', UNCHANGED writerVars,
           NEW x \in SubdocIds, WriteUpstreamRow(x)
    PROVE  TablesCover' /\ RequestCovers' /\ ExchangeCovers'
<1>0. /\ up \in Exchange /\ ServerTypeOK /\ NothingExpires /\ ExchangeCovers
      /\ rows \in [SubdocIds -> Row] /\ VersionsPosted /\ ExchangeFits
      /\ UNCHANGED <<nb, nextVersion, rootStale, root, dev, get>>
      /\ RequestCovers /\ (DeviceCovers \/ Behind) /\ up.pc = "write" /\ x \in up.todo
  BY DEF Orderly, ServerTypeOK, UpstreamTypeOK, TablesCover, writerVars, TypeOK, StoreTypeOK,
         WriteUpstreamRow, deviceVars
<1>1. /\ up'.op = up.op /\ up'.etag = up.etag /\ up'.final = up.final /\ up'.dels = up.dels
      /\ up'.pc = "write"
  BY <1>0 DEF WriteUpstreamRow, Exchange
<1>2. up.final[x] # 0
  BY <1>0 DEF ExchangeFits
<1>3. rows'[x].version = up.final[x] /\ \A s \in SubdocIds \ {x} : rows'[s] = rows[s]
  BY <1>0, <1>2 DEF WriteUpstreamRow, SetSubDocument, NilVersion
<1>4. up.final[x] \in VersionsIn(up.etag) /\ up.final[x] < nextVersion
  BY <1>0, <1>2 DEF ExchangeCovers
<1>5. /\ \A s \in SubdocIds \ {x} : Current(s)' <=> Current(s)
      /\ Current(x)'
  BY <1>2, <1>3 DEF Current, InDocument, NothingExpires
<1>6. ExchangeCovers'
  BY <1>0, <1>1, <1>2, <1>3, <1>5 DEF ExchangeCovers
<1>7. (DeviceCovers' \/ Behind') /\ Presents(get["device"])'
  <2>0. Presents(get["device"])
    BY <1>0, UnderWay
  <2>1. CASE up.final[x] = rows[x].version
    <3>1. SameVersions
      BY <1>0, <1>3, <2>1 DEF SameVersions
    <3> QED
      BY <1>0, <2>0, <3>1, SameDelivery DEF Presents, SameVersions
  <2>2. CASE up.final[x] # rows[x].version
    <3>1. up.final[x] \notin VersionsIn(dev.root) /\ up.final[x] # dev.vers[x]
      BY <1>0, <1>2, <2>2 DEF ExchangeCovers
    <3>2. Behind'
      BY <1>0, <1>3, <1>5, <3>1 DEF Behind
    <3>3. Presents(get["device"])'
      BY <1>0, <1>3, <1>5, <2>0, <3>1 DEF Presents
    <3> QED
      BY <3>2, <3>3
  <2> QED
    BY <2>1, <2>2
<1>8. TablesCover'
  <2>1. \A s \in SubdocIds : rows'[s].version < nextVersion
    BY <1>0, <1>3, <1>4 DEF VersionsPosted
  <2> QED
    BY <1>0, <1>1, <1>7, <2>1, ExchangeTables
<1>9. RequestCovers'
  BY <1>0, <1>7, WaitingCovers
<1> QED
  BY <1>6, <1>8, <1>9

\* ... and after a reset, when the device has no root version, it drops the
\* others.
LEMMA DeleteRowCovers ==
    ASSUME UpstreamDisciplined, Orderly, ServerTypeOK', NothingExpires', UNCHANGED writerVars,
           NEW x \in SubdocIds, DeleteUpstreamRow(x)
    PROVE  TablesCover' /\ RequestCovers' /\ ExchangeCovers'
<1>0. /\ up \in Exchange /\ ServerTypeOK /\ NothingExpires /\ ExchangeCovers
      /\ rows \in [SubdocIds -> Row] /\ VersionsPosted /\ ExchangeFits /\ nextVersion \in Nat \ {0}
      /\ UNCHANGED <<nb, nextVersion, rootStale, root, dev, get>>
      /\ RequestCovers /\ up.pc = "write" /\ x \in up.dels
  BY DEF Orderly, ServerTypeOK, UpstreamTypeOK, TablesCover, writerVars, TypeOK, StoreTypeOK,
         WriterTypeOK, DeleteUpstreamRow, deviceVars
<1>1. /\ up'.op = up.op /\ up'.etag = up.etag /\ up'.final = up.final /\ up'.dels = up.dels \ {x}
      /\ up'.pc = "write"
  BY <1>0 DEF DeleteUpstreamRow, Exchange
<1>2. up.final[x] = 0
  BY <1>0 DEF ExchangeFits
<1>3. /\ rows'[x] = EmptyRow /\ rows'[x].version = 0
      /\ \A s \in SubdocIds \ {x} : rows'[s] = rows[s]
  BY <1>0 DEF DeleteUpstreamRow, DeleteSubDocument, EmptyRow
<1>4. \A s \in SubdocIds : Current(s)' => Current(s) /\ s # x
  BY <1>3 DEF Current, InDocument
<1>5. dev.root = NoRoot
  BY <1>0 DEF ExchangeCovers
<1>6. ExchangeCovers'
  BY <1>0, <1>1, <1>2, <1>3, <1>4 DEF ExchangeCovers
<1>7. DeviceCovers'
  BY <1>0, <1>5 DEF DeviceCovers, NoRoot, VersionsIn
<1>8. TablesCover'
  <2>1. \A s \in SubdocIds : rows'[s].version < nextVersion
    BY <1>0, <1>3 DEF VersionsPosted
  <2> QED
    BY <1>0, <1>1, <1>7, <2>1, ExchangeTables
<1>9. RequestCovers'
  <2>1. Presents(get["device"])
    BY <1>0, UnderWay
  <2>2. Presents(get["device"])'
    BY <1>0, <1>3, <1>4, <2>1 DEF Presents
  <2> QED
    BY <1>0, <2>2, WaitingCovers
<1> QED
  BY <1>6, <1>8, <1>9

\* What of upstream's answer is not sent the device has, unless its root
\* version is the Etag.
LEMMA FinalUnsent ==
    ASSUME UpstreamDisciplined, Orderly, up.pc # "idle",
           up.op = "get" => FinalSendable(get["device"]) # {},
           NEW s \in SubdocIds, up.final[s] # 0, s \notin Blocked,
           FilterOutputByBitmapEnabled => s \in Supports[dev.meta],
           s \notin FinalSendable(get["device"])
    PROVE  up.op = "get" /\ dev.vers[s] = up.final[s]
<1> DEFINE g == get["device"]
           etag == up.etag
<1>1. g.meta \in Metas /\ dev.meta \in Metas /\ HeadersNeverOverstate
  BY UnderWay DEF Orderly, ServerTypeOK, TypeOK, DeviceTypeOK, DeviceState, HeaderInv
<1>2. FilterOutputByBitmapEnabled => s \in Supports[g.meta] /\ g.meta # NoMeta
  BY <1>1, SameSupports, StoreAssumption
<1>3. FinalDocument[s].version = up.final[s] /\ s \in Ids(FinalDocument)
  BY DEF FinalDocument, EmptyRow, Ids
<1>4. up.op # "reset"
  BY <1>2, <1>3 DEF FinalSendable, FilterByBitmap
<1>5. s \notin FilterForGet(FinalDocument, etag, g.hdrRoot, g.hdrVers)
  BY <1>2, <1>4 DEF FinalSendable, FilterByBitmap
<1>6. up.op = "get"
  BY <1>4 DEF Orderly, ServerTypeOK, UpstreamTypeOK, Exchange
<1>7. ~(g.hdrRoot # NoRoot /\ g.hdrRoot = etag)
  BY <1>6 DEF FinalSendable, FilterByBitmap, FilterForGet
<1>8. up.final[s] = g.hdrVers[s]
  BY <1>3, <1>5, <1>7 DEF FilterForGet
<1> QED
  BY <1>1, <1>6, <1>8, ServerAssumption DEF HeadersNeverOverstate

\* What a GET sends of the answer is deliverable and not presented.
LEMMA FinalSent ==
    ASSUME UpstreamDisciplined, Orderly, up.pc # "idle", NEW s \in FinalSendable(get["device"])
    PROVE  /\ s \in SubdocIds /\ up.final[s] # 0
           /\ up.op = "get" => /\ s \notin Blocked /\ up.final[s] # get["device"].hdrVers[s]
                               /\ FilterOutputByBitmapEnabled => s \in Supports[dev.meta]
<1> DEFINE g == get["device"]
<1>1. g.meta \in Metas /\ dev.meta \in Metas
  BY UnderWay DEF Orderly, ServerTypeOK, TypeOK, DeviceTypeOK, DeviceState
<1>2. s \in Ids(FinalDocument)
  BY DEF FinalSendable, FilterByBitmap, FilterForGet
<1>3. s \in SubdocIds /\ FinalDocument[s].version = up.final[s] /\ up.final[s] # 0
  BY <1>2 DEF FinalDocument, EmptyRow, Ids
<1>4. FilterOutputByBitmapEnabled => s \in Supports[g.meta]
  BY <1>1 DEF FinalSendable, FilterByBitmap
<1>5. up.op = "get" => s \notin Blocked /\ up.final[s] # g.hdrVers[s]
  BY <1>3 DEF FinalSendable, FilterByBitmap, FilterForGet
<1> QED
  BY <1>1, <1>3, <1>4, <1>5, SameSupports

\* The response is built: it brings what the Etag accounts for.
LEMMA RespondBrings ==
    ASSUME UpstreamDisciplined, Orderly, StoredAll \/ up.pc = "respond",
           up.op = "get" => FinalSendable(get["device"]) # {},
           NEW a, a.doc = FinalDocument, a.cloudRoot = up.etag,
           a.send = FinalSendable(get["device"])
    PROVE  ResponseCovers(a)
<1>0. /\ up.pc \in {"write", "respond"} /\ up.pc # "idle" /\ NothingExpires
      /\ ExchangeCovers /\ ExchangeFits /\ (DeviceCovers \/ Behind)
      /\ up.op \in {"get", "reset"} /\ Presents(get["device"])
  BY UnderWay DEF StoredAll, Orderly, TablesCover, ServerTypeOK, UpstreamTypeOK, Exchange
<1>1. \A s \in SubdocIds : a.doc[s].version = up.final[s]
  BY DEF FinalDocument, EmptyRow
<1>2. ASSUME NEW s \in Deliverable
      PROVE  /\ s \in SubdocIds \ Blocked /\ Current(s) /\ rows[s].version # 0
             /\ FilterOutputByBitmapEnabled => s \in Supports[dev.meta]
  BY <1>2 DEF Deliverable, Current, InDocument
<1>3. ASSUME NEW s \in Deliverable, rows[s].version \in VersionsIn(up.etag)
      PROVE  IF s \in a.send THEN a.doc[s].version = rows[s].version
                             ELSE dev.vers[s] = rows[s].version
  <2>1. up.final[s] = rows[s].version
    BY <1>0, <1>2, <1>3 DEF ExchangeCovers
  <2> QED
    BY <1>0, <1>1, <1>2, <2>1, FinalUnsent
<1>4. CASE StoredAll
  <2>1. ASSUME NEW s \in Deliverable PROVE up.final[s] = rows[s].version
    <3>1. up.final[s] # 0
      BY <1>0, <1>2, <1>4 DEF StoredAll, ExchangeCovers
    <3> QED
      BY <1>0, <1>2, <1>4, <3>1 DEF StoredAll, ExchangeFits
  <2> QED
    BY <1>1, <1>2, <1>3, <2>1 DEF ResponseCovers
<1>5. CASE up.pc = "respond" /\ ~Behind /\ up.op = "reset"
  <2>1. VersionsIn(dev.root) = {}
    BY <1>0, <1>5 DEF ExchangeCovers, NoRoot, VersionsIn
  <2>2. Deliverable = {}
    BY <1>2, <1>5, <2>1 DEF Behind
  <2> QED
    BY <1>3, <2>2 DEF ResponseCovers
<1>6. CASE up.pc = "respond" /\ ~Behind /\ up.op = "get"
  <2>1. DeviceCovers
    BY <1>0, <1>6
  <2>2. ASSUME NEW t \in a.send PROVE up.final[t] # rows[t].version
    <3>1. /\ t \in SubdocIds /\ up.final[t] # 0 /\ t \notin Blocked
          /\ up.final[t] # get["device"].hdrVers[t]
          /\ FilterOutputByBitmapEnabled => t \in Supports[dev.meta]
      BY <1>0, <1>6, <2>2, FinalSent
    <3>2. SUFFICES ASSUME up.final[t] = rows[t].version PROVE FALSE
      OBVIOUS
    <3>3. Current(t)
      BY <1>0, <3>1, <3>2, CurrentRows
    <3>4. t \in Deliverable
      BY <3>1, <3>3 DEF Deliverable, Current
    <3>5. dev.vers[t] = rows[t].version
      BY <1>6, <2>1, <3>1, <3>3, <3>4 DEF Behind, DeviceCovers
    <3> QED
      BY <1>0, <3>1, <3>2, <3>3, <3>5 DEF Presents
  <2>3. \A s, t \in a.send : s = t
    BY <1>0, <1>6, <2>2, FinalSent DEF ExchangeCovers
  <2> QED
    BY <1>3, <2>3 DEF ResponseCovers
<1>7. CASE Behind
  BY <1>3, <1>7 DEF ResponseCovers
<1> QED
  BY <1>0, <1>4, <1>5, <1>6, <1>7

LEMMA RespondCovers ==
    ASSUME UpstreamDisciplined, Orderly, ServerTypeOK', NothingExpires', UNCHANGED writerVars,
           UpstreamRespond
    PROVE  TablesCover' /\ RequestCovers' /\ ExchangeCovers'
<1> DEFINE send   == FinalSendable(get["device"])
           doc    == FinalDocument
           etag   == up.etag
           status == IF up.op = "reset"
                     THEN IF Ids(FinalDocument) = {} THEN "404" ELSE "200"
                     ELSE IF send = {} THEN "304" ELSE "200"
           g == [get["device"] EXCEPT !.doc = doc, !.cloudRoot = etag,
                                      !.send = send, !.status = status]
           a == [g EXCEPT !.pc = "reply"]
<1>0. /\ get \in [GetHandlers -> GetRequest] /\ get["device"] \in GetRequest
      /\ "device" \in GetHandlers /\ VersionsPosted /\ ServerTypeOK /\ NothingExpires
      /\ (RootCovers \/ up.pc = "write") /\ (DeviceCovers \/ Behind) /\ up.pc # "idle"
      /\ UNCHANGED <<rows, root, dev, nb, nextVersion, rootStale>>
      /\ ExchangeFits /\ ExchangeCovers /\ (StoredAll \/ up.pc = "respond")
      /\ up.op \in {"get", "reset"}
  BY ServerAssumption
     DEF Orderly, ServerTypeOK, TypeOK, GetTypeOK, TablesCover, UpstreamRespond, StoredAll,
         storeVars, deviceVars, writerVars, UpstreamTypeOK, Exchange
<1>1. Reply(g)
  BY DEF UpstreamRespond
<1>2. status = "200" /\ up.op = "get" => send # {}
  BY <1>0
<1> HIDE DEF send, doc, etag, status
<1>3. /\ a.pc = "reply" /\ a.doc = doc /\ a.cloudRoot = etag /\ a.send = send /\ a.status = status
      /\ a.meta = get["device"].meta /\ a.hdrVers = get["device"].hdrVers
  BY <1>0 DEF GetRequest
<1>4. get' = [get EXCEPT !["device"] = a] /\ up' = IdleExchange
  BY <1>1 DEF Reply
<1> HIDE DEF a
<1>5. get'["device"] = a /\ \A h \in GetHandlers : get'[h].cloudRoot \in {get[h].cloudRoot, up.etag}
  BY <1>0, <1>3, <1>4 DEF etag
<1>6. SameVersions
  BY <1>0 DEF SameVersions
<1>7. RootCovers'
  <2>1. CASE RootCovers
    BY <1>0, <2>1 DEF RootCovers, WritersIdle, Current, InDocument
  <2>2. CASE StoredAll
    <3>1. ASSUME NEW s \in SubdocIds, Current(s)
          PROVE  rows[s].version \in VersionsIn(root.version)
      <4>1. up.final[s] # 0
        BY <1>0, <2>2, <3>1 DEF StoredAll, ExchangeCovers
      <4> QED
        BY <1>0, <2>2, <4>1 DEF StoredAll, ExchangeCovers, ExchangeFits
    <3> QED
      BY <1>0, <3>1 DEF RootCovers, Current, InDocument
  <2> QED
    BY <1>0, <2>1, <2>2
<1>8. TablesCover'
  <2>1. DeviceCovers' \/ Behind'
    BY <1>0, <1>6, SameDelivery
  <2> QED
    BY <1>0, <1>5, <1>7, <2>1, ExchangeTables DEF VersionsPosted
<1>9. BringsAll(a)
  <2>1. get["device"].meta \in Metas /\ Presents(get["device"])
    BY <1>0, UnderWay
  <2>2. Presents(a)
    BY <1>3, <2>1 DEF Presents
  <2>3. a.status = "200" => ResponseCovers(a)
    BY <1>0, <1>2, <1>3, RespondBrings DEF send, doc, etag
  <2> QED
    BY <1>3, <2>1, <2>2, <2>3 DEF BringsAll
<1>10. RequestCovers'
  BY <1>0, <1>5, <1>6, <1>9, SameBringing
<1> QED
  BY <1>4, <1>8, <1>10, OverCovers

\* A step of the exchange.
LEMMA ExchangesCover ==
    ASSUME UpstreamDisciplined, Orderly, ServerTypeOK', NothingExpires', Undisturbed, Exchanges
    PROVE  TablesCover' /\ RequestCovers' /\ ExchangeCovers'
<1>1. UpstreamStep /\ UNCHANGED writerVars
  BY DEF Exchanges
<1> QED
  BY <1>1, UpstreamDecideCovers, ResetStepCovers, StoreRootCovers, WriteRowCovers,
     DeleteRowCovers, RespondCovers DEF UpstreamStep

\* The answer of upstream: what it was sent is all there is in the table, what
\* it does not take over is new, and there is one of that at most.
LEMMA AnswerCoversUp ==
    ASSUME UpstreamDisciplined, Orderly, ServerTypeOK', NothingExpires', NEW skip \in BOOLEAN,
           NEW final \in [SubdocIds -> {0, nextVersion} \cup {up.sent[s].version : s \in SubdocIds}],
           PostUpstream(final, skip)
    PROVE  TablesCover' /\ RequestCovers' /\ ExchangeCovers'
<1> DEFINE new  == {s \in SubdocIds : final[s] # 0 /\ final[s] # up.sent[s].version}
           kept == [s \in SubdocIds |->
                       IF up.op = "reset" /\ s \in Blocked THEN 0 ELSE final[s]]
           ids  == {s \in SubdocIds : kept[s] # 0}
           etag == HashRootVersion(final)
           todo == IF skip THEN {} ELSE {s \in ids : ~HasAlready(s, kept)}
           dels == IF skip \/ up.op = "get" THEN {} ELSE Ids(up.sent) \ ids
           pc   == IF skip THEN "respond" ELSE IF up.root # etag THEN "store" ELSE "write"
<1>0. /\ up \in Exchange /\ up.pc = "post" /\ nextVersion \in Nat \ {0}
      /\ UNCHANGED <<rows, root, dev, get, nb, rootStale>> /\ ServerTypeOK /\ NothingExpires
      /\ VersionsPosted /\ VersionsOwned /\ ExchangeFits /\ ExchangeCovers /\ RequestCovers
      /\ RootCovers /\ (DeviceCovers \/ Behind) /\ up.op \in {"get", "reset"}
  BY DEF Orderly, ServerTypeOK, UpstreamTypeOK, PostUpstream, storeVars, deviceVars, TypeOK,
         WriterTypeOK, TablesCover, HeaderInv, Exchange
<1>1. /\ Cardinality(new) <= 1
      /\ \A s \in new : final[s] = nextVersion
      /\ nextVersion' = IF new = {} THEN nextVersion ELSE nextVersion + 1
      /\ up.op = "get" => \A s \in Ids(up.sent) : final[s] # 0
  BY DEF PostUpstream, UpstreamVersions, UpstreamDisciplined
<1>2. final \in Versions
  <2>1. \A s \in SubdocIds : up.sent[s].version \in Nat
    BY <1>0 DEF Exchange, Document, Row
  <2> QED
    BY <1>0, <2>1 DEF Versions
<1>3. \A s \in SubdocIds : rows[s].version = up.sent[s].version /\ rows[s].version \in Nat
  BY <1>0, CurrentRows
     DEF ExchangeFits, ExchangeCovers, ServerTypeOK, TypeOK, StoreTypeOK, Row
<1>4. \A s, t \in new : s = t
  <2>1. SUFFICES ASSUME NEW x \in new PROVE new = {x}
    BY Zenon
  <2>2. IsFiniteSet(new)
    BY FS_Subset, StoreAssumption
  <2>3. Cardinality(new \ {x}) = Cardinality(new) - 1 /\ IsFiniteSet(new \ {x})
    BY <2>2, FS_RemoveElement
  <2>4. Cardinality(new \ {x}) = 0
    BY <1>1, <2>2, <2>3, FS_CardinalityType
  <2> QED
    BY <2>3, <2>4, FS_EmptySet
<1>5. ASSUME NEW s \in SubdocIds
      PROVE  final[s] \in {0, rows[s].version} \/ (s \in new /\ final[s] = nextVersion)
  BY <1>1, <1>3
<1>6. VersionsIn(etag) = {final[s] : s \in {t \in SubdocIds : final[t] # 0}}
  BY <1>2, VersionsInHash
<1>7. \A s \in SubdocIds : kept[s] \in {0, final[s]} /\ (s \notin Blocked => kept[s] = final[s])
  OBVIOUS
<1>8. up.op = "get" => kept = final
  BY <1>2 DEF Versions
<1>9. up' = [up EXCEPT !.etag = etag, !.final = kept, !.skip = skip, !.pc = pc,
                       !.todo = todo, !.dels = dels]
  BY DEF PostUpstream
<1>10. /\ pc \in {"respond", "store", "write"} /\ (pc # "respond" => ~skip)
       /\ (dels # {} => up.op = "reset")
  BY <1>0
<1>11. ASSUME ~skip, NEW s \in SubdocIds, Current(s) PROVE kept[s] # 0 \/ s \in dels
  <2>1. s \in Ids(up.sent)
    BY <1>0, <1>11 DEF ExchangeCovers, Ids
  <2>2. CASE up.op = "get"
    BY <1>1, <1>8, <2>1, <2>2
  <2>3. CASE up.op = "reset"
    BY <1>11, <2>1, <2>3
  <2> QED
    BY <1>0, <2>2, <2>3
<1> HIDE DEF new, kept, ids, etag, todo, dels, pc
<1>12. /\ up'.pc = pc /\ up'.final = kept /\ up'.dels = dels /\ up'.etag = etag /\ up'.op = up.op
  BY <1>0, <1>9 DEF Exchange
<1>13. /\ nextVersion' \in Nat /\ nextVersion <= nextVersion'
       /\ \A x \in Nat : x < nextVersion => x < nextVersion'
       /\ new # {} => nextVersion < nextVersion'
  BY <1>0, <1>1
<1>14. \A v \in VersionsIn(etag) : v < nextVersion'
  <2>1. SUFFICES ASSUME NEW s \in SubdocIds, final[s] # 0 PROVE final[s] < nextVersion'
    BY <1>6
  <2> QED
    BY <1>0, <1>3, <1>5, <1>13 DEF VersionsPosted
<1>15. ASSUME NEW s \in SubdocIds \ Blocked, Current(s), rows[s].version \in VersionsIn(etag)
       PROVE  kept[s] = rows[s].version
  <2>1. PICK t \in SubdocIds : final[t] # 0 /\ rows[s].version = final[t]
    BY <1>6, <1>15
  <2>2. final[t] = rows[t].version
    BY <1>0, <1>3, <1>5, <2>1 DEF VersionsPosted
  <2>3. rows[s].version \in VersionsAt(s) /\ rows[t].version \in VersionsAt(t)
    BY DEF VersionsAt
  <2>4. s = t
    BY <1>0, <2>1, <2>2, <2>3 DEF VersionsOwned
  <2> QED
    BY <1>7, <2>2, <2>4
<1>16. ASSUME NEW s \in SubdocIds, kept[s] \notin {0, rows[s].version}
       PROVE  s \in new /\ kept[s] \notin VersionsIn(dev.root) \cup {dev.vers[s]}
  <2>1. s \in new /\ kept[s] = nextVersion
    BY <1>5, <1>7, <1>16
  <2>2. dev.vers[s] \in VersionsAt(s)
    BY DEF VersionsAt
  <2> QED
    BY <1>0, <2>1, <2>2 DEF VersionsPosted, VersionsOwned
<1>17. \A s \in SubdocIds : Current(s)' <=> Current(s)
  BY <1>0 DEF Current, InDocument
<1>18. ExchangeCovers'
  <2>1. \A s \in SubdocIds : kept[s] # 0 => kept[s] \in VersionsIn(etag)
    BY <1>6, <1>7
  <2>2. (up.op = "reset" \/ dels # {}) => dev.root = NoRoot
    BY <1>0, <1>10 DEF ExchangeCovers
  <2> QED
    BY <1>0, <1>4, <1>10, <1>11, <1>12, <1>14, <1>15, <1>16, <1>17, <2>1, <2>2 DEF ExchangeCovers
<1>19. SameVersions
  BY <1>0 DEF SameVersions
<1>20. VersionsPosted'
  <2>1. /\ VersionsIn(root.version) \subseteq Nat /\ VersionsIn(dev.root) \subseteq Nat
        /\ \A h \in GetHandlers : VersionsIn(get[h].cloudRoot) \subseteq Nat
        /\ \A w \in Writers : nb[w].version \in Nat /\ VersionsIn(nb[w].newRoot) \subseteq Nat
    BY <1>0, VersionsInNat
       DEF ServerTypeOK, TypeOK, StoreTypeOK, RootRow, DeviceTypeOK, DeviceState, GetTypeOK,
           GetRequest, WriterTypeOK, Writer
  <2> QED
    BY <1>0, <1>3, <1>13, <2>1 DEF VersionsPosted
<1>21. WriterCovers' /\ RootCovers'
  <2>1. WritersIdle
    BY <1>0, UnderWay
  <2> QED
    BY <1>0, <1>17, <2>1 DEF WritersIdle, WriterCovers, RootCovers
<1>22. TablesCover'
  BY <1>0, <1>19, <1>20, <1>21, SameDelivery DEF TablesCover
<1>23. RequestCovers'
  BY <1>0, <1>19, SameBringing DEF RequestCovers
<1> QED
  BY <1>18, <1>22, <1>23

\* The device is reset: it has nothing, and does not claim otherwise.
LEMMA ResetCovers ==
    ASSUME Orderly, ServerTypeOK', FactoryReset
    PROVE  TablesCover' /\ RequestCovers' /\ ExchangeCovers'
<1>0. /\ get \in [GetHandlers -> GetRequest] /\ dev \in DeviceState /\ "device" \in GetHandlers
      /\ get["device"].pc = "idle" /\ RequestsInStep /\ TablesCover
      /\ UNCHANGED <<rows, root, nb, nextVersion, rootStale>>
      /\ dev' = [dev EXCEPT !.root = NoRoot, !.vers = NoVersions]
      /\ up' = [IdleExchange EXCEPT !.pc = "resetroot", !.op = "reset"]
      /\ get' = [get EXCEPT !["device"] = [IdleGet EXCEPT !.pc = "upstream", !.meta = dev.meta]]
  BY ServerAssumption
     DEF FactoryReset, DeviceResets, storeVars, writerVars, Orderly, ServerTypeOK, TypeOK,
         GetTypeOK, DeviceTypeOK
<1>1. /\ up'.pc = "resetroot" /\ up'.op = "reset" /\ up'.etag = NoRoot
      /\ dev'.root = NoRoot /\ dev'.vers = NoVersions /\ dev.meta \in Metas
      /\ get'["device"].pc = "upstream" /\ get'["device"].meta = dev.meta
      /\ get'["device"].cloudRoot = NoRoot
      /\ \A k \in GetHandlers \ {"device"} : get'[k] = get[k]
  BY <1>0 DEF IdleExchange, IdleGet, DeviceState
<1>2. VersionsIn(NoRoot) = {}
  BY DEF NoRoot, VersionsIn
<1>3. VersionsPosted /\ WriterCovers /\ RootCovers
  BY <1>0 DEF TablesCover, RequestsInStep
<1>4. VersionsPosted'
  BY <1>0, <1>1, <1>2, <1>3 DEF VersionsPosted
<1>5. WriterCovers' /\ RootCovers'
  BY <1>0, <1>3 DEF WriterCovers, RootCovers, WritersIdle, Current, InDocument
<1>6. DeviceCovers'
  BY <1>1, <1>2 DEF DeviceCovers
<1>7. Presents(get["device"])'
  BY <1>0, <1>1 DEF Presents, Current, InDocument, NoVersions
<1>8. RequestCovers'
  BY <1>1, <1>7 DEF RequestCovers, BringsAll
<1>9. ExchangeCovers'
  BY <1>1, <1>2 DEF ExchangeCovers
<1> QED
  BY <1>4, <1>5, <1>6, <1>8, <1>9 DEF TablesCover

LEMMA UpstreamInvInit == ASSUME ServerInit PROVE UpstreamInv
<1>1. /\ rows = NoDocument /\ up = IdleExchange /\ root.version = NoRoot /\ dev.root = NoRoot
      /\ get = [h \in GetHandlers |-> IdleGet] /\ nb = [w \in Writers |-> IdleWriter]
      /\ nextVersion = 1
  BY DEF ServerInit, Init, StoreInit, UpstreamInit, DeviceInit, GetInit, WriterInit
<1>2. NothingExpires /\ \A s \in SubdocIds : rows[s].version = 0 /\ ~Current(s)
  BY <1>1 DEF NothingExpires, NoDocument, EmptyRow, IdleGet, Current, InDocument
<1>3. VersionsIn(NoRoot) = {}
  BY DEF NoRoot, VersionsIn
<1>4. VersionsPosted
  BY <1>1, <1>2, <1>3 DEF VersionsPosted, IdleWriter, IdleGet
<1>5. WriterCovers /\ RootCovers /\ DeviceCovers
  BY <1>1, <1>2, <1>3 DEF WriterCovers, RootCovers, DeviceCovers, IdleWriter
<1>6. RequestCovers
  BY <1>1, ServerAssumption DEF RequestCovers, BringsAll, IdleGet
<1>7. ExchangeCovers
  BY <1>1, <1>3 DEF ExchangeCovers, IdleExchange
<1> QED
  BY <1>2, <1>4, <1>5, <1>6, <1>7 DEF UpstreamInv, TablesCover

LEMMA UpstreamInvStep ==
    ASSUME UpstreamDisciplined, ServerTypeOK, ServerTypeOK', HeaderInv, ExchangeInv, UpstreamInv,
           [ServerNext]_serverVars
    PROVE  UpstreamInv'
<1>0. NothingExpires'
  BY ExpiryStep DEF UpstreamInv
<1>1. CASE UNCHANGED serverVars
  <2>1. UNCHANGED <<rows, root, dev, get, nb, nextVersion, rootStale, up, crossed>>
    BY <1>1 DEF serverVars, vars, upstreamVars, storeVars, writerVars, deviceVars
  <2>2. SameVersions
    BY <2>1 DEF SameVersions
  <2>3. SUFFICES ASSUME ~crossed PROVE TablesCover' /\ RequestCovers' /\ ExchangeCovers'
    BY <1>0, <2>1 DEF UpstreamInv
  <2>4. NothingExpires /\ TablesCover /\ RequestCovers /\ ExchangeCovers
    BY <2>3 DEF UpstreamInv
  <2>5. TablesCover'
    BY <1>0, <2>1, <2>2, <2>4, QuietTables DEF TablesCover, VersionsPosted
  <2>6. RequestCovers'
    BY <1>0, <2>1, <2>2, <2>4, SameBringing DEF RequestCovers
  <2>7. ExchangeCovers'
    BY <1>0, <2>1, <2>2, <2>4, SameExchange
  <2> QED
    BY <2>5, <2>6, <2>7
<1>2. CASE ServerNext
  <2>1. SUFFICES ASSUME ~crossed' PROVE TablesCover' /\ RequestCovers' /\ ExchangeCovers'
    BY <1>0 DEF UpstreamInv
  <2>2. Undisturbed
    BY <1>2, <2>1
       DEF ServerNext, Alone, Exchanges, UpstreamAnswers, FactoryReset, Undisturbed, Observe
  <2>3. Orderly
    BY <2>2 DEF Undisturbed, Orderly, ExchangeInv, UpstreamInv
  <2>4. CASE UpstreamAnswers
    BY <1>0, <2>3, <2>4, AnswerCoversUp DEF UpstreamAnswers
  <2> QED
    BY <1>0, <1>2, <2>2, <2>3, <2>4, AloneCovers, ExchangesCover, ResetCovers DEF ServerNext
<1> QED
  BY <1>1, <1>2

(* UpstreamInv is an invariant for any number of sub-documents, versions,  *)
(* failures, lost and partly applied responses and factory resets, where   *)
(* one northbound call is under way at a time, every POST has a new        *)
(* version and sub-documents stay until a factory reset drops them: the    *)
(* root version of the device accounts only for rows it has, or it is      *)
(* behind with some row and BuildGetDocument will find the root versions   *)
(* to differ.                                                              *)
THEOREM UpstreamInvariant == ASSUME UpstreamDisciplined PROVE ServerSpec => []UpstreamInv
<1>1. ServerInit => UpstreamInv
  BY UpstreamInvInit
<1>2. UniqueVersions /\ PrecookSubdocs = {}
  BY DEF UpstreamDisciplined
<1>3. (ServerSpec => []HeaderInv) /\ (ServerSpec => []ExchangeInv)
  BY <1>2, HeaderInvariant, ExchangeInvariant
<1>4. /\ ServerTypeOK /\ ServerTypeOK' /\ HeaderInv /\ ExchangeInv /\ UpstreamInv
      /\ [ServerNext]_serverVars
      => UpstreamInv'
  BY UpstreamInvStep
<1> QED
  BY <1>1, <1>3, <1>4, ServerTypeCorrect, PTL DEF ServerSpec

(* WriteDocumentFromUpstream (db/service.go) stores the Etag before the    *)
(* rows it stands for, and with skip-db-update stores neither; yet a       *)
(* device whose root version is that of the table has every row it may     *)
(* have, unless a northbound call crossed a request                        *)
(* (NoMissedUpstreamUpdate).                                               *)
THEOREM NoUpstreamUpdateMissed ==
    ASSUME UpstreamDisciplined PROVE ServerSpec => []NoMissedUpstreamUpdate
<1>1. ServerTypeOK /\ ExchangeInv /\ UpstreamInv => NoMissedUpstreamUpdate
  <2>1. SUFFICES ASSUME ExchangeInv, UpstreamInv, ~crossed, WritersIdle, ~rootStale,
                        \A h \in GetHandlers : get[h].pc = "idle", dev.root = root.version,
                        NEW s \in Deliverable
                 PROVE  dev.vers[s] = rows[s].version
    BY DEF NoMissedUpstreamUpdate, NoMissedUpdate, DeviceUpToDate
  <2>2. up.pc = "idle"
    BY <2>1, ServerAssumption DEF ExchangeInv, RequestsInStep
  <2>3. RootCovers /\ (DeviceCovers \/ Behind)
    BY <2>1, <2>2 DEF UpstreamInv, TablesCover
  <2>4. \A t \in SubdocIds : Current(t) => rows[t].version \in VersionsIn(dev.root)
    BY <2>1, <2>3 DEF RootCovers
  <2>5. DeviceCovers
    BY <2>3, <2>4 DEF Behind
  <2>6. s \in SubdocIds /\ Current(s)
    BY DEF Deliverable, Current
  <2> QED
    BY <2>4, <2>5, <2>6 DEF DeviceCovers
<1>2. PrecookSubdocs = {}
  BY DEF UpstreamDisciplined
<1>3. (ServerSpec => []UpstreamInv) /\ (ServerSpec => []ExchangeInv)
  BY <1>2, UpstreamInvariant, ExchangeInvariant
<1> QED
  BY <1>1, <1>3, ServerTypeCorrect, PTL

-----------------------------------------------------------------------------
(* The device is only sent what its firmware declares.                     *)

\* What FilterByBitmap lets through.
LEMMA Filtered ==
    ASSUME NEW ids, NEW m \in MetaColumn, FilterByBitmap(ids, m) # {}
    PROVE  m \in Metas /\ FilterByBitmap(ids, m) \subseteq Supports[m]
  BY DEF FilterByBitmap, MetaColumn

\* The decision of a GET, made on a root document that Compare has looked at.
LEMMA DecideSupported ==
    ASSUME FilterOutputByBitmapEnabled, NEW h, NEW g \in GetRequest,
           g.send = {}, g.cmp = "meta" \/ g.cloudMeta = g.meta
    PROVE  /\ SendsSupported(Decide(h, g))
           /\ SendsSupported(AfterDocument(h, g))
           /\ SendsSupported(AfterRoot(h, g))
<1>1. SendsSupported(Answered(h, g))
  <2> DEFINE todo == IF Status(g) = "200" /\ h # "mget" THEN ToMark(g) ELSE {}
             send == IF Status(g) = "200" THEN Sendable(g) ELSE {}
  <2>1. Answered(h, g) = [g EXCEPT !.pc = IF todo = {} THEN "reply" ELSE "update",
                                   !.todo = todo, !.send = send, !.status = Status(g)]
    BY DEF Answered
  <2>2. send # {} => g.meta \in Metas /\ send \subseteq Supports[g.meta]
    BY Filtered DEF Sendable, GetRequest
  <2> HIDE DEF todo, send
  <2>3. /\ Answered(h, g).pc \in {"update", "reply"} /\ Answered(h, g).meta = g.meta
        /\ Answered(h, g).send = send
    BY <2>1 DEF GetRequest
  <2> QED
    BY <2>2, <2>3 DEF SendsSupported
<1>2. SendsSupported(Decide(h, g))
  BY <1>1 DEF Decide, SendsSupported, GetRequest
<1>3. SendsSupported(AfterDocument(h, g))
  BY <1>2 DEF AfterDocument, SendsSupported, GetRequest
<1> QED
  BY <1>2, <1>3 DEF AfterRoot, SendsSupported, GetRequest

\* A step of the device's GET.
LEMMA ServeSupported ==
    ASSUME TypeOK, FilterOutputByBitmapEnabled, GetStep("device"),
           SendsSupported(get["device"])
    PROVE  SendsSupported(get'["device"])
<1> DEFINE f == get["device"]
<1>0. get \in [GetHandlers -> GetRequest] /\ f \in GetRequest /\ "device" \in GetHandlers
  BY ServerAssumption DEF TypeOK, GetTypeOK
<1>1. CASE GetReadDocFirst("device")
  <2>0. f.pc = "predoc" /\ f.send = {}
    BY <1>1 DEF GetReadDocFirst, SendsSupported
  <2>1. ASSUME Ids(GetDocument(FALSE)) = {} PROVE SendsSupported(get'["device"])
    <3>1. \E pc \in {"built", "reply"} :
             get' = [get EXCEPT !["device"].pc = pc, !["device"].cmp = "version",
                                !["device"].status = "404"]
      BY <1>1, <2>1 DEF GetReadDocFirst
    <3>2. get'["device"].pc \in {"built", "reply"} /\ get'["device"].send = {} /\ get'["device"].status = "404"
      BY <1>0, <2>0, <3>1 DEF GetRequest
    <3> QED
      BY <3>2 DEF SendsSupported
  <2>2. ASSUME Ids(GetDocument(FALSE)) # {} PROVE SendsSupported(get'["device"])
    <3>1. \E doc, vers : get' = [get EXCEPT !["device"].pc = "root", !["device"].hasDoc = TRUE,
                                            !["device"].doc = doc, !["device"].hdrVers = vers]
      BY <1>1, <2>2, Zenon DEF GetReadDocFirst
    <3>2. get'["device"].pc = "root" /\ get'["device"].send = {}
      BY <1>0, <2>0, <3>1 DEF GetRequest
    <3> QED
      BY <3>2 DEF SendsSupported
  <2> QED
    BY <2>1, <2>2
<1>2. CASE GetReadRoot("device")
  <2> DEFINE m == IF root.exists THEN root.meta ELSE f.meta
             v == IF root.exists THEN root.version ELSE NoRoot
             c == Compare("device", v, m, f.hdrRoot, f.meta)
             g == [f EXCEPT !.cloudRoot = v, !.cloudMeta = m,
                            !.locked = root.exists /\ root.locked, !.cmp = c]
  <2>1. m \in MetaColumn /\ v \in RootVersion /\ (root.exists /\ root.locked) \in BOOLEAN
    BY <1>0, EmptyTypes DEF TypeOK, StoreTypeOK, RootRow, GetRequest
  <2>2. c \in Comparison /\ (c = "meta" \/ m = f.meta)
    BY DEF Compare, Comparison
  <2>3. get' = [get EXCEPT !["device"] = IF ~root.exists THEN [g EXCEPT !.pc = "create"]
                                         ELSE IF m # g.meta THEN [g EXCEPT !.pc = "meta"]
                                         ELSE AfterRoot("device", g)]
    BY <1>2 DEF GetReadRoot
  <2>4. f.send = {}
    BY <1>2 DEF GetReadRoot, SendsSupported
  <2> HIDE DEF m, v, c
  <2>5. /\ g \in GetRequest /\ g.send = {} /\ g.cmp = c /\ g.cloudMeta = m /\ g.meta = f.meta
    BY <1>0, <2>1, <2>2, <2>4 DEF GetRequest
  <2> HIDE DEF g
  <2>6. SendsSupported(AfterRoot("device", g))
    BY <2>2, <2>5, DecideSupported
  <2>7. SendsSupported([g EXCEPT !.pc = "create"]) /\ SendsSupported([g EXCEPT !.pc = "meta"])
    BY <2>2, <2>5 DEF SendsSupported, GetRequest
  <2> QED
    BY <1>0, <2>3, <2>6, <2>7
<1>3. CASE GetStoreMeta("device")
  <2>1. f.send = {} /\ (f.cmp = "meta" \/ f.cloudMeta = f.meta)
    BY <1>3 DEF GetStoreMeta, SendsSupported
  <2> QED
    BY <1>0, <1>3, <2>1, DecideSupported DEF GetStoreMeta
<1>4. CASE GetReadDocument("device")
  <2> DEFINE g == [f EXCEPT !.hasDoc = TRUE, !.doc = GetDocument(FALSE)]
  <2>1. f.send = {} /\ (f.cmp = "meta" \/ f.cloudMeta = f.meta)
    BY <1>4 DEF GetReadDocument, SendsSupported
  <2>2. g \in GetRequest /\ g.send = {} /\ (g.cmp = "meta" \/ g.cloudMeta = g.meta)
    BY <1>0, <2>1, GetDocumentType DEF GetRequest, TypeOK
  <2>3. get' = [get EXCEPT !["device"] = AfterDocument("device", g)]
    BY <1>4 DEF GetReadDocument
  <2> HIDE DEF g
  <2> QED
    BY <1>0, <2>2, <2>3, DecideSupported
<1>5. ASSUME NEW s \in SubdocIds, CorrectState("device", s) PROVE SendsSupported(get'["device"])
  <2> DEFINE g == [f EXCEPT !.todo = @ \ {s}]
  <2>1. f.pc = "correct" /\ f.send = {} /\ (f.cmp = "meta" \/ f.cloudMeta = f.meta)
    BY <1>5 DEF CorrectState, SendsSupported
  <2>2. g \in GetRequest /\ g.pc = "correct" /\ g.send = {} /\ (g.cmp = "meta" \/ g.cloudMeta = g.meta)
    BY <1>0, <2>1 DEF GetRequest
  <2>3. get' = [get EXCEPT !["device"] = IF g.todo = {} THEN Decide("device", g) ELSE g]
    BY <1>5 DEF CorrectState
  <2> HIDE DEF g
  <2>4. SendsSupported(Decide("device", g)) /\ SendsSupported(g)
    BY <2>2, DecideSupported DEF SendsSupported
  <2> QED
    BY <1>0, <2>3, <2>4
<1>6. ASSUME NEW s \in SubdocIds, MarkInDeployment("device", s) PROVE SendsSupported(get'["device"])
  <2>1. /\ get'["device"].pc \in {"update", "reply"} /\ get'["device"].meta = f.meta
        /\ get'["device"].send = f.send
    BY <1>0, <1>6 DEF MarkInDeployment, GetRequest
  <2> QED
    BY <2>1 DEF SendsSupported
<1> QED
  BY <1>1, <1>2, <1>3, <1>4, <1>5, <1>6 DEF GetStep

\* A request that starts, or is over.
LEMMA RequestSupported ==
    ASSUME TypeOK, RequestTurn, SendsSupported(get["device"])
    PROVE  SendsSupported(get'["device"])
<1>0. get \in [GetHandlers -> GetRequest] /\ get["device"] \in GetRequest /\ "device" \in GetHandlers
  BY ServerAssumption DEF TypeOK, GetTypeOK
<1>1. ASSUME NEW h \in GetHandlers, get' = [get EXCEPT ![h] = IdleGet]
      PROVE  SendsSupported(get'["device"])
  BY <1>0, <1>1 DEF SendsSupported, IdleGet
<1>2. ASSUME NEW mismatch \in BOOLEAN, DeviceGet(mismatch) PROVE SendsSupported(get'["device"])
  <2>1. get["device"].send = {}
    BY <1>2 DEF DeviceGet, SendsSupported
  <2>2. get'["device"].pc \in {"predoc", "root"} /\ get'["device"].send = {}
    BY <1>0, <1>2, <2>1 DEF DeviceGet, GetRequest
  <2> QED
    BY <2>2 DEF SendsSupported
<1>3. ASSUME NEW m \in Metas, MgetGet(m) PROVE get'["device"] = get["device"]
  BY <1>0, <1>3 DEF MgetGet
<1> QED
  BY <1>1, <1>2, <1>3 DEF RequestTurn, DeviceReceives, MgetReceives, GetFails

\* The steps of an exchange.
LEMMA ExchangesSupported ==
    ASSUME TypeOK, FilterOutputByBitmapEnabled, RequestsInStep, UpstreamStep,
           SendsSupported(get["device"])
    PROVE  SendsSupported(get'["device"])
<1> DEFINE f == get["device"]
<1>0. get \in [GetHandlers -> GetRequest] /\ f \in GetRequest /\ "device" \in GetHandlers
  BY ServerAssumption DEF TypeOK, GetTypeOK
<1>a. ASSUME up.pc # "idle" PROVE f.send = {}
  BY <1>a DEF RequestsInStep, SendsSupported
<1>1. ASSUME NEW h \in GetHandlers, UpstreamDecide(h) PROVE SendsSupported(get'["device"])
  <2>1. CASE h = "mget"
    <3>1. get'["device"] = get["device"]
      BY <1>0, <1>1, <2>1 DEF UpstreamDecide
    <3> QED
      BY <3>1
  <2>2. CASE h = "device"
    <3>0. f.pc = "built" /\ f.send = {}
      BY <1>1, <2>2 DEF UpstreamDecide, SendsSupported
    <3>1. CASE get' = [get EXCEPT ![h] = [f EXCEPT !.pc = "reply", !.status = "409"]]
      BY <1>0, <2>2, <3>0, <3>1 DEF SendsSupported, GetRequest
    <3>2. CASE ~Posts(f) /\ get' = [get EXCEPT ![h] = AnswerFromTables(f)]
      <4>1. f.cloudMeta = f.meta
        BY <3>0, <3>2 DEF Posts, NotFound, SendsSupported
      <4>2. Outgoing(f) # {} => f.meta \in Metas /\ Outgoing(f) \subseteq Supports[f.meta]
        BY <1>0, <4>1, Filtered DEF Outgoing, GetRequest
      <4>3. /\ AnswerFromTables(f).pc \in {"update", "reply"} /\ AnswerFromTables(f).meta = f.meta
            /\ AnswerFromTables(f).send = Outgoing(f)
        BY <1>0 DEF AnswerFromTables, GetRequest
      <4> QED
        BY <1>0, <2>2, <3>2, <4>2, <4>3 DEF SendsSupported
    <3>3. CASE get' = [get EXCEPT ![h].pc = "upstream"]
      BY <1>0, <2>2, <3>0, <3>3 DEF SendsSupported, GetRequest
    <3> QED
      BY <1>1, <2>2, <3>1, <3>2, <3>3 DEF UpstreamDecide
  <2> QED
    BY <2>1, <2>2, GetAssumption
<1>2. ASSUME up.pc # "idle", Reply([f EXCEPT !.status = "404"]) PROVE SendsSupported(get'["device"])
  BY <1>0, <1>2, <1>a DEF Reply, SendsSupported, GetRequest
<1>3. CASE UpstreamRespond
  <2> DEFINE send == FinalSendable(f)
  <2>1. send # {} => f.meta \in Metas /\ send \subseteq Supports[f.meta]
    BY <1>0, Filtered DEF FinalSendable, GetRequest
  <2>2. \E doc, etag, status :
           Reply([f EXCEPT !.doc = doc, !.cloudRoot = etag, !.send = send, !.status = status])
    BY <1>3, Zenon DEF UpstreamRespond
  <2> HIDE DEF send
  <2>3. get'["device"].pc = "reply" /\ get'["device"].send = send /\ get'["device"].meta = f.meta
    BY <1>0, <2>2 DEF Reply, GetRequest
  <2> QED
    BY <2>1, <2>3 DEF SendsSupported
<1>4. CASE ResetReadDocument
  BY <1>2, <1>4 DEF ResetReadDocument
<1>5. CASE ResetDelete
  BY <1>2, <1>5 DEF ResetDelete
<1>6. CASE \/ ResetReadRoot \/ ResetStoreRoot \/ StoreUpstreamRoot
           \/ \E s \in SubdocIds : WriteUpstreamRow(s) \/ DeleteUpstreamRow(s)
  BY <1>6 DEF ResetReadRoot, ResetStoreRoot, StoreUpstreamRoot, WriteUpstreamRow, DeleteUpstreamRow
<1> QED
  BY <1>1, <1>3, <1>4, <1>5, <1>6 DEF UpstreamStep

LEMMA SupportedStep ==
    ASSUME ServerTypeOK, RequestsInStep, SupportedInv, [ServerNext]_serverVars
    PROVE  SupportedInv'
<1> SUFFICES ASSUME FilterOutputByBitmapEnabled PROVE SendsSupported(get'["device"])
  BY DEF SupportedInv
<1>0. TypeOK /\ SendsSupported(get["device"])
  BY DEF ServerTypeOK, SupportedInv
<1>1. ASSUME UNCHANGED get PROVE SendsSupported(get'["device"])
  BY <1>0, <1>1
<1>2. CASE Alone(Next)
  <2>1. CASE ServeTurn
    <3>1. PICK h \in GetHandlers : GetStep(h)
      BY <2>1 DEF ServeTurn
    <3>2. CASE h = "device"
      BY <1>0, <3>1, <3>2, ServeSupported
    <3>3. CASE h # "device"
      BY <1>0, <3>1, <3>3, GetStepKeeps, ServerAssumption
    <3> QED
      BY <3>2, <3>3
  <2>2. CASE RequestTurn
    BY <1>0, <2>2, RequestSupported
  <2>3. WriterTurn \/ ReportTurn \/ PokeTurn \/ ClockTurn \/ UpgradeTurn => UNCHANGED get
    BY DEF WriterTurn, ReportTurn, PokeTurn, ClockTurn, UpgradeTurn
  <2> QED
    BY <1>0, <1>1, <1>2, <2>1, <2>2, <2>3, Turns DEF Alone
<1>3. CASE Exchanges
  BY <1>0, <1>3, ExchangesSupported DEF Exchanges
<1>4. CASE UpstreamAnswers
  BY <1>1, <1>4 DEF UpstreamAnswers, PostUpstream
<1>5. CASE FactoryReset
  <2>1. get \in [GetHandlers -> GetRequest]
    BY <1>0 DEF TypeOK, GetTypeOK
  <2> QED
    BY <1>5, <2>1, ServerAssumption DEF FactoryReset, DeviceResets, IdleGet, SendsSupported
<1>6. CASE UNCHANGED serverVars
  BY <1>1, <1>6 DEF serverVars, vars
<1> QED
  BY <1>2, <1>3, <1>4, <1>5, <1>6 DEF ServerNext

(* With the bitmap filter on, every download of the device is within the   *)
(* sub-documents that the metadata of the request supports, whatever the   *)
(* table of root documents holds by then: BuildGetDocument (db/service.go) *)
(* goes by the stored bitmap only where Compare found it to be the same.   *)
THEOREM SupportedInvariant == ServerSpec => []SupportedInv
<1>1. ServerInit => RequestsInStep
  BY ExchangeInit DEF ExchangeInv
<1>2. ServerInit => SupportedInv
  BY ServerAssumption DEF ServerInit, Init, GetInit, SupportedInv, SendsSupported, IdleGet
<1>3. ServerTypeOK /\ RequestsInStep /\ [ServerNext]_serverVars => RequestsInStep'
  BY InStep
<1>4. ServerTypeOK /\ RequestsInStep /\ SupportedInv /\ [ServerNext]_serverVars => SupportedInv'
  BY SupportedStep
<1> QED
  BY <1>1, <1>2, <1>3, <1>4, ServerTypeCorrect, PTL DEF ServerSpec

\* The bit of webui: of all the groups only group 1 has it, as its bit 9.
LEMMA WebuiBit ==
    ASSUME NEW items, \A n \in DOMAIN items : items[n] \in Nat,
           GetSupportedMap(GetCpeBitmap(items))["webui"]
    PROVE  \E n \in DOMAIN items : /\ items[n] \div 2^24 = 1
                                   /\ (items[n] \div 2^8) % 2 = 1
<1>1. 40 \in GetCpeBitmap(items)
  BY DEF GetSupportedMap, SubdocBitIndexMap
<1>2. PICK n \in DOMAIN items : 40 \in BitmapByGroup(items[n] \div 2^24, items[n] % 2^24)
  BY <1>1 DEF GetCpeBitmap, ParseFirmwareGroupBitarray
<1>3. /\ items[n] \div 2^24 \in DOMAIN SupportedDocsBitMaskMap
      /\ \E u \in SupportedDocsBitMaskMap[items[n] \div 2^24] :
            u[2] = 40 /\ Bit(items[n] % 2^24, u[1])
  BY <1>2 DEF BitmapByGroup
<1>4. \A k \in DOMAIN SupportedDocsBitMaskMap : \A u \in SupportedDocsBitMaskMap[k] :
         u[2] = 40 => k = 1 /\ u[1] = 9
  BY DEF SupportedDocsBitMaskMap
<1>5. items[n] \div 2^24 = 1 /\ Bit(items[n] % 2^24, 9)
  BY <1>3, <1>4
<1>6. 2^24 = 16777216 /\ 2^(9 - 1) = 256 /\ 2^8 = 256
  OBVIOUS
<1>7. \A i \in Nat : ((i % 16777216) \div 256) % 2 = (i \div 256) % 2
  OBVIOUS
<1> QED
  BY <1>5, <1>6, <1>7 DEF Bit

\* What the headers of the two firmwares say of the sub-documents.
LEMMA HeaderSaysWebui ==
    ASSUME NEW m \in Metas, FromHeaders[m] # {}
    PROVE  \E n \in DOMAIN DocsHeader(m) :
              /\ DocsHeader(m)[n] \div 2^24 = 1
              /\ (DocsHeader(m)[n] \div 2^8) % 2 = 1
<1>1. GetSupportedMap(GetCpeBitmap(DocsHeader(m)))["webui"]
  BY DEF FromHeaders, Name
<1>2. \A n \in DOMAIN DocsHeader(m) : DocsHeader(m)[n] \in Nat
  <2>1. 2^24 = 16777216 /\ 2^8 = 256 /\ 2^9 = 512 /\ 2^6 = 64 /\ 2^2 = 4
    OBVIOUS
  <2> QED
    BY <2>1 DEF DocsHeader
<1> QED
  BY <1>1, <1>2, WebuiBit

(* With the bitmaps that GetCpeBitmap (common/bitmap.go) makes of the      *)
(* headers of two firmwares, a device is sent webui only when bit 9 of     *)
(* group 1 of the header it presented is set (SentIsDeclared).             *)
THEOREM OnlyDeclaredIsSent ==
    ASSUME FilterOutputByBitmapEnabled, Supports = FromHeaders
    PROVE  ServerSpec => []SentIsDeclared
<1>1. SupportedInv => SentIsDeclared
  BY HeaderSaysWebui DEF SupportedInv, SendsSupported, SentIsDeclared
<1> QED
  BY <1>1, SupportedInvariant, PTL
=============================================================================
