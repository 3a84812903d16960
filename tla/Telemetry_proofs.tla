-------------------------- MODULE Telemetry_proofs --------------------------
(***************************************************************************)
(* Proofs about TelemetryDelivery, for any number of consumers, versions,  *)
(* reports and failures: the types, the gauges (for any number of requests *)
(* and any states a POST may carry) and the answers.                       *)
(***************************************************************************)
EXTENDS TelemetryDelivery, FiniteSetTheorems, TLAPS

-----------------------------------------------------------------------------
(* Types.                                                                  *)

\* The empty values have their types.
LEMMA EmptyTypes ==
    /\ NoRoot \in RootVersion
    /\ EmptyRow \in Row
    /\ NoVersions \in Versions
    /\ IdleWriter \in Writer
    /\ IdleReport \in Handling
    /\ IdleSupplementary \in Supplementary
<1>1. EmptyRow \in Row
  BY DEF EmptyRow, Row, States
<1>2. NoRoot \in RootVersion /\ NoVersions \in Versions
  BY DEF NoRoot, RootVersion, NoVersions, Versions
<1>3. IdleWriter \in Writer
  BY <1>2 DEF IdleWriter, Writer
<1>4. IdleReport \in Handling
  BY DEF IdleReport, Handling, Http304Report, Event, RootdocEvent
<1>5. IdleSupplementary \in Supplementary
  BY <1>1 DEF IdleSupplementary, Supplementary, Answer, Response
<1> QED
  BY <1>1, <1>2, <1>3, <1>4, <1>5

\* A root version computed from a version map is a set of pairs of naturals.
LEMMA HashRootVersionType ==
    ASSUME NEW vm \in Versions
    PROVE  HashRootVersion(vm) \in RootVersion
<1> DEFINE names == {s \in SubdocIds : vm[s] # 0}
<1>1. ASSUME NEW s \in names
      PROVE  <<Cardinality({t \in names : t <= s}), vm[s]>> \in Nat \X Nat
  <2>1. {t \in names : t <= s} \subseteq SubdocIds
    OBVIOUS
  <2>2. Cardinality({t \in names : t <= s}) \in Nat
    BY <2>1, FS_Subset, FS_CardinalityType, StoreAssumption
  <2> QED
    BY <2>2 DEF Versions
<1>2. HashRootVersion(vm) = {<<Cardinality({t \in names : t <= s}), vm[s]>> : s \in names}
  BY DEF HashRootVersion
<1> HIDE DEF names
<1> QED
  BY <1>1, <1>2 DEF RootVersion

\* SetSubDocument keeps the type of the table, nil columns included.
LEMMA SetSubDocumentType ==
    ASSUME StoreTypeOK, NEW s \in SubdocIds, NEW version \in Nat,
           NEW state \in States \cup {NilState},
           NEW err \in {"none", "set", "nil"},
           NEW expiry \in {"none", "live", "past", "nil"},
           SetSubDocument(s, version, state, err, expiry)
    PROVE  rows' \in [SubdocIds -> Row]
BY DEF StoreTypeOK, SetSubDocument, Row, NilVersion, NilState, States

\* UpdateStateMetrics keeps the gauges integers.
LEMMA CountType ==
    ASSUME gauge \in [Gauged -> Int], overlapped \in BOOLEAN, NEW writer, NEW oldState,
           Count(writer, oldState)
    PROVE  gauge' \in [Gauged -> Int] /\ overlapped' \in BOOLEAN
<1>1. overlapped' \in BOOLEAN
  BY DEF Count
<1>2. CASE overlapped'
  BY <1>2 DEF Count
<1>3. CASE ~overlapped'
  <2>1. UpdateStateMetrics(oldState, rows'[Telemetry].state)
    BY <1>3 DEF Count
  <2>2. CASE oldState = rows'[Telemetry].state
    BY <1>1, <2>1, <2>2 DEF UpdateStateMetrics
  <2>3. CASE oldState # rows'[Telemetry].state
    <3>1. ASSUME NEW st \in Gauged
          PROVE  gauge[st] - (IF st = oldState THEN 1 ELSE 0)
                           + (IF st = rows'[Telemetry].state THEN 1 ELSE 0) \in Int
      <4>1. gauge[st] \in Int
        OBVIOUS
      <4> QED
        BY <4>1
    <3>2. gauge' = [st \in Gauged |-> gauge[st] - (IF st = oldState THEN 1 ELSE 0)
                                     + (IF st = rows'[Telemetry].state THEN 1 ELSE 0)]
      BY <2>1, <2>3, Zenon DEF UpdateStateMetrics
    <3> QED
      BY <1>1, <3>1, <3>2
  <2> QED
    BY <2>2, <2>3
<1> QED
  BY <1>1, <1>2, <1>3

\* Reports that are emitted are reports.
LEMMA EmitType ==
    ASSUME events \subseteq Event, NEW E, E \subseteq Event, Emit(E)
    PROVE  events' \subseteq Event
BY DEF Emit

\* The steps of a POST keep the types.
LEMMA PostTypes ==
    ASSUME TelemetryTypeOK, NEW w \in Writers, Post(w) \/ PostGoesOn(w) \/ WriterFails(w)
    PROVE  StoreTypeOK' /\ WriterTypeOK'
<1> USE DEF TelemetryTypeOK
<1>0. nb \in [Writers -> Writer] /\ nextVersion \in Nat \ {0}
  BY DEF WriterTypeOK
<1>1. ASSUME NEW v \in 1..nextVersion, NEW state \in PostStates, NEW expiry \in PostExpiries,
             PostSubDocument(w, Telemetry, v, state, expiry)
      PROVE  StoreTypeOK' /\ WriterTypeOK'
  <2>1. rows' \in [SubdocIds -> Row] /\ UNCHANGED <<root, rootStale>>
    BY <1>1, SetSubDocumentType, WriterAssumption, SupplementaryAssumption DEF PostSubDocument
  <2>2. nextVersion' \in Nat \ {0}
    BY <1>0, <1>1 DEF PostSubDocument, PostedVersion
  <2>3. Telemetry \in Nat /\ v \in Nat
    BY <1>0, StoreAssumption, SupplementaryAssumption
  <2>4. [IdleWriter EXCEPT !.pc = "read", !.op = "post",
                           !.subdoc = Telemetry, !.version = v] \in Writer
    BY <2>3, EmptyTypes DEF Writer
  <2>5. nb' \in [Writers -> Writer]
    BY <1>0, <1>1, <2>4 DEF PostSubDocument
  <2> QED
    BY <2>1, <2>2, <2>5 DEF StoreTypeOK, WriterTypeOK
<1>2. CASE PostReadDocument(w)
  <2> DEFINE vm == [VersionMap(GetDocument(TRUE)) EXCEPT ![nb[w].subdoc] = nb[w].version]
  <2>1. vm \in Versions
    <3>1. VersionMap(GetDocument(TRUE)) \in Versions
      BY DEF VersionMap, GetDocument, Versions, StoreTypeOK, Row, EmptyRow
    <3>2. nb[w].version \in Nat
      BY <1>0 DEF Writer
    <3> QED
      BY <3>1, <3>2 DEF Versions
  <2>2. nb' = [nb EXCEPT ![w].pc = "root", ![w].newRoot = HashRootVersion(vm)]
    BY <1>2 DEF PostReadDocument
  <2> HIDE DEF vm
  <2>3. HashRootVersion(vm) \in RootVersion
    BY <2>1, HashRootVersionType
  <2>4. [nb[w] EXCEPT !.pc = "root", !.newRoot = HashRootVersion(vm)] \in Writer
    BY <1>0, <2>3 DEF Writer
  <2>5. nb' = [nb EXCEPT ![w] = [nb[w] EXCEPT !.pc = "root", !.newRoot = HashRootVersion(vm)]]
    BY <1>0, <2>2
  <2>6. nb' \in [Writers -> Writer]
    BY <1>0, <2>4, <2>5
  <2> QED
    BY <1>2, <2>6 DEF PostReadDocument, StoreTypeOK, WriterTypeOK, storeVars
<1>3. CASE WriteRootVersion(w)
  <2>1. nb[w].newRoot \in RootVersion
    BY <1>0 DEF Writer
  <2>2. root' \in RootRow
    BY <1>3, <2>1 DEF WriteRootVersion, SetRootDocumentVersion, StoreTypeOK, RootRow
  <2>3. nb' \in [Writers -> Writer]
    BY <1>0, <1>3, EmptyTypes DEF WriteRootVersion
  <2> QED
    BY <1>3, <2>2, <2>3 DEF WriteRootVersion, StoreTypeOK, WriterTypeOK
<1>4. CASE WriterFails(w)
  <2>1. nb' \in [Writers -> Writer]
    BY <1>0, <1>4, EmptyTypes DEF WriterFails
  <2> QED
    BY <1>4, <2>1 DEF WriterFails, StoreTypeOK, WriterTypeOK, storeVars
<1> QED
  BY <1>1, <1>2, <1>3, <1>4 DEF Post, PostGoesOn

\* The steps of a consumer keep the types.
LEMMA ConsumerTypes ==
    ASSUME TelemetryTypeOK, NEW c \in Consumers,
           TakeOrRead(c) \/ ApplyReport(c) \/ ReportFails(c) \/ ReportCrashes(c)
    PROVE  StoreTypeOK' /\ DeviceTypeOK' /\ ReportTypeOK'
<1> USE DEF TelemetryTypeOK
<1>0. rep \in [Consumers -> Handling] /\ events \subseteq Event
  BY DEF ReportTypeOK, DeviceTypeOK
<1>1. ASSUME NEW e \in events, TakeReport(c, e)
      PROVE  StoreTypeOK' /\ DeviceTypeOK' /\ ReportTypeOK'
  <2>1. e \in Event
    BY <1>0
  <2>2. rep' \in [Consumers -> Handling] /\ rep'[c].pc = "read"
    BY <1>0, <1>1, <2>1 DEF TakeReport, Handling
  <2>3. \A d \in Consumers \ {c} : rep'[d] = rep[d]
    BY <1>0, <1>1 DEF TakeReport
  <2>4. ReportTypeOK'
    BY <2>2, <2>3 DEF ReportTypeOK
  <2> QED
    BY <1>1, <2>4 DEF TakeReport, StoreTypeOK, DeviceTypeOK, storeVars
<1>2. CASE ReadSubdoc(c)
  <2>1. rep[c].event \in SubdocEvent
    BY <1>0, <1>2 DEF ReadSubdoc, Handling, Event, RootdocEvent
  <2>2. rep' \in [Consumers -> Handling] /\ (rep'[c].event = rep[c].event \/ rep'[c] = IdleReport)
    BY <1>0, <1>2, EmptyTypes DEF ReadSubdoc, Handling
  <2>3. rep' \in [Consumers -> Handling]
    BY <1>0, <1>2, EmptyTypes DEF ReadSubdoc, Handling
  <2>4. \A d \in Consumers \ {c} : rep'[d] = rep[d]
    BY <1>0, <1>2 DEF ReadSubdoc
  <2>5. ReportTypeOK'
    BY <2>1, <2>2, <2>3, <2>4 DEF ReportTypeOK, IdleReport
  <2> QED
    BY <1>2, <2>5 DEF ReadSubdoc, StoreTypeOK, DeviceTypeOK, storeVars, deviceVars
<1>3. ASSUME rep' = [rep EXCEPT ![c] = IdleReport]
      PROVE  ReportTypeOK'
  <2>1. rep' \in [Consumers -> Handling] /\ rep'[c] = IdleReport
    BY <1>0, <1>3, EmptyTypes
  <2>2. \A d \in Consumers \ {c} : rep'[d] = rep[d]
    BY <1>0, <1>3
  <2> QED
    BY <2>1, <2>2 DEF ReportTypeOK, IdleReport
<1>4. CASE SetReportedState(c)
  <2>1. rep[c].event \in SubdocEvent
    BY <1>4 DEF SetReportedState, ReportTypeOK
  <2>2. rep[c].event.subdoc \in SubdocIds
    BY <2>1 DEF SubdocEvent
  <2>3. rows' \in [SubdocIds -> Row]
    BY <1>4, <2>2, SetSubDocumentType DEF SetReportedState, NilVersion, Deployed, Failure, States
  <2> QED
    BY <1>3, <1>4, <2>3 DEF SetReportedState, StoreTypeOK, DeviceTypeOK, deviceVars
<1>5. CASE ReportFails(c)
  BY <1>3, <1>5 DEF ReportFails, StoreTypeOK, DeviceTypeOK, storeVars, deviceVars
<1>6. CASE ReportCrashes(c)
  <2>1. rep[c].event \in Event
    BY <1>0 DEF Handling
  <2> QED
    BY <1>3, <1>6, <2>1 DEF ReportCrashes, StoreTypeOK, DeviceTypeOK, storeVars
<1> QED
  BY <1>1, <1>2, <1>4, <1>5, <1>6 DEF TakeOrRead, ApplyReport

\* A request that is answered keeps its type, whatever the answer.
LEMMA AnsweredType ==
    ASSUME NEW s \in Supplementary, NEW r \in Response,
           NEW h \in SUBSET {"xconf", "upstream"}
    PROVE  [s EXCEPT !.pc = "reply", !.resp = r, !.had = h] \in Supplementary
BY DEF Supplementary

\* The steps of a request for the profile keep the types.
LEMMA SupplementaryTypes ==
    ASSUME TelemetryTypeOK, NEW q \in SupRequests,
           \/ SupSet(q) \/ SupGoesOn(q) \/ \E ok \in BOOLEAN : Receive(q, ok)
           \/ SupWriteFails(q) \/ SupLost(q)
    PROVE  StoreTypeOK' /\ DeviceTypeOK' /\ SupplementaryTypeOK'
<1> USE DEF TelemetryTypeOK
<1>0. /\ sup \in [SupRequests -> Supplementary]
      /\ rows \in [SubdocIds -> Row] /\ Telemetry \in SubdocIds
      /\ dev \in DeviceState /\ events \subseteq Event
  BY SupplementaryAssumption DEF SupplementaryTypeOK, StoreTypeOK, DeviceTypeOK
<1>1. CASE SupSetState(q)
  <2>1. rows' \in [SubdocIds -> Row]
    BY <1>0, <1>1, SetSubDocumentType DEF SupSetState, NilVersion, InDeployment, States
  <2>2. sup' \in [SupRequests -> Supplementary]
    BY <1>0, <1>1 DEF SupSetState, Supplementary
  <2> QED
    BY <1>1, <2>1, <2>2 DEF SupSetState, StoreTypeOK, DeviceTypeOK, SupplementaryTypeOK, deviceVars
<1>2. CASE SupReadRow(q)
  <2>1. rows[Telemetry] \in Row
    BY <1>0
  <2>2. sup' \in [SupRequests -> Supplementary]
    BY <1>0, <1>2, <2>1, EmptyTypes DEF SupReadRow, Supplementary, Answer, Response
  <2> QED
    BY <1>2, <2>2 DEF SupReadRow, StoreTypeOK, DeviceTypeOK, SupplementaryTypeOK, storeVars, deviceVars
<1>3. RowResponse(q) \in [SupRequests -> Supplementary]
  <2>1. Answer("200", {"row"}) \in Response
    BY DEF Answer, Response
  <2>2. [sup[q] EXCEPT !.pc = "reply", !.resp = Answer("200", {"row"})] \in Supplementary
    BY <1>0, <2>1 DEF Supplementary
  <2>3. RowResponse(q) = [sup EXCEPT ![q] = [sup[q] EXCEPT !.pc = "reply",
                                                           !.resp = Answer("200", {"row"})]]
    BY <1>0 DEF RowResponse
  <2> QED
    BY <1>0, <2>2, <2>3
<1>4. CASE SupClearColumns(q)
  <2>1. rows' \in [SubdocIds -> Row]
    <3> DEFINE expiry == IF sup[q].row.expiry # "none" THEN "none" ELSE rows[Telemetry].expiry
    <3>1. expiry \in {"none", "live", "past"}
      BY <1>0 DEF Row
    <3>2. rows' = [rows EXCEPT ![Telemetry].err = "none", ![Telemetry].expiry = expiry]
      BY <1>4 DEF SupClearColumns
    <3> HIDE DEF expiry
    <3> QED
      BY <1>0, <3>1, <3>2 DEF Row
  <2> QED
    BY <1>3, <1>4, <2>1 DEF SupClearColumns, StoreTypeOK, DeviceTypeOK, SupplementaryTypeOK, deviceVars
<1>5. ASSUME NEW x \in ProfileAnswers, NEW u \in ProfileAnswers \cup {"none"},
             NEW params \in BOOLEAN, SupProfiles(q, x, u, params)
      PROVE  StoreTypeOK' /\ DeviceTypeOK' /\ SupplementaryTypeOK'
  <2>1. ProfileResponse(x, u) \in Response
    BY DEF ProfileResponse, Response, Answer
  <2>2. sup' \in [SupRequests -> Supplementary]
    <3> DEFINE had == {s \in {"xconf", "upstream"} : "profiles" = IF s = "xconf" THEN x ELSE u}
    <3>1. had \in SUBSET {"xconf", "upstream"}
      OBVIOUS
    <3>2. sup' = [sup EXCEPT ![q].pc = "reply", ![q].resp = ProfileResponse(x, u), ![q].had = had]
      BY <1>5 DEF SupProfiles
    <3> HIDE DEF had
    <3>3. [sup[q] EXCEPT !.pc = "reply", !.resp = ProfileResponse(x, u), !.had = had]
              \in Supplementary
      <4>1. sup[q] \in Supplementary
        BY <1>0
      <4> HIDE DEF TelemetryTypeOK
      <4> QED
        BY <2>1, <3>1, <4>1, AnsweredType
    <3>4. sup' = [sup EXCEPT ![q] = [sup[q] EXCEPT !.pc = "reply", !.resp = ProfileResponse(x, u),
                                                   !.had = had]]
      BY <1>0, <3>2
    <3> QED
      BY <1>0, <3>3, <3>4
  <2> QED
    BY <1>5, <2>2 DEF SupProfiles, StoreTypeOK, DeviceTypeOK, SupplementaryTypeOK, storeVars, deviceVars
<1>6. ASSUME NEW ok \in BOOLEAN, SupReceived(q, ok)
      PROVE  StoreTypeOK' /\ DeviceTypeOK' /\ SupplementaryTypeOK'
  <2>1. sup[q].row.version \in Nat
    BY <1>0 DEF Supplementary, Row
  <2>2. SubdocReport(Telemetry, sup[q].row.version, ok) \in Event
    BY <1>0, <2>1 DEF SubdocReport, Event, SubdocEvent
  <2>3. dev' \in DeviceState
    BY <1>0, <1>6, <2>1 DEF SupReceived, DeviceState, Versions
  <2>4. events' \subseteq Event
    <3>1. CASE sup[q].resp.body = {"row"}
      <4>1. Emit({SubdocReport(Telemetry, sup[q].row.version, ok)})
        BY <1>6, <3>1 DEF SupReceived
      <4>2. {SubdocReport(Telemetry, sup[q].row.version, ok)} \subseteq Event
        BY <2>2
      <4> HIDE DEF TelemetryTypeOK
      <4> QED
        BY <1>0, <4>1, <4>2, EmitType
    <3>2. CASE sup[q].resp.body # {"row"}
      BY <1>0, <1>6, <3>2 DEF SupReceived
    <3> QED
      BY <3>1, <3>2
  <2>5. sup' \in [SupRequests -> Supplementary]
    BY <1>0, <1>6, EmptyTypes DEF SupReceived
  <2> QED
    BY <1>6, <2>3, <2>4, <2>5 DEF SupReceived, StoreTypeOK, DeviceTypeOK, SupplementaryTypeOK, storeVars
<1>7. CASE SupWriteFails(q)
  <2>1. sup' \in [SupRequests -> Supplementary]
    <3>1. CASE sup' = RowResponse(q)
      BY <1>3, <3>1
    <3>2. CASE sup' = [sup EXCEPT ![q].pc = "clear"]
      BY <1>0, <3>2 DEF Supplementary
    <3> QED
      BY <1>7, <3>1, <3>2 DEF SupWriteFails
  <2> QED
    BY <1>7, <2>1 DEF SupWriteFails, StoreTypeOK, DeviceTypeOK, SupplementaryTypeOK, storeVars, deviceVars
<1>8. CASE SupLost(q)
  <2>1. sup' \in [SupRequests -> Supplementary]
    BY <1>0, <1>8, EmptyTypes DEF SupLost
  <2> QED
    BY <1>8, <2>1 DEF SupLost, StoreTypeOK, DeviceTypeOK, SupplementaryTypeOK, storeVars, deviceVars
<1> QED
  BY <1>1, <1>2, <1>4, <1>5, <1>6, <1>7, <1>8 DEF SupSet, SupGoesOn, Receive

LEMMA TelemetryTypeInit == TelemetryInit => TelemetryTypeOK
<1> SUFFICES ASSUME TelemetryInit PROVE TelemetryTypeOK
  OBVIOUS
<1> USE EmptyTypes DEF TelemetryInit
<1>1. StoreTypeOK
  BY DEF StoreInit, StoreTypeOK, RootRow, MetaColumn, NoDocument
<1>2. DeviceTypeOK
  BY DEF DeviceInit, DeviceTypeOK, DeviceState
<1>3. WriterTypeOK
  <2>1. nb = [w \in Writers |-> IdleWriter] /\ nextVersion = 1 /\ rootStale = FALSE
    BY DEF WriterInit
  <2>2. nb \in [Writers -> Writer]
    BY <2>1
  <2>3. nextVersion \in Nat \ {0}
    BY <2>1
  <2>4. rootStale \in BOOLEAN
    BY <2>1, Zenon
  <2> QED
    BY <2>2, <2>3, <2>4 DEF WriterTypeOK
<1>4. ReportTypeOK
  BY DEF ReportInit, ReportTypeOK, IdleReport
<1>5. SupplementaryTypeOK
  BY DEF SupplementaryInit, SupplementaryTypeOK
<1>6. gauge \in [Gauged -> Int] /\ old \in [Consumers -> Nat \X States]
  BY DEF MetricsInit, States
<1> QED
  BY <1>1, <1>2, <1>3, <1>4, <1>5, <1>6 DEF TelemetryTypeOK

LEMMA TelemetryTypeStep ==
    TelemetryTypeOK /\ [TelemetryNext]_vars => TelemetryTypeOK'
<1> SUFFICES ASSUME TelemetryTypeOK, [TelemetryNext]_vars PROVE TelemetryTypeOK'
  OBVIOUS
<1>0. /\ StoreTypeOK /\ DeviceTypeOK /\ WriterTypeOK /\ ReportTypeOK /\ SupplementaryTypeOK
      /\ gauge \in [Gauged -> Int] /\ overlapped \in BOOLEAN
      /\ old \in [Consumers -> Nat \X States]
      /\ crossed \subseteq {"post", "request"} /\ disturbances \in Nat
  BY DEF TelemetryTypeOK
<1> DEFINE OldTyped == old' \in [Consumers -> Nat \X States]
<1>a. ASSUME NEW c \in Consumers, old' = [old EXCEPT ![c] = <<0, 0>>]
      PROVE  OldTyped
  BY <1>0, <1>a DEF States
<1>1. ASSUME NEW w \in Writers, Post(w) PROVE TelemetryTypeOK'
  <2>1. gauge' \in [Gauged -> Int] /\ overlapped' \in BOOLEAN
    BY <1>0, <1>1, CountType DEF Post
  <2> QED
    BY <1>0, <1>1, <2>1, PostTypes DEF Post, TelemetryTypeOK, DeviceTypeOK, deviceVars,
                                      ReportTypeOK, SupplementaryTypeOK
<1>2. ASSUME NEW w \in Writers, PostGoesOn(w) PROVE TelemetryTypeOK'
  BY <1>0, <1>2, PostTypes DEF PostGoesOn, TelemetryTypeOK, DeviceTypeOK, deviceVars, metricsVars,
                              ReportTypeOK, SupplementaryTypeOK
<1>3. ASSUME NEW c \in Consumers, TakeOrRead(c) PROVE TelemetryTypeOK'
  <2>1. <<rows[Telemetry].version, rows[Telemetry].state>> \in Nat \X States
    BY <1>0, SupplementaryAssumption DEF StoreTypeOK, Row
  <2>2. OldTyped
    BY <1>0, <1>3, <2>1 DEF TakeOrRead, States
  <2> QED
    BY <1>0, <1>3, <2>2, ConsumerTypes DEF TakeOrRead, TelemetryTypeOK, WriterTypeOK, writerVars,
                                          SupplementaryTypeOK
<1>4. ASSUME NEW c \in Consumers, ApplyReport(c) PROVE TelemetryTypeOK'
  <2>1. gauge' \in [Gauged -> Int] /\ overlapped' \in BOOLEAN
    BY <1>0, <1>4, CountType DEF ApplyReport
  <2>2. crossed' \subseteq {"post", "request"}
    BY <1>0, <1>4 DEF ApplyReport
  <2>3. OldTyped
    BY <1>4, <1>a DEF ApplyReport
  <2> QED
    BY <1>0, <1>4, <2>1, <2>2, <2>3, ConsumerTypes
       DEF ApplyReport, TelemetryTypeOK, WriterTypeOK, writerVars, SupplementaryTypeOK
<1>5. ASSUME NEW q \in SupRequests, SupSet(q) PROVE TelemetryTypeOK'
  <2>1. gauge' \in [Gauged -> Int] /\ overlapped' \in BOOLEAN
    BY <1>0, <1>5, CountType DEF SupSet
  <2> QED
    BY <1>0, <1>5, <2>1, SupplementaryTypes
       DEF SupSet, TelemetryTypeOK, WriterTypeOK, writerVars, ReportTypeOK
<1>6. ASSUME NEW q \in SupRequests, SupGoesOn(q) \/ \E ok \in BOOLEAN : Receive(q, ok)
      PROVE  TelemetryTypeOK'
  BY <1>0, <1>6, SupplementaryTypes
     DEF SupGoesOn, Receive, TelemetryTypeOK, WriterTypeOK, writerVars, ReportTypeOK, metricsVars
<1>7. CASE Tick
  <2>1. rows' \in [SubdocIds -> Row] /\ UNCHANGED root
    BY <1>0, <1>7 DEF Tick, Expire, StoreTypeOK, Row
  <2> QED
    BY <1>0, <1>7, <2>1 DEF Tick, TelemetryTypeOK, StoreTypeOK, DeviceTypeOK, WriterTypeOK,
                            ReportTypeOK, SupplementaryTypeOK, deviceVars, writerVars, metricsVars
<1>8. CASE Disturb
  <2>0. disturbances' \in Nat /\ UNCHANGED <<gauge, overlapped, crossed>>
    BY <1>0, <1>8 DEF Disturb
  <2>1. ASSUME NEW q \in SupRequests, SupWriteFails(q) \/ SupLost(q),
               UNCHANGED <<writerVars, rep, old>>
        PROVE  TelemetryTypeOK'
    BY <1>0, <2>0, <2>1, SupplementaryTypes DEF TelemetryTypeOK, WriterTypeOK, writerVars, ReportTypeOK
  <2>2. ASSUME NEW c \in Consumers, ReportFails(c) \/ ReportCrashes(c),
               old' = [old EXCEPT ![c] = <<0, 0>>], UNCHANGED <<writerVars, sup>>
        PROVE  TelemetryTypeOK'
    BY <1>0, <1>a, <2>0, <2>2, ConsumerTypes
       DEF TelemetryTypeOK, WriterTypeOK, writerVars, SupplementaryTypeOK
  <2>3. ASSUME NEW w \in Writers, WriterFails(w), UNCHANGED <<deviceVars, rep, sup, old>>
        PROVE  TelemetryTypeOK'
    BY <1>0, <2>0, <2>3, PostTypes DEF TelemetryTypeOK, DeviceTypeOK, deviceVars, ReportTypeOK,
                                      SupplementaryTypeOK
  <2> QED
    BY <1>8, <2>1, <2>2, <2>3 DEF Disturb
<1>9. CASE UNCHANGED vars
  BY <1>0, <1>9 DEF vars, TelemetryTypeOK, StoreTypeOK, DeviceTypeOK, WriterTypeOK, ReportTypeOK,
                    SupplementaryTypeOK, storeVars, deviceVars, writerVars, metricsVars
<1> QED
  BY <1>1, <1>2, <1>3, <1>4, <1>5, <1>6, <1>7, <1>8, <1>9 DEF TelemetryNext

(* The types hold for any number of consumers and of requests of the       *)
(* device, whatever states a POST carries (TelemetryTypeOK).               *)
THEOREM TelemetryTypeCorrect == TelemetrySpec => []TelemetryTypeOK
BY TelemetryTypeInit, TelemetryTypeStep, PTL DEF TelemetrySpec

-----------------------------------------------------------------------------
(* The gauges.                                                             *)

\* The sub-documents in a gauged state are none, or the profile alone.
LEMMA OneProfileCounted ==
    ASSUME NEW r, \A s \in SubdocIds \ {Telemetry} : r[s] = EmptyRow, NEW st \in Gauged
    PROVE  Cardinality({s \in SubdocIds : r[s].state = st})
               = IF r[Telemetry].state = st THEN 1 ELSE 0
<1> DEFINE in == {s \in SubdocIds : r[s].state = st}
<1>1. \A s \in SubdocIds \ {Telemetry} : r[s].state # st
  BY DEF EmptyRow, Gauged, PendingDownload, InDeployment
<1>2. CASE r[Telemetry].state = st
  <2>1. in = {Telemetry}
    BY <1>1, <1>2, SupplementaryAssumption
  <2> QED
    BY <1>2, <2>1, FS_Singleton
<1>3. CASE r[Telemetry].state # st
  <2>1. in = {}
    BY <1>1, <1>3
  <2> QED
    BY <1>3, <2>1, FS_EmptySet
<1> QED
  BY <1>2, <1>3

\* A writer that hands over the state the row had keeps the gauges right.
LEMMA CountAddsUp ==
    ASSUME OnlyTelemetry, OnlyTelemetry', GaugesAddUp, NEW writer, NEW oldState,
           ~overlapped => oldState = rows[Telemetry].state,
           Count(writer, oldState)
    PROVE  GaugesAddUp'
<1> SUFFICES ASSUME ~overlapped' PROVE gauge' = InState'
  BY DEF GaugesAddUp
<1>1. ~overlapped /\ UpdateStateMetrics(oldState, rows'[Telemetry].state)
  BY DEF Count
<1>2. gauge = InState /\ oldState = rows[Telemetry].state
  BY <1>1 DEF GaugesAddUp
<1>3. \A st \in Gauged : InState[st] = IF rows[Telemetry].state = st THEN 1 ELSE 0
  BY OneProfileCounted DEF InState, OnlyTelemetry
<1>4. \A st \in Gauged : InState'[st] = IF rows'[Telemetry].state = st THEN 1 ELSE 0
  <2>1. \A s \in SubdocIds \ {Telemetry} : rows'[s] = EmptyRow
    BY DEF OnlyTelemetry
  <2> QED
    BY <2>1, OneProfileCounted DEF InState
<1>5. InState' = [st \in Gauged |-> InState'[st]]
  BY DEF InState
<1>6. gauge' = [st \in Gauged |-> gauge'[st]]
  <2>1. InState = [st \in Gauged |-> InState[st]]
    BY DEF InState
  <2> QED
    BY <1>1, <1>2, <2>1 DEF UpdateStateMetrics
<1>7. ASSUME NEW st \in Gauged PROVE gauge'[st] = InState'[st]
  <2>1. CASE rows[Telemetry].state = rows'[Telemetry].state
    BY <1>1, <1>2, <1>3, <1>4, <2>1 DEF UpdateStateMetrics
  <2>2. CASE rows[Telemetry].state # rows'[Telemetry].state
    <3>1. gauge'[st] = gauge[st] - (IF st = rows[Telemetry].state THEN 1 ELSE 0)
                                 + (IF st = rows'[Telemetry].state THEN 1 ELSE 0)
      BY <1>1, <1>2, <2>2 DEF UpdateStateMetrics
    <3>2. gauge[st] = IF rows[Telemetry].state = st THEN 1 ELSE 0
      BY <1>2, <1>3
    <3>3. InState'[st] = IF rows'[Telemetry].state = st THEN 1 ELSE 0
      BY <1>4
    <3> QED
      BY <3>1, <3>2, <3>3
  <2> QED
    BY <2>1, <2>2
<1> QED
  BY <1>5, <1>6, <1>7

\* Steps that change no state and no gauge keep the gauges right.
LEMMA SameStatesAddUp ==
    ASSUME GaugesAddUp, UNCHANGED <<gauge, overlapped>>,
           \A s \in SubdocIds : rows'[s].state = rows[s].state
    PROVE  GaugesAddUp'
<1>1. \A st : {s \in SubdocIds : rows'[s].state = st} = {s \in SubdocIds : rows[s].state = st}
  OBVIOUS
<1>2. InState' = InState
  BY <1>1, Zenon DEF InState
<1> QED
  BY <1>2 DEF GaugesAddUp

\* A writer that meets no other one leaves no reader behind.
LEMMA CountReaders ==
    ASSUME NEW writer, NEW oldState, Count(writer, oldState), ~overlapped'
    PROVE  /\ ~overlapped
           /\ \A c \in Consumers : rep[c].pc = "set" => c = writer
           /\ \A q \in SupRequests : sup[q].pc = "set" => q = writer
BY DEF Count, Reading

LEMMA GaugesStartRight == TelemetryInit => MetricsInv
<1> SUFFICES ASSUME TelemetryInit PROVE MetricsInv
  OBVIOUS
<1>1. OnlyTelemetry
  BY DEF TelemetryInit, StoreInit, NoDocument, OnlyTelemetry, DeviceInit, ReportInit, IdleReport
<1>2. ReadersKnow
  BY DEF TelemetryInit, ReportInit, IdleReport, SupplementaryInit, IdleSupplementary, ReadersKnow
<1>3. GaugesAddUp
  <2>1. \A st \in Gauged : InState[st] = 0
    BY <1>1, OneProfileCounted, SupplementaryAssumption
       DEF InState, OnlyTelemetry, TelemetryInit, StoreInit, NoDocument, EmptyRow,
           Gauged, PendingDownload, InDeployment
  <2>2. InState = [st \in Gauged |-> InState[st]]
    BY DEF InState
  <2> QED
    BY <2>1, <2>2 DEF GaugesAddUp, TelemetryInit, MetricsInit
<1> QED
  BY <1>1, <1>2, <1>3 DEF MetricsInv

\* A POST.
LEMMA PostMetrics ==
    ASSUME TelemetryTypeOK, MetricsInv, NEW w \in Writers, Post(w)
    PROVE  MetricsInv'
<1>0. rows \in [SubdocIds -> Row] /\ OnlyTelemetry /\ GaugesAddUp
  BY DEF TelemetryTypeOK, StoreTypeOK, MetricsInv
<1>1. \A s \in SubdocIds \ {Telemetry} : rows'[s] = rows[s]
  BY <1>0 DEF Post, PostSubDocument, SetSubDocument
<1>2. OnlyTelemetry'
  BY <1>0, <1>1 DEF OnlyTelemetry, Post, deviceVars
<1>3. GaugesAddUp'
  BY <1>0, <1>2, CountAddsUp DEF Post
<1>4. ReadersKnow'
  BY CountReaders, GoroutineAssumption DEF ReadersKnow, Post
<1> QED
  BY <1>2, <1>3, <1>4 DEF MetricsInv

\* A report.
LEMMA ConsumerMetrics ==
    ASSUME TelemetryTypeOK, MetricsInv, NEW c \in Consumers,
           \/ TakeOrRead(c) \/ ApplyReport(c)
           \/ /\ ReportFails(c) \/ ReportCrashes(c)
              /\ old' = [old EXCEPT ![c] = <<0, 0>>]
              /\ UNCHANGED <<sup, gauge, overlapped>>
    PROVE  MetricsInv'
<1>0. /\ rows \in [SubdocIds -> Row] /\ rep \in [Consumers -> Handling]
      /\ old \in [Consumers -> Nat \X States]
      /\ OnlyTelemetry /\ ReadersKnow /\ GaugesAddUp
  BY DEF TelemetryTypeOK, StoreTypeOK, ReportTypeOK, MetricsInv
<1>1. CASE TakeOrRead(c)
  <2>1. UNCHANGED <<rows, gauge, overlapped, sup>> /\ events' \subseteq events
    BY <1>1 DEF TakeOrRead, TakeReport, ReadSubdoc, storeVars, deviceVars
  <2>2. \A d \in Consumers \ {c} : rep'[d] = rep[d] /\ old'[d] = old[d]
    BY <1>0, <1>1 DEF TakeOrRead, TakeReport, ReadSubdoc
  <2>3. rep'[c].pc # "idle" => AboutTelemetry(rep'[c].event)
    BY <1>0, <1>1 DEF TakeOrRead, TakeReport, ReadSubdoc, OnlyTelemetry, IdleReport, Handling
  <2>4. rep'[c].pc = "set" => old'[c] = <<rows[Telemetry].version, rows[Telemetry].state>>
    BY <1>0, <1>1 DEF TakeOrRead
  <2>5. OnlyTelemetry'
    BY <1>0, <2>1, <2>2, <2>3 DEF OnlyTelemetry, AboutTelemetry
  <2>6. ReadersKnow'
    BY <1>0, <2>1, <2>2, <2>4 DEF ReadersKnow
  <2> QED
    BY <1>0, <2>1, <2>5, <2>6, SameStatesAddUp DEF MetricsInv
<1>2. CASE ApplyReport(c)
  <2>1. rep[c].event.subdoc = Telemetry /\ rep' = [rep EXCEPT ![c] = IdleReport]
    BY <1>0, <1>2 DEF ApplyReport, SetReportedState, OnlyTelemetry, AboutTelemetry
  <2>2. \A s \in SubdocIds \ {Telemetry} : rows'[s] = rows[s]
    BY <1>0, <1>2, <2>1 DEF ApplyReport, SetReportedState, SetSubDocument
  <2>3. OnlyTelemetry'
    BY <1>0, <1>2, <2>1, <2>2
       DEF OnlyTelemetry, AboutTelemetry, ApplyReport, SetReportedState, IdleReport, deviceVars
  <2>4. ~overlapped => old[c][2] = rows[Telemetry].state
    BY <1>0, <1>2 DEF ReadersKnow, ApplyReport, SetReportedState
  <2>5. GaugesAddUp'
    BY <1>0, <1>2, <2>3, <2>4, CountAddsUp DEF ApplyReport
  <2>6. ReadersKnow'
    <3> SUFFICES ASSUME ~overlapped' PROVE ReadersKnow'
      BY DEF ReadersKnow
    <3>1. /\ \A d \in Consumers : rep[d].pc = "set" => d = c
          /\ \A q \in SupRequests : sup[q].pc # "set"
      BY <1>2, CountReaders, GoroutineAssumption DEF ApplyReport
    <3> QED
      BY <1>0, <1>2, <2>1, <3>1 DEF ReadersKnow, ApplyReport, IdleReport
  <2> QED
    BY <2>3, <2>5, <2>6 DEF MetricsInv
<1>3. CASE /\ ReportFails(c) \/ ReportCrashes(c)
           /\ old' = [old EXCEPT ![c] = <<0, 0>>]
           /\ UNCHANGED <<sup, gauge, overlapped>>
  <2>1. UNCHANGED rows /\ rep' = [rep EXCEPT ![c] = IdleReport]
    BY <1>3 DEF ReportFails, ReportCrashes, storeVars
  <2>2. events' \subseteq events \cup {rep[c].event} /\ rep[c].pc # "idle"
    BY <1>3 DEF ReportFails, ReportCrashes, deviceVars
  <2>3. OnlyTelemetry'
    BY <1>0, <2>1, <2>2 DEF OnlyTelemetry, AboutTelemetry, IdleReport
  <2>4. ReadersKnow'
    BY <1>0, <1>3, <2>1 DEF ReadersKnow, IdleReport
  <2> QED
    BY <1>0, <1>3, <2>1, <2>3, <2>4, SameStatesAddUp DEF MetricsInv
<1> QED
  BY <1>1, <1>2, <1>3

\* A request for the profile.
LEMMA SupplementaryMetrics ==
    ASSUME TelemetryTypeOK, MetricsInv, NEW q \in SupRequests,
           \/ SupSet(q) \/ SupGoesOn(q) \/ \E ok \in BOOLEAN : Receive(q, ok)
           \/ /\ SupWriteFails(q) \/ SupLost(q)
              /\ UNCHANGED <<rep, old, gauge, overlapped>>
    PROVE  MetricsInv'
<1>0. /\ rows \in [SubdocIds -> Row] /\ sup \in [SupRequests -> Supplementary]
      /\ Telemetry \in SubdocIds
      /\ OnlyTelemetry /\ ReadersKnow /\ GaugesAddUp
  BY SupplementaryAssumption DEF TelemetryTypeOK, StoreTypeOK, SupplementaryTypeOK, MetricsInv
<1>1. CASE SupSet(q)
  <2>1. \A s \in SubdocIds \ {Telemetry} : rows'[s] = rows[s]
    BY <1>0, <1>1 DEF SupSet, SupSetState, SetSubDocument
  <2>2. OnlyTelemetry'
    BY <1>0, <1>1, <2>1 DEF OnlyTelemetry, AboutTelemetry, SupSet, SupSetState, deviceVars
  <2>3. GaugesAddUp'
    BY <1>0, <1>1, <2>2, CountAddsUp DEF SupSet, SupSetState, ReadersKnow
  <2>4. ReadersKnow'
    <3> SUFFICES ASSUME ~overlapped' PROVE ReadersKnow'
      BY DEF ReadersKnow
    <3>1. /\ \A d \in Consumers : rep[d].pc # "set"
          /\ \A r \in SupRequests : sup[r].pc = "set" => r = q
      BY <1>1, CountReaders, GoroutineAssumption DEF SupSet
    <3> QED
      BY <1>0, <1>1, <3>1 DEF ReadersKnow, SupSet, SupSetState
  <2> QED
    BY <2>2, <2>3, <2>4 DEF MetricsInv
<1>2. CASE \/ SupGoesOn(q) \/ \E ok \in BOOLEAN : Receive(q, ok)
           \/ /\ SupWriteFails(q) \/ SupLost(q)
              /\ UNCHANGED <<rep, old, gauge, overlapped>>
  <2>1. UNCHANGED <<rep, old, gauge, overlapped>>
    BY <1>2 DEF SupGoesOn, Receive, metricsVars
  <2> DEFINE Fact == /\ \A s \in SubdocIds : /\ rows'[s].state = rows[s].state
                                             /\ s # Telemetry => rows'[s] = rows[s]
                     /\ \A e \in events' : e \in events \/ AboutTelemetry(e)
                     /\ \A r \in SupRequests \ {q} : sup'[r] = sup[r]
                     /\ sup'[q].pc = "set" => sup'[q].row = rows[Telemetry]
  <2>2. ASSUME SupReadRow(q) PROVE Fact
    BY <1>0, <2>2 DEF SupReadRow, IdleSupplementary, storeVars, deviceVars
  <2>3. ASSUME SupClearColumns(q) PROVE Fact
    <3>1. \A s \in SubdocIds : /\ rows'[s].state = rows[s].state
                               /\ s # Telemetry => rows'[s] = rows[s]
      BY <1>0, <2>3 DEF SupClearColumns, Row
    <3>2. sup' = RowResponse(q) /\ UNCHANGED events
      BY <2>3 DEF SupClearColumns, deviceVars
    <3> QED
      BY <1>0, <3>1, <3>2 DEF RowResponse, Supplementary
  <2>4. ASSUME NEW x \in ProfileAnswers, NEW u \in ProfileAnswers \cup {"none"},
               NEW params \in BOOLEAN, SupProfiles(q, x, u, params)
        PROVE  Fact
    <3>1. UNCHANGED <<rows, events>>
      BY <2>4 DEF SupProfiles, storeVars, deviceVars
    <3>2. sup'[q].pc # "set" /\ \A r \in SupRequests \ {q} : sup'[r] = sup[r]
      BY <1>0, <2>4 DEF SupProfiles, Supplementary
    <3> QED
      BY <3>1, <3>2
  <2>5. ASSUME NEW ok \in BOOLEAN, SupReceived(q, ok) PROVE Fact
    <3>1. \A e \in events' : e \in events \/ AboutTelemetry(e)
      BY <2>5 DEF SupReceived, Emit, SubdocReport, AboutTelemetry
    <3> QED
      BY <1>0, <2>5, <3>1 DEF SupReceived, IdleSupplementary, storeVars
  <2>6. ASSUME SupWriteFails(q) PROVE Fact
    <3>1. UNCHANGED <<rows, events>>
      BY <2>6 DEF SupWriteFails, storeVars, deviceVars
    <3>2. sup'[q].pc # "set" /\ \A r \in SupRequests \ {q} : sup'[r] = sup[r]
      BY <1>0, <2>6 DEF SupWriteFails, RowResponse, Supplementary
    <3> QED
      BY <3>1, <3>2
  <2>7. ASSUME SupLost(q) PROVE Fact
    BY <1>0, <2>7 DEF SupLost, IdleSupplementary, storeVars, deviceVars
  <2>8. Fact
    BY <1>2, <2>2, <2>3, <2>4, <2>5, <2>6, <2>7 DEF SupGoesOn, Receive
  <2>9. OnlyTelemetry'
    BY <1>0, <2>1, <2>8 DEF OnlyTelemetry, AboutTelemetry
  <2>10. ReadersKnow'
    BY <1>0, <2>1, <2>8 DEF ReadersKnow
  <2> QED
    BY <1>0, <2>1, <2>8, <2>9, <2>10, SameStatesAddUp DEF MetricsInv
<1> QED
  BY <1>1, <1>2

LEMMA MetricsStep ==
    TelemetryTypeOK /\ MetricsInv /\ [TelemetryNext]_vars => MetricsInv'
<1> SUFFICES ASSUME TelemetryTypeOK, MetricsInv, [TelemetryNext]_vars PROVE MetricsInv'
  OBVIOUS
<1>0. rows \in [SubdocIds -> Row] /\ OnlyTelemetry /\ ReadersKnow /\ GaugesAddUp
  BY DEF TelemetryTypeOK, StoreTypeOK, MetricsInv
<1>1. ASSUME UNCHANGED <<deviceVars, rep, sup, old, gauge, overlapped>>,
             \A s \in SubdocIds : /\ rows'[s].state = rows[s].state
                                  /\ s # Telemetry => rows'[s] = rows[s]
      PROVE  MetricsInv'
  <2>1. OnlyTelemetry'
    BY <1>0, <1>1 DEF OnlyTelemetry, AboutTelemetry, deviceVars
  <2>2. ReadersKnow'
    BY <1>0, <1>1, SupplementaryAssumption DEF ReadersKnow
  <2> QED
    BY <1>0, <1>1, <2>1, <2>2, SameStatesAddUp DEF MetricsInv
<1>2. ASSUME NEW w \in Writers, Post(w) PROVE MetricsInv'
  BY <1>2, PostMetrics
<1>3. ASSUME NEW w \in Writers, PostGoesOn(w) PROVE MetricsInv'
  BY <1>1, <1>3 DEF PostGoesOn, PostReadDocument, WriteRootVersion, storeVars, metricsVars
<1>4. ASSUME NEW c \in Consumers, TakeOrRead(c) \/ ApplyReport(c) PROVE MetricsInv'
  BY <1>4, ConsumerMetrics
<1>5. ASSUME NEW q \in SupRequests, SupSet(q) \/ SupGoesOn(q) \/ \E ok \in BOOLEAN : Receive(q, ok)
      PROVE  MetricsInv'
  BY <1>5, SupplementaryMetrics
<1>6. CASE Tick
  <2>1. \A s \in SubdocIds : /\ rows'[s].state = rows[s].state
                             /\ s # Telemetry => rows'[s] = rows[s]
    BY <1>0, <1>6 DEF Tick, Expire, Row
  <2> QED
    BY <1>1, <1>6, <2>1 DEF Tick, metricsVars
<1>7. CASE Disturb
  <2>1. ASSUME NEW q \in SupRequests, SupWriteFails(q) \/ SupLost(q), UNCHANGED <<rep, old>>
        PROVE  MetricsInv'
    BY <1>7, <2>1, SupplementaryMetrics DEF Disturb
  <2>2. ASSUME NEW c \in Consumers, ReportFails(c) \/ ReportCrashes(c),
               old' = [old EXCEPT ![c] = <<0, 0>>], UNCHANGED sup
        PROVE  MetricsInv'
    BY <1>7, <2>2, ConsumerMetrics DEF Disturb
  <2>3. ASSUME NEW w \in Writers, WriterFails(w), UNCHANGED <<deviceVars, rep, sup, old>>
        PROVE  MetricsInv'
    BY <1>1, <1>7, <2>3 DEF Disturb, WriterFails, storeVars
  <2> QED
    BY <1>7, <2>1, <2>2, <2>3 DEF Disturb
<1>8. CASE UNCHANGED vars
  BY <1>1, <1>8 DEF vars, storeVars, metricsVars
<1> QED
  BY <1>2, <1>3, <1>4, <1>5, <1>6, <1>7, <1>8 DEF TelemetryNext

(* The gauges show what is in the table as long as the writers of a state  *)
(* do not overlap, for any number of consumers and requests and any states *)
(* a POST may carry, null included (UpdateStateMetrics).                   *)
THEOREM GaugesRight == TelemetrySpec => []GaugesAddUp
<1>1. TelemetryInit => TelemetryTypeOK /\ MetricsInv
  BY TelemetryTypeInit, GaugesStartRight
<1>2. TelemetryTypeOK /\ MetricsInv /\ [TelemetryNext]_vars => (TelemetryTypeOK /\ MetricsInv)'
  BY TelemetryTypeStep, MetricsStep
<1>3. MetricsInv => GaugesAddUp
  BY DEF MetricsInv
<1> QED
  BY <1>1, <1>2, <1>3, PTL DEF TelemetrySpec

-----------------------------------------------------------------------------
(* The answers.                                                            *)

\* what an answer says of the profiles of the other services
AnswersComplete ==
    \A q \in SupRequests :
        LET resp == sup[q].resp
        IN  /\ resp.status = "200" /\ resp.body # {"row"}
                   => resp.body \cap {"xconf", "upstream"} = sup[q].had
            /\ resp.status = "404" => sup[q].had = {}

\* The rest of AnswersAreRight is what DeployedOnDevice says.
LEMMA AnswersSplit ==
    /\ AnswersAreRight => AnswersComplete
    /\ DeployedOnDevice /\ AnswersComplete => AnswersAreRight
    /\ DeployedOnDevice' /\ AnswersComplete' => AnswersAreRight'
BY DEF AnswersAreRight, AnswersComplete, DeployedOnDevice

\* Requests that do not change, or become idle, have no new answer.
LEMMA SameAnswersComplete ==
    ASSUME AnswersComplete,
           \A q \in SupRequests :
              \/ sup'[q].resp = sup[q].resp /\ sup'[q].had = sup[q].had
              \/ sup'[q].resp = Answer("none", {})
              \/ sup'[q].resp = Answer("200", {"row"})
              \/ sup'[q].resp = Answer("304", {})
    PROVE  AnswersComplete'
BY DEF AnswersComplete, Answer

LEMMA AnswerTypes ==
    ASSUME TelemetryTypeOK
    PROVE  /\ dev.vers \in [SubdocIds -> Nat] /\ dev.vers[Telemetry] \in Nat
           /\ rows \in [SubdocIds -> Row] /\ rows[Telemetry].version \in Nat
           /\ nextVersion \in Nat \ {0} /\ Telemetry \in SubdocIds
           /\ sup \in [SupRequests -> Supplementary]
           /\ \A q \in SupRequests : sup[q].row.version \in Nat
           /\ rep \in [Consumers -> Handling] /\ events \subseteq Event
           /\ old \in [Consumers -> Nat \X States]
<1> USE SupplementaryAssumption DEF TelemetryTypeOK
<1>1. dev.vers \in [SubdocIds -> Nat] /\ dev.vers[Telemetry] \in Nat
  BY DEF DeviceTypeOK, DeviceState, Versions
<1>2. rows \in [SubdocIds -> Row] /\ rows[Telemetry].version \in Nat
  BY DEF StoreTypeOK, Row
<1>3. /\ sup \in [SupRequests -> Supplementary]
      /\ \A q \in SupRequests : sup[q].row.version \in Nat
  BY DEF SupplementaryTypeOK, Supplementary, Row
<1> QED
  BY <1>1, <1>2, <1>3 DEF WriterTypeOK, ReportTypeOK, DeviceTypeOK

\* Steps that leave alone the device, the requests and what the row says of
\* the profile's version and state, and report nothing new.
LEMMA QuietAnswers ==
    ASSUME AnswerInv, UNCHANGED <<dev, sup, nextVersion, crossed>>,
           rows'[Telemetry].version = rows[Telemetry].version,
           rows'[Telemetry].state = rows[Telemetry].state,
           \A e \in events' : e.ok => e.version <= dev.vers[Telemetry],
           \A c \in Consumers :
              /\ (rep'[c].pc # "idle" /\ rep'[c].event.ok)
                    => rep'[c].event.version <= dev.vers[Telemetry]
              /\ rep'[c].pc = "set" => old'[c][1] = rep'[c].event.version
    PROVE  AnswerInv'
<1>1. SuccessesApplied'
  BY DEF SuccessesApplied
<1>2. VersionsGrow'
  BY DEF AnswerInv, VersionsGrow
<1>3. DeployedOnDevice'
  BY DEF AnswerInv, DeployedOnDevice
<1>4. AnswersComplete'
  BY AnswersSplit DEF AnswerInv, AnswersComplete
<1> QED
  BY <1>1, <1>2, <1>3, <1>4, AnswersSplit DEF AnswerInv

LEMMA AnswersStartRight == TelemetryInit => AnswerInv
<1> SUFFICES ASSUME TelemetryInit PROVE AnswerInv
  OBVIOUS
<1>0. /\ dev.vers[Telemetry] = 0 /\ rows[Telemetry] = EmptyRow /\ nextVersion = 1
      /\ events = {}
      /\ \A c \in Consumers : rep[c] = IdleReport
      /\ \A q \in SupRequests : sup[q] = IdleSupplementary
  BY SupplementaryAssumption
     DEF TelemetryInit, DeviceInit, StoreInit, NoDocument, WriterInit, ReportInit,
         SupplementaryInit, NoVersions
<1>1. SuccessesApplied
  BY <1>0 DEF SuccessesApplied, IdleReport
<1>2. VersionsGrow
  BY <1>0 DEF VersionsGrow, EmptyRow, IdleSupplementary, Answer
<1>3. DeployedOnDevice
  BY <1>0 DEF DeployedOnDevice, EmptyRow, IdleSupplementary, Answer, Deployed
<1>4. AnswersComplete
  BY <1>0 DEF AnswersComplete, IdleSupplementary, Answer
<1> QED
  BY <1>1, <1>2, <1>3, <1>4, AnswersSplit DEF AnswerInv

\* A POST brings a version nobody has, and a profile still to be deployed.
LEMMA PostAnswers ==
    ASSUME OneProfileAtATime, TelemetryTypeOK, AnswerInv, NEW w \in Writers, Post(w)
    PROVE  AnswerInv'
<1>0. UNCHANGED <<dev, events, rep, sup, old, crossed>>
  BY DEF Post, deviceVars
<1>1. PICK v \in 1..nextVersion, state \in PostStates, expiry \in PostExpiries :
          PostSubDocument(w, Telemetry, v, state, expiry)
  BY DEF Post
<1>2. v = nextVersion /\ nextVersion' = nextVersion + 1
  BY <1>1 DEF OneProfileAtATime, PostSubDocument, PostedVersion
<1>3. rows'[Telemetry].version = nextVersion /\ rows'[Telemetry].state # Deployed
  <2>1. v # NilVersion /\ state # NilState /\ state # Deployed
    BY <1>2, AnswerTypes DEF NilVersion, OneProfileAtATime
  <2> QED
    BY <1>1, <1>2, <2>1, AnswerTypes DEF PostSubDocument, SetSubDocument
<1>4. SuccessesApplied'
  BY <1>0 DEF AnswerInv, SuccessesApplied
<1>5. VersionsGrow'
  <2>1. dev.vers[Telemetry] <= nextVersion /\ rows[Telemetry].version <= nextVersion
    BY AnswerTypes DEF AnswerInv, VersionsGrow
  <2> QED
    BY <1>0, <1>2, <1>3, <2>1, AnswerTypes DEF AnswerInv, VersionsGrow
<1>6. DeployedOnDevice'
  BY <1>0, <1>3 DEF AnswerInv, DeployedOnDevice
<1>7. AnswersComplete'
  BY <1>0, AnswersSplit DEF AnswerInv, AnswersComplete
<1> QED
  BY <1>4, <1>5, <1>6, <1>7, AnswersSplit DEF AnswerInv

\* A report: what it marks Deployed is on the device, unless a POST came
\* between the read of the row and its write.
LEMMA ConsumerAnswers ==
    ASSUME TelemetryTypeOK, OnlyTelemetry, AnswerInv, NEW c \in Consumers,
           \/ TakeOrRead(c) \/ ApplyReport(c)
           \/ /\ ReportFails(c) \/ ReportCrashes(c)
              /\ old' = [old EXCEPT ![c] = <<0, 0>>]
              /\ UNCHANGED <<writerVars, sup, crossed>>
    PROVE  AnswerInv'
<1>0. SuccessesApplied /\ VersionsGrow /\ DeployedOnDevice
  BY DEF AnswerInv
<1>1. CASE TakeOrRead(c)
  <2>1. UNCHANGED <<rows, dev, sup, nextVersion, crossed>> /\ events' \subseteq events
    BY <1>1 DEF TakeOrRead, TakeReport, ReadSubdoc, storeVars, deviceVars, writerVars
  <2>2. \A d \in Consumers \ {c} : rep'[d] = rep[d] /\ old'[d] = old[d]
    BY <1>1, AnswerTypes DEF TakeOrRead, TakeReport, ReadSubdoc
  <2>3. (rep'[c].pc # "idle" /\ rep'[c].event.ok)
            => rep'[c].event.version <= dev.vers[Telemetry]
    BY <1>0, <1>1, AnswerTypes
       DEF TakeOrRead, TakeReport, ReadSubdoc, SuccessesApplied, IdleReport, Handling
  <2>4. rep'[c].pc = "set" => old'[c][1] = rep'[c].event.version
    <3> SUFFICES ASSUME rep'[c].pc = "set" PROVE old'[c][1] = rep'[c].event.version
      OBVIOUS
    <3>1. old'[c][1] = rows[Telemetry].version
      BY <1>1, AnswerTypes DEF TakeOrRead
    <3>2. ReadSubdoc(c)
      BY <1>1, AnswerTypes DEF TakeOrRead, TakeReport, Handling
    <3>3. ReportAccepted(rep[c].event) /\ rep'[c].event = rep[c].event
      BY <3>2, AnswerTypes DEF ReadSubdoc, IdleReport, Handling
    <3>4. rep[c].event.subdoc = Telemetry
      BY <3>2 DEF ReadSubdoc, OnlyTelemetry, AboutTelemetry
    <3> QED
      BY <3>1, <3>3, <3>4 DEF ReportAccepted
  <2>5. \A e \in events' : e.ok => e.version <= dev.vers[Telemetry]
    BY <1>0, <2>1 DEF SuccessesApplied
  <2>6. \A d \in Consumers :
            /\ (rep'[d].pc # "idle" /\ rep'[d].event.ok)
                  => rep'[d].event.version <= dev.vers[Telemetry]
            /\ rep'[d].pc = "set" => old'[d][1] = rep'[d].event.version
    BY <1>0, <2>2, <2>3, <2>4 DEF SuccessesApplied
  <2> QED
    BY <2>1, <2>5, <2>6, QuietAnswers
<1>2. CASE ApplyReport(c)
  <2>1. /\ rep[c].pc = "set" /\ rep' = [rep EXCEPT ![c] = IdleReport]
        /\ UNCHANGED <<dev, events, sup, nextVersion>>
        /\ old' = [old EXCEPT ![c] = <<0, 0>>]
        /\ "post" \notin crossed' =>
              "post" \notin crossed /\ old[c][1] = rows[Telemetry].version
    BY <1>2 DEF ApplyReport, SetReportedState, deviceVars, writerVars
  <2>2. rep[c].event.subdoc = Telemetry /\ old[c][1] = rep[c].event.version
    BY <1>0, <2>1 DEF OnlyTelemetry, AboutTelemetry, SuccessesApplied
  <2>3. /\ rows'[Telemetry].version = rows[Telemetry].version
        /\ rows'[Telemetry].state = Deployed => rep[c].event.ok
    BY <1>2, <2>2, AnswerTypes DEF ApplyReport, SetReportedState, SetSubDocument, NilVersion,
                                   Deployed, Failure, NilState
  <2>4. SuccessesApplied'
    BY <1>0, <2>1, AnswerTypes DEF SuccessesApplied, IdleReport
  <2>5. VersionsGrow'
    BY <1>0, <2>1, <2>3 DEF VersionsGrow
  <2>6. DeployedOnDevice'
    <3> SUFFICES ASSUME "post" \notin crossed', rows'[Telemetry].state = Deployed
                 PROVE  dev.vers[Telemetry] = rows[Telemetry].version
      BY <1>0, <2>1, <2>3 DEF DeployedOnDevice
    <3>1. rows[Telemetry].version = rep[c].event.version
      BY <2>1, <2>2
    <3>2. rep[c].event.version <= dev.vers[Telemetry]
      BY <1>0, <2>1, <2>3 DEF SuccessesApplied
    <3>3. dev.vers[Telemetry] <= rows[Telemetry].version
      BY <1>0 DEF VersionsGrow
    <3>4. dev.vers[Telemetry] \in Nat /\ rows[Telemetry].version \in Nat
      BY AnswerTypes
    <3> QED
      BY <3>1, <3>2, <3>3, <3>4
  <2>7. AnswersComplete'
    BY <2>1, AnswersSplit DEF AnswerInv, AnswersComplete
  <2> QED
    BY <2>4, <2>5, <2>6, <2>7, AnswersSplit DEF AnswerInv
<1>3. CASE /\ ReportFails(c) \/ ReportCrashes(c)
           /\ old' = [old EXCEPT ![c] = <<0, 0>>]
           /\ UNCHANGED <<writerVars, sup, crossed>>
  <2>1. /\ UNCHANGED <<rows, dev, sup, nextVersion, crossed>>
        /\ rep' = [rep EXCEPT ![c] = IdleReport]
    BY <1>3 DEF ReportFails, ReportCrashes, storeVars, deviceVars, writerVars
  <2>2. events' \subseteq events \cup {rep[c].event} /\ rep[c].pc # "idle"
    BY <1>3 DEF ReportFails, ReportCrashes, deviceVars
  <2>3. \A e \in events' : e.ok => e.version <= dev.vers[Telemetry]
    BY <1>0, <2>2 DEF SuccessesApplied
  <2>4. \A d \in Consumers :
            /\ (rep'[d].pc # "idle" /\ rep'[d].event.ok)
                  => rep'[d].event.version <= dev.vers[Telemetry]
            /\ rep'[d].pc = "set" => old'[d][1] = rep'[d].event.version
    BY <1>0, <1>3, <2>1, AnswerTypes DEF SuccessesApplied, IdleReport
  <2> QED
    BY <2>1, <2>3, <2>4, QuietAnswers
<1> QED
  BY <1>1, <1>2, <1>3

\* An answer made of profiles is complete.
LEMMA ProfilesComplete ==
    ASSUME NEW x \in ProfileAnswers, NEW u \in ProfileAnswers \cup {"none"},
           NEW had, had = {s \in {"xconf", "upstream"} :
                             "profiles" = IF s = "xconf" THEN x ELSE u},
           NEW resp, resp = ProfileResponse(x, u)
    PROVE  /\ resp.status = "200" => resp.body \cap {"xconf", "upstream"} = had
           /\ resp.status = "404" => had = {}
           /\ resp.status # "304" /\ resp.body # {"row"}
<1> DEFINE base  == IF x = "profiles" THEN {"xconf"}
                    ELSE IF x = "notfound_json" /\ u = "none" THEN {x} ELSE {}
           extra == IF u = "profiles" THEN {"upstream"} ELSE {}
<1>1. \/ resp = Answer("remote", {}) \/ resp = Answer("500", {})
      \/ x \in NotFounds /\ extra = {} /\ resp = Answer("404", {})
      \/ resp = Answer("200", base \cup extra)
  BY DEF ProfileResponse
<1>2. had = (IF x = "profiles" THEN {"xconf"} ELSE {}) \cup extra
  OBVIOUS
<1>3. x \in NotFounds => x # "profiles"
  BY DEF NotFounds
<1>4. (base \cup extra) \cap {"xconf", "upstream"} = had /\ base \cup extra # {"row"}
  BY <1>2
<1>5. x \in NotFounds /\ extra = {} => had = {}
  BY <1>2, <1>3
<1> HIDE DEF base, extra
<1> QED
  BY <1>1, <1>4, <1>5 DEF Answer

\* The steps of a request that touch neither the device nor what the row
\* says of version and state: its row and its answer.
LEMMA RequestAnswers ==
    ASSUME OneProfileAtATime, TelemetryTypeOK, AnswerInv, NEW q \in SupRequests,
           UNCHANGED <<dev, events, rep, old, nextVersion, crossed>>,
           rows'[Telemetry].version = rows[Telemetry].version,
           rows'[Telemetry].state = Deployed => rows[Telemetry].state = Deployed,
           (sup'[q].pc \in {"set", "clear"} \/ sup'[q].resp.body = {"row"}) =>
               \/ sup'[q].row = rows[Telemetry]
               \/ sup'[q].row = sup[q].row /\ sup[q].pc \in {"set", "clear"},
           sup'[q].resp.status = "304" => sup'[q].row.state = Deployed,
           AnswersComplete'
    PROVE  AnswerInv'
<1>1. SuccessesApplied'
  BY DEF AnswerInv, SuccessesApplied
<1>2. \A r \in SupRequests : r = q
  BY DEF OneProfileAtATime
<1>3. VersionsGrow'
  <2>1. /\ dev.vers[Telemetry] <= rows[Telemetry].version
        /\ rows[Telemetry].version < nextVersion
        /\ sup[q].pc \in {"set", "clear"} => /\ dev.vers[Telemetry] <= sup[q].row.version
                                            /\ sup[q].row.version <= rows[Telemetry].version
    BY DEF AnswerInv, VersionsGrow
  <2>2. rows[Telemetry].version <= rows[Telemetry].version
    BY AnswerTypes
  <2> QED
    BY <1>2, <2>1, <2>2 DEF VersionsGrow
<1>4. DeployedOnDevice'
  BY <1>2 DEF AnswerInv, DeployedOnDevice
<1> QED
  BY <1>1, <1>3, <1>4, AnswersSplit DEF AnswerInv

\* A request for the profile.
LEMMA SupplementaryAnswers ==
    ASSUME OneProfileAtATime, TelemetryTypeOK, AnswerInv, NEW q \in SupRequests,
           \/ SupSet(q) \/ SupGoesOn(q)
           \/ /\ SupWriteFails(q) \/ SupLost(q)
              /\ UNCHANGED <<writerVars, rep, old, crossed>>
    PROVE  AnswerInv'
<1>0. UNCHANGED <<dev, events, rep, old, nextVersion, crossed>>
  BY DEF SupSet, SupSetState, SupGoesOn, SupReadRow, SupClearColumns, SupProfiles, SupWriteFails,
         SupLost, writerVars, deviceVars, metricsVars
<1>1. AnswersComplete /\ \A r \in SupRequests : r = q
  BY AnswersSplit DEF AnswerInv, OneProfileAtATime
<1>2. sup[q].resp.status = "304" => sup[q].row.state = Deployed
  BY DEF AnswerInv, DeployedOnDevice
<1>3. /\ sup \in [SupRequests -> Supplementary] /\ sup[q] \in Supplementary
      /\ rows \in [SubdocIds -> Row] /\ Telemetry \in SubdocIds
  BY AnswerTypes
<1> DEFINE Fact == /\ rows'[Telemetry].version = rows[Telemetry].version
                   /\ rows'[Telemetry].state = Deployed => rows[Telemetry].state = Deployed
                   /\ (sup'[q].pc \in {"set", "clear"} \/ sup'[q].resp.body = {"row"}) =>
                         \/ sup'[q].row = rows[Telemetry]
                         \/ sup'[q].row = sup[q].row /\ sup[q].pc \in {"set", "clear"}
                   /\ sup'[q].resp.status = "304" => sup'[q].row.state = Deployed
                   /\ AnswersComplete'
<1>4. ASSUME SupSetState(q) PROVE Fact
  <2>1. sup' = [sup EXCEPT ![q].pc = "clear"] /\ sup[q].pc = "set"
    BY <1>4 DEF SupSetState
  <2>2. /\ sup'[q].resp = sup[q].resp /\ sup'[q].had = sup[q].had /\ sup'[q].row = sup[q].row
    BY <1>3, <2>1 DEF Supplementary
  <2>3. AnswersComplete'
    BY <1>1, <2>2, SameAnswersComplete
  <2>4. /\ rows'[Telemetry].version = rows[Telemetry].version
        /\ rows'[Telemetry].state = InDeployment
    BY <1>3, <1>4 DEF SupSetState, SetSubDocument, NilVersion, InDeployment, NilState
  <2> QED
    BY <1>2, <2>1, <2>2, <2>3, <2>4 DEF Deployed, InDeployment
<1>5. ASSUME SupReadRow(q) PROVE Fact
  <2>1. UNCHANGED rows
    BY <1>5 DEF SupReadRow, storeVars
  <2>2. \/ sup'[q] = [IdleSupplementary EXCEPT !.pc = "set", !.row = rows[Telemetry]]
        \/ /\ rows[Telemetry].state = Deployed
           /\ sup'[q] = [IdleSupplementary EXCEPT !.pc = "reply", !.row = rows[Telemetry],
                                                  !.resp = Answer("304", {})]
        \/ sup'[q] = [IdleSupplementary EXCEPT !.pc = "profiles"]
    BY <1>3, <1>5, Zenon DEF SupReadRow
  <2>3. sup'[q].resp \in {Answer("none", {}), Answer("304", {})}
    BY <2>2 DEF IdleSupplementary
  <2>4. AnswersComplete'
    BY <1>1, <2>3, SameAnswersComplete
  <2>5. CASE sup'[q] = [IdleSupplementary EXCEPT !.pc = "set", !.row = rows[Telemetry]]
    <3>1. sup'[q].row = rows[Telemetry] /\ sup'[q].resp.status = "none"
      BY <2>5 DEF IdleSupplementary, Answer
    <3> QED
      BY <2>1, <2>4, <3>1
  <2>6. CASE /\ rows[Telemetry].state = Deployed
             /\ sup'[q] = [IdleSupplementary EXCEPT !.pc = "reply", !.row = rows[Telemetry],
                                                    !.resp = Answer("304", {})]
    <3>1. sup'[q].row = rows[Telemetry]
      BY <2>6 DEF IdleSupplementary
    <3> QED
      BY <2>1, <2>4, <2>6, <3>1
  <2>7. CASE sup'[q] = [IdleSupplementary EXCEPT !.pc = "profiles"]
    <3>1. sup'[q].pc = "profiles" /\ sup'[q].resp.status = "none" /\ sup'[q].resp.body = {}
      BY <2>7 DEF IdleSupplementary, Answer
    <3> QED
      BY <2>1, <2>4, <3>1
  <2> QED
    BY <2>2, <2>5, <2>6, <2>7
<1>6. ASSUME sup' = RowResponse(q), sup[q].pc \in {"set", "clear"},
             rows'[Telemetry].version = rows[Telemetry].version,
             rows'[Telemetry].state = rows[Telemetry].state
      PROVE  Fact
  <2>1. sup'[q].resp = Answer("200", {"row"}) /\ sup'[q].row = sup[q].row
    BY <1>3, <1>6 DEF RowResponse, Supplementary
  <2>2. AnswersComplete'
    BY <1>1, <2>1, SameAnswersComplete
  <2> QED
    BY <1>6, <2>1, <2>2 DEF Answer
<1>7. ASSUME SupClearColumns(q) PROVE Fact
  <2>1. /\ rows'[Telemetry].version = rows[Telemetry].version
        /\ rows'[Telemetry].state = rows[Telemetry].state
    BY <1>3, <1>7 DEF SupClearColumns, Row
  <2> QED
    BY <1>6, <1>7, <2>1 DEF SupClearColumns
<1>8. ASSUME NEW x \in ProfileAnswers, NEW u \in ProfileAnswers \cup {"none"},
             NEW params \in BOOLEAN, SupProfiles(q, x, u, params)
      PROVE  Fact
  <2> DEFINE had == {s \in {"xconf", "upstream"} : "profiles" = IF s = "xconf" THEN x ELSE u}
  <2>1. sup' = [sup EXCEPT ![q].pc = "reply", ![q].resp = ProfileResponse(x, u), ![q].had = had]
    BY <1>8 DEF SupProfiles
  <2>2. /\ ProfileResponse(x, u).status = "200"
               => ProfileResponse(x, u).body \cap {"xconf", "upstream"} = had
        /\ ProfileResponse(x, u).status = "404" => had = {}
        /\ ProfileResponse(x, u).status # "304" /\ ProfileResponse(x, u).body # {"row"}
    BY ProfilesComplete
  <2> HIDE DEF had
  <2>3. sup'[q].pc = "reply" /\ sup'[q].resp = ProfileResponse(x, u) /\ sup'[q].had = had
    BY <1>3, <2>1 DEF Supplementary
  <2>4. AnswersComplete'
    BY <1>1, <2>2, <2>3 DEF AnswersComplete
  <2> QED
    BY <1>8, <2>2, <2>3, <2>4 DEF SupProfiles, storeVars
<1>9. ASSUME SupWriteFails(q) PROVE Fact
  <2>1. UNCHANGED rows /\ sup[q].pc \in {"set", "clear"}
    BY <1>9 DEF SupWriteFails, storeVars
  <2>2. ASSUME sup' = RowResponse(q) PROVE Fact
    BY <1>6, <2>1, <2>2
  <2>3. ASSUME sup' = [sup EXCEPT ![q].pc = "clear"] PROVE Fact
    <3>1. sup'[q].resp = sup[q].resp /\ sup'[q].had = sup[q].had /\ sup'[q].row = sup[q].row
      BY <1>3, <2>3 DEF Supplementary
    <3>2. AnswersComplete'
      BY <1>1, <3>1, SameAnswersComplete
    <3> QED
      BY <1>2, <2>1, <3>1, <3>2
  <2> QED
    BY <1>9, <2>2, <2>3 DEF SupWriteFails
<1>10. ASSUME SupLost(q) PROVE Fact
  <2>1. UNCHANGED rows /\ sup'[q] = IdleSupplementary
    BY <1>3, <1>10 DEF SupLost, storeVars
  <2>2. AnswersComplete'
    BY <1>1, <2>1, SameAnswersComplete DEF IdleSupplementary
  <2> QED
    BY <2>1, <2>2 DEF IdleSupplementary, Answer
<1>11. Fact
  BY <1>4, <1>5, <1>7, <1>8, <1>9, <1>10 DEF SupSet, SupGoesOn
<1> QED
  BY <1>0, <1>11, RequestAnswers

\* The device receives the answer: what it applies is between what it had
\* and the table, and a success is reported of that version.
LEMMA ReceiveAnswers ==
    ASSUME OneProfileAtATime, TelemetryTypeOK, OnlyTelemetry, AnswerInv,
           NEW q \in SupRequests, NEW ok \in BOOLEAN, Receive(q, ok)
    PROVE  AnswerInv'
<1> DEFINE v == sup[q].row.version
           D == dev.vers[Telemetry]
           V == rows[Telemetry].version
<1>0. /\ UNCHANGED <<rows, rep, old, nextVersion, crossed>>
      /\ sup' = [sup EXCEPT ![q] = IdleSupplementary]
  BY DEF Receive, SupReceived, storeVars, writerVars, metricsVars
<1>1. \A r \in SupRequests : sup'[r] = IdleSupplementary
  BY <1>0, AnswerTypes DEF OneProfileAtATime
<1>2. /\ D \in Nat /\ V \in Nat /\ v \in Nat /\ D <= V /\ V < nextVersion
      /\ sup[q].resp.body = {"row"} => D <= v /\ v <= V
  BY AnswerTypes DEF AnswerInv, VersionsGrow
<1>3. CASE sup[q].resp.body = {"row"}
  <2>0. /\ dev' = IF ok THEN [dev EXCEPT !.vers[Telemetry] = v] ELSE dev
        /\ Emit({SubdocReport(Telemetry, v, ok)})
    BY <1>3 DEF Receive, SupReceived
  <2>1. dev'.vers[Telemetry] = IF ok THEN v ELSE D
    <3>1. dev.vers \in [SubdocIds -> Nat] /\ dev \in DeviceState /\ Telemetry \in SubdocIds
      BY AnswerTypes DEF TelemetryTypeOK, DeviceTypeOK
    <3> QED
      BY <2>0, <3>1 DEF DeviceState
  <2>2. events' \subseteq events \cup {SubdocReport(Telemetry, v, ok)}
    BY <2>0 DEF Emit
  <2>3. D <= dev'.vers[Telemetry] /\ dev'.vers[Telemetry] <= V /\ dev'.vers[Telemetry] \in Nat
    BY <1>2, <1>3, <2>1
  <2>4. SuccessesApplied'
    <3>1. \A n \in Nat : n <= D => n <= dev'.vers[Telemetry]
      BY <1>2, <2>3
    <3>2. ASSUME NEW e \in events', e.ok PROVE e.version <= dev'.vers[Telemetry]
      <4>1. CASE e = SubdocReport(Telemetry, v, ok)
        BY <1>2, <2>1, <3>2, <4>1 DEF SubdocReport
      <4>2. CASE e \in events
        <5>1. e.version <= D
          BY <3>2, <4>2 DEF AnswerInv, SuccessesApplied
        <5>2. e.version \in Nat
          BY <3>2, <4>2, AnswerTypes DEF OnlyTelemetry, AboutTelemetry, Event, SubdocEvent, RootdocEvent
        <5> QED
          BY <3>1, <5>1, <5>2
      <4> QED
        BY <2>2, <4>1, <4>2
    <3>3. ASSUME NEW c \in Consumers, rep[c].pc # "idle", rep[c].event.ok
          PROVE  rep[c].event.version <= dev'.vers[Telemetry]
      <4>1. rep[c].event.version <= D
        BY <3>3 DEF AnswerInv, SuccessesApplied
      <4>2. rep[c].event \in Event /\ AboutTelemetry(rep[c].event)
        BY <3>3, AnswerTypes DEF OnlyTelemetry, Handling
      <4>3. rep[c].event.version \in Nat
        BY <4>2 DEF AboutTelemetry, Event, SubdocEvent, RootdocEvent
      <4> QED
        BY <3>1, <4>1, <4>3
    <3>4. \A c \in Consumers : rep[c].pc = "set" => old[c][1] = rep[c].event.version
      BY DEF AnswerInv, SuccessesApplied
    <3> QED
      BY <1>0, <3>2, <3>3, <3>4 DEF SuccessesApplied
  <2>5. VersionsGrow'
    BY <1>0, <1>1, <1>2, <2>3 DEF VersionsGrow, IdleSupplementary, Answer
  <2>6. DeployedOnDevice'
    <3>1. ("post" \notin crossed /\ rows[Telemetry].state = Deployed) => D = V
      BY DEF AnswerInv, DeployedOnDevice
    <3>2. D = V => dev'.vers[Telemetry] = V
      BY <1>2, <2>3
    <3> QED
      BY <1>0, <1>1, <3>1, <3>2 DEF DeployedOnDevice, IdleSupplementary, Answer
  <2>7. AnswersComplete'
    BY <1>1 DEF AnswersComplete, IdleSupplementary, Answer
  <2> QED
    BY <2>4, <2>5, <2>6, <2>7, AnswersSplit DEF AnswerInv
<1>4. CASE sup[q].resp.body # {"row"}
  <2>1. UNCHANGED <<dev, events>>
    BY <1>4 DEF Receive, SupReceived
  <2>2. AnswersComplete'
    BY <1>1 DEF AnswersComplete, IdleSupplementary, Answer
  <2> QED
    BY <1>0, <1>1, <2>1, <2>2, RequestAnswers DEF IdleSupplementary, Answer
<1> QED
  BY <1>3, <1>4

LEMMA AnswerStep ==
    ASSUME OneProfileAtATime, TelemetryTypeOK, MetricsInv, AnswerInv, [TelemetryNext]_vars
    PROVE  AnswerInv'
<1>0. OnlyTelemetry /\ SuccessesApplied
  BY DEF MetricsInv, AnswerInv
<1>1. ASSUME UNCHANGED <<deviceVars, nextVersion, rep, sup, old, crossed>>,
             rows'[Telemetry].version = rows[Telemetry].version,
             rows'[Telemetry].state = rows[Telemetry].state
      PROVE  AnswerInv'
  BY <1>0, <1>1, QuietAnswers DEF SuccessesApplied, deviceVars
<1>2. ASSUME NEW w \in Writers, Post(w) PROVE AnswerInv'
  BY <1>2, PostAnswers
<1>3. ASSUME NEW w \in Writers, PostGoesOn(w) PROVE AnswerInv'
  BY <1>1, <1>3 DEF PostGoesOn, PostReadDocument, WriteRootVersion, storeVars, metricsVars
<1>4. ASSUME NEW c \in Consumers, TakeOrRead(c) \/ ApplyReport(c) PROVE AnswerInv'
  BY <1>0, <1>4, ConsumerAnswers
<1>5. ASSUME NEW q \in SupRequests, SupSet(q) \/ SupGoesOn(q) PROVE AnswerInv'
  BY <1>5, SupplementaryAnswers
<1>6. ASSUME NEW q \in SupRequests, NEW ok \in BOOLEAN, Receive(q, ok) PROVE AnswerInv'
  BY <1>0, <1>6, ReceiveAnswers
<1>7. CASE Tick
  <2>1. /\ rows'[Telemetry].version = rows[Telemetry].version
        /\ rows'[Telemetry].state = rows[Telemetry].state
    BY <1>7, AnswerTypes DEF Tick, Expire, Row
  <2> QED
    BY <1>1, <1>7, <2>1 DEF Tick, metricsVars, writerVars
<1>8. CASE Disturb
  <2>1. ASSUME NEW q \in SupRequests, SupWriteFails(q) \/ SupLost(q),
               UNCHANGED <<writerVars, rep, old>>
        PROVE  AnswerInv'
    BY <1>8, <2>1, SupplementaryAnswers DEF Disturb
  <2>2. ASSUME NEW c \in Consumers, ReportFails(c) \/ ReportCrashes(c),
               old' = [old EXCEPT ![c] = <<0, 0>>], UNCHANGED <<writerVars, sup>>
        PROVE  AnswerInv'
    BY <1>0, <1>8, <2>2, ConsumerAnswers DEF Disturb
  <2>3. ASSUME NEW w \in Writers, WriterFails(w), UNCHANGED <<deviceVars, rep, sup, old>>
        PROVE  AnswerInv'
    BY <1>1, <1>8, <2>3 DEF Disturb, WriterFails, storeVars
  <2> QED
    BY <1>8, <2>1, <2>2, <2>3 DEF Disturb
<1>9. CASE UNCHANGED vars
  BY <1>1, <1>9 DEF vars, storeVars, writerVars, metricsVars
<1> QED
  BY <1>2, <1>3, <1>4, <1>5, <1>6, <1>7, <1>8, <1>9 DEF TelemetryNext

(* The inductive invariant, for any number of consumers, as long as there  *)
(* is one profile, and one request for it, at a time (OneProfileAtATime).  *)
THEOREM TelemetryInvariant == ASSUME OneProfileAtATime PROVE TelemetrySpec => []TelemetryInv
<1>1. TelemetryInit => TelemetryTypeOK /\ TelemetryInv
  BY TelemetryTypeInit, GaugesStartRight, AnswersStartRight DEF TelemetryInv
<1>2. TelemetryTypeOK /\ TelemetryInv /\ [TelemetryNext]_vars
          => (TelemetryTypeOK /\ TelemetryInv)'
  BY TelemetryTypeStep, MetricsStep, AnswerStep DEF TelemetryInv
<1> QED
  BY <1>1, <1>2, PTL DEF TelemetrySpec

(* A device is told 304 only when it has applied the profile that is in    *)
(* the table, and no answer leaves out a profile that xconf or the second  *)
(* service had (supplementary_handler.go:70-96, 180-253).                  *)
THEOREM AnswersRight == ASSUME OneProfileAtATime PROVE TelemetrySpec => []AnswersAreRight
<1>1. TelemetryInv => AnswersAreRight
  BY DEF TelemetryInv, AnswerInv
<1> QED
  BY <1>1, TelemetryInvariant, PTL
=============================================================================
