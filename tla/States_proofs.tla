---------------------------- MODULE States_proofs ----------------------------
(***************************************************************************)
(* Proofs about the columns the handlers share: the state, the error and   *)
(* the version of a row.                                                   *)
(***************************************************************************)
EXTENDS Webconfig_proofs

\* What a step may do to the table: nothing, delete rows, let one expire, or
\* one SetSubDocument.
RowStep ==
    \/ UNCHANGED rows
    \/ /\ nb' # nb
       /\ \A s \in SubdocIds : rows'[s] = rows[s] \/ rows'[s] = EmptyRow
    \/ \E s \in SubdocIds : Expire(s)
    \/ \E w \in Writers, s \in SubdocIds, v \in 1..nextVersion,
          state \in PostStates, expiry \in PostExpiries :
          PostSubDocument(w, s, v, state, expiry)
    \/ \E h \in GetHandlers, s \in SubdocIds : CorrectState(h, s)
    \/ \E s \in SubdocIds, err \in {"none", "nil"} :
          SetSubDocument(s, NilVersion, InDeployment, err, "nil")
    \/ \E s \in SubdocIds, expiry \in {"live", "nil"} :
          SetSubDocument(s, NilVersion, Deployed, "none", expiry)
    \/ \E s \in SubdocIds : SetSubDocument(s, NilVersion, Failure, "set", "nil")

\* Every step of the system is one of these.
LEMMA RowSteps ==
    ASSUME TypeOK, [Next]_vars
    PROVE  RowStep
<1> USE DEF RowStep
<1>1. ASSUME NEW w \in Writers, Write(w)
      PROVE  RowStep
  <2>1. CASE DeleteDocumentRows(w) \/ \E s \in SubdocIds : DeleteSubDocumentRow(w, s)
    <3>1. \A s \in SubdocIds : rows'[s] = rows[s] \/ rows'[s] = EmptyRow
      BY <2>1 DEF DeleteDocumentRows, DeleteDocument, NoDocument, DeleteSubDocumentRow,
                  DeleteSubDocument, TypeOK, StoreTypeOK
    <3>2. nb'[w].pc # nb[w].pc
      BY <2>1 DEF DeleteDocumentRows, DeleteSubDocumentRow, IdleWriter, TypeOK, WriterTypeOK
    <3> QED
      BY <3>1, <3>2
  <2>2. CASE \E s \in SubdocIds, v \in 1..nextVersion, state \in PostStates,
                expiry \in PostExpiries : PostSubDocument(w, s, v, state, expiry)
    BY <2>2
  <2>3. CASE UNCHANGED rows
    BY <2>3
  <2> HIDE DEF RowStep
  <2> QED
    BY <1>1, <2>1, <2>2, <2>3 DEF Write, WriterStep, PostReadDocument, DeleteReadDocument,
                                  WriteRootVersion, DropRootVersion, storeVars
<1>2. ASSUME NEW h \in GetHandlers, Serve(h)
      PROVE  RowStep
  <2>1. CASE UNCHANGED rows
    BY <2>1
  <2>2. CASE \E s \in SubdocIds : CorrectState(h, s)
    BY <2>2
  <2>3. CASE \E s \in SubdocIds : MarkInDeployment(h, s)
    BY <2>3 DEF MarkInDeployment
  <2> HIDE DEF RowStep
  <2> QED
    BY <1>2, <2>1, <2>2, <2>3 DEF Serve, GetStep, GetReadDocFirst, GetReadRoot, GetStoreMeta,
                                  GetReadDocument, storeVars
<1>3. ASSUME NEW c \in Consumers, Report(c)
      PROVE  RowStep
  <2>1. CASE UNCHANGED rows
    BY <2>1
  <2>2. CASE \E s \in SubdocIds : MarkDeployed(c, s)
    BY <2>2 DEF MarkDeployed
  <2>3. CASE SetReportedState(c)
    <3>1. rep[c].event.subdoc \in SubdocIds
      BY <2>3 DEF SetReportedState, TypeOK, ReportTypeOK, SubdocEvent
    <3> QED
      BY <2>3, <3>1 DEF SetReportedState
  <2> HIDE DEF RowStep
  <2> QED
    BY <1>3, <2>1, <2>2, <2>3 DEF Report, ReportStep, TakeReport, Read304, ReadSubdoc, storeVars
<1>4. ASSUME NEW p \in Pokers, PokeDevice(p)
      PROVE  RowStep
  <2>1. CASE UNCHANGED rows
    BY <2>1
  <2>2. CASE \E s \in SubdocIds : PokeMarkInDeployment(p, s)
    BY <2>2 DEF PokeMarkInDeployment
  <2> HIDE DEF RowStep
  <2> QED
    BY <1>4, <2>1, <2>2 DEF PokeDevice, PokeStep, PokeReadDocument, PokeReadRoot, PokePostMqtt,
                            PokeCpeAction, PokeWebpa, storeVars
<1>5. CASE Tick
  BY <1>5 DEF Tick, LockRunsOut
<1>6. CASE \/ \E h \in GetHandlers, mismatch \in BOOLEAN : Request(h, mismatch)
           \/ \E h \in GetHandlers : Response(h)
           \/ Push
  <2>1. UNCHANGED rows
    BY <1>6 DEF Request, Response, Push, DeviceGet, MgetGet, DeviceReceives, MgetReceives, PushArrives, storeVars
  <2> QED
    BY <2>1
<1>7. CASE Disturb
  <2>1. UNCHANGED rows
    BY <1>7 DEF Disturb, WriterFails, GetFails, DeviceReceives, ReportFails, ReportCrashes,
                PokeFails, LockRootDocument, storeVars
  <2> QED
    BY <2>1
<1>8. CASE UNCHANGED vars
  BY <1>8 DEF vars, storeVars
<1> HIDE DEF RowStep
<1> QED
  BY <1>1, <1>2, <1>3, <1>4, <1>5, <1>6, <1>7, <1>8 DEF Next

-----------------------------------------------------------------------------
\* The columns of the row that SetSubDocument wrote, and the other rows.
LEMMA SetSubDocumentColumns ==
    ASSUME TypeOK, NEW s \in SubdocIds, NEW version, NEW state, NEW err, NEW expiry,
           SetSubDocument(s, version, state, err, expiry)
    PROVE  /\ \A t \in SubdocIds \ {s} : rows'[t] = rows[t]
           /\ rows'[s].version = IF version = NilVersion THEN rows[s].version ELSE version
           /\ rows'[s].state = IF state = NilState THEN rows[s].state ELSE state
           /\ rows'[s].err = IF err = "nil" THEN rows[s].err ELSE err
BY DEF SetSubDocument, TypeOK, StoreTypeOK

\* Writing the error together with Deployed keeps the two consistent.
LEMMA SetSubDocumentClean ==
    ASSUME TypeOK, DeployedHasNoError, NEW s \in SubdocIds,
           NEW version, NEW state, NEW err, NEW expiry,
           SetSubDocument(s, version, state, err, expiry),
           err = "none" \/ state \notin {Deployed, NilState}
    PROVE  DeployedHasNoError'
<1>1. SUFFICES ASSUME NEW t \in SubdocIds, rows'[t].state = Deployed
               PROVE  rows'[t].err = "none"
  BY DEF DeployedHasNoError
<1>2. CASE t = s
  BY <1>1, <1>2, SetSubDocumentColumns
<1>3. CASE t # s
  BY <1>1, <1>3, SetSubDocumentColumns DEF DeployedHasNoError
<1> QED
  BY <1>2, <1>3

\* No sub-document is Deployed with an error beside it, however POST, GET,
\* state correction, reports and pokes interleave (SetSubDocument's callers in
\* http/, db/service.go and db/cloud_input_mqtt.go).
THEOREM DeployedClean == Spec => []DeployedHasNoError
<1>1. Init => DeployedHasNoError
  BY DEF Init, StoreInit, NoDocument, EmptyRow, DeployedHasNoError, Deployed
<1>2. ASSUME TypeOK, DeployedHasNoError, [Next]_vars
      PROVE  DeployedHasNoError'
  <2>1. CASE UNCHANGED rows
    BY <1>2, <2>1 DEF DeployedHasNoError
  <2>2. CASE \A s \in SubdocIds : rows'[s] = rows[s] \/ rows'[s] = EmptyRow
    BY <1>2, <2>2 DEF DeployedHasNoError, EmptyRow
  <2>3. ASSUME NEW s \in SubdocIds, Expire(s)
        PROVE  DeployedHasNoError'
    BY <1>2, <2>3 DEF Expire, DeployedHasNoError, TypeOK, StoreTypeOK, Row
  <2>4. ASSUME NEW w \in Writers, NEW s \in SubdocIds, NEW v \in 1..nextVersion,
               NEW state \in PostStates, NEW expiry \in PostExpiries,
               PostSubDocument(w, s, v, state, expiry)
        PROVE  DeployedHasNoError'
    BY <1>2, <2>4, SetSubDocumentClean DEF PostSubDocument
  <2>5. ASSUME NEW h \in GetHandlers, NEW s \in SubdocIds, CorrectState(h, s)
        PROVE  DeployedHasNoError'
    BY <1>2, <2>5, SetSubDocumentClean DEF CorrectState
  <2>6. ASSUME NEW s \in SubdocIds, NEW err,
               SetSubDocument(s, NilVersion, InDeployment, err, "nil")
        PROVE  DeployedHasNoError'
    <3>1. InDeployment \notin {Deployed, NilState}
      BY DEF InDeployment, Deployed, NilState
    <3> QED
      BY <1>2, <2>6, <3>1, SetSubDocumentClean
  <2>7. ASSUME NEW s \in SubdocIds, NEW expiry,
               SetSubDocument(s, NilVersion, Deployed, "none", expiry)
        PROVE  DeployedHasNoError'
    BY <1>2, <2>7, SetSubDocumentClean
  <2>8. ASSUME NEW s \in SubdocIds, SetSubDocument(s, NilVersion, Failure, "set", "nil")
        PROVE  DeployedHasNoError'
    <3>1. Failure \notin {Deployed, NilState}
      BY DEF Failure, Deployed, NilState
    <3> QED
      BY <1>2, <2>8, <3>1, SetSubDocumentClean
  <2> QED
    BY <1>2, <2>1, <2>2, <2>3, <2>4, <2>5, <2>6, <2>7, <2>8, RowSteps DEF RowStep
<1> QED
  BY <1>1, <1>2, TypeCorrect, PTL DEF Spec

-----------------------------------------------------------------------------
\* Without state correction no request is ever about to correct a row.
NoCorrection == \A h \in GetHandlers : get[h].pc # "correct"

\* Without state correction a request never reaches the step that corrects.
LEMMA AfterRootNoCorrection ==
    ASSUME ~StateCorrectionEnabled, NEW h, NEW g \in GetRequest, g.pc # "correct"
    PROVE  /\ Decide(h, g).pc # "correct"
           /\ AfterDocument(h, g).pc # "correct"
           /\ AfterRoot(h, g).pc # "correct"
<1>1. Decide(h, g).pc # "correct"
  BY DEF Decide, Answered, GetRequest
<1>2. AfterDocument(h, g) = Decide(h, g)
  BY DEF AfterDocument
<1>3. AfterRoot(h, g) = Decide(h, g) \/ AfterRoot(h, g) = [g EXCEPT !.pc = "doc"]
  BY <1>2 DEF AfterRoot
<1> QED
  BY <1>1, <1>2, <1>3 DEF GetRequest

\* No step starts a state correction that is switched off.
LEMMA NoCorrectionStep ==
    ASSUME ~StateCorrectionEnabled, TypeOK, NoCorrection, [Next]_vars
    PROVE  NoCorrection'
<1>0. get \in [GetHandlers -> GetRequest]
  BY DEF TypeOK, GetTypeOK
<1>1. CASE UNCHANGED get
  BY <1>1 DEF NoCorrection
<1>2. ASSUME NEW h \in GetHandlers, GetStep(h) \/ GetFails(h)
      PROVE  NoCorrection'
  <2>1. SUFFICES get'[h].pc # "correct" /\ \A k \in GetHandlers \ {h} : get'[k] = get[k]
    BY DEF NoCorrection
  <2>2. CASE GetReadDocFirst(h)
    <3>1. \/ \E pc \in {"built", "reply"} :
                get' = [get EXCEPT ![h].pc = pc, ![h].cmp = "version", ![h].status = "404"]
          \/ \E doc, vers : get' = [get EXCEPT ![h].pc = "root", ![h].hasDoc = TRUE,
                                              ![h].doc = doc, ![h].hdrVers = vers]
      BY <2>2 DEF GetReadDocFirst
    <3>2. ASSUME NEW pc \in {"built", "reply"},
                 get' = [get EXCEPT ![h].pc = pc, ![h].cmp = "version", ![h].status = "404"]
          PROVE  get'[h].pc # "correct" /\ \A k \in GetHandlers \ {h} : get'[k] = get[k]
      BY <1>0, <3>2 DEF GetRequest
    <3>3. ASSUME NEW doc, NEW vers,
                 get' = [get EXCEPT ![h].pc = "root", ![h].hasDoc = TRUE,
                                    ![h].doc = doc, ![h].hdrVers = vers]
          PROVE  get'[h].pc # "correct" /\ \A k \in GetHandlers \ {h} : get'[k] = get[k]
      BY <1>0, <3>3 DEF GetRequest
    <3> QED
      BY <3>1, <3>2, <3>3
  <2>3. CASE GetReadRoot(h)
    <3> DEFINE m == IF root.exists THEN root.meta ELSE get[h].meta
               v == IF root.exists THEN root.version ELSE NoRoot
               g == [get[h] EXCEPT !.cloudRoot = v, !.cloudMeta = m,
                                   !.locked = root.exists /\ root.locked,
                                   !.cmp = Compare(h, v, m, get[h].hdrRoot, get[h].meta)]
               new == IF ~root.exists THEN [g EXCEPT !.pc = "create"]
                      ELSE IF m # g.meta THEN [g EXCEPT !.pc = "meta"]
                      ELSE AfterRoot(h, g)
    <3>1. m \in MetaColumn /\ v \in RootVersion
      BY <1>0, EmptyTypes DEF TypeOK, StoreTypeOK, RootRow, GetRequest
    <3>2. Compare(h, v, m, get[h].hdrRoot, get[h].meta) \in Comparison
      BY DEF Compare, Comparison
    <3>3. (root.exists /\ root.locked) \in BOOLEAN
      OBVIOUS
    <3>4. get' = [get EXCEPT ![h] = new] /\ get[h].pc = "root"
      BY <2>3 DEF GetReadRoot
    <3> HIDE DEF m, v
    <3>5. g \in GetRequest /\ g.pc = "root"
      BY <1>0, <3>1, <3>2, <3>3, <3>4 DEF GetRequest
    <3> HIDE DEF g
    <3>6. new.pc # "correct"
      BY <3>5, AfterRootNoCorrection DEF GetRequest
    <3> HIDE DEF new
    <3> QED
      BY <1>0, <3>4, <3>6
  <2>4. CASE GetStoreMeta(h)
    BY <1>0, <2>4, AfterRootNoCorrection DEF GetStoreMeta, NoCorrection
  <2>5. CASE GetReadDocument(h)
    <3>1. /\ [get[h] EXCEPT !.hasDoc = TRUE, !.doc = GetDocument(FALSE)] \in GetRequest
          /\ [get[h] EXCEPT !.hasDoc = TRUE, !.doc = GetDocument(FALSE)].pc = get[h].pc
      BY <1>0, GetDocumentType DEF GetRequest, TypeOK
    <3> QED
      BY <1>0, <2>5, <3>1, AfterRootNoCorrection DEF GetReadDocument
  <2>6. CASE \E s \in SubdocIds : CorrectState(h, s)
    BY <2>6 DEF CorrectState, NoCorrection
  <2>7. CASE \E s \in SubdocIds : MarkInDeployment(h, s)
    BY <1>0, <2>7 DEF MarkInDeployment, GetRequest
  <2>8. CASE GetFails(h)
    BY <1>0, <2>8 DEF GetFails, IdleGet
  <2> QED
    BY <1>2, <2>2, <2>3, <2>4, <2>5, <2>6, <2>7, <2>8 DEF GetStep
<1>3. ASSUME NEW mismatch \in BOOLEAN, DeviceGet(mismatch)
      PROVE  NoCorrection'
  BY <1>0, <1>3 DEF DeviceGet, NoCorrection, GetRequest
<1>4. ASSUME NEW m \in Metas, MgetGet(m)
      PROVE  NoCorrection'
  BY <1>0, <1>4 DEF MgetGet, NoCorrection, GetRequest
<1>5. CASE MgetReceives \/ \E applied : DeviceReceives(applied)
  BY <1>0, <1>5 DEF MgetReceives, DeviceReceives, NoCorrection, IdleGet
<1> QED
  <2>1. CASE Disturb
    BY <2>1, <1>1, <1>2, <1>5 DEF Disturb
  <2>2. CASE ~Disturb
    BY <2>2, <1>1, <1>2, <1>3, <1>4, <1>5
    DEF Next, Write, Serve, Request, Response, Report, PokeDevice, Push, Tick, vars
  <2> QED
    BY <2>1, <2>2

\* Unless webconfig.state_correction_enabled is set, only the northbound
\* handlers ever change the version of a row: the state updates of downloads,
\* reports and pokes never bring an old configuration back.
THEOREM VersionsKept ==
    ASSUME ~StateCorrectionEnabled PROVE Spec => StateUpdatesKeepVersions
<1> DEFINE Keep == \A s \in SubdocIds : rows'[s].version # rows[s].version => nb' # nb
<1>1. Init => NoCorrection
  BY DEF Init, GetInit, NoCorrection, IdleGet
<1>2. TypeOK /\ NoCorrection /\ [Next]_vars => NoCorrection'
  BY NoCorrectionStep
<1>3. ASSUME TypeOK, NoCorrection, [Next]_vars
      PROVE  [Keep]_vars
  <2>1. CASE UNCHANGED rows
    BY <2>1
  <2>2. ASSUME NEW s \in SubdocIds, Expire(s)
        PROVE  Keep
    BY <1>3, <2>2 DEF Expire, TypeOK, StoreTypeOK, Row
  <2>3. ASSUME NEW w \in Writers, NEW s \in SubdocIds, NEW v \in 1..nextVersion,
               NEW state \in PostStates, NEW expiry \in PostExpiries,
               PostSubDocument(w, s, v, state, expiry)
        PROVE  Keep
    <3>1. nb'[w].pc # nb[w].pc
      BY <1>3, <2>3 DEF PostSubDocument, IdleWriter, TypeOK, WriterTypeOK
    <3> QED
      BY <3>1
  <2>4. ASSUME NEW h \in GetHandlers, NEW s \in SubdocIds, CorrectState(h, s)
        PROVE  Keep
    BY <1>3, <2>4 DEF CorrectState, NoCorrection
  <2>5. ASSUME NEW s \in SubdocIds, NEW state, NEW err, NEW expiry,
               SetSubDocument(s, NilVersion, state, err, expiry)
        PROVE  Keep
    <3>1. \A t \in SubdocIds : rows'[t].version = rows[t].version
      BY <1>3, <2>5, SetSubDocumentColumns
    <3> QED
      BY <3>1
  <2>6. RowStep
    BY <1>3, RowSteps
  <2> QED
    BY <2>1, <2>2, <2>3, <2>4, <2>5, <2>6 DEF RowStep
<1> QED
  BY <1>1, <1>2, <1>3, TypeCorrect, PTL DEF Spec, StateUpdatesKeepVersions
=============================================================================
