-------------------------- MODULE TelemetryDelivery --------------------------
(***************************************************************************)
(* The life of a telemetry profile: POSTed, fetched by the device with the *)
(* supplementary GET, reported over Kafka, expired, with the gauges the    *)
(* driver keeps of it.  The sub-document "telemetry" is the only one.      *)
(*                                                                         *)
(* The old state each caller hands to SetSubDocument for the metrics: POST *)
(* takes it from a header, here that of a caller who knows it; the others  *)
(* pass the state of the row they read, old for the consumers.             *)
(***************************************************************************)
EXTENDS DocumentHandler, SupplementaryHandler, StateMetrics

CONSTANT MaxDisturbances  \* bound on failures, crashes and lost answers

ASSUME DisturbanceAssumption == MaxDisturbances \in Nat

\* every handler and every consumer is a goroutine of its own
ASSUME GoroutineAssumption == /\ Writers \cap (Consumers \cup SupRequests) = {}
                              /\ Consumers \cap SupRequests = {}

VARIABLES old,          \* the version and the state each consumer read
          overlapped,   \* did two writers of the state overlap?
          crossed,      \* did a report cross a POST, or a request at work on the row?
          disturbances

metricsVars == <<gauge, old, overlapped, crossed>>

vars == <<storeVars, deviceVars, writerVars, rep, sup, metricsVars, disturbances>>

TelemetryTypeOK ==
    /\ StoreTypeOK /\ DeviceTypeOK /\ WriterTypeOK /\ ReportTypeOK
    /\ SupplementaryTypeOK
    /\ gauge \in [Gauged -> Int]
    /\ old \in [Consumers -> Nat \X States]
    /\ overlapped \in BOOLEAN
    /\ crossed \subseteq {"post", "request"}
    /\ disturbances \in Nat

TelemetryInit ==
    /\ StoreInit /\ DeviceInit /\ WriterInit /\ ReportInit
    /\ SupplementaryInit
    /\ MetricsInit
    /\ old = [c \in Consumers |-> <<0, 0>>]
    /\ overlapped = FALSE
    /\ crossed = {}
    /\ disturbances = 0

-----------------------------------------------------------------------------
\* the writers between their read of the state and their write
Reading == {c \in Consumers : rep[c].pc = "set"} \cup {q \in SupRequests : sup[q].pc = "set"}

\* UpdateStateMetrics, called by SetSubDocument; gauges that need not add up
\* any more are not followed
Count(writer, oldState) ==
    /\ overlapped' = (overlapped \/ Reading \ {writer} # {})
    /\ IF overlapped' THEN gauge' = [st \in Gauged |-> 0]
       ELSE UpdateStateMetrics(oldState, rows'[Telemetry].state)

Post(w) ==
    /\ \E v \in 1..nextVersion, state \in PostStates, expiry \in PostExpiries :
          PostSubDocument(w, Telemetry, v, state, expiry)
    /\ Count(w, rows[Telemetry].state)
    /\ UNCHANGED <<deviceVars, rep, sup, old, crossed, disturbances>>

PostGoesOn(w) ==
    /\ PostReadDocument(w) \/ WriteRootVersion(w)
    /\ UNCHANGED <<deviceVars, rep, sup, metricsVars, disturbances>>

TakeOrRead(c) ==
    /\ (\E e \in events : TakeReport(c, e)) \/ ReadSubdoc(c)
    /\ old' = [old EXCEPT ![c] = IF rep'[c].pc = "set"
                                 THEN <<rows[Telemetry].version, rows[Telemetry].state>>
                                 ELSE <<0, 0>>]
    /\ UNCHANGED <<writerVars, sup, gauge, overlapped, crossed, disturbances>>

ApplyReport(c) ==
    /\ SetReportedState(c)
    /\ Count(c, old[c][2])
    /\ old' = [old EXCEPT ![c] = <<0, 0>>]
    /\ crossed' = crossed
           \cup {x \in {"post"} : old[c][1] # rows[Telemetry].version}
           \cup {x \in {"request"} : \E q \in SupRequests : sup[q].pc \in {"set", "clear"}}
    /\ UNCHANGED <<writerVars, sup, disturbances>>

SupSet(q) ==
    /\ SupSetState(q)
    /\ Count(q, sup[q].row.state)
    /\ UNCHANGED <<writerVars, rep, old, crossed, disturbances>>

SupGoesOn(q) ==
    /\ \/ SupReadRow(q)
       \/ SupClearColumns(q)
       \/ \E x \in ProfileAnswers, u \in ProfileAnswers \cup {"none"}, params \in BOOLEAN :
             SupProfiles(q, x, u, params)
    /\ UNCHANGED <<writerVars, rep, metricsVars, disturbances>>

Receive(q, ok) ==
    /\ SupReceived(q, ok)
    /\ UNCHANGED <<writerVars, rep, metricsVars, disturbances>>

Tick ==
    /\ Expire(Telemetry)
    /\ UNCHANGED <<deviceVars, writerVars, rep, sup, metricsVars, disturbances>>

Disturb ==
    /\ disturbances < MaxDisturbances
    /\ disturbances' = disturbances + 1
    /\ \/ \E q \in SupRequests :
             (SupWriteFails(q) \/ SupLost(q)) /\ UNCHANGED <<writerVars, rep, old>>
       \/ \E c \in Consumers : /\ ReportFails(c) \/ ReportCrashes(c)
                               /\ old' = [old EXCEPT ![c] = <<0, 0>>]
                               /\ UNCHANGED <<writerVars, sup>>
       \/ \E w \in Writers : WriterFails(w) /\ UNCHANGED <<deviceVars, rep, sup, old>>
    /\ UNCHANGED <<gauge, overlapped, crossed>>

TelemetryNext ==
    \/ \E w \in Writers : Post(w) \/ PostGoesOn(w)
    \/ \E c \in Consumers : TakeOrRead(c) \/ ApplyReport(c)
    \/ \E q \in SupRequests : SupSet(q) \/ SupGoesOn(q) \/ \E ok \in BOOLEAN : Receive(q, ok)
    \/ Tick
    \/ Disturb

TelemetrySpec == TelemetryInit /\ [][TelemetryNext]_vars

(* Handlers and consumers go on, the device asks again and again, time     *)
(* passes, and a device that applies a profile again and again manages to  *)
(* one day.  Nobody has to POST.                                           *)
Fairness ==
    /\ \A w \in Writers : WF_vars(PostGoesOn(w))
    /\ \A c \in Consumers : WF_vars(TakeOrRead(c) \/ ApplyReport(c))
    /\ \A q \in SupRequests :
          /\ WF_vars(SupSet(q) \/ SupGoesOn(q))
          /\ WF_vars(\E ok \in BOOLEAN : Receive(q, ok))
          /\ SF_vars(sup[q].resp.body = {"row"} /\ Receive(q, TRUE))
    /\ WF_vars(Tick)

FairTelemetrySpec == TelemetrySpec /\ Fairness

-----------------------------------------------------------------------------
(* A device is told 304 only when it has applied the profile that is in    *)
(* the table; the answers it gets otherwise leave out no profile that      *)
(* xconf or the second service had, and 404 is answered when neither had   *)
(* one (supplementary_handler.go:70-96, 180-253).                          *)
AnswersAreRight ==
    \A q \in SupRequests :
        LET resp == sup[q].resp
            had  == sup[q].had
        IN  /\ resp.status = "304" /\ sup[q].row = rows[Telemetry] /\ "post" \notin crossed
                   => dev.vers[Telemetry] = rows[Telemetry].version
            /\ resp.status = "200" /\ resp.body # {"row"}
                   => resp.body \cap {"xconf", "upstream"} = had
            /\ resp.status = "404" => had = {}

(* The gauges of pending and in-deployment sub-documents show what is in   *)
(* the table as long as the writers of a state do not overlap: each of     *)
(* them hands the state it read, or knows, to UpdateStateMetrics.          *)
GaugesAddUp == ~overlapped => gauge = InState

-----------------------------------------------------------------------------
(* Why the two hold: the inductive invariant.                              *)

\* what AnswersAreRight asks of the environment
OneProfileAtATime ==
    /\ \A q, r \in SupRequests : q = r               \* the device asks once
    /\ ~ReuseVersions                                \* every POST has a new version
    /\ PostStates \cap {Deployed, NilState} = {}     \* and is still to be deployed

AboutTelemetry(e) == e.kind = "subdoc" /\ e.subdoc = Telemetry

\* nobody writes another row, or reports about one
OnlyTelemetry ==
    /\ \A s \in SubdocIds \ {Telemetry} : rows[s] = EmptyRow
    /\ \A e \in events : AboutTelemetry(e)
    /\ \A c \in Consumers : rep[c].pc # "idle" => AboutTelemetry(rep[c].event)

\* as long as writers do not overlap, the state they have read is the row's
ReadersKnow ==
    ~overlapped =>
        /\ \A c \in Consumers : rep[c].pc = "set" => old[c][2] = rows[Telemetry].state
        /\ \A q \in SupRequests : sup[q].pc = "set" => sup[q].row.state = rows[Telemetry].state

MetricsInv == OnlyTelemetry /\ ReadersKnow /\ GaugesAddUp

\* a success is reported of a version the device has applied, and that is
\* the version the consumer found in the row
SuccessesApplied ==
    /\ \A e \in events : e.ok => e.version <= dev.vers[Telemetry]
    /\ \A c \in Consumers : /\ (rep[c].pc # "idle" /\ rep[c].event.ok)
                                  => rep[c].event.version <= dev.vers[Telemetry]
                            /\ rep[c].pc = "set" => old[c][1] = rep[c].event.version

\* the row of a request is between what the device has and the table
VersionsGrow ==
    /\ dev.vers[Telemetry] <= rows[Telemetry].version
    /\ rows[Telemetry].version < nextVersion
    /\ \A q \in SupRequests :
          (sup[q].pc \in {"set", "clear"} \/ sup[q].resp.body = {"row"}) =>
              /\ dev.vers[Telemetry] <= sup[q].row.version
              /\ sup[q].row.version <= rows[Telemetry].version

DeployedOnDevice ==
    /\ ("post" \notin crossed /\ rows[Telemetry].state = Deployed)
           => dev.vers[Telemetry] = rows[Telemetry].version
    /\ \A q \in SupRequests : sup[q].resp.status = "304" => sup[q].row.state = Deployed

AnswerInv == SuccessesApplied /\ VersionsGrow /\ DeployedOnDevice /\ AnswersAreRight

TelemetryInv == MetricsInv /\ AnswerInv

-----------------------------------------------------------------------------
(* A profile that is POSTed reaches the device, whatever is lost or fails  *)
(* on the way, unless another one replaces it or a report that crossed the *)
(* POST has marked it Deployed.                                            *)
ProfileDelivered ==
    \A v \in 1..MaxVersion :
        (rows[Telemetry].version = v /\ rows[Telemetry].state = PendingDownload)
            ~> (dev.vers[Telemetry] = v \/ rows[Telemetry].version # v \/ "post" \in crossed)

(* The expiry a success report sets runs out, and the device is no longer  *)
(* told 304: it does not keep an old profile for ever (service.go:493-497),*)
(* unless the report crossed a POST, or was applied between the two writes *)
(* of a request, whose second one then deletes the expiry.                 *)
ProfileRefreshed ==
    \A q \in SupRequests :
        []<>(crossed # {} \/ (sup[q].pc = "reply" /\ sup[q].resp.status # "304"))
=============================================================================
