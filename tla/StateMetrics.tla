---------------------------- MODULE StateMetrics ----------------------------
(***************************************************************************)
(* The Prometheus gauges of sub-documents by state (common/metrics.go).    *)
(* The driver calls UpdateStateMetrics after each SetSubDocument that      *)
(* writes a state, with the old state its caller passed, which the caller  *)
(* read earlier or was told.  Only the gauges of PendingDownload and       *)
(* InDeployment ever go down: DeployedDec and FailureDec count an event    *)
(* and leave the gauge alone, so those two gauges count transitions and    *)
(* are left out, as are the counters and the labels (agent, model,         *)
(* firmware; the sums over them are what is modelled).                     *)
(***************************************************************************)
EXTENDS SubdocStore

VARIABLE gauge

Gauged == {PendingDownload, InDeployment}

MetricsInit == gauge = [st \in Gauged |-> 0]

\* Mutant: the old state's gauge goes down even if the state stays
UpdateStateMetricsAlwaysDec(oldState, newState) ==
    gauge' = [st \in Gauged |-> gauge[st] - (IF st = oldState THEN 1 ELSE 0)
                                          + (IF st = newState /\ oldState # newState THEN 1 ELSE 0)]

UpdateStateMetrics(oldState, newState) ==
    gauge' = IF oldState = newState THEN gauge
             ELSE [st \in Gauged |-> gauge[st] - (IF st = oldState THEN 1 ELSE 0)
                                               + (IF st = newState THEN 1 ELSE 0)]

\* the gauges the rows call for
InState == [st \in Gauged |-> Cardinality({s \in SubdocIds : rows[s].state = st})]
=============================================================================
