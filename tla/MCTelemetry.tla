----------------------------- MODULE MCTelemetry -----------------------------
(* Values of the constants of TelemetryDelivery that a configuration file  *)
(* cannot spell.                                                           *)
EXTENDS TelemetryDelivery

AllSupported == [m \in Metas |-> SubdocIds]
PendingOnly  == {PendingDownload}
=============================================================================
