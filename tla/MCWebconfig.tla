---------------------------- MODULE MCWebconfig ----------------------------
(* Values of the constants of Webconfig that a configuration file cannot   *)
(* spell.                                                                  *)
EXTENDS Webconfig

CONSTANTS m1, m2

AllSupported  == [m \in Metas |-> SubdocIds]
\* the new firmware m2 supports one subdocument more
OneMore       == [m \in Metas |-> IF m = m2 THEN SubdocIds ELSE {1}]
PendingOnly   == {PendingDownload}
PendingOrNull == {PendingDownload, NilState}
=============================================================================
