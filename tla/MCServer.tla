------------------------------ MODULE MCServer ------------------------------
(* Values of the constants of Server that a configuration file cannot      *)
(* spell, and the sub-documents of two firmwares.                          *)
EXTENDS Server, Bitmap

CONSTANTS m1, m2

\* the sub-document 1 is webui; the firmware m2 does not support it any more
Name          == [s \in SubdocIds |-> "webui"]
DocsHeader(m) == IF m = m1 THEN <<8 * 2^24 + 1, 2^24 + 2^8 + 2^2>>
                 ELSE <<2^24 + 2^9 + 2^6, 6 * 2^24 + 2^8>>

FromHeaders   == [m \in Metas |->
                    {s \in SubdocIds : GetSupportedMap(GetCpeBitmap(DocsHeader(m)))[Name[s]]}]
AllSupported  == [m \in Metas |-> SubdocIds]
PendingOnly   == {PendingDownload}

(* The device is only sent what its firmware declares: webui is, as the    *)
(* comments of bitmap.go say, bit 9 of group 1 of the header it presented  *)
(* with its request, whatever the table of root documents holds by then    *)
(* and whichever firmware the device has by now.                           *)
SentIsDeclared ==
    LET g == get["device"]
    IN  (g.pc \in {"update", "reply"} /\ g.send # {}) =>
            \E n \in DOMAIN DocsHeader(g.meta) :
                /\ DocsHeader(g.meta)[n] \div 2^24 = 1
                /\ (DocsHeader(g.meta)[n] \div 2^8) % 2 = 1
=============================================================================
