------------------------------- MODULE Device -------------------------------
(***************************************************************************)
(* External: the webconfig client on the device, as far as the server's    *)
(* code relies on it.  It keeps the version of every sub-document it has   *)
(* applied and the root version (the Etag) of the last document it applied *)
(* completely, sends both with every GET, and reports what became of a     *)
(* download: one report per sub-document, or one 304 report when there was *)
(* nothing to download (common.EventMessage).  Reports travel over Kafka:  *)
(* in any order, delayed, possibly lost or delivered twice.                *)
(***************************************************************************)
EXTENDS SubdocStore

CONSTANTS MaxEvents,    \* bound on the reports under way
          DevicePolls   \* does the device GET without having been poked?

ASSUME DeviceAssumption == /\ MaxEvents \in Nat
                           /\ DevicePolls \in BOOLEAN

VARIABLES dev,     \* what the device has
          poked,   \* has webpa prompted it to download?
          events   \* the reports under way

deviceVars == <<dev, poked, events>>

DeviceState == [root : RootVersion, vers : Versions, meta : Metas]

RootdocEvent == [kind : {"rootdoc"}]
SubdocEvent  == [kind : {"subdoc"}, subdoc : SubdocIds, version : Nat, ok : BOOLEAN]
Event        == RootdocEvent \cup SubdocEvent

DeviceTypeOK == /\ dev \in DeviceState
                /\ poked \in BOOLEAN
                /\ events \subseteq Event

DeviceInit == /\ dev \in [root : {NoRoot}, vers : {NoVersions},
                          meta : Metas]
              /\ poked = FALSE
              /\ events = {}

-----------------------------------------------------------------------------
\* reports that find the topic full are lost
Emit(E) == events' = IF Cardinality(events \cup E) <= MaxEvents
                     THEN events \cup E ELSE events

Http304Report == [kind |-> "rootdoc"]

SubdocReport(s, v, ok) ==
    [kind |-> "subdoc", subdoc |-> s, version |-> v, ok |-> ok]

\* The device receives the sub-documents sent, in the versions vers, under
\* Etag etag and manages to apply those of applied.
ApplyDocument(etag, vers, sent, applied) ==
    /\ dev' = [dev EXCEPT
           !.vers = [s \in SubdocIds |-> IF s \in applied THEN vers[s] ELSE dev.vers[s]],
           !.root = IF applied = sent THEN etag ELSE dev.root]
    /\ Emit({SubdocReport(s, vers[s], s \in applied) : s \in sent})

\* new firmware: the device presents other metadata from now on
Upgrade(m) ==
    /\ dev.meta # m
    /\ dev' = [dev EXCEPT !.meta = m]
    /\ UNCHANGED <<poked, events>>
=============================================================================
