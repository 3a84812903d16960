----------------------------- MODULE StateReport -----------------------------
(***************************************************************************)
(* The reports devices send about their downloads: ConsumeClaim and        *)
(* handleNotification of the Kafka consumer (kafka/consumer.go) calling    *)
(* UpdateDocumentState (db/service.go).  One goroutine per claimed         *)
(* partition handles one message at a time; a message is marked after it   *)
(* was handled, whether or not that failed, so a crash delivers it again   *)
(* and a database error loses it.                                          *)
(*                                                                         *)
(* Reports that change nothing (other HTTP status codes, "pending",        *)
(* version reports, max_retry_reached, ill-formed ones) are left out.      *)
(***************************************************************************)
EXTENDS Device

CONSTANTS Consumers,       \* goroutines that handle reports
          PrecookSubdocs   \* {"telemetry"} if its success sets an expiry

ASSUME ReportAssumption == PrecookSubdocs \subseteq SubdocIds

VARIABLE rep

Handling == [pc : {"idle", "read", "mark", "set"}, event : Event,
             todo : SUBSET SubdocIds]

IdleReport == [pc |-> "idle", event |-> Http304Report, todo |-> {}]

ReportTypeOK == /\ rep \in [Consumers -> Handling]
                /\ \A c \in Consumers : rep[c].pc = "set" => rep[c].event \in SubdocEvent

ReportInit == rep = [c \in Consumers |-> IdleReport]

-----------------------------------------------------------------------------
TakeReport(c, e) ==
    /\ rep[c].pc = "idle"
    /\ e \in events
    /\ events' = events \ {e}
    /\ rep' = [rep EXCEPT ![c].pc = "read", ![c].event = e]
    /\ UNCHANGED <<storeVars, dev, poked>>

\* Mutant: a download under way is left alone
NeedsUpdateUnlessInDeployment(r) == r.state \in {0, PendingDownload, Failure}

NeedsUpdateForHttp304(r) == r.state # Deployed \/ r.err = "set"

\* a 304 report: every subdocument in the document that is not Deployed and
\* free of errors will be
Read304(c) ==
    /\ rep[c].pc = "read"
    /\ rep[c].event.kind = "rootdoc"
    /\ LET doc  == GetDocument(FALSE)
           todo == {s \in Ids(doc) : NeedsUpdateForHttp304(doc[s])}
       IN  rep' = [rep EXCEPT ![c] = IF todo = {} THEN IdleReport
                                     ELSE [@ EXCEPT !.pc = "mark", !.todo = todo]]
    /\ UNCHANGED <<storeVars, deviceVars>>

\* Mutant: the error columns are left out
MarkDeployedKeepsError(c, s) ==
    /\ rep[c].pc = "mark"
    /\ s \in rep[c].todo
    /\ SetSubDocument(s, NilVersion, Deployed, "nil", "nil")
    /\ rep' = [rep EXCEPT ![c] = IF rep[c].todo = {s} THEN IdleReport
                                 ELSE [rep[c] EXCEPT !.todo = rep[c].todo \ {s}]]
    /\ UNCHANGED <<root, deviceVars>>

MarkDeployed(c, s) ==
    /\ rep[c].pc = "mark"
    /\ s \in rep[c].todo
    /\ SetSubDocument(s, NilVersion, Deployed, "none", "nil")
    /\ rep' = [rep EXCEPT ![c] = IF rep[c].todo = {s} THEN IdleReport
                                 ELSE [rep[c] EXCEPT !.todo = rep[c].todo \ {s}]]
    /\ UNCHANGED <<root, deviceVars>>

\* Mutant: the version of the report is not compared
ReportAcceptedAnyVersion(e) ==
    /\ SubDocumentFound(e.subdoc)
    /\ rows[e.subdoc].state \in Deployed..Failure

\* a subdocument report is dropped when there is no such subdocument, when
\* its state is not one of the four, or when it is about another version
ReportAccepted(e) ==
    LET r == rows[e.subdoc]
    IN  /\ SubDocumentFound(e.subdoc)
        /\ r.state \in Deployed..Failure
        /\ r.version = e.version

ReadSubdoc(c) ==
    /\ rep[c].pc = "read"
    /\ rep[c].event.kind = "subdoc"
    /\ rep' = [rep EXCEPT ![c] =
                 IF ReportAccepted(rep[c].event)
                 THEN [@ EXCEPT !.pc = "set"] ELSE IdleReport]
    /\ UNCHANGED <<storeVars, deviceVars>>

\* Mutant: a success leaves the error columns alone
SetReportedStateKeepsError(c) ==
    /\ rep[c].pc = "set"
    /\ LET e == rep[c].event
       IN  IF e.ok
           THEN SetSubDocument(e.subdoc, NilVersion, Deployed, "nil", "nil")
           ELSE SetSubDocument(e.subdoc, NilVersion, Failure, "set", "nil")
    /\ rep' = [rep EXCEPT ![c] = IdleReport]
    /\ UNCHANGED <<root, deviceVars>>

\* Mutant: a success does not renew the expiry of a precooked subdocument
SetReportedStateNoExpiry(c) ==
    /\ rep[c].pc = "set"
    /\ LET e == rep[c].event
       IN  IF e.ok
           THEN SetSubDocument(e.subdoc, NilVersion, Deployed, "none", "nil")
           ELSE SetSubDocument(e.subdoc, NilVersion, Failure, "set", "nil")
    /\ rep' = [rep EXCEPT ![c] = IdleReport]
    /\ UNCHANGED <<root, deviceVars>>

\* only the state, the error and, for a precooked subdocument, the expiry
\* are written
SetReportedState(c) ==
    /\ rep[c].pc = "set"
    /\ LET e == rep[c].event
       IN  IF e.ok
           THEN SetSubDocument(e.subdoc, NilVersion, Deployed, "none",
                               IF e.subdoc \in PrecookSubdocs THEN "live" ELSE "nil")
           ELSE SetSubDocument(e.subdoc, NilVersion, Failure, "set", "nil")
    /\ rep' = [rep EXCEPT ![c] = IdleReport]
    /\ UNCHANGED <<root, deviceVars>>

\* a database error: the message is marked all the same
ReportFails(c) ==
    /\ rep[c].pc # "idle"
    /\ rep' = [rep EXCEPT ![c] = IdleReport]
    /\ UNCHANGED <<storeVars, deviceVars>>

\* the process stops before MarkMessage: the message comes again
ReportCrashes(c) ==
    /\ rep[c].pc # "idle"
    /\ events' = events \cup {rep[c].event}
    /\ rep' = [rep EXCEPT ![c] = IdleReport]
    /\ UNCHANGED <<storeVars, dev, poked>>

ReportStep(c) ==
    \/ \E e \in events : TakeReport(c, e)
    \/ Read304(c)
    \/ \E s \in SubdocIds : MarkDeployed(c, s)
    \/ ReadSubdoc(c)
    \/ SetReportedState(c)
=============================================================================
