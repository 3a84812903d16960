------------------------- MODULE SupplementaryHandler -------------------------
(***************************************************************************)
(* The GET of a device's telemetry profile, MultipartSupplementaryHandler  *)
(* (http/supplementary_handler.go).  With supplementary_precook the        *)
(* profile is the sub-document "telemetry" while it waits to be deployed,  *)
(* nothing (304) once it is Deployed, until the expiry its success report  *)
(* set has passed; in every other case the profile comes from xconf, with  *)
(* those of a second service appended:                                     *)
(*                                                                         *)
(*   idle -(read row)-> set -> clear -> reply                              *)
(*        \-> profiles -(xconf, upstream)---^                              *)
(*                                                                         *)
(* The state and the columns to clear are those of the row as it was read; *)
(* errors of either write are ignored.                                     *)
(***************************************************************************)
EXTENDS StateReport

CONSTANTS SupRequests,     \* requests of the device at one time
          Telemetry,       \* the sub-document "telemetry"
          UpstreamProfilesEnabled,
          DefaultEmptyProfileEnabled

ASSUME SupplementaryAssumption ==
    /\ Telemetry \in SubdocIds
    /\ UpstreamProfilesEnabled \in BOOLEAN
    /\ DefaultEmptyProfileEnabled \in BOOLEAN

VARIABLE sup

\* What GetProfiles and GetUpstreamProfiles come back with: profiles, a 404
\* (without a body, with a JSON one, with another), another status, no answer
NotFounds      == {"notfound", "notfound_json", "notfound_text"}
ProfileAnswers == {"profiles", "refused", "failed"} \cup NotFounds

\* status "remote" is the one the other service answered; a body holds what
\* its sources gave, {} being the empty profile
Response == [status : {"none", "200", "304", "404", "500", "remote"},
             body   : SUBSET {"row", "xconf", "upstream", "notfound_json"}]

Answer(status, body) == [status |-> status, body |-> body]

Supplementary == [pc    : {"idle", "set", "clear", "profiles", "reply"},
                  row   : Row,
                  had   : SUBSET {"xconf", "upstream"},  \* who had profiles
                  resp  : Response]

IdleSupplementary == [pc |-> "idle", row |-> EmptyRow, had |-> {},
                      resp |-> Answer("none", {})]

SupplementaryTypeOK == sup \in [SupRequests -> Supplementary]

SupplementaryInit == sup = [q \in SupRequests |-> IdleSupplementary]

PrecookEnabled == Telemetry \in PrecookSubdocs

-----------------------------------------------------------------------------
\* Mutant: a failed download is not sent again
SendsRowUnlessFailed(r) == r.state \in {PendingDownload, InDeployment}

\* the row is the answer
SendsRow(r) == r.state \in {PendingDownload, InDeployment, Failure}

\* GetSubDocument "telemetry", not-found included
SupReadRow(q) ==
    /\ sup[q].pc = "idle"
    /\ LET r == rows[Telemetry]
           precooked == PrecookEnabled /\ SubDocumentFound(Telemetry)
       IN  sup' = [sup EXCEPT ![q] =
              IF precooked /\ SendsRow(r)
              THEN [IdleSupplementary EXCEPT !.pc = "set", !.row = r]
              ELSE IF precooked /\ r.state = Deployed /\ r.expiry # "past"
              THEN [IdleSupplementary EXCEPT !.pc = "reply", !.row = r,
                                             !.resp = Answer("304", {})]
              ELSE [IdleSupplementary EXCEPT !.pc = "profiles"]]
    /\ UNCHANGED <<storeVars, deviceVars>>

\* SetSubDocument: InDeployment without an error; the expiry is not given
SupSetState(q) ==
    /\ sup[q].pc = "set"
    /\ SetSubDocument(Telemetry, NilVersion, InDeployment, "none", "nil")
    /\ sup' = [sup EXCEPT ![q].pc = "clear"]
    /\ UNCHANGED <<root, deviceVars>>

RowResponse(q) == [sup EXCEPT ![q].pc = "reply", ![q].resp = Answer("200", {"row"})]

\* DeleteSubDocumentColumns: the error, and the expiry if the row read had one
SupClearColumns(q) ==
    /\ sup[q].pc = "clear"
    /\ rows' = [rows EXCEPT ![Telemetry].err = "none",
                            ![Telemetry].expiry =
                                IF sup[q].row.expiry # "none" THEN "none"
                                ELSE rows[Telemetry].expiry]
    /\ sup' = RowResponse(q)
    /\ UNCHANGED <<root, deviceVars>>

\* GetRootDocumentLabels, SetSubDocument or DeleteSubDocumentColumns fails:
\* the row is sent all the same
SupWriteFails(q) ==
    /\ sup[q].pc \in {"set", "clear"}
    /\ \/ sup' = RowResponse(q)
       \/ sup[q].pc = "set" /\ sup' = [sup EXCEPT ![q].pc = "clear"]
    /\ UNCHANGED <<storeVars, deviceVars>>

\* The answer made of what xconf (x) and, when it was asked, the second
\* service (u) had.  A 404 of xconf goes on when profiles may come from
\* elsewhere; its body, if it has one, is then taken for the profile unless
\* the second service was asked, and one that is not JSON is an error.
ProfileResponse(x, u) ==
    LET base     == IF x = "profiles" THEN {"xconf"}
                    ELSE IF x = "notfound_json" /\ u = "none" THEN {x} ELSE {}
        extra    == IF u = "profiles" THEN {"upstream"} ELSE {}
    IN  IF "refused" \in {x, u} THEN Answer("remote", {})
        ELSE IF "failed" \in {x, u} THEN Answer("500", {})
        ELSE IF x \in NotFounds /\ extra = {} /\ ~DefaultEmptyProfileEnabled
        THEN Answer("404", {})
        ELSE IF x = "notfound_text" /\ u = "none" THEN Answer("500", {})
        ELSE Answer("200", base \cup extra)

\* xconf is asked, and then the second service if it is enabled, the root
\* document has query parameters (params) and xconf did not end the request
SupProfiles(q, x, u, params) ==
    /\ sup[q].pc = "profiles"
    /\ u = "none" <=> ~(UpstreamProfilesEnabled /\ params /\ x \notin {"refused", "failed"})
    /\ sup' = [sup EXCEPT ![q].pc = "reply", ![q].resp = ProfileResponse(x, u),
                          ![q].had = {s \in {"xconf", "upstream"} :
                                        "profiles" = IF s = "xconf" THEN x ELSE u}]
    /\ UNCHANGED <<storeVars, deviceVars>>

\* the device has the answer; a row it manages to apply or not, and reports
SupReceived(q, ok) ==
    /\ sup[q].pc = "reply"
    /\ IF sup[q].resp.body = {"row"}
       THEN LET v == sup[q].row.version
            IN  /\ dev' = IF ok THEN [dev EXCEPT !.vers[Telemetry] = v] ELSE dev
                /\ Emit({SubdocReport(Telemetry, v, ok)})
       ELSE ok /\ UNCHANGED <<dev, events>>
    /\ sup' = [sup EXCEPT ![q] = IdleSupplementary]
    /\ UNCHANGED <<storeVars, poked>>

\* the answer is lost, or the read of the root document fails (500)
SupLost(q) ==
    /\ sup[q].pc \in {"reply", "profiles"}
    /\ sup' = [sup EXCEPT ![q] = IdleSupplementary]
    /\ UNCHANGED <<storeVars, deviceVars>>
=============================================================================
