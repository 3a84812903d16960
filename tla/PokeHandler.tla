----------------------------- MODULE PokeHandler -----------------------------
(***************************************************************************)
(* POST /api/v1/device/{mac}/poke (http/poke_handler.go).  With            *)
(* route=mqtt the subdocuments that are not Deployed are pushed to the     *)
(* device through the MQTT broker and then marked InDeployment             *)
(* (BuildMqttSendDocument, UpdateStatesInBatch, db/cloud_input_mqtt.go).   *)
(* Without parameters the poke is "smart": it prompts the device through   *)
(* webpa to GET, unless nothing is pending; cpe_action=true skips that     *)
(* test.                                                                   *)
(***************************************************************************)
EXTENDS Device

CONSTANTS Pokers,      \* poke handlers that may run at one time
          MaxPokes,    \* bound on the pokes received
          PokeRoutes   \* subset of {"mqtt", "webpa", "cpe_action"}

ASSUME PokeAssumption == /\ MaxPokes \in Nat
                         /\ PokeRoutes \subseteq {"mqtt", "webpa", "cpe_action"}

VARIABLES pk,    \* the poke handlers
          push,  \* documents the broker holds for the device
          pokes  \* pokes received so far

pokeVars == <<pk, push, pokes>>

PushMessage == [etag : RootVersion, vers : Versions]

Names(vers) == {s \in SubdocIds : vers[s] # 0}

PokeAnswer == {"none", "200", "202", "204", "404"}

Poke == [pc : {"idle", "root", "post", "states"}, route : {"mqtt", "webpa"},
         send : Document, etag : RootVersion, todo : SUBSET SubdocIds,
         answer : PokeAnswer]

IdlePoke(answer) == [pc |-> "idle", route |-> "mqtt",
                     send |-> NoDocument, etag |-> NoRoot,
                     todo |-> {}, answer |-> answer]

PokeTypeOK == /\ pk \in [Pokers -> Poke]
              /\ push \subseteq PushMessage
              /\ pokes \in Nat

PokeInit == /\ pk = [p \in Pokers |-> IdlePoke("none")]
            /\ push = {}
            /\ pokes = 0

-----------------------------------------------------------------------------
NewPoke == /\ pokes < MaxPokes
           /\ pokes' = pokes + 1

Answer(p, code) == pk' = [pk EXCEPT ![p] = IdlePoke(code)]

\* BuildMqttSendDocument reads the document first ...
PokeReadDocument(p, route) ==
    /\ pk[p].pc = "idle"
    /\ NewPoke
    /\ route \in {"mqtt", "webpa"}
    /\ LET doc     == GetDocument(FALSE)
           pending == FilterForMqttSend(doc)
       IN  \/ /\ Ids(doc) = {}
              /\ Answer(p, IF route = "mqtt" THEN "404" ELSE "204")
           \/ /\ Ids(doc) # {}
              /\ pending = {}
              /\ Answer(p, "204")
           \/ /\ pending # {}
              /\ pk' = [pk EXCEPT ![p] = [IdlePoke("none") EXCEPT
                           !.pc = "root", !.route = route,
                           !.send = [s \in SubdocIds |->
                              IF s \in pending \ Blocked THEN doc[s] ELSE EmptyRow]]]
    /\ UNCHANGED <<storeVars, deviceVars, push>>

\* ... and then the root document, whose version goes with it
PokeReadRoot(p) ==
    /\ pk[p].pc = "root"
    /\ \/ /\ ~root.exists
          /\ Answer(p, IF pk[p].route = "mqtt" THEN "404" ELSE "204")
       \/ /\ root.exists
          /\ Ids(pk[p].send) = {}
          /\ Answer(p, "204")
       \/ /\ root.exists
          /\ Ids(pk[p].send) # {}
          /\ pk' = [pk EXCEPT ![p].pc = "post", ![p].etag = root.version]
    /\ UNCHANGED <<storeVars, deviceVars, push, pokes>>

\* PostMqtt
PokePostMqtt(p) ==
    /\ pk[p].pc = "post"
    /\ pk[p].route = "mqtt"
    /\ push' = push \cup {[etag |-> pk[p].etag, vers |-> VersionMap(pk[p].send)]}
    /\ pk' = [pk EXCEPT ![p].pc = "states", ![p].todo = Ids(pk[p].send)]
    /\ UNCHANGED <<storeVars, deviceVars, pokes>>

\* Mutant: the whole sub-document that was read is written back
PokeWritesBack(p, s) ==
    /\ pk[p].pc = "states"
    /\ s \in pk[p].todo
    /\ SetSubDocument(s, pk[p].send[s].version, InDeployment, "nil", "nil")
    /\ pk' = [pk EXCEPT ![p] = IF pk[p].todo = {s} THEN IdlePoke("202")
                               ELSE [pk[p] EXCEPT !.todo = pk[p].todo \ {s}]]
    /\ UNCHANGED <<root, deviceVars, push, pokes>>

\* UpdateStatesInBatch writes the state whatever it has become by now
PokeMarkInDeployment(p, s) ==
    /\ pk[p].pc = "states"
    /\ s \in pk[p].todo
    /\ SetSubDocument(s, NilVersion, InDeployment, "nil", "nil")
    /\ pk' = [pk EXCEPT ![p] = IF pk[p].todo = {s} THEN IdlePoke("202")
                               ELSE [pk[p] EXCEPT !.todo = pk[p].todo \ {s}]]
    /\ UNCHANGED <<root, deviceVars, push, pokes>>

PokeCpeAction(p) ==
    /\ "cpe_action" \in PokeRoutes
    /\ pk[p].pc = "idle"
    /\ NewPoke
    /\ pk' = [pk EXCEPT ![p] = [IdlePoke("none") EXCEPT !.pc = "post", !.route = "webpa"]]
    /\ UNCHANGED <<storeVars, deviceVars, push>>

\* Poke: webpa prompts the device
PokeWebpa(p) ==
    /\ pk[p].pc = "post"
    /\ pk[p].route = "webpa"
    /\ poked' = TRUE
    /\ Answer(p, "200")
    /\ UNCHANGED <<storeVars, dev, events, push, pokes>>

\* a database error, or the broker or webpa refuses
PokeFails(p) ==
    /\ pk[p].pc # "idle"
    /\ Answer(p, "none")
    /\ UNCHANGED <<storeVars, deviceVars, push, pokes>>

\* the device receives a pushed document
PushArrives(m, applied) ==
    /\ m \in push
    /\ applied \subseteq Names(m.vers)
    /\ push' = push \ {m}
    /\ ApplyDocument(m.etag, m.vers, Names(m.vers), applied)
    /\ UNCHANGED <<storeVars, poked, pk, pokes>>

PokeStep(p) ==
    \/ \E route \in PokeRoutes : PokeReadDocument(p, route)
    \/ PokeReadRoot(p)
    \/ PokePostMqtt(p)
    \/ \E s \in SubdocIds : PokeMarkInDeployment(p, s)
    \/ PokeCpeAction(p)
    \/ PokeWebpa(p)
=============================================================================
