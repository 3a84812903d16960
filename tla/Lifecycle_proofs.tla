-------------------------- MODULE Lifecycle_proofs --------------------------
(***************************************************************************)
(* The life of a process, for any number of consumer groups, requests,     *)
(* messages and failures.                                                  *)
(***************************************************************************)
EXTENDS Lifecycle, TLAPS

USE DEF Groups

\* what the invariant says of one consumer group
GroupOK(g) ==
    /\ g.ready = "closed" => g.loop \in {"session", "again"}
    /\ g.claim # "none" => g.loop = "session"
    /\ g.hook \in {"closing", "done"} => g.client = "closed"

LEMMA InitInv == Init => LifecycleInv
  <1> SUFFICES ASSUME Init PROVE LifecycleInv
    OBVIOUS
  <1>1. TypeOK
    <2>1. main \in MainState
      BY DEF Init, MainState
    <2>2. cancelled \in BOOLEAN /\ unread \in BOOLEAN
      BY DEF Init
    <2>3. grp \in [Groups -> Group]
      BY DEF Init, Group, Task, OpenClosed
    <2>4. req \in [Requests -> Task]
      BY DEF Init, Task
    <2>5. /\ listener \in {"on", "off"}
          /\ shut \in {"waiting", "producer", "http", "done"}
          /\ producer \in {"open", "closing", "closed"}
          /\ crash \in {"no", "startup", "ready", "producer"}
          /\ work \in Nat
          /\ faults \in Nat
      BY DEF Init
    <2> QED
      BY <2>1, <2>2, <2>3, <2>4, <2>5 DEF TypeOK
  <1>2. NoDoubleClose /\ ExitIsClean /\ ReadyInSession /\ ClaimInSession
    BY DEF Init, NoDoubleClose, ExitIsClean, ReadyInSession, ClaimInSession
  <1>3. NotStartedYet /\ HookCloses /\ ShutdownDrains
    BY LifecycleAssumption DEF Init, NotStartedYet, HookCloses, ShutdownDrains
  <1> QED
    BY <1>1, <1>2, <1>3 DEF LifecycleInv

\* a step changes one group, to a state that is as it should be
LEMMA OneGroup ==
    ASSUME LifecycleInv, NEW i \in Groups, NEW g \in Group, GroupOK(g),
           grp' = [grp EXCEPT ![i] = g]
    PROVE  /\ grp' \in [Groups -> Group]
           /\ grp'[i] = g
           /\ \A j \in Groups : j # i => grp'[j] = grp[j]
           /\ ReadyInSession' /\ ClaimInSession' /\ HookCloses'
  <1>1. /\ grp' \in [Groups -> Group]
        /\ grp'[i] = g
        /\ \A j \in Groups : j # i => grp'[j] = grp[j]
    BY DEF LifecycleInv, TypeOK
  <1>2. ReadyInSession' /\ ClaimInSession' /\ HookCloses'
    BY <1>1 DEF LifecycleInv, GroupOK, ReadyInSession, ClaimInSession, HookCloses
  <1> QED
    BY <1>1, <1>2

\* the parts of the invariant that a step of main, a group or a claim may
\* disturb, and the rest
LEMMA Assemble ==
    ASSUME LifecycleInv, main.pc # "exited",
           main' \in MainState,
           main'.pc # "exited",
           cancelled' \in BOOLEAN, unread' \in BOOLEAN,
           UNCHANGED <<req, shut, listener, producer>>,
           crash' \in {"no", "startup", "producer"},
           work' \in Nat, faults' \in Nat,
           grp' \in [Groups -> Group],
           ReadyInSession', ClaimInSession', HookCloses', NotStartedYet'
    PROVE  LifecycleInv'
  <1>1. TypeOK'
    BY DEF LifecycleInv, TypeOK
  <1>2. NoDoubleClose' /\ ExitIsClean' /\ ShutdownDrains'
    BY DEF LifecycleInv, NoDoubleClose, ExitIsClean, ShutdownDrains
  <1> QED
    BY <1>1, <1>2 DEF LifecycleInv

LEMMA GroupTyped ==
    ASSUME LifecycleInv, NEW i \in Groups
    PROVE  grp[i] \in Group /\ GroupOK(grp[i])
  BY DEF LifecycleInv, TypeOK, ReadyInSession, ClaimInSession, HookCloses, GroupOK

\* main creates the groups and starts them in order
LEMMA MainInv ==
    ASSUME LifecycleInv, Running, MainStep
    PROVE  LifecycleInv'
  <1> DEFINE c == main.cur
  <1>0. main \in MainState /\ main.pc # "exited" /\ crash = "no"
    BY DEF LifecycleInv, TypeOK, Running
  <1>t. cancelled \in BOOLEAN /\ unread \in BOOLEAN /\ work \in Nat /\ faults \in Nat
    BY DEF LifecycleInv, TypeOK
  <1>g. grp \in [Groups -> Group] /\ ReadyInSession /\ ClaimInSession /\ HookCloses
    BY DEF LifecycleInv, TypeOK
  <1>n. NotStartedYet /\ c \in Nat \ {0} /\ NumGroups \in Nat
    BY <1>0, LifecycleAssumption DEF LifecycleInv, MainState
  <1>1. CASE CreateGroups
    <2>1. /\ main' \in MainState /\ main'.pc # "exited"
          /\ crash' \in {"no", "startup", "producer"} /\ faults' \in Nat
      BY <1>0, <1>1, <1>t DEF CreateGroups, NextGroup, Fault, MainState
    <2>2. NotStartedYet'
      BY <1>0, <1>1, <1>n DEF CreateGroups, NextGroup, NotStartedYet
    <2>3. UNCHANGED <<cancelled, unread, work, grp, req, shut, listener, producer>>
      BY <1>1 DEF CreateGroups
    <2>4. (grp \in [Groups -> Group] /\ ReadyInSession /\ ClaimInSession /\ HookCloses)'
      BY <1>g, <2>3 DEF ReadyInSession, ClaimInSession, HookCloses
    <2> QED
      BY <1>0, <1>t, <2>1, <2>2, <2>3, <2>4, Assemble
  <1>2. CASE StartLoop
    <2> DEFINE g == [grp[c] EXCEPT !.loop = "consume"]
    <2>1. c \in Groups /\ grp[c].loop = "off"
      BY <1>2, <1>n DEF StartLoop, NotStartedYet
    <2>2. grp[c] \in Group /\ GroupOK(grp[c])
      BY <2>1, GroupTyped
    <2>3. g \in Group /\ GroupOK(g) /\ g.loop = "consume"
      BY <2>1, <2>2 DEF Group, OpenClosed, Task, GroupOK
    <2>4. grp' = [grp EXCEPT ![c] = g]
      BY <1>2, <1>g, <2>1 DEF StartLoop
    <2>5. /\ UNCHANGED <<cancelled, unread, work, faults, crash, req, shut, listener, producer>>
          /\ main' = [main EXCEPT !.pc = "eval"]
      BY <1>2 DEF StartLoop
    <2>6. main' \in MainState /\ main'.pc = "eval" /\ main'.cur = c
      BY <1>0, <2>5 DEF MainState
    <2> HIDE DEF g
    <2>7. /\ grp' \in [Groups -> Group] /\ ReadyInSession' /\ ClaimInSession' /\ HookCloses'
          /\ \A j \in Groups : j # c => grp'[j] = grp[j]
      BY <2>1, <2>3, <2>4, OneGroup
    <2>8. NotStartedYet'
      BY <1>n, <2>1, <2>6, <2>7 DEF NotStartedYet
    <2> QED
      BY <1>0, <1>t, <2>5, <2>6, <2>7, <2>8, Assemble
  <1>3. CASE EvalReady
    <2> DEFINE g == [grp[c] EXCEPT !.awaited = grp[c].ready]
    <2>1. c \in Groups
      BY <1>3, <1>n DEF EvalReady, NotStartedYet
    <2>2. grp[c] \in Group /\ GroupOK(grp[c])
      BY <2>1, GroupTyped
    <2>3. g \in Group /\ GroupOK(g) /\ g.loop = grp[c].loop
      BY <2>2 DEF Group, GroupOK
    <2>4. grp' = [grp EXCEPT ![c] = g]
      BY <1>3, <1>g, <2>1 DEF EvalReady
    <2>5. /\ UNCHANGED <<cancelled, unread, work, faults, crash, req, shut, listener, producer>>
          /\ main' = [main EXCEPT !.pc = "await"]
      BY <1>3 DEF EvalReady
    <2>6. main' \in MainState /\ main'.pc = "await" /\ main'.cur = c
      BY <1>0, <2>5 DEF MainState
    <2> HIDE DEF g
    <2>7. /\ grp' \in [Groups -> Group] /\ ReadyInSession' /\ ClaimInSession' /\ HookCloses'
          /\ \A j \in Groups : j # c => grp'[j] = grp[j]
      BY <2>1, <2>3, <2>4, OneGroup
    <2>8. NotStartedYet'
      BY <1>n, <2>1, <2>6, <2>7 DEF NotStartedYet
    <2> QED
      BY <1>0, <1>t, <2>5, <2>6, <2>7, <2>8, Assemble
  <1>4. CASE AwaitReady
    <2> DEFINE g == [grp[c] EXCEPT !.hook = "armed"]
    <2>1. c \in Groups
      BY <1>4, <1>n DEF AwaitReady, NotStartedYet
    <2>2. grp[c] \in Group /\ GroupOK(grp[c])
      BY <2>1, GroupTyped
    <2>3. g \in Group /\ GroupOK(g) /\ g.loop = grp[c].loop
      BY <2>2 DEF Group, GroupOK
    <2>4. grp' = [grp EXCEPT ![c] = g]
      BY <1>4, <1>g, <2>1 DEF AwaitReady
    <2>5. /\ UNCHANGED <<cancelled, unread, work, faults, crash, req, shut, listener, producer>>
          /\ main' = NextGroup(c + 1) /\ main.pc = "await"
      BY <1>4 DEF AwaitReady
    <2>6. /\ main' \in MainState /\ main'.cur = c + 1 /\ main'.pc \in {"start", "wait"}
          /\ main'.pc = "start" => c + 1 \in Groups
      BY <1>n, <2>5 DEF MainState, NextGroup
    <2> HIDE DEF g
    <2>7. /\ grp' \in [Groups -> Group] /\ ReadyInSession' /\ ClaimInSession' /\ HookCloses'
          /\ \A j \in Groups : j # c => grp'[j] = grp[j]
      BY <2>1, <2>3, <2>4, OneGroup
    <2>8. NotStartedYet'
      BY <1>n, <2>1, <2>5, <2>6, <2>7 DEF NotStartedYet
    <2> QED
      BY <1>0, <1>t, <2>5, <2>6, <2>7, <2>8, Assemble
  <1>5. CASE Exit
    <2>1. /\ UNCHANGED <<cancelled, unread, work, faults, crash, req, shut, listener, producer, grp>>
          /\ main' = [main EXCEPT !.pc = "exited"] /\ shut = "done"
          /\ \A i \in Groups : grp[i].loop = "ended" /\ grp[i].hook = "done"
      BY <1>5 DEF Exit
    <2>2. main' \in MainState /\ main'.pc = "exited" /\ main'.cur = c
      BY <1>0, <2>1 DEF MainState
    <2>3. TypeOK' /\ NoDoubleClose' /\ ShutdownDrains'
      BY <2>1, <2>2 DEF LifecycleInv, TypeOK, NoDoubleClose, ShutdownDrains
    <2>4. ReadyInSession' /\ ClaimInSession' /\ HookCloses'
      BY <1>g, <2>1 DEF ReadyInSession, ClaimInSession, HookCloses
    <2>5. ExitIsClean'
      BY <1>g, <2>1 DEF LifecycleInv, ShutdownDrains, ClaimInSession, HookCloses, ExitIsClean
    <2>6. NotStartedYet'
      BY <1>n, <2>1, <2>2 DEF NotStartedYet
    <2> QED
      BY <2>3, <2>4, <2>5, <2>6 DEF LifecycleInv
  <1> QED
    BY <1>1, <1>2, <1>3, <1>4, <1>5 DEF MainStep

\* steps that leave main and the groups alone
LEMMA ServerInv ==
    ASSUME LifecycleInv, Running,
           \/ Signal \/ ListenerReturns \/ ShutdownStep \/ HandleKafkaProducerResults
           \/ \E r \in Requests : RequestBegins(r) \/ RequestEnds(r) \/ RequestForwards(r)
    PROVE  LifecycleInv'
  <1> USE DEF LifecycleInv
  <1>1. UNCHANGED <<main, grp, crash>>
    BY DEF Signal, ListenerReturns, ShutdownStep, CloseProducer, ProducerClosed,
       DrainRequests, HandleKafkaProducerResults, RequestBegins, RequestEnds, RequestForwards
  <1>2. cancelled' \in BOOLEAN /\ unread' \in BOOLEAN
    BY DEF TypeOK, Signal, ListenerReturns, ShutdownStep, CloseProducer, ProducerClosed, Fault,
       DrainRequests, HandleKafkaProducerResults, RequestBegins, RequestEnds, RequestForwards,
       Forward
  <1>3. /\ listener' \in {"on", "off"}
        /\ shut' \in {"waiting", "producer", "http", "done"}
        /\ producer' \in {"open", "closing", "closed"}
    BY DEF TypeOK, Signal, ListenerReturns, ShutdownStep, CloseProducer, ProducerClosed,
       DrainRequests, HandleKafkaProducerResults, RequestBegins, RequestEnds, RequestForwards
  <1>4. work' \in Nat /\ faults' \in Nat
    BY DEF TypeOK, Signal, ListenerReturns, ShutdownStep, CloseProducer, ProducerClosed, Fault,
       DrainRequests, HandleKafkaProducerResults, RequestBegins, Begin, RequestEnds,
       RequestForwards, Forward
  <1>5. req' \in [Requests -> Task] /\ ShutdownDrains'
    <2>1. CASE Signal \/ ListenerReturns \/ ShutdownStep \/ HandleKafkaProducerResults
      BY <2>1 DEF TypeOK, ShutdownDrains, Signal, ListenerReturns, ShutdownStep, CloseProducer,
         ProducerClosed, DrainRequests, HandleKafkaProducerResults
    <2>2. ASSUME NEW r \in Requests, RequestBegins(r)
          PROVE  req' \in [Requests -> Task] /\ ShutdownDrains'
      BY <2>2 DEF TypeOK, Task, ShutdownDrains, RequestBegins, Serving
    <2>3. ASSUME NEW r \in Requests, RequestEnds(r) \/ RequestForwards(r)
          PROVE  req' \in [Requests -> Task] /\ ShutdownDrains'
      BY <2>3 DEF TypeOK, Task, ShutdownDrains, RequestEnds, RequestForwards, Forward
    <2> QED
      BY <2>1, <2>2, <2>3
  <1>6. TypeOK'
    BY <1>1, <1>2, <1>3, <1>4, <1>5 DEF TypeOK
  <1>7. main.pc # "exited"
    BY DEF Running
  <1>8. (NoDoubleClose /\ ExitIsClean /\ ReadyInSession /\ ClaimInSession)'
    BY <1>1, <1>7 DEF NoDoubleClose, ExitIsClean, ReadyInSession, ClaimInSession
  <1>9. (NotStartedYet /\ HookCloses)'
    BY <1>1 DEF NotStartedYet, HookCloses
  <1> QED
    BY <1>5, <1>6, <1>8, <1>9

\* a group takes the state g; only main starts one
LEMMA StartedGroup ==
    ASSUME LifecycleInv, Running, NEW i \in Groups,
           NEW g \in Group, GroupOK(g), grp[i].loop = "off" => g.loop = "off",
           grp' = [grp EXCEPT ![i] = g],
           UNCHANGED <<main, req, shut, listener, producer>>,
           cancelled' \in BOOLEAN, unread' \in BOOLEAN,
           crash' \in {"no", "startup", "producer"},
           work' \in Nat, faults' \in Nat
    PROVE  LifecycleInv'
  <1>1. /\ grp' \in [Groups -> Group] /\ grp'[i] = g
        /\ \A j \in Groups : j # i => grp'[j] = grp[j]
        /\ ReadyInSession' /\ ClaimInSession' /\ HookCloses'
    BY OneGroup
  <1>2. main \in MainState /\ main.pc # "exited"
    BY DEF LifecycleInv, TypeOK, Running
  <1>3. NotStartedYet'
    BY <1>1 DEF LifecycleInv, NotStartedYet
  <1> QED
    BY <1>1, <1>2, <1>3, Assemble

LEMMA GroupInv ==
    ASSUME LifecycleInv, Running, NEW i \in Groups,
           \/ LoopStep(i) \/ HookStep(i)
           \/ ClaimBegins(i) \/ ClaimEnds(i) \/ ClaimForwards(i)
    PROVE  LifecycleInv'
  <1>g. grp[i] \in Group /\ GroupOK(grp[i]) /\ grp \in [Groups -> Group]
    BY GroupTyped DEF LifecycleInv, TypeOK
  <1>t. /\ cancelled \in BOOLEAN /\ unread \in BOOLEAN /\ work \in Nat /\ faults \in Nat
        /\ crash = "no"
    BY DEF LifecycleInv, TypeOK, Running
  <1>1. CASE Setup(i)
    <2> DEFINE g == [grp[i] EXCEPT !.loop = "session", !.claim = "idle", !.ready = "closed",
                                !.awaited = "closed"]
    <2>0. grp[i].ready # "closed"
      BY <1>1, <1>g DEF Setup, GroupOK
    <2>1. grp[i].loop = "consume"
      BY <1>1 DEF Setup
    <2>2. g \in Group /\ GroupOK(g) /\ (grp[i].loop = "off" => g.loop = "off")
      BY <1>g, <2>1, <2>0 DEF Group, OpenClosed, Task, GroupOK
    <2>3. grp' = [grp EXCEPT ![i] = g]
      BY <1>1, <1>g, <2>0 DEF Setup
    <2>4. UNCHANGED <<main, req, shut, listener, producer>>
      BY <1>1 DEF Setup
    <2>5. cancelled' \in BOOLEAN /\ unread' \in BOOLEAN
      BY <1>1, <1>t DEF Setup
    <2>6. work' \in Nat /\ faults' \in Nat /\ crash' \in {"no", "startup", "producer"}
      BY <1>1, <1>t, <2>0 DEF Setup
    <2> HIDE DEF g
    <2> QED
      BY <2>2, <2>3, <2>4, <2>5, <2>6, StartedGroup
  <1>2. CASE ConsumeFails(i)
    <2> DEFINE g == [grp[i] EXCEPT !.loop = "ended"]
    <2>1. grp[i].loop = "consume"
      BY <1>2 DEF ConsumeFails
    <2>2. g \in Group /\ GroupOK(g) /\ (grp[i].loop = "off" => g.loop = "off")
      BY <1>g, <2>1 DEF Group, OpenClosed, Task, GroupOK
    <2>3. grp' = [grp EXCEPT ![i] = g]
      BY <1>2, <1>g DEF ConsumeFails
    <2>4. UNCHANGED <<main, req, shut, listener, producer>>
      BY <1>2 DEF ConsumeFails
    <2>5. cancelled' \in BOOLEAN /\ unread' \in BOOLEAN
      BY <1>2, <1>t DEF ConsumeFails
    <2>6. work' \in Nat /\ faults' \in Nat /\ crash' \in {"no", "startup", "producer"}
      BY <1>2, <1>t DEF ConsumeFails, Fault
    <2> HIDE DEF g
    <2> QED
      BY <2>2, <2>3, <2>4, <2>5, <2>6, StartedGroup
  <1>3. CASE SessionEnds(i)
    <2> DEFINE g == [grp[i] EXCEPT !.loop = "again", !.claim = "none"]
    <2>1. grp[i].loop = "session"
      BY <1>3 DEF SessionEnds
    <2>2. g \in Group /\ GroupOK(g) /\ (grp[i].loop = "off" => g.loop = "off")
      BY <1>g, <2>1 DEF Group, OpenClosed, Task, GroupOK
    <2>3. grp' = [grp EXCEPT ![i] = g]
      BY <1>3, <1>g DEF SessionEnds
    <2>4. UNCHANGED <<main, req, shut, listener, producer>>
      BY <1>3 DEF SessionEnds
    <2>5. cancelled' \in BOOLEAN /\ unread' \in BOOLEAN
      BY <1>3, <1>t DEF SessionEnds
    <2>6. work' \in Nat /\ faults' \in Nat /\ crash' \in {"no", "startup", "producer"}
      BY <1>3, <1>t DEF SessionEnds, Fault
    <2> HIDE DEF g
    <2> QED
      BY <2>2, <2>3, <2>4, <2>5, <2>6, StartedGroup
  <1>4. CASE ConsumeAgain(i)
    <2> DEFINE g == [grp[i] EXCEPT !.loop = "consume", !.ready = "open"]
    <2>1. grp[i].loop = "again"
      BY <1>4 DEF ConsumeAgain
    <2>2. g \in Group /\ GroupOK(g) /\ (grp[i].loop = "off" => g.loop = "off")
      BY <1>g, <2>1 DEF Group, OpenClosed, Task, GroupOK
    <2>3. grp' = [grp EXCEPT ![i] = g]
      BY <1>4, <1>g DEF ConsumeAgain
    <2>4. UNCHANGED <<main, req, shut, listener, producer>>
      BY <1>4 DEF ConsumeAgain
    <2>5. cancelled' \in BOOLEAN /\ unread' \in BOOLEAN
      BY <1>4, <1>t DEF ConsumeAgain
    <2>6. work' \in Nat /\ faults' \in Nat /\ crash' \in {"no", "startup", "producer"}
      BY <1>4, <1>t DEF ConsumeAgain
    <2> HIDE DEF g
    <2> QED
      BY <2>2, <2>3, <2>4, <2>5, <2>6, StartedGroup
  <1>5. CASE CloseGroup(i)
    <2> DEFINE g == [grp[i] EXCEPT !.hook = "closing", !.client = "closed"]
    <2>1. grp[i].hook = "armed"
      BY <1>5 DEF CloseGroup
    <2>2. g \in Group /\ GroupOK(g) /\ (grp[i].loop = "off" => g.loop = "off")
      BY <1>g, <2>1 DEF Group, OpenClosed, Task, GroupOK
    <2>3. grp' = [grp EXCEPT ![i] = g]
      BY <1>5, <1>g DEF CloseGroup
    <2>4. UNCHANGED <<main, req, shut, listener, producer>>
      BY <1>5 DEF CloseGroup
    <2>5. cancelled' \in BOOLEAN /\ unread' \in BOOLEAN
      BY <1>5, <1>t DEF CloseGroup
    <2>6. work' \in Nat /\ faults' \in Nat /\ crash' \in {"no", "startup", "producer"}
      BY <1>5, <1>t DEF CloseGroup
    <2> HIDE DEF g
    <2> QED
      BY <2>2, <2>3, <2>4, <2>5, <2>6, StartedGroup
  <1>6. CASE GroupClosed(i)
    <2> DEFINE g == [grp[i] EXCEPT !.hook = "done"]
    <2>1. grp[i].hook = "closing"
      BY <1>6 DEF GroupClosed
    <2>2. g \in Group /\ GroupOK(g) /\ (grp[i].loop = "off" => g.loop = "off")
      BY <1>g, <2>1 DEF Group, OpenClosed, Task, GroupOK
    <2>3. grp' = [grp EXCEPT ![i] = g]
      BY <1>6, <1>g DEF GroupClosed
    <2>4. UNCHANGED <<main, req, shut, listener, producer>>
      BY <1>6 DEF GroupClosed
    <2>5. cancelled' \in BOOLEAN /\ unread' \in BOOLEAN
      BY <1>6, <1>t DEF GroupClosed
    <2>6. work' \in Nat /\ faults' \in Nat /\ crash' \in {"no", "startup", "producer"}
      BY <1>6, <1>t DEF GroupClosed
    <2> HIDE DEF g
    <2> QED
      BY <2>2, <2>3, <2>4, <2>5, <2>6, StartedGroup
  <1>7. CASE ClaimBegins(i)
    <2> DEFINE g == [grp[i] EXCEPT !.claim = "busy"]
    <2>1. grp[i].claim = "idle"
      BY <1>7 DEF ClaimBegins
    <2>2. g \in Group /\ GroupOK(g) /\ (grp[i].loop = "off" => g.loop = "off")
      BY <1>g, <2>1 DEF Group, OpenClosed, Task, GroupOK
    <2>3. grp' = [grp EXCEPT ![i] = g]
      BY <1>7, <1>g DEF ClaimBegins
    <2>4. UNCHANGED <<main, req, shut, listener, producer>>
      BY <1>7 DEF ClaimBegins
    <2>5. cancelled' \in BOOLEAN /\ unread' \in BOOLEAN
      BY <1>7, <1>t DEF ClaimBegins
    <2>6. work' \in Nat /\ faults' \in Nat /\ crash' \in {"no", "startup", "producer"}
      BY <1>7, <1>t DEF ClaimBegins, Begin
    <2> HIDE DEF g
    <2> QED
      BY <2>2, <2>3, <2>4, <2>5, <2>6, StartedGroup
  <1>8. CASE ClaimEnds(i) \/ ClaimForwards(i)
    <2>1. grp[i].claim \in {"busy", "send"}
      BY <1>8 DEF ClaimEnds, ClaimForwards
    <2>2. PICK c \in {"idle", "send"} : grp' = [grp EXCEPT ![i].claim = c]
      <3>1. CASE ClaimEnds(i)
        BY <3>1 DEF ClaimEnds
      <3>2. CASE ClaimForwards(i)
        <4>1. \/ grp' = [grp EXCEPT ![i].claim = "idle"]
              \/ UNCHANGED grp /\ grp[i].claim = "send"
          BY <3>2 DEF ClaimForwards, Forward
        <4>2. grp[i].claim = "send" => grp = [grp EXCEPT ![i].claim = "send"]
          BY <1>g DEF Group
        <4> QED
          BY <4>1, <4>2
      <3> QED
        BY <1>8, <3>1, <3>2
    <2> DEFINE g == [grp[i] EXCEPT !.claim = c]
    <2>3. g \in Group /\ GroupOK(g) /\ (grp[i].loop = "off" => g.loop = "off")
      BY <1>g, <2>1 DEF Group, Task, GroupOK
    <2>4. grp' = [grp EXCEPT ![i] = g]
      BY <2>2, <1>g
    <2>5. UNCHANGED <<main, req, shut, listener, producer>>
      BY <1>8 DEF ClaimEnds, ClaimForwards
    <2>6. cancelled' \in BOOLEAN /\ unread' \in BOOLEAN
      BY <1>8, <1>t DEF ClaimEnds, ClaimForwards, Forward
    <2>7. work' \in Nat /\ faults' \in Nat /\ crash' \in {"no", "startup", "producer"}
      BY <1>8, <1>t DEF ClaimEnds, ClaimForwards, Forward, Fault
    <2> HIDE DEF g
    <2> QED
      BY <2>3, <2>4, <2>5, <2>6, <2>7, StartedGroup
  <1> QED
    BY <1>1, <1>2, <1>3, <1>4, <1>5, <1>6, <1>7, <1>8 DEF LoopStep, HookStep

\* Theorem: however often Consume returns, whatever fails and whenever the
\* signal comes, Setup never closes a closed Ready (kafka/consumer.go:72), and
\* a process that leaves g.Wait has finished its requests and messages and
\* left its consumer groups (main.go:145-182).
THEOREM LifecycleInvariant == Spec => []LifecycleInv
  <1>1. LifecycleInv /\ [Next]_vars => LifecycleInv'
    <2> SUFFICES ASSUME LifecycleInv, [Next]_vars PROVE LifecycleInv'
      OBVIOUS
    <2>1. CASE Next
      BY <2>1, MainInv, ServerInv, GroupInv DEF Next
    <2>2. CASE UNCHANGED vars
      BY <2>2 DEF vars, LifecycleInv, TypeOK, NoDoubleClose, ExitIsClean, ReadyInSession,
         ClaimInSession, NotStartedYet, HookCloses, ShutdownDrains
    <2> QED
      BY <2>1, <2>2
  <1> QED
    BY InitInv, <1>1, PTL DEF Spec
=============================================================================
