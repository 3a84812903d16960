------------------------------ MODULE Lifecycle ------------------------------
(***************************************************************************)
(* One process from start-up to exit (main.go): the HTTP listener, the     *)
(* goroutine that shuts the server down, and for every Kafka consumer      *)
(* group (kafka/kafka_consumer_group.go) a goroutine that calls Consume in *)
(* a loop and one that closes the group, all in one errgroup whose context *)
(* is cancelled by a signal or by the first of them to return an error.    *)
(* Requests and claims may forward messages through the Kafka producer     *)
(* (ForwardKafkaMessage, http/webconfig_server.go) until it is closed.     *)
(*                                                                         *)
(* External, as far as main.go relies on it: sarama.  Consume calls Setup  *)
(* once, hands the partitions to ConsumeClaim (one claim stands for them)  *)
(* and returns nil when the session ends, after the claims have returned;  *)
(* a group that was closed consumes no more, and Close waits for the       *)
(* session.  An AsyncProducer reports each failed message on Errors() and  *)
(* takes no further one while its buffer of reports is full (one report    *)
(* stands for the buffer); Close drains the reports and then closes        *)
(* Input(), on which a send then panics.  net/http recovers the panic of a *)
(* handler, whose request goes unanswered; any other panic ends the        *)
(* process, and crash says which.                                          *)
(***************************************************************************)
EXTENDS Integers

CONSTANTS NumGroups,             \* consumer groups in the configuration
          Requests,              \* HTTP requests in hand at one time
          KafkaProducerEnabled,
          MetricsEnabled,
          MaxWork,               \* bound on requests and messages handled
          MaxFaults              \* bound on failures and rebalances

ASSUME LifecycleAssumption ==
    /\ NumGroups \in Nat
    /\ KafkaProducerEnabled \in BOOLEAN
    /\ MetricsEnabled \in BOOLEAN
    /\ MaxWork \in Nat
    /\ MaxFaults \in Nat

Groups == 1..NumGroups

VARIABLES main,      \* where main stands, and with which group
          cancelled, \* is the context of the errgroup done?
          listener,  \* has ListenAndServe returned?
          shut,      \* the goroutine that shuts down producer and server
          grp,       \* the consumer groups
          req,       \* the HTTP requests
          producer,  \* the Kafka producer
          unread,    \* does a report wait on Errors()?
          crash,
          work,      \* requests and messages begun
          faults     \* failures and rebalances so far

vars == <<main, cancelled, listener, shut, grp, req, producer, unread, crash,
          work, faults>>

\* cur is the number of the group main is at
MainState == [pc : {"init", "start", "eval", "await", "wait", "exited"},
              cur : Nat \ {0}]

Task == {"none", "idle", "busy", "send"}

OpenClosed == {"open", "closed"}

\* ready: the channel consumer.Ready holds; awaited: the one main waits for;
\* client: the sarama consumer group
Group == [loop : {"off", "consume", "session", "again", "ended"},
          ready : OpenClosed, awaited : OpenClosed, client : OpenClosed,
          hook : {"off", "armed", "closing", "done"},
          claim : Task]

TypeOK ==
    /\ main \in MainState
    /\ cancelled \in BOOLEAN
    /\ listener \in {"on", "off"}
    /\ shut \in {"waiting", "producer", "http", "done"}
    /\ grp \in [Groups -> Group]
    /\ req \in [Requests -> Task]
    /\ producer \in {"open", "closing", "closed"}
    /\ unread \in BOOLEAN
    /\ crash \in {"no", "startup", "ready", "producer"}
    /\ work \in Nat
    /\ faults \in Nat

Init ==
    /\ main = [pc |-> "init", cur |-> 1]
    /\ cancelled = FALSE
    /\ listener = "on"
    /\ shut = "waiting"
    /\ grp = [i \in Groups |-> [loop |-> "off", ready |-> "open", awaited |-> "open",
                                client |-> "open", hook |-> "off", claim |-> "none"]]
    /\ req = [r \in Requests |-> "idle"]
    /\ producer = "open"
    /\ unread = FALSE
    /\ crash = "no"
    /\ work = 0
    /\ faults = 0

Running == crash = "no" /\ main.pc # "exited"

Fault == faults < MaxFaults /\ faults' = faults + 1

-----------------------------------------------------------------------------
(* main                                                                    *)

\* the first group, the next one, or g.Wait
NextGroup(i) == [pc |-> IF i <= NumGroups THEN "start" ELSE "wait", cur |-> i]

\* NewKafkaConsumerGroups; an error is a panic, while requests are served
CreateGroups ==
    /\ main.pc = "init"
    /\ \/ main' = NextGroup(1) /\ UNCHANGED <<crash, faults>>
       \/ Fault /\ crash' = "startup" /\ UNCHANGED main
    /\ UNCHANGED <<cancelled, listener, shut, grp, req, producer, unread, work>>

\* g.Go of the consumer loop
StartLoop ==
    /\ main.pc = "start"
    /\ grp' = [grp EXCEPT ![main.cur].loop = "consume"]
    /\ main' = [main EXCEPT !.pc = "eval"]
    /\ UNCHANGED <<cancelled, listener, shut, req, producer, unread, crash, work, faults>>

\* <-consumer.Ready: the field is read once, whichever channel it holds ...
EvalReady ==
    /\ main.pc = "eval"
    /\ grp' = [grp EXCEPT ![main.cur].awaited = grp[main.cur].ready]
    /\ main' = [main EXCEPT !.pc = "await"]
    /\ UNCHANGED <<cancelled, listener, shut, req, producer, unread, crash, work, faults>>

\* Mutant: the hook that closes the group is not set up
AwaitReadyNoHook ==
    /\ main.pc = "await"
    /\ grp[main.cur].awaited = "closed"
    /\ grp' = [grp EXCEPT ![main.cur].hook = "done"]
    /\ main' = NextGroup(main.cur + 1)
    /\ UNCHANGED <<cancelled, listener, shut, req, producer, unread, crash, work, faults>>

\* ... and when it is closed, g.Go of the goroutine that closes the group
AwaitReady ==
    /\ main.pc = "await"
    /\ grp[main.cur].awaited = "closed"
    /\ grp' = [grp EXCEPT ![main.cur].hook = "armed"]
    /\ main' = NextGroup(main.cur + 1)
    /\ UNCHANGED <<cancelled, listener, shut, req, producer, unread, crash, work, faults>>

\* g.Wait returns once every goroutine of the errgroup has
Exit ==
    /\ main.pc = "wait"
    /\ listener = "off"
    /\ shut = "done"
    /\ \A i \in Groups : grp[i].loop = "ended" /\ grp[i].hook = "done"
    /\ main' = [main EXCEPT !.pc = "exited"]
    /\ UNCHANGED <<cancelled, listener, shut, grp, req, producer, unread, crash, work, faults>>

MainStep == CreateGroups \/ StartLoop \/ EvalReady \/ AwaitReady \/ Exit

Signal ==
    /\ cancelled' = TRUE
    /\ UNCHANGED <<main, listener, shut, grp, req, producer, unread, crash, work, faults>>

-----------------------------------------------------------------------------
(* The HTTP server                                                         *)

Serving == listener = "on" /\ shut \in {"waiting", "producer"}

\* ListenAndServe returns: Shutdown was called, or the port is taken
ListenerReturns ==
    /\ listener = "on"
    /\ \/ shut \in {"http", "done"} /\ UNCHANGED faults
       \/ Serving /\ Fault
    /\ listener' = "off"
    /\ cancelled' = TRUE
    /\ UNCHANGED <<main, shut, grp, req, producer, unread, crash, work>>

\* <-gCtx.Done(), then AsyncProducer.Close() ...
CloseProducer ==
    /\ shut = "waiting"
    /\ cancelled
    /\ IF KafkaProducerEnabled
       THEN shut' = "producer" /\ producer' = "closing"
       ELSE shut' = "http" /\ UNCHANGED producer
    /\ UNCHANGED <<main, cancelled, listener, grp, req, unread, crash, work, faults>>

\* ... which returns when the reports are drained, then Shutdown ...
ProducerClosed ==
    /\ shut = "producer"
    /\ shut' = "http"
    /\ producer' = "closed"
    /\ unread' = FALSE
    /\ UNCHANGED <<main, cancelled, listener, grp, req, crash, work, faults>>

\* Mutant: Shutdown with a deadline that has passed
DrainRequestsInTime ==
    /\ shut = "http"
    /\ shut' = "done"
    /\ UNCHANGED <<main, cancelled, listener, grp, req, producer, unread, crash, work, faults>>

\* ... which waits, without a deadline, for the requests in hand
DrainRequests ==
    /\ shut = "http"
    /\ \A r \in Requests : req[r] = "idle"
    /\ shut' = "done"
    /\ UNCHANGED <<main, cancelled, listener, grp, req, producer, unread, crash, work, faults>>

Begin == work < MaxWork /\ work' = work + 1

\* a handler begins, ends, or has messages to forward first
RequestBegins(r) ==
    /\ req[r] = "idle"
    /\ Serving
    /\ Begin
    /\ req' = [req EXCEPT ![r] = "busy"]
    /\ UNCHANGED <<main, cancelled, listener, shut, grp, producer, unread, crash, faults>>

RequestEnds(r) ==
    /\ req[r] = "busy"
    /\ \/ req' = [req EXCEPT ![r] = "idle"]
       \/ KafkaProducerEnabled /\ req' = [req EXCEPT ![r] = "send"]
    /\ UNCHANGED <<main, cancelled, listener, shut, grp, producer, unread, crash, work, faults>>

-----------------------------------------------------------------------------
(* The consumer groups                                                     *)

\* Mutant: the channel of the last session is kept
ConsumeAgainSameReady(i) ==
    /\ grp[i].loop = "again"
    /\ grp' = [grp EXCEPT ![i].loop = "consume"]
    /\ UNCHANGED <<main, cancelled, listener, shut, req, producer, unread, crash, work, faults>>

\* Consume has returned nil: a new Ready, and Consume again
ConsumeAgain(i) ==
    /\ grp[i].loop = "again"
    /\ grp' = [grp EXCEPT ![i].loop = "consume", ![i].ready = "open"]
    /\ UNCHANGED <<main, cancelled, listener, shut, req, producer, unread, crash, work, faults>>

\* a session begins: Setup closes Ready
Setup(i) ==
    /\ grp[i].loop = "consume"
    /\ grp[i].client = "open"
    /\ IF grp[i].ready = "closed"
       THEN crash' = "ready" /\ UNCHANGED grp
       ELSE /\ grp' = [grp EXCEPT ![i].loop = "session", ![i].claim = "idle",
                                  ![i].ready = "closed", ![i].awaited = "closed"]
            /\ UNCHANGED crash
    /\ UNCHANGED <<main, cancelled, listener, shut, req, producer, unread, work, faults>>

\* Consume fails: always when the group is closed, possibly when the context
\* is done, and when the brokers cannot be reached
ConsumeFails(i) ==
    /\ grp[i].loop = "consume"
    /\ \/ (grp[i].client = "closed" \/ cancelled) /\ UNCHANGED faults
       \/ Fault
    /\ grp' = [grp EXCEPT ![i].loop = "ended"]
    /\ cancelled' = TRUE
    /\ UNCHANGED <<main, listener, shut, req, producer, unread, crash, work>>

\* the session ends, its claim having returned; a rebalance is a fault
SessionEnds(i) ==
    /\ grp[i].loop = "session"
    /\ grp[i].claim = "idle"
    /\ \/ (grp[i].client = "closed" \/ cancelled) /\ UNCHANGED faults
       \/ Fault
    /\ grp' = [grp EXCEPT ![i].loop = "again", ![i].claim = "none"]
    /\ UNCHANGED <<main, cancelled, listener, shut, req, producer, unread, crash, work>>

\* <-gCtx.Done(), then kcgroup.Close()
CloseGroup(i) ==
    /\ grp[i].hook = "armed"
    /\ cancelled
    /\ grp' = [grp EXCEPT ![i].hook = "closing", ![i].client = "closed"]
    /\ UNCHANGED <<main, cancelled, listener, shut, req, producer, unread, crash, work, faults>>

GroupClosed(i) ==
    /\ grp[i].hook = "closing"
    /\ grp[i].loop # "session"
    /\ grp' = [grp EXCEPT ![i].hook = "done"]
    /\ UNCHANGED <<main, cancelled, listener, shut, req, producer, unread, crash, work, faults>>

\* ConsumeClaim takes a message, and is done with it or forwards it
ClaimBegins(i) ==
    /\ grp[i].claim = "idle"
    /\ Begin
    /\ grp' = [grp EXCEPT ![i].claim = "busy"]
    /\ UNCHANGED <<main, cancelled, listener, shut, req, producer, unread, crash, faults>>

ClaimEnds(i) ==
    /\ grp[i].claim = "busy"
    /\ \/ grp' = [grp EXCEPT ![i].claim = "idle"]
       \/ KafkaProducerEnabled /\ grp' = [grp EXCEPT ![i].claim = "send"]
    /\ UNCHANGED <<main, cancelled, listener, shut, req, producer, unread, crash, work, faults>>

-----------------------------------------------------------------------------
(* The producer                                                            *)

\* s.Input() <- outMessage: taken, delivered or not; blocked behind reports
\* nobody reads; a panic once Input() is closed
Forward(done, panic) ==
    \/ /\ producer = "open"
       /\ ~unread
       /\ done
       /\ \/ UNCHANGED <<unread, faults>>
          \/ Fault /\ unread' = TRUE
    \/ /\ producer = "closing"
       /\ done
       /\ UNCHANGED <<unread, faults>>
    \/ /\ producer = "closed"
       /\ panic
       /\ UNCHANGED <<unread, faults>>

\* ForwardSuccessKafkaMessages; the request ends in each case
RequestForwards(r) ==
    /\ req[r] = "send"
    /\ LET ends == req' = [req EXCEPT ![r] = "idle"] IN Forward(ends, ends)
    /\ UNCHANGED <<main, cancelled, listener, shut, grp, producer, crash, work>>

\* ForwardKafkaMessage
ClaimForwards(i) ==
    /\ grp[i].claim = "send"
    /\ Forward(grp' = [grp EXCEPT ![i].claim = "idle"] /\ UNCHANGED crash,
               crash' = "producer" /\ UNCHANGED grp)
    /\ UNCHANGED <<main, cancelled, listener, shut, req, producer, work>>

\* Mutant: nobody reads the reports
ReadsNoResults ==
    /\ FALSE
    /\ UNCHANGED vars

\* HandleKafkaProducerResults, which main starts when metrics are enabled
HandleKafkaProducerResults ==
    /\ MetricsEnabled
    /\ unread
    /\ unread' = FALSE
    /\ UNCHANGED <<main, cancelled, listener, shut, grp, req, producer, crash, work, faults>>

-----------------------------------------------------------------------------
ShutdownStep == CloseProducer \/ ProducerClosed \/ DrainRequests

LoopStep(i) == Setup(i) \/ ConsumeFails(i) \/ SessionEnds(i) \/ ConsumeAgain(i)

HookStep(i) == CloseGroup(i) \/ GroupClosed(i)

Next ==
    /\ Running
    /\ \/ MainStep
       \/ Signal
       \/ ListenerReturns
       \/ ShutdownStep
       \/ \E r \in Requests : RequestBegins(r) \/ RequestEnds(r) \/ RequestForwards(r)
       \/ \E i \in Groups : LoopStep(i) \/ HookStep(i)
       \/ \E i \in Groups : ClaimBegins(i) \/ ClaimEnds(i) \/ ClaimForwards(i)
       \/ HandleKafkaProducerResults

Spec == Init /\ [][Next]_vars

(* Every goroutine keeps going, handlers and claims come to an end, and    *)
(* sarama joins a group or fails.  Requests, messages, signals and failures*)
(* need not come.                                                          *)
Fairness ==
    /\ WF_vars(Running /\ MainStep)
    /\ WF_vars(Running /\ ListenerReturns)
    /\ WF_vars(Running /\ ShutdownStep)
    /\ \A r \in Requests : WF_vars(Running /\ (RequestEnds(r) \/ RequestForwards(r)))
    /\ \A i \in Groups :
          /\ WF_vars(Running /\ LoopStep(i))
          /\ WF_vars(Running /\ HookStep(i))
          /\ WF_vars(Running /\ (ClaimEnds(i) \/ ClaimForwards(i)))
    /\ WF_vars(Running /\ HandleKafkaProducerResults)

FairSpec == Spec /\ Fairness

-----------------------------------------------------------------------------
(* Consume is called again and again, each time with a new Ready: Setup    *)
(* never closes a channel that is closed, which would panic.               *)
NoDoubleClose == crash # "ready"

(* When the process exits by itself no handler is cut off, no message is   *)
(* half handled, and every consumer group has been left (main.go:138, 177).*)
ExitIsClean ==
    main.pc = "exited" => /\ \A r \in Requests : req[r] = "idle"
                          /\ \A i \in Groups : grp[i].claim = "none" /\ grp[i].client = "closed"

\* a channel is closed during the session that closed it and until Consume
\* has returned
ReadyInSession ==
    \A i \in Groups : grp[i].ready = "closed" => grp[i].loop \in {"session", "again"}

ClaimInSession ==
    \A i \in Groups : grp[i].claim # "none" => grp[i].loop = "session"

\* main starts the groups in order
NotStartedYet ==
    /\ main.pc = "init" => main.cur = 1
    /\ main.pc \in {"start", "eval", "await"} => main.cur \in Groups
    /\ \A i \in Groups :
          (i > main.cur \/ (i = main.cur /\ main.pc \in {"init", "start"}))
              => grp[i].loop = "off"

HookCloses == \A i \in Groups : grp[i].hook \in {"closing", "done"} => grp[i].client = "closed"

ShutdownDrains == shut = "done" => \A r \in Requests : req[r] = "idle"

(* The inductive invariant: no second close of Ready, a clean exit, and    *)
(* what they rest on (main.go:148-177, Setup of kafka/consumer.go).        *)
LifecycleInv ==
    /\ TypeOK
    /\ NoDoubleClose
    /\ ExitIsClean
    /\ ReadyInSession
    /\ ClaimInSession
    /\ NotStartedYet
    /\ HookCloses
    /\ ShutdownDrains

(* Once start-up is over, a signal or an error brings the process to its   *)
(* end, although each goroutine waits for another one: main for all of     *)
(* them, Shutdown for the handlers, Close for the session, the session for *)
(* its claims, a claim or handler that forwards for the producer.          *)
ShutdownCompletes ==
    (cancelled /\ main.pc = "wait") ~> ~Running

(* A handler or claim that forwards a message is not held up for ever by   *)
(* the failure of an earlier one.                                          *)
ForwardingEnds ==
    /\ \A r \in Requests : req[r] = "send" ~> (req[r] # "send" \/ ~Running)
    /\ \A i \in Groups : grp[i].claim = "send" ~> (grp[i].claim # "send" \/ ~Running)

(* "This is to setup notify AFTER the sarama is running; it is more or     *)
(* less optional, without this reading from the chan, the consumer runs    *)
(* anyway": waiting for Ready makes no difference to the process, which    *)
(* ends on a signal or when a consumer group cannot run.                   *)
CancelledExits == cancelled ~> ~Running
=============================================================================
