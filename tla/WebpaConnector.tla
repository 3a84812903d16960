--------------------------- MODULE WebpaConnector ---------------------------
(***************************************************************************)
(* How one poke request reaches webpa: WebpaConnector.Patch and the retry  *)
(* loops it may enter, over HttpClient.Do.                                 *)
(*                                                                         *)
(* Patch sends one PATCH.  If webpa says that the device is busy (a 520    *)
(* that is not a refusal, renumbered 524) the call either waits for a slot *)
(* of a bounded queue and leaves the retries to a goroutine that gives the *)
(* slot back when it ends (async_poke_enabled), or retries itself in       *)
(* SyncDoWithRetries.  Any other retryable error is retried by             *)
(* HttpClient.DoWithRetries.  The calls share nothing but the queue.       *)
(*                                                                         *)
(* A request and its answer are one step: nothing else depends on what     *)
(* happens in between.  Transaction ids, logging and the pauses between    *)
(* retries are left out.                                                   *)
(***************************************************************************)
EXTENDS Integers, FiniteSets

CONSTANTS Calls,           \* requests of the poke API under way
          Retries,         \* webconfig.webpa.retries
          ConcurrentCalls  \* async_poke_concurrent_calls, 0: the channel is nil

ASSUME WebpaAssumption ==
    /\ IsFiniteSet(Calls)
    /\ Retries \in Nat
    /\ ConcurrentCalls \in Nat

VARIABLES asyncPokeEnabled,  \* field of the connector, from the configuration
          call,              \* the goroutines in Patch
          worker,            \* the goroutines in AsyncDoWithRetries
          queue,             \* slots taken of the channel
          sent,              \* PATCHes sent for each call
          accepted,          \* has webpa answered 200 to one of them?
          heard              \* the last answer Patch itself received

vars == <<asyncPokeEnabled, call, worker, queue, sent, accepted, heard>>

-----------------------------------------------------------------------------
(* HttpClient                                                              *)

\* What webpa may answer, by how Do tells the answers apart:
\*   "ok"         200
\*   "other"      any other status below 400
\*   "refused"    400, 403, 404
\*   "error"      any other status from 400 on, a timeout, a broken connection
\*   "namespace"  520 whose message is "Error unsupported namespace" or
\*                "Request rejected"
\*   "busy"       any other 520
\*   "524"        that very status
Answers == {"ok", "other", "refused", "error", "namespace", "busy", "524"}

Errors == {"nil", "other", "refused", "error", "namespace", "524"}

\* the error that Do, or the handler it has for status 520, returns
ErrOf(answer) == IF answer = "ok" THEN "nil"
                 ELSE IF answer = "busy" THEN "524" ELSE answer

\* Mutant: an answer below 400 is tried again
ContUnlessRefused(client, answer) ==
    answer \in {"ok", "other", "error", "524"} \/ (answer = "busy" /\ client = "async")

\* "cont": shall the caller try again?  The handlers for 520 differ:
\* asyncHandle520 says yes to a busy device, syncHandle520 no.
Cont(client, answer) ==
    answer \in {"error", "524"} \/ (answer = "busy" /\ client = "async")

-----------------------------------------------------------------------------
CallState   == [pc  : {"idle", "busy", "retry", "queue", "done"},
                i   : 0 .. Retries + 1,   \* loop variable
                err : Errors]             \* error of the loop, then of Patch
WorkerState == [pc : {"none", "run", "done"}, i : 0 .. Retries + 1]

\* Keeps every variable within its type.
TypeOK == /\ asyncPokeEnabled \in BOOLEAN
          /\ call \in [Calls -> CallState]
          /\ worker \in [Calls -> WorkerState]
          /\ queue \in Nat
          /\ sent \in [Calls -> Nat]
          /\ accepted \in [Calls -> BOOLEAN]
          /\ heard \in [Calls -> Answers \cup {"nothing"}]

Init == /\ asyncPokeEnabled \in BOOLEAN
        /\ call = [c \in Calls |-> [pc |-> "idle", i |-> 0, err |-> "nil"]]
        /\ worker = [c \in Calls |-> [pc |-> "none", i |-> 0]]
        /\ queue = 0
        /\ sent = [c \in Calls |-> 0]
        /\ accepted = [c \in Calls |-> FALSE]
        /\ heard = [c \in Calls |-> "nothing"]

\* HttpClient.Do as seen from outside
Do(c, answer) == /\ sent' = [sent EXCEPT ![c] = @ + 1]
                 /\ accepted' = [accepted EXCEPT ![c] = @ \/ answer = "ok"]

SyncDo(c, answer) == /\ Do(c, answer)
                     /\ heard' = [heard EXCEPT ![c] = answer]

NoRequest == UNCHANGED <<sent, accepted, heard>>

Goto(c, pc, i, err) ==
    call' = [call EXCEPT ![c] = [pc |-> pc, i |-> i, err |-> err]]

Return(c, err) == Goto(c, "done", 0, err)

-----------------------------------------------------------------------------
(* Patch                                                                   *)

\* The first PATCH, and what its answer leads to.
Patch(c, answer) ==
    /\ call[c].pc = "idle"
    /\ SyncDo(c, answer)
    /\ IF ErrOf(answer) = "524"
       THEN IF asyncPokeEnabled THEN Goto(c, "queue", 0, "524")
                                ELSE Goto(c, "busy", 1, "nil")
       ELSE IF Cont("sync", answer) THEN Goto(c, "retry", 0, "nil")
                                    ELSE Return(c, ErrOf(answer))
    /\ UNCHANGED <<asyncPokeEnabled, worker, queue>>

\* Mutant: no waiting for a slot
EnqueueWithoutWaiting(c) ==
    /\ call[c].pc = "queue"
    /\ queue' = queue + 1
    /\ worker' = [worker EXCEPT ![c] = [pc |-> "run", i |-> 1]]
    /\ Return(c, "524")
    /\ UNCHANGED asyncPokeEnabled
    /\ NoRequest

\* c.queue <- struct{}{}, which blocks while the channel is full and for
\* ever if it is nil; then the goroutine is started and the caller is told
\* 524.
Enqueue(c) ==
    /\ call[c].pc = "queue"
    /\ queue < ConcurrentCalls
    /\ queue' = queue + 1
    /\ worker' = [worker EXCEPT ![c] = [pc |-> "run", i |-> 1]]
    /\ Return(c, "524")
    /\ UNCHANGED asyncPokeEnabled
    /\ NoRequest

\* Mutant: the loop has no end
SyncRetryForever(c, answer) ==
    /\ call[c].pc = "busy"
    /\ SyncDo(c, answer)
    /\ Goto(c, "busy",
            IF Cont("sync", answer) \/ ErrOf(answer) = "524"
            THEN call[c].i + 1 ELSE Retries + 1,
            ErrOf(answer))
    /\ UNCHANGED <<asyncPokeEnabled, worker, queue>>

\* SyncDoWithRetries: goes on while Do says so and while the device is busy
SyncRetry(c, answer) ==
    /\ call[c].pc = "busy"
    /\ call[c].i <= Retries
    /\ SyncDo(c, answer)
    /\ Goto(c, "busy",
            IF Cont("sync", answer) \/ ErrOf(answer) = "524"
            THEN call[c].i + 1 ELSE Retries + 1,
            ErrOf(answer))
    /\ UNCHANGED <<asyncPokeEnabled, worker, queue>>

\* Its error is returned; if it has none, the error of the first PATCH is.
SyncRetryReturns(c) ==
    /\ call[c].pc = "busy"
    /\ call[c].i > Retries
    /\ Return(c, IF call[c].err = "nil" THEN "524" ELSE call[c].err)
    /\ UNCHANGED <<asyncPokeEnabled, worker, queue>>
    /\ NoRequest

\* Mutant: one attempt too many
DoWithRetriesOneMore(c, answer) ==
    /\ call[c].pc = "retry"
    /\ SyncDo(c, answer)
    /\ IF Cont("sync", answer) /\ call[c].i <= Retries
       THEN Goto(c, "retry", call[c].i + 1, ErrOf(answer))
       ELSE Return(c, ErrOf(answer))
    /\ UNCHANGED <<asyncPokeEnabled, worker, queue>>

\* Mutant: the error of the last attempt is forgotten
DoWithRetriesForgets(c, answer) ==
    /\ call[c].pc = "retry"
    /\ call[c].i <= Retries
    /\ SyncDo(c, answer)
    /\ IF Cont("sync", answer) /\ call[c].i < Retries
       THEN Goto(c, "retry", call[c].i + 1, ErrOf(answer))
       ELSE Return(c, IF Cont("sync", answer) THEN "nil" ELSE ErrOf(answer))
    /\ UNCHANGED <<asyncPokeEnabled, worker, queue>>

\* HttpClient.DoWithRetries, entered by Patch after it has failed once: its
\* attempts are numbered from 0.
DoWithRetries(c, answer) ==
    /\ call[c].pc = "retry"
    /\ call[c].i <= Retries
    /\ SyncDo(c, answer)
    /\ IF Cont("sync", answer) /\ call[c].i < Retries
       THEN Goto(c, "retry", call[c].i + 1, ErrOf(answer))
       ELSE Return(c, ErrOf(answer))
    /\ UNCHANGED <<asyncPokeEnabled, worker, queue>>

-----------------------------------------------------------------------------
(* AsyncDoWithRetries                                                      *)

AsyncRetry(c, answer) ==
    /\ worker[c].pc = "run"
    /\ worker[c].i <= Retries
    /\ Do(c, answer)
    /\ worker' = [worker EXCEPT ![c].i =
                     IF Cont("async", answer) THEN @ + 1 ELSE Retries + 1]
    /\ UNCHANGED <<asyncPokeEnabled, call, queue, heard>>

\* Mutant: the goroutine ends without <-c.queue unless its retries ran out
AsyncReturnsEarly(c) ==
    /\ worker[c].pc = "run"
    /\ worker[c].i > Retries
    /\ queue' = IF accepted[c] THEN queue ELSE queue - 1
    /\ worker' = [worker EXCEPT ![c].pc = "done"]
    /\ UNCHANGED <<asyncPokeEnabled, call>>
    /\ NoRequest

\* <-c.queue
AsyncReturns(c) ==
    /\ worker[c].pc = "run"
    /\ worker[c].i > Retries
    /\ queue > 0
    /\ queue' = queue - 1
    /\ worker' = [worker EXCEPT ![c].pc = "done"]
    /\ UNCHANGED <<asyncPokeEnabled, call>>
    /\ NoRequest

-----------------------------------------------------------------------------
CallStep(c) == \/ \E a \in Answers : Patch(c, a) \/ SyncRetry(c, a) \/ DoWithRetries(c, a)
               \/ Enqueue(c)
               \/ SyncRetryReturns(c)

WorkerStep(c) == \/ \E a \in Answers : AsyncRetry(c, a)
                 \/ AsyncReturns(c)

\* all that was asked for is done: not a deadlock
Served == /\ \A c \in Calls : call[c].pc = "done" /\ worker[c].pc # "run"
          /\ UNCHANGED vars

Next == \/ \E c \in Calls : CallStep(c) \/ WorkerStep(c)
        \/ Served

Spec == Init /\ [][Next]_vars

\* Goroutines that can run do; nobody has to send a poke.
FairSpec == /\ Spec
            /\ \A c \in Calls : /\ WF_vars(call[c].pc # "idle" /\ CallStep(c))
                                /\ WF_vars(WorkerStep(c))

-----------------------------------------------------------------------------
(* Properties                                                              *)

Running == {c \in Calls : worker[c].pc = "run"}

\* Every slot taken of the queue belongs to a goroutine that will give it
\* back, and there are never more goroutines than async_poke_concurrent_calls:
\* slots are taken in Patch and given back at the end of AsyncDoWithRetries,
\* whichever way its loop is left.
SlotsAreWorkers == /\ queue = Cardinality(Running)
                   /\ queue <= ConcurrentCalls

\* The caller is answered 200 only if webpa took the PATCH: three loops and
\* two shadowed err variables lie between the answer and the caller.
OkMeansAccepted == \A c \in Calls :
    call[c].pc = "done" /\ call[c].err = "nil" => accepted[c]

\* The attempts of one poke are bounded: one more than the retries when the
\* device is busy, two more for other errors, since DoWithRetries starts
\* again at 0 after the first PATCH.
AttemptsBounded == \A c \in Calls :
    /\ sent[c] <= Retries + 2
    /\ worker[c].pc # "none" => sent[c] <= Retries + 1

\* What the loops keep meanwhile: how the attempts sent relate to the loop
\* variable of the goroutine that sends them, that the goroutine of a call
\* starts when the call ends, and that webpa's 200 leaves no loop running.
LoopInv(c) ==
    /\ call[c].pc # "done" => worker[c].pc = "none"
    /\ call[c].pc = "idle" => sent[c] = 0
    /\ call[c].pc = "queue" => sent[c] = 1
    /\ call[c].pc = "busy" => sent[c] <= call[c].i
    /\ call[c].pc = "retry" => sent[c] = call[c].i + 1 /\ call[c].i <= Retries
    /\ worker[c].pc = "run" => sent[c] <= worker[c].i
    /\ accepted[c] => /\ call[c].pc \in {"busy", "done"}
                      /\ call[c].pc = "busy" => call[c].i > Retries
                      /\ worker[c].pc = "run" => worker[c].i > Retries

\* The inductive invariant: all of the above at once, with the loop variables
\* of Patch, of the two retry loops and of the goroutine within their bounds.
ConnectorInv == /\ TypeOK
                /\ SlotsAreWorkers
                /\ OkMeansAccepted
                /\ AttemptsBounded
                /\ \A c \in Calls : LoopInv(c)

\* Once webpa has taken the PATCH the device is not prompted again for the
\* same poke, by the handler or by the goroutine it left behind.
NoPatchAfterAccepted ==
    [][\A c \in Calls : accepted[c] => sent'[c] = sent[c]]_vars

\* A poke that was sent is answered in the end, also when the queue is full
\* and the call has to wait for a goroutine to end.
EveryPokeAnswered == \A c \in Calls : call[c].pc # "idle" ~> call[c].pc = "done"

\* "a new error code to indicate it is webpa 520 but it is caused by some
\* temporary conditions": the caller is told 524 only if the last thing Patch
\* heard was that the device is busy.
BusyMeansBusy == \A c \in Calls :
    call[c].pc = "done" /\ call[c].err = "524" => heard[c] \in {"busy", "524"}
=============================================================================
