------------------------ MODULE WebpaConnector_proofs ------------------------
(***************************************************************************)
(* Proofs about WebpaConnector: its invariant, and that a poke taken by    *)
(* webpa is not sent again.  They hold for any number of calls, retries    *)
(* and slots, with or without asynchronous retries.                        *)
(***************************************************************************)
EXTENDS WebpaConnector, FiniteSetTheorems, TLAPS

USE DEF CallState, WorkerState

\* Do and its two tables keep their types.
LEMMA ErrOfType == \A a \in Answers : ErrOf(a) \in Errors
  BY DEF Answers, Errors, ErrOf

\* Only 200 is no error, and it is never tried again.
LEMMA OkIsNil == \A a \in Answers :
    /\ ErrOf(a) = "nil" <=> a = "ok"
    /\ ~Cont("sync", "ok") /\ ~Cont("async", "ok")
  BY DEF Answers, ErrOf, Cont

\* Every step keeps the variables within their types.
LEMMA TypeStep == TypeOK /\ [Next]_vars => TypeOK'
<1> SUFFICES ASSUME TypeOK, [Next]_vars
             PROVE  TypeOK'
  OBVIOUS
<1> USE WebpaAssumption
<1>1. ASSUME NEW c \in Calls, NEW a \in Answers, Patch(c, a)
      PROVE  TypeOK'
  <2>1. /\ ErrOf(a) \in Errors /\ "nil" \in Errors /\ "524" \in Errors
        /\ 0 \in 0 .. Retries + 1 /\ 1 \in 0 .. Retries + 1
    BY ErrOfType DEF Errors
  <2>2. PICK new \in CallState : call' = [call EXCEPT ![c] = new]
    BY <1>1, <2>1 DEF Patch, Goto, Return
  <2> QED
    BY <1>1, <2>2 DEF Patch, SyncDo, Do, TypeOK
<1>2. ASSUME NEW c \in Calls, NEW a \in Answers, SyncRetry(c, a)
      PROVE  TypeOK'
  BY <1>2, ErrOfType DEF SyncRetry, SyncDo, Do, Goto, TypeOK
<1>3. ASSUME NEW c \in Calls, NEW a \in Answers, DoWithRetries(c, a)
      PROVE  TypeOK'
  <2>1. /\ ErrOf(a) \in Errors
        /\ 0 \in 0 .. Retries + 1
        /\ call[c].i < Retries => call[c].i + 1 \in 0 .. Retries + 1
    BY ErrOfType DEF TypeOK
  <2>2. PICK new \in CallState : call' = [call EXCEPT ![c] = new]
    BY <1>3, <2>1 DEF DoWithRetries, Goto, Return
  <2> QED
    BY <1>3, <2>2 DEF DoWithRetries, SyncDo, Do, TypeOK
<1>4. ASSUME NEW c \in Calls, Enqueue(c)
      PROVE  TypeOK'
  BY <1>4 DEF Enqueue, Return, Goto, NoRequest, TypeOK, Errors
<1>5. ASSUME NEW c \in Calls, SyncRetryReturns(c)
      PROVE  TypeOK'
  BY <1>5 DEF SyncRetryReturns, Return, Goto, NoRequest, TypeOK, Errors
<1>6. ASSUME NEW c \in Calls, NEW a \in Answers, AsyncRetry(c, a)
      PROVE  TypeOK'
  BY <1>6 DEF AsyncRetry, Do, TypeOK
<1>7. ASSUME NEW c \in Calls, AsyncReturns(c)
      PROVE  TypeOK'
  BY <1>7 DEF AsyncReturns, NoRequest, TypeOK
<1>8. CASE UNCHANGED vars
  BY <1>8 DEF vars, TypeOK
<1> QED
  BY <1>1, <1>2, <1>3, <1>4, <1>5, <1>6, <1>7, <1>8
  DEF Next, CallStep, WorkerStep, Served

\* Taking a slot starts a goroutine and giving it back ends one; no other
\* step touches either.
LEMMA SlotStep ==
    ASSUME TypeOK, SlotsAreWorkers, \A c \in Calls : LoopInv(c), [Next]_vars
    PROVE  SlotsAreWorkers'
<1> USE WebpaAssumption
<1>0. IsFiniteSet(Running) /\ Cardinality(Running) \in Nat
  BY FS_Subset, FS_CardinalityType DEF Running
<1>1. ASSUME NEW c \in Calls, Enqueue(c)
      PROVE  SlotsAreWorkers'
  <2>1. c \notin Running
    BY <1>1 DEF Enqueue, LoopInv, Running
  <2>2. Running' = Running \cup {c}
    BY <1>1 DEF Enqueue, Running, TypeOK
  <2>3. Cardinality(Running') = Cardinality(Running) + 1
    BY <1>0, <2>1, <2>2, FS_AddElement
  <2> QED
    BY <1>1, <2>3 DEF Enqueue, SlotsAreWorkers, TypeOK
<1>2. ASSUME NEW c \in Calls, AsyncReturns(c)
      PROVE  SlotsAreWorkers'
  <2>1. c \in Running
    BY <1>2 DEF AsyncReturns, Running
  <2>2. Running' = Running \ {c}
    BY <1>2 DEF AsyncReturns, Running, TypeOK
  <2>3. Cardinality(Running') = Cardinality(Running) - 1
    BY <1>0, <2>1, <2>2, FS_RemoveElement
  <2> QED
    BY <1>2, <2>3 DEF AsyncReturns, SlotsAreWorkers, TypeOK
<1>3. ASSUME NEW c \in Calls, NEW a \in Answers, AsyncRetry(c, a)
      PROVE  SlotsAreWorkers'
  <2>1. Running' = Running
    BY <1>3 DEF AsyncRetry, Running, TypeOK
  <2> QED
    BY <1>3, <2>1 DEF AsyncRetry, SlotsAreWorkers
<1>4. ASSUME UNCHANGED <<worker, queue>>
      PROVE  SlotsAreWorkers'
  BY <1>4 DEF Running, SlotsAreWorkers
<1> QED
  BY <1>1, <1>2, <1>3, <1>4
  DEF Next, CallStep, WorkerStep, Served, vars, Patch, SyncRetry,
      DoWithRetries, SyncRetryReturns

\* What one call keeps: its loops, its attempts, what its caller is told.
CallInv(c) ==
    /\ LoopInv(c)
    /\ call[c].pc = "done" /\ call[c].err = "nil" => accepted[c]
    /\ sent[c] <= Retries + 2
    /\ worker[c].pc # "none" => sent[c] <= Retries + 1

\* A step of one call does not concern another.
LEMMA OtherCalls ==
    ASSUME NEW d \in Calls, CallInv(d),
           call'[d] = call[d], worker'[d] = worker[d], sent'[d] = sent[d],
           accepted'[d] = accepted[d]
    PROVE  CallInv(d)'
  BY DEF CallInv, LoopInv

\* Every step keeps what the calls keep.
LEMMA CallInvStep ==
    ASSUME TypeOK, \A c \in Calls : CallInv(c), [Next]_vars
    PROVE  \A c \in Calls : CallInv(c)'
<1> SUFFICES ASSUME NEW d \in Calls
             PROVE  CallInv(d)'
  OBVIOUS
<1> USE WebpaAssumption
<1>0. CallInv(d)
  OBVIOUS
<1>1. ASSUME NEW c \in Calls, NEW a \in Answers, Patch(c, a)
      PROVE  CallInv(d)'
  <2>1. CASE d # c
    BY <1>0, <1>1, <2>1, OtherCalls
    DEF Patch, SyncDo, Do, Goto, Return, TypeOK
  <2>2. CASE d = c
    <3>0. sent'[c] = 1 /\ worker'[c] = worker[c] /\ worker[c].pc = "none"
      BY <1>0, <1>1, <2>2
      DEF Patch, SyncDo, Do, TypeOK, CallInv, LoopInv
    <3>1. ~accepted[c] /\ accepted'[c] = (accepted[c] \/ a = "ok")
      BY <1>0, <1>1, <2>2
      DEF Patch, SyncDo, Do, TypeOK, CallInv, LoopInv
    <3>2. accepted'[c] <=> a = "ok"
      BY <3>1
    <3>3. CASE ErrOf(a) = "524"
      <4>1. \/ call'[c] = [pc |-> "queue", i |-> 0, err |-> "524"]
            \/ call'[c] = [pc |-> "busy", i |-> 1, err |-> "nil"]
        BY <1>1, <3>3 DEF Patch, Goto, TypeOK
      <4> QED
        BY <2>2, <3>0, <3>2, <3>3, <4>1, OkIsNil DEF CallInv, LoopInv
    <3>4. CASE ErrOf(a) # "524" /\ Cont("sync", a)
      <4>1. call'[c] = [pc |-> "retry", i |-> 0, err |-> "nil"]
        BY <1>1, <3>4 DEF Patch, Goto, TypeOK
      <4> QED
        BY <2>2, <3>0, <3>2, <3>4, <4>1, OkIsNil DEF CallInv, LoopInv
    <3>5. CASE ErrOf(a) # "524" /\ ~Cont("sync", a)
      <4>1. call'[c] = [pc |-> "done", i |-> 0, err |-> ErrOf(a)]
        BY <1>1, <3>5 DEF Patch, Goto, Return, TypeOK
      <4> QED
        BY <2>2, <3>0, <3>2, <4>1, OkIsNil DEF CallInv, LoopInv
    <3> QED
      BY <3>3, <3>4, <3>5
  <2> QED
    BY <2>1, <2>2
<1>2. ASSUME NEW c \in Calls, NEW a \in Answers, SyncRetry(c, a)
      PROVE  CallInv(d)'
  <2>1. CASE d # c
    BY <1>0, <1>2, <2>1, OtherCalls DEF SyncRetry, SyncDo, Do, Goto, TypeOK
  <2>2. CASE d = c
    BY <1>0, <1>2, <2>2, OkIsNil
    DEF SyncRetry, SyncDo, Do, Goto, TypeOK, CallInv, LoopInv
  <2> QED
    BY <2>1, <2>2
<1>3. ASSUME NEW c \in Calls, NEW a \in Answers, DoWithRetries(c, a)
      PROVE  CallInv(d)'
  <2>1. CASE d # c
    BY <1>0, <1>3, <2>1, OtherCalls
    DEF DoWithRetries, SyncDo, Do, Goto, Return, TypeOK
  <2>2. CASE d = c
    <3>0. /\ sent'[c] = call[c].i + 2 /\ call[c].i \in 0 .. Retries
          /\ worker'[c] = worker[c] /\ worker[c].pc = "none"
      BY <1>0, <1>3, <2>2
      DEF DoWithRetries, SyncDo, Do, TypeOK, CallInv, LoopInv
    <3>1. ~accepted[c] /\ accepted'[c] = (accepted[c] \/ a = "ok")
      BY <1>0, <1>3, <2>2
      DEF DoWithRetries, SyncDo, Do, TypeOK, CallInv, LoopInv
    <3>2. accepted'[c] <=> a = "ok"
      BY <3>1
    <3>3. CASE Cont("sync", a) /\ call[c].i < Retries
      <4>1. call'[c] = [pc |-> "retry", i |-> call[c].i + 1, err |-> ErrOf(a)]
        BY <1>3, <3>3 DEF DoWithRetries, Goto, TypeOK
      <4> QED
        BY <2>2, <3>0, <3>2, <3>3, <4>1, OkIsNil DEF CallInv, LoopInv
    <3>4. CASE ~(Cont("sync", a) /\ call[c].i < Retries)
      <4>1. call'[c] = [pc |-> "done", i |-> 0, err |-> ErrOf(a)]
        BY <1>3, <3>4 DEF DoWithRetries, Goto, Return, TypeOK
      <4> QED
        BY <2>2, <3>0, <3>2, <4>1, OkIsNil DEF CallInv, LoopInv
    <3> QED
      BY <3>3, <3>4
  <2> QED
    BY <2>1, <2>2
<1>4. ASSUME NEW c \in Calls, Enqueue(c)
      PROVE  CallInv(d)'
  <2>1. CASE d # c
    BY <1>0, <1>4, <2>1, OtherCalls
    DEF Enqueue, Return, Goto, NoRequest, TypeOK
  <2>2. CASE d = c
    BY <1>0, <1>4, <2>2
    DEF Enqueue, Return, Goto, NoRequest, TypeOK, CallInv, LoopInv
  <2> QED
    BY <2>1, <2>2
<1>5. ASSUME NEW c \in Calls, SyncRetryReturns(c)
      PROVE  CallInv(d)'
  <2>1. CASE d # c
    BY <1>0, <1>5, <2>1, OtherCalls
    DEF SyncRetryReturns, Return, Goto, NoRequest, TypeOK
  <2>2. CASE d = c
    BY <1>0, <1>5, <2>2
    DEF SyncRetryReturns, Return, Goto, NoRequest, TypeOK, CallInv, LoopInv
  <2> QED
    BY <2>1, <2>2
<1>6. ASSUME NEW c \in Calls, NEW a \in Answers, AsyncRetry(c, a)
      PROVE  CallInv(d)'
  <2>1. CASE d # c
    BY <1>0, <1>6, <2>1, OtherCalls DEF AsyncRetry, Do, TypeOK
  <2>2. CASE d = c
    BY <1>0, <1>6, <2>2, OkIsNil
    DEF AsyncRetry, Do, TypeOK, CallInv, LoopInv
  <2> QED
    BY <2>1, <2>2
<1>7. ASSUME NEW c \in Calls, AsyncReturns(c)
      PROVE  CallInv(d)'
  <2>1. CASE d # c
    BY <1>0, <1>7, <2>1, OtherCalls DEF AsyncReturns, NoRequest, TypeOK
  <2>2. CASE d = c
    BY <1>0, <1>7, <2>2
    DEF AsyncReturns, NoRequest, TypeOK, CallInv, LoopInv
  <2> QED
    BY <2>1, <2>2
<1>8. CASE UNCHANGED vars
  BY <1>0, <1>8, OtherCalls DEF vars
<1> QED
  BY <1>1, <1>2, <1>3, <1>4, <1>5, <1>6, <1>7, <1>8
  DEF Next, CallStep, WorkerStep, Served

\* Slots of the retry queue are held by running goroutines and no one else,
\* attempts are bounded, and 200 means that webpa took the PATCH.
THEOREM ConnectorInvariant == Spec => []ConnectorInv
<1>1. Init => ConnectorInv
  <2> SUFFICES ASSUME Init
               PROVE  ConnectorInv
    OBVIOUS
  <2> USE WebpaAssumption DEF Init
  <2>1. TypeOK
    BY DEF TypeOK, Errors
  <2>2. Running = {}
    BY DEF Running
  <2>3. SlotsAreWorkers
    BY <2>2, FS_EmptySet DEF SlotsAreWorkers
  <2>4. OkMeansAccepted /\ AttemptsBounded /\ \A c \in Calls : LoopInv(c)
    BY DEF OkMeansAccepted, AttemptsBounded, LoopInv
  <2> QED
    BY <2>1, <2>3, <2>4 DEF ConnectorInv
<1>2. ConnectorInv /\ [Next]_vars => ConnectorInv'
  <2> SUFFICES ASSUME ConnectorInv, [Next]_vars
               PROVE  ConnectorInv'
    OBVIOUS
  <2>1. \A c \in Calls : CallInv(c)
    BY DEF ConnectorInv, CallInv, OkMeansAccepted, AttemptsBounded
  <2>2. \A c \in Calls : CallInv(c)'
    BY <2>1, CallInvStep DEF ConnectorInv
  <2>3. (OkMeansAccepted /\ AttemptsBounded /\ \A c \in Calls : LoopInv(c))'
    BY <2>2 DEF CallInv, OkMeansAccepted, AttemptsBounded
  <2>4. TypeOK' /\ SlotsAreWorkers'
    BY TypeStep, SlotStep DEF ConnectorInv
  <2> QED
    BY <2>3, <2>4 DEF ConnectorInv
<1> QED
  BY <1>1, <1>2, PTL DEF Spec

\* A 200 from webpa is the last PATCH of its poke.
THEOREM AcceptedOnce == Spec => NoPatchAfterAccepted
<1>1. ConnectorInv /\ [Next]_vars
        => [\A c \in Calls : accepted[c] => sent'[c] = sent[c]]_vars
  <2> SUFFICES ASSUME ConnectorInv, [Next]_vars, NEW d \in Calls, accepted[d]
               PROVE  sent'[d] = sent[d]
    OBVIOUS
  <2> USE WebpaAssumption
  <2>1. LoopInv(d) /\ TypeOK
    BY DEF ConnectorInv
  <2>2. ASSUME NEW c \in Calls, NEW a \in Answers,
               Patch(c, a) \/ SyncRetry(c, a) \/ DoWithRetries(c, a)
                 \/ AsyncRetry(c, a)
        PROVE  c # d /\ sent'[d] = sent[d]
    BY <2>1, <2>2 DEF LoopInv, TypeOK, Patch, SyncRetry, DoWithRetries,
                      AsyncRetry, SyncDo, Do
  <2>3. ASSUME NEW c \in Calls,
               Enqueue(c) \/ SyncRetryReturns(c) \/ AsyncReturns(c)
        PROVE  sent'[d] = sent[d]
    BY <2>3 DEF Enqueue, SyncRetryReturns, AsyncReturns, NoRequest
  <2> QED
    BY <2>2, <2>3 DEF Next, CallStep, WorkerStep, Served, vars
<1> QED
  BY <1>1, ConnectorInvariant, PTL DEF Spec, NoPatchAfterAccepted

\* Theorem: every slot of the queue belongs to a goroutine, for any number of
\* pokes and slots (Patch, AsyncDoWithRetries).
THEOREM SlotsComeBack == Spec => []SlotsAreWorkers
<1>1. ConnectorInv => SlotsAreWorkers
  BY DEF ConnectorInv
<1> QED
  BY <1>1, ConnectorInvariant, PTL

\* Theorem: no path through the three retry loops makes a 200 out of a PATCH
\* that webpa did not take.
THEOREM OkIsAccepted == Spec => []OkMeansAccepted
<1>1. ConnectorInv => OkMeansAccepted
  BY DEF ConnectorInv
<1> QED
  BY <1>1, ConnectorInvariant, PTL

\* Theorem: whatever webpa answers, one poke is sent at most Retries + 2 times.
THEOREM AttemptsAreBounded == Spec => []AttemptsBounded
<1>1. ConnectorInv => AttemptsBounded
  BY DEF ConnectorInv
<1> QED
  BY <1>1, ConnectorInvariant, PTL
=============================================================================
