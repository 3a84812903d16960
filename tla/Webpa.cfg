\* Two pokes that compete for one slot of the queue, two retries
SPECIFICATION FairSpec
CONSTANTS
    Calls = {c1, c2}
    Retries = 2
    ConcurrentCalls = 1
INVARIANTS SlotsAreWorkers OkMeansAccepted AttemptsBounded ConnectorInv
PROPERTIES NoPatchAfterAccepted EveryPokeAnswered
