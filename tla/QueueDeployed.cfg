\* The deployed shape, one worker and one review client, and one run, guided or quick.
SPECIFICATION FairSpec
CONSTANTS
    a = a
    b = b
    NoJob = NoJob
    Jobs = {a, b}
    Guided = {a}
    Owned = {a, b}
    Workers = {w1}
    Requests = {r1}
    MaxAttempts = 3
    MaxSubmitted = 1
    KycPrice = 1
    AnswersPrice = 2
INVARIANTS TypeOK RunsBounded LedgerSound SettledExactly ReviewGate
PROPERTIES QueueDrains ImplementsLifecycle
\* A queue with nothing left to do rests.
CHECK_DEADLOCK FALSE
