\* Two workers and two review clients on one run, guided or quick: leases expire under
\* live workers, an edit or an approval commits after another approval.
SPECIFICATION Spec
CONSTANTS
    a = a
    b = b
    NoJob = NoJob
    Jobs = {a, b}
    Guided = {a}
    Owned = {a, b}
    Workers = {w1, w2}
    Requests = {r1, r2}
    MaxAttempts = 2
    MaxSubmitted = 1
    KycPrice = 0
    AnswersPrice = 1
INVARIANTS ClaimExclusive OnePassOfAnswers OneOutcome
PROPERTIES DoneIsFinal
\* A queue with nothing left to do rests.
CHECK_DEADLOCK FALSE
