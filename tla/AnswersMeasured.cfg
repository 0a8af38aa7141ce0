\* Two prompts, one or two models and room for three responses: the cap cuts the
\* records of the second prompt.
SPECIFICATION MeasureSpec
CONSTANTS
    Pages = {page, other, bad}
    Unreadable = {bad}
    HostOf <- OneSite
    Probes = {2}
    MaxResults = 1
    MaxModels = 2
    MaxPrompts = 2
    MaxResponses = 3
    SearchPrice = 2
    AnswerPrice = 4
    RepairPrice = 2
    AuditPrice = 2
SYMMETRY Interchangeable
INVARIANTS
    RecordsSound
    NumbersAgree
CHECK_DEADLOCK FALSE
