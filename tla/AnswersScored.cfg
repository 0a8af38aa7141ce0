SPECIFICATION ScoreSpec
CONSTANTS
    Runs <- MCRuns
    Reviews <- MCReviews
    Answers <- MCAnswers
    MaxAnswers <- MCMaxAnswers
    Sites <- MCSites
    SearchPages <- MCPages
INVARIANTS
    ClaimsSound
    ReportsAgree
    AdviceSound
    PlanSound
CHECK_DEADLOCK FALSE
