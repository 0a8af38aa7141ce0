\* One sign-in, two requests at a time, three generations of its token.
SPECIFICATION FairSpec
CONSTANTS
    Families = {f1}
    Requests = {t1, t2}
    MaxGenerations = 3
INVARIANTS
    OneTip
    ClosedStaysClosed
    SweptUnlessOvertaken
    DevicesServed
PROPERTIES
    RequestsEnd
