SPECIFICATION FairSpec
CONSTANTS
    Tasks = {t1, t2}
    MaxPrompts = 3
    Replies = {"okay", "invalid"}
INVARIANTS
    TypeOK
    ReturnsOwnOutcome
    CancelledSenderStops
PROPERTIES
    PromiseSpec
    SenderGoesOn
