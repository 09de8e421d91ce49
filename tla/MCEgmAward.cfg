SPECIFICATION Spec
CONSTANTS
    Hit = {j1, j2}
    NoHit = NoHit
    Bonusing = {"aft", "legacy"}
    PollAnswers = {"answered", "unsent", "timedout", "lost"}
    LockAnswers = {"pending", "rejected", "granted"}
    QueryAnswers = {"locked", "unlocked", "failed"}
    MaxEvents <- MCMaxEvents
    MaxNotices <- MCMaxNotices
SYMMETRY Symmetry
INVARIANTS
    TypeOK
    PaidOnceUnlessRenoticed
    SuccessWasPaid
    LegacyIneligibleIsUnpaid
PROPERTIES
    PaysCurrentAward
\* One Link offers a bounded number of awards.
CHECK_DEADLOCK FALSE
