SPECIFICATION Spec
CONSTANTS
    Hit = {j1}
    NoHit = NoHit
    Bonusing = {"legacy"}
    PollAnswers = {"answered", "unsent", "timedout", "lost"}
    LockAnswers = {"pending", "rejected", "granted"}
    QueryAnswers = {"locked", "unlocked", "failed"}
    MaxEvents <- MCMaxEvents
    MaxNotices <- MCMaxNotices
INVARIANT
    PaidOnce
\* One Link offers a bounded number of awards.
CHECK_DEADLOCK FALSE
