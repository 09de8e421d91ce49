SPECIFICATION Spec
CONSTANTS
    Hit = {j1}
    NoHit = NoHit
    Bonusing = {"aft", "legacy"}
    PollAnswers = {"answered", "unsent", "timedout", "lost"}
    LockAnswers = {"pending", "rejected", "granted", "failed"}
    QueryAnswers = {"locked", "unlocked", "failed"}
    MaxEvents <- MCOneEvent
    MaxNotices <- MCMaxNotices
PROPERTY
    WaitEnds
\* One Link offers a bounded number of awards.
CHECK_DEADLOCK FALSE
