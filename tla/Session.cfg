CONSTANTS
    Proc = {p1, p2}
    Doubled = {p1}
    MaxBoxes = 2
    MaxPosted = 1
SPECIFICATION FairSpec
INVARIANTS
    TypeOK
    OneLoginPerPC
    SendsThroughLiveClient
    OnlineIsUsable
    IdleTriesAgain
PROPERTIES
    DeletesOnlyEndedSession
    NoLoginBehindConflict
    FailureIsHandled
