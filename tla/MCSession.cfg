\* The clock wraps after five ticks; a challenge lives into the next rate window.
SPECIFICATION Spec
CONSTANTS
    Keys = {k1}
    NoKey = NoKey
    Half = 2
    Window = 2
    Limit = 2
    RateWindow = 2
    ChallengeLife = 2
    Lifetime = 2
    IdleLimit = 2
    ClockModulus = 5
    MaxReplies = 1
    MaxChallenges = 3
INVARIANTS
    TypeOK
    NoncesAreUsedOnce
    GuessesAreLimited
    SessionHasCurrentKey
PROPERTIES
    NothingOutlivesItsTime
