SPECIFICATION FairSpec
CONSTANTS
    Order <- TwoKinds
    Governing <- OneThenTwo
    Reviews = {r1, r2}
    MaxVersion = 1
    MaxLives = 2
INVARIANTS
    TypeOK
    DecidesOnListed
    NeverBackwards
    NeverWaits
PROPERTIES
    BecomesReady
    CatchesUp
    AnswersSoon
    KeepsPromise
