SPECIFICATION Spec
CONSTANTS
    Order <- ThreeKinds
    Governing <- OneAlways
    Reviews = {r1}
    MaxVersion = 1
    MaxLives = 1
INVARIANT AtOneInstant
