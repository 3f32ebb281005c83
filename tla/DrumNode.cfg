SPECIFICATION FairSpec
CONSTANTS
    DRUM_COUNT = 3
    SLOT_COUNT = 3
    MaxUnfinished = 1
INVARIANTS
    PictureFollowsCount
    RestIsRest
    ShowsWhatWasAsked
PROPERTIES
    StopsLeftToRight
    StopLeadsToRest
