\* Two pages, an operation under way and one that waits.
CONSTANTS
    Pages = {p1, p2}
    MaxWaiting = 1
    NoPage = NoPage
SPECIFICATION PagesSpec
INVARIANTS
    ActsOnWhatItShows
    DialogWatched
PROPERTIES
    EveryTurnEnds
CHECK_DEADLOCK FALSE
