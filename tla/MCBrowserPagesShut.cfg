\* The same instance: closing a session of mode "existing".
CONSTANTS
    Pages = {p1, p2}
    MaxWaiting = 1
    NoPage = NoPage
SPECIFICATION PagesSpec
INVARIANTS
    ClosesOnlyItsPages
CHECK_DEADLOCK FALSE
