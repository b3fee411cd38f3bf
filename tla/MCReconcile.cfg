SPECIFICATION FairSpec
CONSTANTS
    h1 = h1
    h2 = h2
    Handlers = {h1, h2}
    t1 = t1
    t2 = t2
    Ticks = {t1, t2}
    Contents <- MCContents
    Hints <- MCHints
    Progress = {"in_progress"}
    UserLabels = {"mine"}
    None = None
    Bounds <- MCBounds
INVARIANTS TypeOK OwnCommentsBounded RepairsAreRecorded
PROPERTIES PeopleKeepTheirLabels SurfaceConverges
CHECK_DEADLOCK FALSE
