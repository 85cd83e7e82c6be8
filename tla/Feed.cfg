SPECIFICATION Spec

CONSTANTS
    NVideos = 5
    limit = 2
    NPages = 2
    MaxChanges = 2

\* The reader stops after the last page.
CHECK_DEADLOCK FALSE

INVARIANTS TypeOK FirstPageIsNewest PagesAreFull PagesAreContinuous FeedInv
