SPECIFICATION Spec

CONSTANTS
    s1 = s1
    s2 = s2
    Saves = {s1, s2}
    NTerms = 3
    MAX_STORED_TERMS = 2
    MAX_SUGGESTIONS = 1
    HISTORY_TTL = 2
    MaxTime = 3

SYMMETRY AnyOrder

\* The clock stops at its bound.
CHECK_DEADLOCK FALSE

INVARIANTS TypeOK RecentTermsAreKept SuggestionsAreMostRecent HistoryInv
