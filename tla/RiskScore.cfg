SPECIFICATION CallSpec
CONSTANTS
    Ratings <- MCRatings
INVARIANTS
    ScoreIsNearest
    RatingsNeverLower
CHECK_DEADLOCK FALSE
