SPECIFICATION FairSpec
CONSTANTS
    d1 = d1
    d2 = d2
    d3 = d3
    q1 = q1
    q2 = q2
    h1 = h1
    Threads = {t1, t2}
    Queries = {q1, q2}
    Hydrations = {h1}
    Documents = {d1, d2, d3}
    Home <- MCHome
    Matches <- MCMatches
    Related <- MCRelated
    PageSize = 2
    Environment = {}
    MaxCalls = 3
    MaxFailures = 1
INVARIANTS
      AnsweredMeansLoaded
    InFlightIsQueued
    ScheduledOnce
PROPERTIES
    ScheduledLoadsEnd
CHECK_DEADLOCK FALSE
