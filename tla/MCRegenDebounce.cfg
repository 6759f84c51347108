SPECIFICATION FairSpec
CONSTANTS
    s1 = s1
    s2 = s2
    s3 = s3
    w1 = w1
    w2 = w2
    Submissions = {s1, s2}
    Processes = {w1, w2}
    ServedBy <- OneProcess
    LockTimeout = 2
    Countdown = 2
    Workers = 2
    BrokerMayFail = TRUE
    Horizon = 3
    MaxDeaths = 1
    MaxNets = 1
INVARIANTS
    JobsSpaced
    TimelyScoresCovered
PROPERTIES
    LatestNeverOlder
    TimelyScoresReflected
