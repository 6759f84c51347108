SPECIFICATION FairSpec
CONSTANTS
    r1 = r1
    r2 = r2
    r3 = r3
    q1 = q1
    q2 = q2
    math = math
    Requests = {r1, r2, r3}
    Pairs = {math}
    Questions = {q1, q2}
    PairOf <- OnePair
    Answers <- MixedAnswers
    MaxRetries = 2
INVARIANTS
    NumbersContiguous
    AllOrNothing
    RepliesTruthful
    ConflictMeansContention
PROPERTIES
    CommitsInOrder
    LedgerSpec
    EveryRequestEnds
