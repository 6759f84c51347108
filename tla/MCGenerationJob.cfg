SPECIFICATION MCSpec
CONSTANTS
    j1 = j1
    j2 = j2
    shadow = shadow
    t1 = t1
    t2 = t2
    Jobs = {j1}
    Shadows = {shadow}
    Tags = {t1}
    Workers = 2
    MaxRetries = 1
    MailRetries = 1
    MaxChanges = 2
    MaxDeaths = 1
INVARIANTS
    DuplicatesAccounted
    EmailsAccounted
    SentMeansAccepted
    ExplanationAgrees
PROPERTIES
    EveryJobAnswered
