CONSTANTS
    t1 = t1
    t2 = t2
    t3 = t3
    Maths = Maths
    Law = Law
    Arts = Arts
    algebra = algebra
    q1 = q1
    law = law
    nurse = nurse
    a1 = a1
    a2 = a2
    worker = worker
    web = web
    NoTitle = NoTitle
    NoRow = NoRow
    NoLink = NoLink
    NoVectors = NoVectors
    Tags <- MCTags
    Titles <- MCTitles
    Strengths <- MCStrengths
    Admins <- MCAdmins
    Subjects <- MCSubjects
    Questionnaires <- MCQuestionnaires
    Careers <- MCCareers
    Grades <- MCGrades
    Percentages <- MCPercentages
    Weights <- MCWeights
    Workers <- MCWorkers
    Editors <- MCEditors
    Scale = 20
    ExplainTop = 1
    TagLimit = 1
    TTL = 2
    Horizon = 2
    MaxRequests = 3
    MaxAttempts = 2
SPECIFICATION MCSpec
CHECK_DEADLOCK FALSE
INVARIANTS PairsAgree VectorsRecent RankingSound
PROPERTY EvidenceCurrent
