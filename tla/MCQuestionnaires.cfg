SPECIFICATION QuestionnairesSpec
CONSTANTS
    p1 = p1
    p2 = p2
    s1 = s1
    s2 = s2
    Null = Null
    Unit = 36
    Posts = {p1, p2}
    Students = {s1, s2}
    Tags = {"g", "h"}
    MaxAttempts = 2
    MaxEdits = 1
    Fold <- OnFold
    Slugify <- OnSlugs
    Forms <- SomeForms
    Submissions <- SomeSubmissions
    AdminHeads <- SomeHeads
    AdminQuestions <- SomeQuestions
INVARIANTS
    MarksSound
    VerdictsAgree
    PagesAgree
PROPERTIES
    CreatedAsAsked
    ResponsesStay
SYMMETRY Symmetric
CHECK_DEADLOCK FALSE
