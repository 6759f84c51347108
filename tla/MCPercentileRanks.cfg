SPECIFICATION RanksSpec
CONSTANTS
    a1 = a1
    a2 = a2
    a3 = a3
    a4 = a4
    a5 = a5
    b1 = b1
    b2 = b2
    iq = iq
    eq = eq
    Attempts = {a1, a2, a3, a4, a5, b1, b2}
    Questionnaires = {iq, eq}
    QuestionnaireOf <- InTwo
    Percentage <- Percentages
    MaxDeletions = 1
INVARIANTS
    RanksFollowScores
