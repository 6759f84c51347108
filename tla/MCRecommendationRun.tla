--------------------------- MODULE MCRecommendationRun ---------------------------
(* Three tags, two requests about their relationship, one subject, one         *)
(* questionnaire that measures a tag, two careers and one worker.            *)
EXTENDS RecommendationRun, TLC

CONSTANTS t1, t2, t3, Maths, Arts, Law, algebra, q1, law, nurse, a1, a2, worker, web

MCTags == {t1, t2, t3}
MCTitles == {Maths, Arts, Law}
MCStrengths == {1, 2}
MCAdmins == {a1, a2}
MCSubjects == {algebra}
MCQuestionnaires == {q1}
MCCareers == {law, nurse}
MCGrades == {0, 16}
MCPercentages == {4, 20}
MCWeights == {10, 20, -10}
MCWorkers == {worker}
MCEditors == {web}

\* The database at the start: the subject Maths with a grade and its tag, a
\* questionnaire that measures the other tag, and a career for each.
MCInit ==
    /\ title = (t1 :> Maths @@ t2 :> Arts @@ t3 :> NoTitle)
    /\ rel = [p \in Pairs |-> IF t3 \in {p[1], p[2]} THEN NoRow ELSE [strength |-> 1, symmetric |-> TRUE]]
    /\ name = (algebra :> Maths)
    /\ grade = (algebra :> 16)
    /\ couplings = {[questionnaire |-> q1, tag |-> t2, strength |-> 0, primary |-> TRUE]}
    /\ links = (law :> (t1 :> 20 @@ t2 :> NoLink @@ t3 :> NoLink) @@ nurse :> (t1 :> 10 @@ t2 :> 10 @@ t3 :> NoLink))
    /\ Init
MCSpec == MCInit /\ [][Next]_vars
================================================================================
