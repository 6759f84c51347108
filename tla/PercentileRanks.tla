---------------------------- MODULE PercentileRanks ----------------------------
(***************************************************************************)
(* compute_percentile_ranks_task (careers/tasks.py): the nightly job that  *)
(* gives every scored attempt its rank among the attempts of the same      *)
(* questionnaire, while submissions keep adding scores.  Every query is a  *)
(* transaction of its own, so other processes see the ranks one by one,    *)
(* and a run that is broken off leaves those it has come to.               *)
(*                                                                         *)
(* A rank is a number of ten-thousandths, 1000000 being 100.0; the column  *)
(* is DecimalField(max_digits=6, decimal_places=4), 99.9999 at most.       *)
(***************************************************************************)
EXTENDS Integers, Sequences, FiniteSets, SequencesExt

CONSTANTS
    Attempts,         \* scored attempts, existing and to come
    Questionnaires,
    QuestionnaireOf,  \* QuestionnaireOf[a]
    Percentage,       \* Percentage[a]: its AttemptScore.percentage
    MaxDeletions      \* bound: attempts deleted

ASSUME RanksAssumption ==
    /\ IsFiniteSet(Attempts)
    /\ QuestionnaireOf \in [Attempts -> Questionnaires]
    /\ Percentage \in [Attempts -> 0..100]

VARIABLES
    scored,  \* attempts with an AttemptScore row
    rank,    \* rank[a]: percentile_rank, Null until computed
    todo,    \* questionnaires the run has not come to
    scores,  \* the run's list of the current questionnaire
    index,   \* how many of them it has written
    running, \* whether a run is going on
    deleted, \* attempts deleted, with their scores
    torn     \* questionnaires whose last list was left half written (history)

ranksVars == <<scored, rank, todo, scores, index, running, deleted, torn>>

Null == -1
Full == 1000000
Limit == 999999

\* round((i / (n - 1)) * 100, 4)
Percentile(i, n) == (2 * Full * i + n - 1) \div (2 * (n - 1))

Of(q) == {a \in scored : QuestionnaireOf[a] = q}

\* Mutant of Sorted: no order_by.
Unsorted(S) == SetToSeqs(S)

\* order_by("percentage"): equal percentages come in any order.
Sorted(S) ==
    {l \in SetToSeqs(S) : \A i, j \in DOMAIN l : i < j => Percentage[l[i]] <= Percentage[l[j]]}

--------------------------------------------------------------------------------
RanksInit ==
    /\ scored \in SUBSET Attempts
    /\ rank = [a \in Attempts |-> Null]
    /\ todo = {} /\ scores = <<>> /\ index = 0
    /\ running = FALSE
    /\ deleted = {} /\ torn = {}

\* A submission commits its AttemptScore.
AddScore(a) ==
    /\ a \notin scored \cup deleted
    /\ scored' = scored \cup {a}
    /\ UNCHANGED <<rank, todo, scores, index, running, deleted, torn>>

\* An administrator deletes an attempt or its score, or the user's account goes.
DeleteScore(a) ==
    /\ a \in scored /\ Cardinality(deleted) < MaxDeletions
    /\ scored' = scored \ {a} /\ deleted' = deleted \cup {a}
    /\ rank' = [rank EXCEPT ![a] = Null]
    /\ UNCHANGED <<todo, scores, index, running, torn>>

\* Celery beat starts the task; it goes through all questionnaires.
Start ==
    /\ ~running
    /\ running' = TRUE
    /\ todo' = Questionnaires
    /\ UNCHANGED <<scored, rank, scores, index, deleted, torn>>

\* The scores of the next questionnaire, none where there are fewer than two.
ReadScores ==
    /\ running /\ index = Len(scores)
    /\ \E q \in todo :
         /\ todo' = todo \ {q}
         /\ IF Cardinality(Of(q)) < 2 THEN scores' = <<>> ELSE scores' \in Sorted(Of(q))
    /\ index' = 0
    /\ UNCHANGED <<scored, rank, running, deleted, torn>>

\* The rank of the score the run has come to.
NextRank == Percentile(index, Len(scores))

\* One UPDATE: the rank of the next score, from its place in the list.  One
\* that was deleted since the list was read has no row to write.
WriteRank ==
    /\ running /\ index < Len(scores)
    /\ NextRank <= Limit
    /\ LET a == scores[index + 1] IN
         rank' = IF a \in scored THEN [rank EXCEPT ![a] = NextRank] ELSE rank
    /\ index' = index + 1
    /\ UNCHANGED <<scored, todo, scores, running, deleted, torn>>

EndRun ==
    /\ running' = FALSE
    /\ todo' = {} /\ scores' = <<>> /\ index' = 0
    /\ UNCHANGED <<scored, rank, deleted>>

\* The value does not fit the column: the UPDATE raises and the task fails.
Overflow ==
    /\ running /\ index < Len(scores)
    /\ NextRank > Limit
    /\ EndRun
    /\ torn' = torn \ {QuestionnaireOf[scores[index + 1]]}

\* A query fails, a time limit strikes or the worker dies, anywhere; the ranks
\* written so far stay, and nothing runs the task again before the next night.
BreakOff ==
    /\ running
    /\ EndRun
    /\ torn' = torn \cup {QuestionnaireOf[scores[i]] : i \in 1..index}

\* Every questionnaire is done.
FinishRun ==
    /\ running /\ index = Len(scores) /\ todo = {}
    /\ EndRun
    /\ UNCHANGED torn

Run == Start \/ ReadScores \/ WriteRank \/ Overflow \/ BreakOff \/ FinishRun

RanksNext == (\E a \in Attempts : AddScore(a) \/ DeleteScore(a)) \/ Run

RanksSpec == RanksInit /\ [][RanksNext]_ranksVars

--------------------------------------------------------------------------------
RanksTypeOK ==
    /\ scored \subseteq Attempts
    /\ rank \in [Attempts -> Null..Limit]
    /\ todo \subseteq Questionnaires
    /\ scores \in Seq(Attempts) /\ index \in 0..Len(scores)
    /\ running \in BOOLEAN
    /\ deleted \subseteq Attempts /\ torn \subseteq Questionnaires

\* Another attempt of the questionnaire has the percentage of a.
Shared(a) == \E b \in Attempts \ {a} :
    QuestionnaireOf[b] = QuestionnaireOf[a] /\ Percentage[b] = Percentage[a]

\* No attempt of a's questionnaire was deleted.
Kept(a) == \A b \in deleted : QuestionnaireOf[b] # QuestionnaireOf[a]

\* Between runs the ranks of a questionnaire follow the percentages, however
\* many scores arrived during the last run and although every list fails at its
\* best score: also after a run that was broken off in the middle of the list,
\* as soon as a later one gets to its end.  Of two that share the highest
\* percentage each run leaves another one unranked, so the higher of the two
\* compared has its percentage to itself.  (Where an attempt was deleted, a
\* score that becomes the best keeps the rank it had below that attempt.)
RanksFollowScores ==
    ~running => \A a, b \in Attempts :
        /\ QuestionnaireOf[a] = QuestionnaireOf[b] /\ Percentage[a] < Percentage[b]
        /\ rank[a] # Null /\ rank[b] # Null /\ ~Shared(b)
        /\ QuestionnaireOf[b] \notin torn /\ Kept(b)
        => rank[a] < rank[b]
================================================================================
