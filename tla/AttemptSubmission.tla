--------------------------- MODULE AttemptSubmission ---------------------------
(***************************************************************************)
(* Concurrent runs of AttemptEvaluationService.evaluate (assessments/      *)
(* services/attempt_evaluation.py) against one PostgreSQL database.        *)
(*                                                                         *)
(* Each request opens an outer transaction; inside it a savepoint holds    *)
(* the attempt row and its answers, and the score row follows outside the  *)
(* savepoint.  Committed rows are in attempts, responses and scores; a     *)
(* request's own uncommitted rows are in txAttempts, txResponses and       *)
(* txScores.  READ COMMITTED isolation: a query sees the committed rows    *)
(* and the transaction's own.  The unique index on (profile, questionnaire,*)
(* attempt_number) makes an insert wait for an uncommitted row with the    *)
(* same key and fail on a committed one.                                   *)
(*                                                                         *)
(* Every answer that is accepted earns one mark, so that a score can be    *)
(* compared with the rows it was summed from.                              *)
(***************************************************************************)
EXTENDS Naturals, Sequences, FiniteSets

CONSTANTS
    Requests,    \* submissions, each served by its own service object
    Pairs,       \* profile+questionnaire pairs
    PairOf,      \* PairOf[r]: the pair the submission is for
    Questions,   \* questions of the questionnaires
    Answers,     \* Answers[r]: the question each submitted answer is for
    MaxRetries   \* MAX_ATTEMPT_NUMBER_RETRIES

ASSUME SubmissionAssumption ==
    /\ PairOf \in [Requests -> Pairs]
    /\ Answers \in [Requests -> Seq(Questions)]
    /\ IsFiniteSet(Questions)
    /\ MaxRetries \in Nat \ {0}

VARIABLES
    attempts,      \* committed QuestionnaireAttempt rows
    responses,     \* committed QuestionResponse rows
    scores,        \* committed AttemptScore rows
    txAttempts,    \* txAttempts[r], txResponses[r], txScores[r]: the rows
    txResponses,   \*   written by r's open transaction
    txScores,
    poisoned,      \* poisoned[r]: Django's needs_rollback of r's connection
    pc,            \* pc[r]: where the request is in evaluate()
    retry,         \* retry[r]: attempt-number collisions so far
    candidate,     \* candidate[r]: new_attempt_number, later self.attempt_id
    cursor,          \* cursor[r]: index of the answer to score
    total,         \* total[r]: total_points
    outcome        \* outcome[r]: how the request ended

tables == <<attempts, responses, scores>>
vars == <<attempts, responses, scores, txAttempts, txResponses, txScores,
          poisoned, pc, retry, candidate, cursor, total, outcome>>

AttemptRow == [pair : Pairs, number : Nat \ {0}, owner : Requests]
ResponseRow == [attempt : AttemptRow, question : Questions]
ScoreRow == [attempt : AttemptRow, marks : Nat]

Places == {"number", "insert", "answers", "score", "commit", "reply", "done"}

\* The view answers 200 {"success": true} with no report for each of these.
EmptyReplies == {"invalid", "conflict", "attempt_gone", "server_error"}
Outcomes == {"pending", "report", "dropped"} \cup EmptyReplies

--------------------------------------------------------------------------------
\* The attempt row a request writes; owner is not a column, it names the writer.
RowOf(r) == [pair |-> PairOf[r], number |-> candidate[r], owner |-> r]

\* Attempt numbers of the pair that a new statement of any transaction sees.
Numbers(p) == {a.number : a \in {b \in attempts : b.pair = p}}

\* The highest of a set of numbers, 0 where it is empty.
Highest(S) == CHOOSE n \in S \cup {0} : \A m \in S : m <= n

\* Mutant of LatestNumber: the query also sees other transactions' rows.
LatestNumberDirty(p) ==
    Highest(Numbers(p) \cup {a.number : a \in
        {b \in UNION {txAttempts[o] : o \in Requests} : b.pair = p}})

\* Max("attempt_number"), or 0 where the pair has no attempt.
LatestNumber(p) == Highest(Numbers(p))

\* Mutants of the two halves of the unique index: it is missing.
KeyTakenNever(r) == FALSE
KeyInFlightNever(r) == FALSE

\* The unique index, against committed rows and against rows in flight.
KeyTaken(r) == candidate[r] \in Numbers(PairOf[r])
KeyInFlight(r) ==
    \E o \in Requests \ {r} : \E a \in txAttempts[o] :
        a.pair = PairOf[r] /\ a.number = candidate[r]

\* Questions that already have a row in the attempt being written.
Answered(r) == {w.question : w \in txResponses[r]}

--------------------------------------------------------------------------------
Init ==
    /\ attempts = {} /\ responses = {} /\ scores = {}
    /\ txAttempts = [r \in Requests |-> {}]
    /\ txResponses = [r \in Requests |-> {}]
    /\ txScores = [r \in Requests |-> {}]
    /\ poisoned = [r \in Requests |-> FALSE]
    /\ pc = [r \in Requests |-> "number"]
    /\ retry = [r \in Requests |-> 0]
    /\ candidate = [r \in Requests |-> 0]
    /\ cursor = [r \in Requests |-> 1]
    /\ total = [r \in Requests |-> 0]
    /\ outcome = [r \in Requests |-> "pending"]

\* ROLLBACK of the outer transaction: nothing the request wrote survives.
Rollback(r) ==
    /\ txAttempts' = [txAttempts EXCEPT ![r] = {}]
    /\ txResponses' = [txResponses EXCEPT ![r] = {}]
    /\ txScores' = [txScores EXCEPT ![r] = {}]
    /\ poisoned' = [poisoned EXCEPT ![r] = FALSE]

\* Mutant of Fail: no outer transaction, what was written before stays.
FailWithoutRollback(r, how) ==
    /\ Rollback(r)
    /\ pc' = [pc EXCEPT ![r] = "done"]
    /\ outcome' = [outcome EXCEPT ![r] = how]
    /\ attempts' = attempts \cup txAttempts[r]
    /\ responses' = responses \cup txResponses[r]
    /\ scores' = scores \cup txScores[r]

\* Mutant of Fail: the transaction is left open, with the key it holds.
FailHoldingKey(r, how) ==
    /\ pc' = [pc EXCEPT ![r] = "done"]
    /\ outcome' = [outcome EXCEPT ![r] = how]
    /\ UNCHANGED <<attempts, responses, scores, txAttempts, txResponses, txScores,
                   poisoned>>

\* The request ends without a report: the exception leaves evaluate(), the
\* transaction is rolled back and build_response turns it into {}.
Fail(r, how) ==
    /\ Rollback(r)
    /\ pc' = [pc EXCEPT ![r] = "done"]
    /\ outcome' = [outcome EXCEPT ![r] = how]
    /\ UNCHANGED <<attempts, responses, scores>>

\* validate() or setup() raises, before the transaction is opened.
Reject(r) ==
    /\ pc[r] = "number" /\ retry[r] = 0
    /\ Fail(r, "invalid")
    /\ UNCHANGED <<retry, candidate, cursor, total>>

\* A savepoint is opened and the next attempt number is computed from a query.
ReadLatest(r) ==
    /\ pc[r] = "number"
    /\ candidate' = [candidate EXCEPT ![r] = LatestNumber(PairOf[r]) + 1]
    /\ pc' = [pc EXCEPT ![r] = "insert"]
    /\ UNCHANGED <<attempts, responses, scores, txAttempts, txResponses, txScores,
                   poisoned, retry, cursor, total, outcome>>

InsertAttempt(r) ==
    /\ pc[r] = "insert"
    /\ ~KeyTaken(r)
    /\ ~KeyInFlight(r)
    /\ txAttempts' = [txAttempts EXCEPT ![r] = {RowOf(r)}]
    /\ pc' = [pc EXCEPT ![r] = "answers"]
    /\ UNCHANGED <<attempts, responses, scores, txResponses, txScores, poisoned,
                   retry, candidate, cursor, total, outcome>>

\* Mutant of RetryNumber: the number is read once, before the loop.
RetryNumberStale(r) ==
    /\ pc[r] = "insert"
    /\ KeyTaken(r)
    /\ retry[r] + 1 < MaxRetries
    /\ retry' = [retry EXCEPT ![r] = @ + 1]
    /\ UNCHANGED <<attempts, responses, scores, txAttempts, txResponses, txScores,
                   poisoned, pc, candidate, cursor, total, outcome>>

\* IntegrityError: the savepoint is rolled back and the number is read again.
RetryNumber(r) ==
    /\ pc[r] = "insert"
    /\ KeyTaken(r)
    /\ retry[r] + 1 < MaxRetries
    /\ retry' = [retry EXCEPT ![r] = @ + 1]
    /\ pc' = [pc EXCEPT ![r] = "number"]
    /\ UNCHANGED <<attempts, responses, scores, txAttempts, txResponses, txScores,
                   poisoned, candidate, cursor, total, outcome>>

\* IntegrityError on the last try: EvaluationError("conflict").
GiveUp(r) ==
    /\ pc[r] = "insert"
    /\ KeyTaken(r)
    /\ retry[r] + 1 >= MaxRetries
    /\ retry' = [retry EXCEPT ![r] = @ + 1]
    /\ Fail(r, "conflict")
    /\ UNCHANGED <<candidate, cursor, total>>

--------------------------------------------------------------------------------
\* Scoring one answer.

MoreAnswers(r) == pc[r] = "answers" /\ cursor[r] <= Len(Answers[r])

\* The form accepts the answer: no row for its question yet, and queries work.
Acceptable(r) ==
    /\ ~poisoned[r]
    /\ Answers[r][cursor[r]] \notin Answered(r)

\* The answer leaves no row and no mark: unknown question, invalid value, a
\* second answer to a question, or a query refused on a poisoned connection.
SkipAnswer(r) ==
    /\ MoreAnswers(r)
    /\ cursor' = [cursor EXCEPT ![r] = @ + 1]
    /\ UNCHANGED <<attempts, responses, scores, txAttempts, txResponses, txScores,
                   poisoned, pc, retry, candidate, total, outcome>>

\* The handler of the question's type saves the row and its points are added.
ScoreAnswer(r) ==
    /\ MoreAnswers(r)
    /\ Acceptable(r)
    /\ txResponses' = [txResponses EXCEPT ![r] = @ \cup
           {[attempt |-> RowOf(r), question |-> Answers[r][cursor[r]]]}]
    /\ total' = [total EXCEPT ![r] = @ + 1]
    /\ cursor' = [cursor EXCEPT ![r] = @ + 1]
    /\ UNCHANGED <<attempts, responses, scores, txAttempts, txScores, poisoned,
                   pc, retry, candidate, outcome>>

\* response.save() raises inside the handler, which returns 0.0: there is no
\* savepoint around one answer, so Django marks the whole block for rollback.
SaveRaises(r) ==
    /\ MoreAnswers(r)
    /\ Acceptable(r)
    /\ poisoned' = [poisoned EXCEPT ![r] = TRUE]
    /\ cursor' = [cursor EXCEPT ![r] = @ + 1]
    /\ UNCHANGED <<attempts, responses, scores, txAttempts, txResponses, txScores,
                   pc, retry, candidate, total, outcome>>

\* The savepoint block ends: released, or rolled back when marked for rollback,
\* in both cases without an exception.
LeaveSavepoint(r) ==
    /\ pc[r] = "answers" /\ cursor[r] > Len(Answers[r])
    /\ IF poisoned[r]
       THEN /\ txAttempts' = [txAttempts EXCEPT ![r] = {}]
            /\ txResponses' = [txResponses EXCEPT ![r] = {}]
            /\ poisoned' = [poisoned EXCEPT ![r] = FALSE]
       ELSE UNCHANGED <<txAttempts, txResponses, poisoned>>
    /\ pc' = [pc EXCEPT ![r] = "score"]
    /\ UNCHANGED <<attempts, responses, scores, txScores, retry, candidate, cursor,
                   total, outcome>>

--------------------------------------------------------------------------------
\* Mutant of AttemptExists: the form trusts the instance it is given.
AttemptExistsAssumed(r) == TRUE

\* AttemptScoreForm looks the attempt up in the database.
AttemptExists(r) == txAttempts[r] # {}

SaveScore(r) ==
    /\ pc[r] = "score"
    /\ AttemptExists(r)
    /\ txScores' = [txScores EXCEPT ![r] = {[attempt |-> RowOf(r), marks |-> total[r]]}]
    /\ pc' = [pc EXCEPT ![r] = "commit"]
    /\ UNCHANGED <<attempts, responses, scores, txAttempts, txResponses, poisoned,
                   retry, candidate, cursor, total, outcome>>

\* The form is invalid because the attempt is no longer there.
AttemptGone(r) ==
    /\ pc[r] = "score"
    /\ ~AttemptExists(r)
    /\ Fail(r, "attempt_gone")
    /\ UNCHANGED <<retry, candidate, cursor, total>>

\* The form rejects the figures, its save or the receiver of its post_save
\* signal raises, or COMMIT itself does (foreign keys are checked there).
ServerError(r) ==
    /\ pc[r] \in {"score", "commit"}
    /\ AttemptExists(r)
    /\ Fail(r, "server_error")
    /\ UNCHANGED <<retry, candidate, cursor, total>>

\* COMMIT: every row of the transaction becomes visible at once.
Commit(r) ==
    /\ pc[r] = "commit"
    /\ attempts' = attempts \cup txAttempts[r]
    /\ responses' = responses \cup txResponses[r]
    /\ scores' = scores \cup txScores[r]
    /\ Rollback(r)   \* the transaction holds no uncommitted row any more
    /\ pc' = [pc EXCEPT ![r] = "reply"]
    /\ UNCHANGED <<retry, candidate, cursor, total, outcome>>

\* The report, with attempt_id and score, goes to the client.
Reply(r) ==
    /\ pc[r] = "reply"
    /\ pc' = [pc EXCEPT ![r] = "done"]
    /\ outcome' = [outcome EXCEPT ![r] = "report"]
    /\ UNCHANGED <<attempts, responses, scores, txAttempts, txResponses, txScores,
                   poisoned, retry, candidate, cursor, total>>

\* The process serving the request dies; the database rolls its work back.
Die(r) ==
    /\ pc[r] # "done"
    /\ Fail(r, "dropped")
    /\ UNCHANGED <<retry, candidate, cursor, total>>

Step(r) ==
    \/ Reject(r) \/ ReadLatest(r) \/ InsertAttempt(r) \/ RetryNumber(r) \/ GiveUp(r)
    \/ SkipAnswer(r) \/ ScoreAnswer(r) \/ SaveRaises(r) \/ LeaveSavepoint(r)
    \/ SaveScore(r) \/ AttemptGone(r) \/ ServerError(r) \/ Commit(r) \/ Reply(r)

AllDone == (\A r \in Requests : pc[r] = "done") /\ UNCHANGED vars

Next == (\E r \in Requests : Step(r) \/ Die(r)) \/ AllDone

Spec == Init /\ [][Next]_vars

\* A thread serving a request keeps running, and PostgreSQL ends its wait for
\* a key as soon as the other transaction ends.
FairSpec == Spec /\ \A r \in Requests : WF_vars(Step(r))

--------------------------------------------------------------------------------
TypeOK ==
    /\ attempts \subseteq AttemptRow
    /\ responses \subseteq ResponseRow
    /\ scores \subseteq ScoreRow
    /\ txAttempts \in [Requests -> SUBSET AttemptRow]
    /\ txResponses \in [Requests -> SUBSET ResponseRow]
    /\ txScores \in [Requests -> SUBSET ScoreRow]
    /\ poisoned \in [Requests -> BOOLEAN]
    /\ pc \in [Requests -> Places]
    /\ retry \in [Requests -> 0..MaxRetries]
    /\ candidate \in [Requests -> Nat]
    /\ cursor \in [Requests -> Nat \ {0}]
    /\ total \in [Requests -> Nat]
    /\ outcome \in [Requests -> Outcomes]

\* Whatever requests race, fail or die, the attempts of a pair are numbered
\* 1, 2, ..., n without a gap, and no two rows share a number
\* ("1-based attempt index for this profile+questionnaire").
NumbersContiguous ==
    /\ \A p \in Pairs : Numbers(p) = 1..LatestNumber(p)
    /\ \A a, b \in attempts : a.pair = b.pair /\ a.number = b.number => a = b

\* "either it all lands, or none of it does": an attempt is never visible
\* without its score, an answer or a score never without its attempt, and the
\* score is the sum over exactly the answers recorded for the attempt.
AllOrNothing ==
    /\ \A a \in attempts : \E s \in scores : s.attempt = a
    /\ \A w \in responses : w.attempt \in attempts
    /\ \A s \in scores :
        /\ s.attempt \in attempts
        /\ s.marks = Cardinality({w \in responses : w.attempt = s.attempt})
        /\ \A t \in scores : t.attempt = s.attempt => t = s

\* A client that got a report finds the attempt it names recorded with the
\* score it was told; one that got an empty reply left nothing behind.
RepliesTruthful ==
    \A r \in Requests :
        /\ outcome[r] = "report" =>
            [attempt |-> RowOf(r), marks |-> total[r]] \in scores
        /\ outcome[r] \in EmptyReplies => \A a \in attempts : a.owner # r

\* A request gives up with "conflict" only when MaxRetries other submissions of
\* the same pair got through meanwhile: every collision is another's success.
ConflictMeansContention ==
    \A r \in Requests :
        outcome[r] = "conflict" => LatestNumber(PairOf[r]) >= MaxRetries

\* Attempts become visible in the order of their numbers, and no committed row
\* is ever changed or withdrawn.
CommitsInOrder ==
    [][/\ attempts \subseteq attempts' /\ responses \subseteq responses'
       /\ scores \subseteq scores'
       /\ \A a \in attempts' \ attempts, b \in attempts :
            a.pair = b.pair => b.number < a.number]_tables

\* No request waits for ever on the numbers other requests are inserting.
EveryRequestEnds == \A r \in Requests : <>(pc[r] = "done")

\* "one bad answer must never take down the whole submission"
\* (attempt_evaluation.py:264): no submission is refused because the database
\* lost its attempt while its answers were being scored.
BadAnswerSparesTheRest == \A r \in Requests : outcome[r] # "attempt_gone"

--------------------------------------------------------------------------------
\* The committed tables, read as the abstract ledger.
Ledger == INSTANCE AttemptLedger
    WITH MaxMarks <- Cardinality(Questions),
         ledger <- {[pair |-> s.attempt.pair, number |-> s.attempt.number,
                     owner |-> s.attempt.owner, marks |-> s.marks] : s \in scores}

\* The tables, seen through their scores, are an attempt ledger: one complete
\* entry per step, next number of its pair, one entry per request.
LedgerSpec == Ledger!Spec
================================================================================
