--------------------------- MODULE AssessmentsProofs ---------------------------
(***************************************************************************)
(* Proofs about the app assessments: AttemptSubmission for any requests,   *)
(* pairs, answers and number of retries, and Questionnaires for any posts, *)
(* forms, students and edits.                                              *)
(*                                                                         *)
(* The properties are not inductive by themselves.  What makes numbering   *)
(* work is that a number in flight is unique (the index lock) and is not   *)
(* yet committed, and that it was computed from numbers that only grow;    *)
(* what makes the rows of an attempt arrive together is where in           *)
(* evaluate() a transaction can hold which rows.  A mark is sound because  *)
(* it is the one its question, as it was asked, gives its answer.          *)
(***************************************************************************)
EXTENDS AttemptSubmission, Questionnaires, FiniteSums, FiniteSetTheorems,
        SequenceTheorems, FunctionTheorems, TLAPS

(***************************************************************************)
(* AttemptSubmission                                                       *)
(***************************************************************************)

\* The numbers of a pair are 1..n, each held by one row.
NumberingInv ==
    /\ \A p \in Pairs : LatestNumber(p) \in Nat /\ Numbers(p) = 1..LatestNumber(p)
    /\ \A a, b \in attempts : a.pair = b.pair /\ a.number = b.number => a = b

\* A request owns at most one committed attempt, the one with the number it
\* holds, and has left the transaction that wrote it.
OwnerInv == \A a \in attempts :
    /\ a = RowOf(a.owner)
    /\ pc[a.owner] \in {"reply", "done"}
    /\ outcome[a.owner] \notin EmptyReplies

\* What r's open transaction holds at each place of evaluate().
Holds(r) ==
    /\ txAttempts[r] # {} =>
        /\ pc[r] \in {"answers", "score", "commit"}
        /\ txAttempts[r] = {RowOf(r)}
        /\ candidate[r] \notin Numbers(PairOf[r])
    /\ pc[r] \in {"answers", "commit"} => txAttempts[r] # {}
    /\ txResponses[r] # {} => txAttempts[r] # {}
    /\ \A w \in txResponses[r] : w.attempt = RowOf(r)
    /\ IsFiniteSet(txResponses[r])
    /\ txAttempts[r] # {} => total[r] = Cardinality(txResponses[r])
    /\ pc[r] \in {"number", "insert"} => total[r] = 0
    /\ txScores[r] = IF pc[r] = "commit"
                     THEN {[attempt |-> RowOf(r), marks |-> total[r]]} ELSE {}
HoldsInv == \A r \in Requests : Holds(r)

\* The index lock: two transactions never hold the same number of a pair.
LockInv == \A r, o \in Requests :
    /\ txAttempts[r] # {} /\ txAttempts[o] # {}
    /\ PairOf[r] = PairOf[o] /\ candidate[r] = candidate[o]
    => r = o

\* A candidate was one above a latest number that can only have grown since,
\* and every collision so far was with a number committed meanwhile.
CandidateInv == \A r \in Requests :
    /\ pc[r] \in {"insert", "answers", "score", "commit"} =>
        /\ candidate[r] \in 1..(LatestNumber(PairOf[r]) + 1)
        /\ retry[r] < candidate[r]
    /\ retry[r] <= LatestNumber(PairOf[r])
    /\ retry[r] < MaxRetries \/ pc[r] = "done"
    /\ outcome[r] = "conflict" => retry[r] = MaxRetries

\* How far the reply is.
ReplyInv == \A r \in Requests :
    /\ outcome[r] # "pending" => pc[r] = "done"
    /\ pc[r] = "reply" \/ outcome[r] = "report" =>
        [attempt |-> RowOf(r), marks |-> total[r]] \in scores

\* The marks of a committed score count the answers committed with it.
MarksInv == \A s \in scores : s.marks = total[s.attempt.owner]

IInv == /\ TypeOK /\ NumberingInv /\ OwnerInv /\ HoldsInv /\ LockInv
        /\ CandidateInv /\ ReplyInv /\ MarksInv /\ AllOrNothing

--------------------------------------------------------------------------------
\* The highest of 1..k is k.
LEMMA HighestOfInterval ==
    ASSUME NEW k \in Nat
    PROVE  Highest(1..k) = k
<1>1. ASSUME NEW n \in (1..k) \cup {0}, \A m \in 1..k : m <= n
      PROVE  n = k
  <2>1. n \in Nat /\ n <= k OBVIOUS
  <2>2. CASE k = 0 BY <2>1, <2>2
  <2>3. CASE k # 0
    <3>1. k \in 1..k BY <2>3
    <3> QED BY <1>1, <2>1, <3>1
  <2> QED BY <2>2, <2>3
<1>2. k \in (1..k) \cup {0} /\ \A m \in 1..k : m <= k
  OBVIOUS
<1> QED BY <1>1, <1>2 DEF Highest

\* As long as no attempt is committed the numbers of every pair stay.
LEMMA NumbersStay ==
    ASSUME UNCHANGED attempts
    PROVE  \A p : Numbers(p)' = Numbers(p) /\ LatestNumber(p)' = LatestNumber(p)
<1>1. \A p : Numbers(p)' = Numbers(p)
  BY DEF Numbers
<1> QED BY <1>1 DEF LatestNumber

LEMMA InitIInv == Init => IInv
<1> SUFFICES ASSUME Init PROVE IInv OBVIOUS
<1>1. TypeOK
  BY SubmissionAssumption DEF Init, TypeOK, Places, Outcomes
<1>2. NumberingInv
  <2>1. \A p : Numbers(p) = 1..0 BY DEF Init, Numbers
  <2>2. Highest(1..0) = 0 BY HighestOfInterval
  <2>3. \A p : LatestNumber(p) = 0 BY <2>1, <2>2 DEF LatestNumber
  <2>4. \A a, b \in attempts : a.pair = b.pair /\ a.number = b.number => a = b
    BY DEF Init
  <2>5. \A p \in Pairs : LatestNumber(p) \in Nat /\ Numbers(p) = 1..LatestNumber(p)
    BY <2>1, <2>3
  <2> QED BY <2>4, <2>5 DEF NumberingInv
<1>3. HoldsInv
  BY FS_EmptySet DEF Init, HoldsInv, Holds
<1>4. CandidateInv /\ ReplyInv
  BY <1>2, SubmissionAssumption DEF Init, CandidateInv, ReplyInv, NumberingInv
<1> QED BY <1>1, <1>2, <1>3, <1>4
  DEF Init, IInv, OwnerInv, LockInv, MarksInv, AllOrNothing

\* The pair of a request is a pair, so its latest number is a natural.
LEMMA LatestNat ==
    ASSUME NumberingInv, NEW r \in Requests
    PROVE  /\ LatestNumber(PairOf[r]) \in Nat
           /\ Numbers(PairOf[r]) = 1..LatestNumber(PairOf[r])
BY SubmissionAssumption DEF NumberingInv

\* Committed attempts belong to requests that have left their transaction.
LEMMA OwnersLeft ==
    ASSUME TypeOK, OwnerInv, NEW a \in attempts
    PROVE  /\ a.owner \in Requests
           /\ \A r \in Requests : pc[r] \notin {"reply", "done"} => a.owner # r
BY DEF TypeOK, OwnerInv, AttemptRow

\* A step of r before its commit leaves what the others hold.
LEMMA OthersHold ==
    ASSUME HoldsInv, NEW r \in Requests, Holds(r)', UNCHANGED attempts,
           \A o \in Requests \ {r} :
               /\ txAttempts'[o] = txAttempts[o] /\ txResponses'[o] = txResponses[o]
               /\ txScores'[o] = txScores[o] /\ total'[o] = total[o]
               /\ pc'[o] = pc[o] /\ candidate'[o] = candidate[o]
    PROVE  HoldsInv'
<1> SUFFICES ASSUME NEW o \in Requests, o # r PROVE Holds(o)'
  BY DEF HoldsInv, Holds
<1>1. RowOf(o)' = RowOf(o) BY DEF RowOf
<1> QED BY <1>1, NumbersStay DEF HoldsInv, Holds

--------------------------------------------------------------------------------
\* Each action preserves IInv.

LEMMA ReadLatestIInv ==
    ASSUME IInv, NEW r \in Requests, ReadLatest(r)
    PROVE  IInv'
<1> USE DEF IInv, ReadLatest
<1>1. TypeOK'
  <2>1. candidate' \in [Requests -> Nat] /\ pc' \in [Requests -> Places]
    BY LatestNat DEF TypeOK, Places
  <2> QED BY <2>1 DEF TypeOK
<1>2. NumberingInv' BY NumbersStay DEF NumberingInv
<1>3. OwnerInv'
  BY OwnersLeft DEF OwnerInv, TypeOK, RowOf
<1>4. HoldsInv'
  <2>1. txAttempts[r] = {} /\ txResponses[r] = {} /\ pc'[r] = "insert"
    BY DEF HoldsInv, Holds, TypeOK
  <2>2. Holds(r)' BY <2>1, FS_EmptySet DEF HoldsInv, Holds
  <2> QED BY <2>2, OthersHold DEF TypeOK
<1>5. LockInv' BY DEF LockInv, HoldsInv, Holds, TypeOK
<1>6. CandidateInv'
  <2>1. candidate'[r] = LatestNumber(PairOf[r]) + 1 /\ pc'[r] = "insert" BY DEF TypeOK
  <2>2. \A o \in Requests : o # r => candidate'[o] = candidate[o] /\ pc'[o] = pc[o]
    BY DEF TypeOK
  <2>3. retry[r] \in Nat /\ LatestNumber(PairOf[r]) \in Nat
    BY LatestNat DEF TypeOK
  <2> QED BY <2>1, <2>2, <2>3, NumbersStay DEF CandidateInv
<1>7. ReplyInv' BY DEF ReplyInv, TypeOK, RowOf
<1>8. MarksInv' /\ AllOrNothing' BY DEF MarksInv, AllOrNothing
<1> QED BY <1>1, <1>2, <1>3, <1>4, <1>5, <1>6, <1>7, <1>8

LEMMA InsertAttemptIInv ==
    ASSUME IInv, NEW r \in Requests, InsertAttempt(r)
    PROVE  IInv'
<1> USE DEF IInv, InsertAttempt
<1>1. RowOf(r) \in AttemptRow
  <2>1. candidate[r] \in Nat \ {0} BY LatestNat DEF CandidateInv
  <2> QED BY <2>1, SubmissionAssumption DEF RowOf, AttemptRow
<1>2. \A o \in Requests : RowOf(o)' = RowOf(o)
  BY DEF RowOf
<1>3. TypeOK'
  <2>1. txAttempts' \in [Requests -> SUBSET AttemptRow] /\ pc' \in [Requests -> Places]
    BY <1>1 DEF TypeOK, Places
  <2> QED BY <2>1 DEF TypeOK
<1>4. NumberingInv' BY NumbersStay DEF NumberingInv
<1>5. OwnerInv' BY <1>2, OwnersLeft DEF OwnerInv, TypeOK
<1>6. HoldsInv'
  <2>1. /\ txResponses[r] = {} /\ total[r] = 0
        /\ txAttempts'[r] = {RowOf(r)} /\ pc'[r] = "answers"
    BY DEF HoldsInv, Holds, TypeOK
  <2>2. Holds(r)'
    BY <2>1, <1>2, NumbersStay, FS_EmptySet DEF HoldsInv, Holds, KeyTaken
  <2> QED BY <2>2, OthersHold DEF TypeOK
<1>7. LockInv'
  <2>1. ASSUME NEW o \in Requests \ {r}, txAttempts[o] # {}, PairOf[o] = PairOf[r]
        PROVE  candidate[o] # candidate[r]
    <3>1. RowOf(o) \in txAttempts[o] BY <2>1 DEF HoldsInv, Holds
    <3>2. RowOf(o).pair = PairOf[r] /\ RowOf(o).number = candidate[o]
      BY <2>1 DEF RowOf
    <3> QED BY <3>1, <3>2, <2>1 DEF KeyInFlight
  <2> QED BY <2>1 DEF LockInv, TypeOK
<1>8. CandidateInv' BY NumbersStay DEF CandidateInv, TypeOK
<1>9. ReplyInv' BY <1>2 DEF ReplyInv, TypeOK
<1>10. MarksInv' /\ AllOrNothing' BY DEF MarksInv, AllOrNothing
<1> QED BY <1>3, <1>4, <1>5, <1>6, <1>7, <1>8, <1>9, <1>10

LEMMA RetryNumberIInv ==
    ASSUME IInv, NEW r \in Requests, RetryNumber(r)
    PROVE  IInv'
<1> USE DEF IInv, RetryNumber
<1>1. \A o \in Requests : RowOf(o)' = RowOf(o)
  BY DEF RowOf
<1>2. retry[r] \in Nat /\ retry[r] + 1 <= LatestNumber(PairOf[r])
  BY LatestNat DEF CandidateInv, TypeOK, KeyTaken
<1>3. TypeOK'
  <2>1. retry' \in [Requests -> 0..MaxRetries] /\ pc' \in [Requests -> Places]
    BY <1>2, SubmissionAssumption DEF TypeOK, Places
  <2> QED BY <2>1 DEF TypeOK
<1>4. NumberingInv' BY NumbersStay DEF NumberingInv
<1>5. OwnerInv' BY <1>1, OwnersLeft DEF OwnerInv, TypeOK
<1>6. HoldsInv'
  <2>1. txAttempts[r] = {} /\ pc'[r] = "number" BY DEF HoldsInv, Holds, TypeOK
  <2>2. Holds(r)' BY <2>1, <1>1 DEF HoldsInv, Holds
  <2> QED BY <2>2, OthersHold DEF TypeOK
<1>7. LockInv' BY DEF LockInv
<1>8. CandidateInv'
  <2>1. retry'[r] = retry[r] + 1 /\ pc'[r] = "number" BY DEF TypeOK
  <2>2. \A o \in Requests : o # r => retry'[o] = retry[o] /\ pc'[o] = pc[o]
    BY DEF TypeOK
  <2>3. outcome[r] # "conflict" BY DEF ReplyInv
  <2> QED BY <2>1, <2>2, <2>3, <1>2, NumbersStay DEF CandidateInv
<1>9. ReplyInv' BY <1>1 DEF ReplyInv, TypeOK
<1>10. MarksInv' /\ AllOrNothing' BY DEF MarksInv, AllOrNothing
<1> QED BY <1>3, <1>4, <1>5, <1>6, <1>7, <1>8, <1>9, <1>10

\* The five ways to end without a report.
LEMMA FailIInv ==
    ASSUME IInv, NEW r \in Requests, NEW how \in EmptyReplies \cup {"dropped"},
           pc[r] # "done", how # "dropped" => pc[r] # "reply",
           Fail(r, how), UNCHANGED <<candidate, cursor, total>>,
           retry' \in [Requests -> 0..MaxRetries],
           \A o \in Requests \ {r} : retry'[o] = retry[o],
           retry'[r] <= LatestNumber(PairOf[r]),
           how = "conflict" => retry'[r] = MaxRetries
    PROVE  IInv'
<1> USE DEF IInv, Fail, Rollback
<1>1. \A o \in Requests : RowOf(o)' = RowOf(o)
  BY DEF RowOf
<1>2. TypeOK' BY DEF TypeOK, Places, Outcomes, EmptyReplies
<1>3. NumberingInv' BY NumbersStay DEF NumberingInv
<1>4. OwnerInv'
  <2> SUFFICES ASSUME NEW a \in attempts
               PROVE  /\ a = RowOf(a.owner)' /\ pc'[a.owner] \in {"reply", "done"}
                      /\ outcome'[a.owner] \notin EmptyReplies
    BY DEF OwnerInv
  <2>1. a.owner \in Requests BY OwnersLeft
  <2>2. a.owner = r => how = "dropped" BY OwnersLeft
  <2> QED BY <1>1, <2>1, <2>2 DEF OwnerInv, TypeOK, EmptyReplies
<1>5. HoldsInv'
  <2>1. /\ txAttempts'[r] = {} /\ txResponses'[r] = {} /\ txScores'[r] = {}
        /\ pc'[r] = "done"
    BY DEF TypeOK
  <2>2. Holds(r)' BY <2>1, FS_EmptySet DEF Holds
  <2> QED BY <2>2, OthersHold DEF TypeOK
<1>6. LockInv' BY DEF LockInv, TypeOK
<1>7. CandidateInv' BY NumbersStay DEF CandidateInv, TypeOK
<1>8. ReplyInv' BY <1>1 DEF ReplyInv, TypeOK, EmptyReplies
<1>9. MarksInv' /\ AllOrNothing' BY DEF MarksInv, AllOrNothing
<1> QED BY <1>2, <1>3, <1>4, <1>5, <1>6, <1>7, <1>8, <1>9

LEMMA RejectIInv ==
    ASSUME IInv, NEW r \in Requests, Reject(r)
    PROVE  IInv'
<1>1. retry[r] <= LatestNumber(PairOf[r]) /\ retry \in [Requests -> 0..MaxRetries]
  BY DEF IInv, CandidateInv, TypeOK
<1> QED BY <1>1, FailIInv DEF Reject, EmptyReplies

LEMMA GiveUpIInv ==
    ASSUME IInv, NEW r \in Requests, GiveUp(r)
    PROVE  IInv'
<1>1. /\ retry[r] \in Nat /\ retry[r] + 1 <= LatestNumber(PairOf[r])
      /\ retry[r] < MaxRetries
  BY LatestNat DEF IInv, CandidateInv, TypeOK, GiveUp, KeyTaken
<1>2. retry[r] + 1 = MaxRetries
  BY <1>1, SubmissionAssumption DEF GiveUp
<1>3. /\ retry' \in [Requests -> 0..MaxRetries] /\ retry'[r] = MaxRetries
      /\ \A o \in Requests \ {r} : retry'[o] = retry[o]
  BY <1>1, <1>2, SubmissionAssumption DEF IInv, TypeOK, GiveUp
<1> QED BY <1>1, <1>2, <1>3, FailIInv DEF GiveUp, EmptyReplies

LEMMA EndingsIInv ==
    ASSUME IInv, NEW r \in Requests, AttemptGone(r) \/ ServerError(r) \/ Die(r)
    PROVE  IInv'
<1>1. retry[r] <= LatestNumber(PairOf[r]) /\ retry \in [Requests -> 0..MaxRetries]
  BY DEF IInv, CandidateInv, TypeOK
<1> QED BY <1>1, FailIInv DEF AttemptGone, ServerError, Die, EmptyReplies

\* Scoring an answer, and leaving the savepoint.
LEMMA AnswerIInv ==
    ASSUME IInv, NEW r \in Requests, SkipAnswer(r) \/ SaveRaises(r)
    PROVE  IInv'
<1> USE DEF IInv, SkipAnswer, SaveRaises
<1>1. \A o \in Requests : RowOf(o)' = RowOf(o)
  BY DEF RowOf
<1>2. TypeOK'
  <2>1. cursor' = [cursor EXCEPT ![r] = cursor[r] + 1] OBVIOUS
  <2>2. cursor[r] + 1 \in Nat \ {0} BY DEF TypeOK
  <2>3. cursor' \in [Requests -> Nat \ {0}] BY <2>1, <2>2 DEF TypeOK
  <2>4. poisoned' \in [Requests -> BOOLEAN] BY DEF TypeOK
  <2> QED BY <2>3, <2>4 DEF TypeOK
<1>3. NumberingInv' BY NumbersStay DEF NumberingInv
<1>4. OwnerInv' BY <1>1, OwnersLeft DEF OwnerInv
<1>5. HoldsInv'
  <2>1. Holds(r)' BY <1>1, NumbersStay DEF HoldsInv, Holds
  <2> QED BY <2>1, OthersHold
<1>6. LockInv' BY DEF LockInv
<1>7. CandidateInv' BY NumbersStay DEF CandidateInv
<1>8. ReplyInv' BY <1>1 DEF ReplyInv
<1>9. MarksInv' /\ AllOrNothing' BY DEF MarksInv, AllOrNothing
<1> QED BY <1>2, <1>3, <1>4, <1>5, <1>6, <1>7, <1>8, <1>9

LEMMA ScoreAnswerIInv ==
    ASSUME IInv, NEW r \in Requests, ScoreAnswer(r)
    PROVE  IInv'
<1> DEFINE w == [attempt |-> RowOf(r), question |-> Answers[r][cursor[r]]]
<1> USE DEF IInv, ScoreAnswer
<1>1. \A o \in Requests : RowOf(o)' = RowOf(o)
  BY DEF RowOf
<1>2. /\ pc[r] = "answers" /\ txAttempts[r] = {RowOf(r)}
      /\ RowOf(r) \in AttemptRow
  BY DEF MoreAnswers, HoldsInv, Holds, TypeOK
<1>3. w \in ResponseRow /\ w \notin txResponses[r]
  <2>1. Answers[r][cursor[r]] \in Questions
    <3>1. Answers[r] \in Seq(Questions) BY SubmissionAssumption
    <3>2. cursor[r] \in 1..Len(Answers[r])
      BY <3>1 DEF MoreAnswers, TypeOK
    <3> QED BY <3>1, <3>2
  <2>2. w \notin txResponses[r]
    BY DEF Acceptable, Answered
  <2> QED BY <2>1, <2>2, <1>2 DEF ResponseRow
<1>4. txResponses' = [txResponses EXCEPT ![r] = @ \cup {w}]
  OBVIOUS
<1>5. TypeOK'
  <2>1. txResponses' \in [Requests -> SUBSET ResponseRow]
    BY <1>3, <1>4 DEF TypeOK
  <2> QED BY <2>1 DEF TypeOK
<1>6. NumberingInv' BY NumbersStay DEF NumberingInv
<1>7. OwnerInv' BY <1>1, OwnersLeft DEF OwnerInv
<1>8. HoldsInv'
  <2>1. /\ txResponses'[r] = txResponses[r] \cup {w} /\ total'[r] = total[r] + 1
        /\ w.attempt = RowOf(r)
    BY <1>4 DEF TypeOK
  <2>2. IsFiniteSet(txResponses[r]) /\ total[r] = Cardinality(txResponses[r])
    BY <1>2 DEF HoldsInv, Holds
  <2>3. /\ IsFiniteSet(txResponses'[r])
        /\ total'[r] = Cardinality(txResponses'[r])
    BY <2>1, <2>2, <1>3, FS_AddElement
  <2>4. Holds(r)'
    BY <2>1, <2>3, <1>1, <1>2, NumbersStay DEF HoldsInv, Holds
  <2> QED BY <2>4, OthersHold DEF TypeOK
<1>9. LockInv' BY DEF LockInv
<1>10. CandidateInv' BY NumbersStay DEF CandidateInv
<1>11. ReplyInv' BY <1>1, <1>2 DEF ReplyInv, TypeOK
<1>12. MarksInv'
  BY <1>2, OwnersLeft DEF MarksInv, AllOrNothing, TypeOK
<1>13. AllOrNothing' BY DEF AllOrNothing
<1> QED BY <1>5, <1>6, <1>7, <1>8, <1>9, <1>10, <1>11, <1>12, <1>13

LEMMA LeaveSavepointIInv ==
    ASSUME IInv, NEW r \in Requests, LeaveSavepoint(r)
    PROVE  IInv'
<1> USE DEF IInv, LeaveSavepoint
<1>1. \A o \in Requests : RowOf(o)' = RowOf(o)
  BY DEF RowOf
<1>2. TypeOK' BY DEF TypeOK, Places
<1>3. NumberingInv' BY NumbersStay DEF NumberingInv
<1>4. OwnerInv' BY <1>1, OwnersLeft DEF OwnerInv, TypeOK
<1>5. HoldsInv'
  <2>1. pc'[r] = "score" BY DEF TypeOK
  <2>2. \/ txAttempts'[r] = {} /\ txResponses'[r] = {}
        \/ txAttempts'[r] = txAttempts[r] /\ txResponses'[r] = txResponses[r]
    BY DEF TypeOK
  <2>3. Holds(r)' BY <2>1, <2>2, <1>1, NumbersStay, FS_EmptySet DEF HoldsInv, Holds
  <2> QED BY <2>3, OthersHold DEF TypeOK
<1>6. LockInv' BY DEF LockInv, TypeOK
<1>7. CandidateInv' BY NumbersStay DEF CandidateInv, TypeOK
<1>8. ReplyInv' BY <1>1 DEF ReplyInv, TypeOK
<1>9. MarksInv' /\ AllOrNothing' BY DEF MarksInv, AllOrNothing
<1> QED BY <1>2, <1>3, <1>4, <1>5, <1>6, <1>7, <1>8, <1>9

LEMMA SaveScoreIInv ==
    ASSUME IInv, NEW r \in Requests, SaveScore(r)
    PROVE  IInv'
<1> USE DEF IInv, SaveScore, AttemptExists
<1>1. \A o \in Requests : RowOf(o)' = RowOf(o)
  BY DEF RowOf
<1>2. TypeOK'
  <2>1. [attempt |-> RowOf(r), marks |-> total[r]] \in ScoreRow
    BY DEF HoldsInv, Holds, TypeOK, ScoreRow
  <2>2. txScores' \in [Requests -> SUBSET ScoreRow] /\ pc' \in [Requests -> Places]
    BY <2>1 DEF TypeOK, Places
  <2> QED BY <2>2 DEF TypeOK
<1>3. NumberingInv' BY NumbersStay DEF NumberingInv
<1>4. OwnerInv' BY <1>1, OwnersLeft DEF OwnerInv, TypeOK
<1>5. HoldsInv'
  <2>1. /\ pc'[r] = "commit"
        /\ txScores'[r] = {[attempt |-> RowOf(r), marks |-> total[r]]}
    BY DEF TypeOK
  <2>2. Holds(r)' BY <2>1, <1>1, NumbersStay DEF HoldsInv, Holds
  <2> QED BY <2>2, OthersHold DEF TypeOK
<1>6. LockInv' BY DEF LockInv
<1>7. CandidateInv' BY NumbersStay DEF CandidateInv, TypeOK
<1>8. ReplyInv' BY <1>1 DEF ReplyInv, TypeOK
<1>9. MarksInv' /\ AllOrNothing' BY DEF MarksInv, AllOrNothing
<1> QED BY <1>2, <1>3, <1>4, <1>5, <1>6, <1>7, <1>8, <1>9

LEMMA ReplyIInv ==
    ASSUME IInv, NEW r \in Requests, Reply(r)
    PROVE  IInv'
<1> USE DEF IInv, Reply
<1>1. \A o \in Requests : RowOf(o)' = RowOf(o)
  BY DEF RowOf
<1>2. TypeOK' BY DEF TypeOK, Places, Outcomes
<1>3. NumberingInv' BY NumbersStay DEF NumberingInv
<1>4. OwnerInv' BY <1>1, OwnersLeft DEF OwnerInv, TypeOK, EmptyReplies
<1>5. HoldsInv'
  <2>1. pc'[r] = "done" BY DEF TypeOK
  <2>2. Holds(r)' BY <2>1, <1>1, NumbersStay DEF HoldsInv, Holds
  <2> QED BY <2>2, OthersHold DEF TypeOK
<1>6. LockInv' BY DEF LockInv
<1>7. CandidateInv' BY NumbersStay DEF CandidateInv, TypeOK
<1>8. ReplyInv' BY <1>1 DEF ReplyInv, TypeOK
<1>9. MarksInv' /\ AllOrNothing' BY DEF MarksInv, AllOrNothing
<1> QED BY <1>2, <1>3, <1>4, <1>5, <1>6, <1>7, <1>8, <1>9

\* The commit of r gives its pair one number more, and nobody else holds it.
LEMMA CommitNumber ==
    ASSUME IInv, NEW r \in Requests, Commit(r)
    PROVE  /\ candidate[r] = LatestNumber(PairOf[r]) + 1
           /\ LatestNumber(PairOf[r])' = candidate[r]
           /\ \A p \in Pairs :
                /\ p # PairOf[r] => LatestNumber(p)' = LatestNumber(p)
                /\ Numbers(p)' = 1..LatestNumber(p)'
                /\ LatestNumber(p)' \in Nat /\ LatestNumber(p) <= LatestNumber(p)'
           /\ \A o \in Requests \ {r} : txAttempts[o] # {} => PairOf[o] # PairOf[r]
<1> DEFINE P == PairOf[r]
<1> USE DEF IInv, Commit
<1>1. /\ P \in Pairs /\ LatestNumber(P) \in Nat
      /\ Numbers(P) = 1..LatestNumber(P)
  BY LatestNat, SubmissionAssumption
<1>2. /\ candidate[r] \in 1..(LatestNumber(P) + 1) /\ candidate[r] \notin Numbers(P)
      /\ txAttempts[r] = {RowOf(r)}
  BY DEF HoldsInv, Holds, CandidateInv
<1>3. candidate[r] = LatestNumber(P) + 1
  BY <1>1, <1>2
<1>4. attempts' = attempts \cup {RowOf(r)} /\ RowOf(r).pair = P
      /\ RowOf(r).number = candidate[r]
  BY <1>2 DEF RowOf
<1>5. \A p \in Pairs : p # P => Numbers(p)' = Numbers(p)
  BY <1>4 DEF Numbers
<1>6. Numbers(P)' = Numbers(P) \cup {candidate[r]}
  BY <1>4 DEF Numbers
<1>7. Numbers(P)' = 1..candidate[r]
  BY <1>1, <1>3, <1>6
<1>8. LatestNumber(P)' = candidate[r]
  BY <1>1, <1>3, <1>7, HighestOfInterval DEF LatestNumber
<1>9. \A p \in Pairs : p # P => LatestNumber(p)' = LatestNumber(p)
  BY <1>5 DEF LatestNumber
<1>10. \A p \in Pairs : Numbers(p)' = 1..LatestNumber(p)'
  BY <1>5, <1>7, <1>8, <1>9 DEF NumberingInv
<1>11. ASSUME NEW o \in Requests \ {r}, txAttempts[o] # {}, PairOf[o] = P
       PROVE  FALSE
  <2>1. candidate[o] \in 1..(LatestNumber(P) + 1) /\ candidate[o] \notin Numbers(P)
    BY <1>11 DEF HoldsInv, Holds, CandidateInv
  <2>2. candidate[o] = candidate[r] BY <2>1, <1>1, <1>3
  <2> QED BY <2>2, <1>2, <1>11 DEF LockInv
<1>12. \A p \in Pairs :
           LatestNumber(p)' \in Nat /\ LatestNumber(p) <= LatestNumber(p)'
  <2>1. \A p \in Pairs : LatestNumber(p) \in Nat BY DEF NumberingInv
  <2> QED BY <2>1, <1>1, <1>3, <1>8, <1>9
<1> QED BY <1>3, <1>8, <1>9, <1>10, <1>11, <1>12

LEMMA CommitIInv ==
    ASSUME IInv, NEW r \in Requests, Commit(r)
    PROVE  IInv'
<1> DEFINE row == RowOf(r)
           score == [attempt |-> RowOf(r), marks |-> total[r]]
<1> USE DEF IInv, Commit
<1>1. \A o \in Requests : RowOf(o)' = RowOf(o)
  BY DEF RowOf
<1>2. /\ txAttempts[r] = {row} /\ txScores[r] = {score}
      /\ row \in AttemptRow /\ score \in ScoreRow
      /\ \A w \in txResponses[r] : w.attempt = row
      /\ IsFiniteSet(txResponses[r]) /\ total[r] = Cardinality(txResponses[r])
  BY DEF HoldsInv, Holds, TypeOK
<1>3. /\ attempts' = attempts \cup {row} /\ scores' = scores \cup {score}
      /\ responses' = responses \cup txResponses[r]
  BY <1>2
<1>4. /\ pc'[r] = "reply" /\ txAttempts'[r] = {} /\ txResponses'[r] = {}
      /\ txScores'[r] = {}
      /\ \A o \in Requests \ {r} :
            /\ pc'[o] = pc[o] /\ txAttempts'[o] = txAttempts[o]
            /\ txResponses'[o] = txResponses[o] /\ txScores'[o] = txScores[o]
  BY DEF TypeOK, Rollback
<1>5. \A a \in attempts : a.owner \in Requests \ {r}
  BY OwnersLeft
<1>6. outcome[r] = "pending" BY DEF ReplyInv
<1>7. TypeOK'
  <2>1. /\ attempts' \subseteq AttemptRow /\ scores' \subseteq ScoreRow
        /\ responses' \subseteq ResponseRow
    BY <1>2, <1>3 DEF TypeOK
  <2>2. /\ txAttempts' \in [Requests -> SUBSET AttemptRow]
        /\ txResponses' \in [Requests -> SUBSET ResponseRow]
        /\ txScores' \in [Requests -> SUBSET ScoreRow]
        /\ poisoned' \in [Requests -> BOOLEAN] /\ pc' \in [Requests -> Places]
    BY DEF TypeOK, Rollback, Places
  <2> QED BY <2>1, <2>2 DEF TypeOK
<1>8. NumberingInv'
  <2>1. ASSUME NEW a \in attempts, a.pair = row.pair PROVE a.number # row.number
    <3>1. a.number \in Numbers(PairOf[r])
      BY <2>1 DEF Numbers, RowOf
    <3> QED BY <3>1 DEF HoldsInv, Holds, RowOf
  <2>2. \A a, b \in attempts' : a.pair = b.pair /\ a.number = b.number => a = b
    BY <2>1, <1>3 DEF NumberingInv
  <2> QED BY <2>2, CommitNumber DEF NumberingInv
<1>9. OwnerInv'
  <2>1. row.owner = r BY DEF RowOf
  <2> QED BY <2>1, <1>1, <1>3, <1>4, <1>5, <1>6 DEF OwnerInv, EmptyReplies
<1>10. HoldsInv'
  <2> SUFFICES ASSUME NEW o \in Requests PROVE Holds(o)' BY DEF HoldsInv
  <2>1. CASE o = r BY <2>1, <1>4, FS_EmptySet DEF Holds
  <2>2. CASE o # r
    <3>1. txAttempts[o] # {} => Numbers(PairOf[o])' = Numbers(PairOf[o])
      BY <2>2, CommitNumber, SubmissionAssumption, LatestNat
    <3> QED BY <2>2, <3>1, <1>1, <1>4 DEF HoldsInv, Holds
  <2> QED BY <2>1, <2>2
<1>11. LockInv' BY <1>4 DEF LockInv
<1>12. CandidateInv'
  <2>1. \A o \in Requests : /\ LatestNumber(PairOf[o]) \in Nat
                            /\ LatestNumber(PairOf[o])' \in Nat
                            /\ LatestNumber(PairOf[o]) <= LatestNumber(PairOf[o])'
    BY CommitNumber, LatestNat, SubmissionAssumption
  <2> QED BY <2>1, <1>4, <1>6 DEF CandidateInv, TypeOK
<1>13. ReplyInv' BY <1>1, <1>3, <1>4, <1>6 DEF ReplyInv
<1>14. MarksInv'
  <2>1. score.attempt.owner = r /\ score.marks = total[r] BY DEF RowOf
  <2> QED BY <2>1, <1>3 DEF MarksInv
<1>15. AllOrNothing'
  <2>1. row \notin attempts /\ score.attempt = row
    <3>1. row.owner = r BY DEF RowOf
    <3> QED BY <3>1, <1>5
  <2>2. \A a \in attempts' : \E s \in scores' : s.attempt = a
    BY <2>1, <1>3 DEF AllOrNothing
  <2>3. \A w \in responses' : w.attempt \in attempts'
    BY <1>2, <1>3 DEF AllOrNothing
  <2>4. ASSUME NEW s \in scores
        PROVE  /\ s.attempt \in attempts'
               /\ s.marks = Cardinality({w \in responses' : w.attempt = s.attempt})
               /\ \A t \in scores' : t.attempt = s.attempt => t = s
    <3>1. s.attempt \in attempts /\ s.attempt # row BY <2>1 DEF AllOrNothing
    <3>2. {w \in responses' : w.attempt = s.attempt}
            = {w \in responses : w.attempt = s.attempt}
      BY <3>1, <1>2, <1>3
    <3> QED BY <3>1, <3>2, <2>1, <1>3 DEF AllOrNothing
  <2>5. /\ score.attempt \in attempts'
        /\ score.marks = Cardinality({w \in responses' : w.attempt = score.attempt})
        /\ \A t \in scores' : t.attempt = score.attempt => t = score
    <3>1. {w \in responses' : w.attempt = row} = txResponses[r]
      BY <2>1, <1>2, <1>3 DEF AllOrNothing
    <3> QED BY <3>1, <2>1, <1>2, <1>3 DEF AllOrNothing
  <2>6. ASSUME NEW s \in scores'
        PROVE  /\ s.attempt \in attempts'
               /\ s.marks = Cardinality({w \in responses' : w.attempt = s.attempt})
               /\ \A t \in scores' : t.attempt = s.attempt => t = s
    <3>1. CASE s = score BY <3>1, <2>5
    <3>2. CASE s \in scores BY <3>2, <2>4
    <3> QED BY <3>1, <3>2, <1>3
  <2> QED BY <2>2, <2>3, <2>6 DEF AllOrNothing
<1> QED BY <1>7, <1>8, <1>9, <1>10, <1>11, <1>12, <1>13, <1>14, <1>15

--------------------------------------------------------------------------------
\* IInv is an invariant.
LEMMA NextIInv == IInv /\ [Next]_vars => IInv'
<1> SUFFICES ASSUME IInv, [Next]_vars PROVE IInv' OBVIOUS
<1>1. ASSUME NEW r \in Requests, Step(r) \/ Die(r) PROVE IInv'
  BY <1>1, RejectIInv, ReadLatestIInv, InsertAttemptIInv, RetryNumberIInv, GiveUpIInv,
     AnswerIInv, ScoreAnswerIInv, LeaveSavepointIInv, SaveScoreIInv, EndingsIInv,
     CommitIInv, ReplyIInv DEF Step
<1>2. CASE UNCHANGED vars
  <2>1. \A r \in Requests : RowOf(r)' = RowOf(r) BY <1>2 DEF vars, RowOf
  <2>2. TypeOK' BY <1>2 DEF vars, IInv, TypeOK
  <2>3. NumberingInv' BY <1>2, NumbersStay DEF vars, IInv, NumberingInv
  <2>4. OwnerInv' BY <1>2, <2>1, OwnersLeft DEF vars, IInv, OwnerInv
  <2>5. HoldsInv' BY <1>2, <2>1, NumbersStay DEF vars, IInv, HoldsInv, Holds
  <2>6. LockInv' BY <1>2 DEF vars, IInv, LockInv
  <2>7. CandidateInv' BY <1>2, NumbersStay DEF vars, IInv, CandidateInv
  <2>8. ReplyInv' BY <1>2, <2>1 DEF vars, IInv, ReplyInv
  <2>9. MarksInv' /\ AllOrNothing' BY <1>2 DEF vars, IInv, MarksInv, AllOrNothing
  <2> QED BY <2>2, <2>3, <2>4, <2>5, <2>6, <2>7, <2>8, <2>9 DEF IInv
<1> QED BY <1>1, <1>2 DEF Next, AllDone

\* The inductive invariant of evaluate(): its named parts hold at every step of every
\* request (attempt_evaluation.py:555-617).
THEOREM Invariance == Spec => []IInv
BY InitIInv, NextIInv, PTL DEF Spec

\* Every variable stays in its type.
THEOREM TypeCorrect == Spec => []TypeOK
BY Invariance, PTL DEF IInv

\* Attempts are numbered 1..n, and no two rows of a pair share a number: the
\* row being committed carries a number no other transaction holds and no
\* committed row has.
THEOREM Numbering == Spec => []NumbersContiguous
<1>1. IInv => NumbersContiguous
  BY DEF IInv, NumberingInv, NumbersContiguous
<1> QED BY <1>1, Invariance, PTL

\* An attempt, its answers and its score are committed together or not at all.
THEOREM Atomicity == Spec => []AllOrNothing
BY Invariance, PTL DEF IInv

\* A client that gets a report finds its attempt and score recorded; one that gets
\* an empty reply left nothing behind.
THEOREM TruthfulReplies == Spec => []RepliesTruthful
<1>1. IInv => RepliesTruthful
  <2> SUFFICES ASSUME IInv, NEW r \in Requests
               PROVE  /\ outcome[r] = "report" =>
                            [attempt |-> RowOf(r), marks |-> total[r]] \in scores
                      /\ outcome[r] \in EmptyReplies => \A a \in attempts : a.owner # r
    BY DEF RepliesTruthful
  <2> QED BY DEF IInv, ReplyInv, OwnerInv
<1> QED BY <1>1, Invariance, PTL

\* A request gives up only after MaxRetries others got through.
THEOREM ContentionOnly == Spec => []ConflictMeansContention
<1>1. IInv => ConflictMeansContention
  BY DEF IInv, CandidateInv, ConflictMeansContention
<1> QED BY <1>1, Invariance, PTL

\* Only a commit changes the tables.
LEMMA OnlyCommits ==
    ASSUME [Next]_vars
    PROVE  UNCHANGED tables \/ \E r \in Requests : Commit(r)
BY DEF Next, Step, AllDone, vars, tables, Reject, ReadLatest, InsertAttempt, RetryNumber,
   GiveUp, SkipAnswer, ScoreAnswer, SaveRaises, LeaveSavepoint, SaveScore, AttemptGone,
   ServerError, Reply, Die, Fail

\* Attempts appear in the order of their numbers and stay as they are.
THEOREM CommitOrder == Spec => CommitsInOrder
<1>1. ASSUME IInv, NEW r \in Requests, Commit(r)
      PROVE  \A a \in attempts' \ attempts, b \in attempts :
                a.pair = b.pair => b.number < a.number
  <2> SUFFICES ASSUME NEW b \in attempts, b.pair = PairOf[r]
               PROVE  b.number < candidate[r]
    <3>1. attempts' \ attempts \subseteq {RowOf(r)}
      BY <1>1 DEF IInv, HoldsInv, Holds, Commit
    <3>2. RowOf(r).pair = PairOf[r] /\ RowOf(r).number = candidate[r]
      BY DEF RowOf
    <3> QED BY <3>1, <3>2
  <2>1. b.number \in Numbers(PairOf[r]) BY DEF Numbers
  <2>2. /\ LatestNumber(PairOf[r]) \in Nat
        /\ Numbers(PairOf[r]) = 1..LatestNumber(PairOf[r])
    BY <1>1, LatestNat DEF IInv
  <2> QED BY <2>1, <2>2, <1>1, CommitNumber
<1>2. IInv /\ [Next]_vars =>
        [/\ attempts \subseteq attempts' /\ responses \subseteq responses'
         /\ scores \subseteq scores'
         /\ \A a \in attempts' \ attempts, b \in attempts :
                a.pair = b.pair => b.number < a.number]_tables
  BY <1>1, OnlyCommits DEF Commit
<1> QED BY <1>2, Invariance, PTL DEF Spec, CommitsInOrder

--------------------------------------------------------------------------------
\* AttemptSubmission implements AttemptLedger.

Entries == {[pair |-> s.attempt.pair, number |-> s.attempt.number,
             owner |-> s.attempt.owner, marks |-> s.marks] : s \in scores}

\* A response row is determined by its attempt and its question, so an attempt
\* has at most as many answers, and marks, as there are questions.
LEMMA MarksBounded ==
    ASSUME IInv, NEW r \in Requests, txAttempts[r] # {}
    PROVE  total[r] \in 0..Cardinality(Questions)
<1> DEFINE Q == txResponses[r]
           f == [w \in Q |-> w.question]
<1>1. /\ IsFiniteSet(Q) /\ total[r] = Cardinality(Q) /\ Q \subseteq ResponseRow
      /\ \A w \in Q : w.attempt = RowOf(r)
  BY DEF IInv, HoldsInv, Holds, TypeOK
<1>2. \A v, w \in Q : v.question = w.question => v = w
  BY <1>1 DEF ResponseRow
<1>3. f \in Injection(Q, Questions)
  BY <1>1, <1>2 DEF Injection, IsInjective, ResponseRow
<1>4. Cardinality(Q) <= Cardinality(Questions)
  BY <1>3, FS_Injection, SubmissionAssumption
<1>5. Cardinality(Q) \in Nat /\ Cardinality(Questions) \in Nat
  BY <1>1, FS_CardinalityType, SubmissionAssumption
<1> QED BY <1>1, <1>4, <1>5

\* Through their scores, the entries of a pair carry the attempts' numbers.
LEMMA EnteredNumbers ==
    ASSUME IInv, NEW p \in Pairs
    PROVE  Ledger!Entered(p) = 1..LatestNumber(p)
<1>1. Ledger!Entered(p) = {e.number : e \in {f \in Entries : f.pair = p}}
  BY DEF Ledger!Entered, Entries
<1>2. ASSUME NEW n \in Numbers(p)
      PROVE  n \in {e.number : e \in {f \in Entries : f.pair = p}}
  <2>1. PICK a \in attempts : a.pair = p /\ a.number = n BY DEF Numbers
  <2>2. PICK s \in scores : s.attempt = a BY DEF IInv, AllOrNothing
  <2>3. DEFINE e == [pair |-> s.attempt.pair, number |-> s.attempt.number,
                     owner |-> s.attempt.owner, marks |-> s.marks]
  <2>4. e \in Entries /\ e.pair = p /\ e.number = n BY <2>1, <2>2 DEF Entries
  <2> QED BY <2>4
<1>3. ASSUME NEW e \in Entries, e.pair = p
      PROVE  e.number \in Numbers(p)
  <2>1. PICK s \in scores : e.pair = s.attempt.pair /\ e.number = s.attempt.number
    BY DEF Entries
  <2>2. s.attempt \in attempts BY DEF IInv, AllOrNothing
  <2> QED BY <2>1, <2>2, <1>3 DEF Numbers
<1>4. Numbers(p) = 1..LatestNumber(p) BY DEF IInv, NumberingInv
<1> QED BY <1>1, <1>2, <1>3, <1>4

\* A commit records one complete entry with the next number.
LEMMA CommitRecords ==
    ASSUME IInv, NEW r \in Requests, Commit(r), NEW m, m = total[r]
    PROVE  Ledger!Record(r, m)
<1> DEFINE new == [pair |-> PairOf[r], number |-> candidate[r], owner |-> r,
                   marks |-> total[r]]
<1>1. txScores[r] = {[attempt |-> RowOf(r), marks |-> total[r]]}
  BY DEF IInv, HoldsInv, Holds, Commit
<1>2. Entries' = Entries \cup {new}
  <2> DEFINE EntryOf(s) == [pair |-> s.attempt.pair, number |-> s.attempt.number,
                            owner |-> s.attempt.owner, marks |-> s.marks]
             score == [attempt |-> RowOf(r), marks |-> total[r]]
  <2>1. scores' = scores \cup {score} BY <1>1 DEF Commit
  <2>2. EntryOf(score) = new BY DEF RowOf
  <2>3. Entries = {EntryOf(s) : s \in scores} BY DEF Entries
  <2>4. Entries' = {EntryOf(s) : s \in scores'} BY DEF Entries
  <2> HIDE DEF EntryOf, score, new
  <2> QED BY <2>1, <2>2, <2>3, <2>4
<1>3. ASSUME NEW e \in Entries PROVE e.owner # r
  <2>1. PICK s \in scores : e.owner = s.attempt.owner BY DEF Entries
  <2>2. s.attempt \in attempts BY DEF IInv, AllOrNothing
  <2> QED BY <2>1, <2>2, OwnersLeft DEF IInv, Commit
<1>4. Ledger!Highest(Ledger!Entered(PairOf[r])) + 1 = candidate[r]
  <2>1. LatestNumber(PairOf[r]) \in Nat BY LatestNat DEF IInv
  <2>2. Highest(1..LatestNumber(PairOf[r])) = LatestNumber(PairOf[r])
    BY <2>1, HighestOfInterval
  <2>3. \A S : Ledger!Highest(S) = Highest(S) BY DEF Ledger!Highest, Highest
  <2> QED BY <2>2, <2>3, EnteredNumbers, CommitNumber, SubmissionAssumption
<1>5. Entries' = Entries \cup {[pair |-> PairOf[r],
            number |-> Ledger!Highest(Ledger!Entered(PairOf[r])) + 1,
            owner |-> r, marks |-> m]}
  BY <1>2, <1>4
<1> QED BY <1>3, <1>5 DEF Ledger!Record, Entries

\* The committed tables implement the ledger: every commit is one entry, every
\* other step a stutter.
THEOREM Refinement == Spec => LedgerSpec
<1>1. Init => Ledger!Init
  BY DEF Init, Ledger!Init
<1>2. IInv /\ [Next]_vars => [Ledger!Next]_Entries
  <2> SUFFICES ASSUME IInv, [Next]_vars PROVE [Ledger!Next]_Entries OBVIOUS
  <2>1. CASE UNCHANGED tables BY <2>1 DEF tables, Entries
  <2>2. ASSUME NEW r \in Requests, Commit(r) PROVE Ledger!Next
    <3>1. txAttempts[r] # {} BY <2>2 DEF IInv, HoldsInv, Holds, Commit
    <3>2. PICK m \in 0..Cardinality(Questions) : m = total[r]
      BY <3>1, MarksBounded
    <3>3. Ledger!Record(r, m) BY <3>2, <2>2, CommitRecords
    <3> QED BY <3>3 DEF Ledger!Next
  <2> QED BY <2>1, <2>2, OnlyCommits
<1> QED BY <1>1, <1>2, Invariance, PTL
  DEF Spec, LedgerSpec, Ledger!Spec, Entries

(***************************************************************************)
(* Questionnaires                                                          *)
(***************************************************************************)

--------------------------------------------------------------------------------
(* Percentage, pass mark and feedback.                                      *)

\* A quotient is at least k just when k divisors fit.
LEMMA QuotientAtLeast ==
    ASSUME NEW n \in Int, NEW d \in Nat \ {0}
    PROVE  /\ n \div d \in Int
           /\ \A k \in Int : n \div d >= k <=> k * d <= n
<1> DEFINE q == n \div d
<1>1. q \in Int /\ d * q <= n /\ n < d * (q + 1)
  OBVIOUS
<1> HIDE DEF q
<1>2. ASSUME NEW k \in Int, q >= k PROVE k * d <= n
  <2>1. k * d <= q * d
    BY <1>1, <1>2, Products
  <2> QED BY <1>1, <2>1
<1>3. ASSUME NEW k \in Int, k * d <= n PROVE q >= k
  <2> SUFFICES ASSUME q + 1 <= k PROVE FALSE
    BY <1>1
  <2>1. (q + 1) * d <= k * d
    BY <1>1, Products
  <2>2. (q + 1) * d = d * (q + 1) /\ k * d \in Int
    BY <1>1
  <2> QED BY <1>1, <1>3, <2>1, <2>2
<1> QED BY <1>1, <1>2, <1>3 DEF q

\* A maximum in fractions of a point.
LEMMA Fractions ==
    ASSUME NEW max \in Nat \ {0}
    PROVE  max * Unit \in Nat \ {0}
BY ScoringAssumption

LEMMA ClampedInRange ==
    ASSUME NEW raw \in Int, NEW max \in Nat \ {0}
    PROVE  Clamped(raw, max) \in 0 .. max * Unit
<1>1. max * Unit \in Nat \ {0}
  BY Fractions
<1> QED BY <1>1 DEF Clamped

\* What the percentage says about the share.
LEMMA PercentageAtLeast ==
    ASSUME NEW raw \in Int, NEW max \in Nat \ {0}
    PROVE  /\ Percentage(raw, max) \in Nat
           /\ \A k \in Int : Percentage(raw, max) >= k
                <=> k * (2 * (max * Unit)) <= 20000 * Clamped(raw, max) + max * Unit
<1> DEFINE m == max * Unit
           c == Clamped(raw, max)
<1>1. m \in Nat \ {0} /\ c \in 0 .. m
  BY Fractions, ClampedInRange
<1>2. Percentage(raw, max) = (20000 * c + m) \div (2 * m)
  <2>1. 2 * max * Unit = 2 * m
    BY ScoringAssumption
  <2> QED BY <2>1 DEF Percentage
<1> HIDE DEF m, c
<1>3. 20000 * c + m \in Int /\ 2 * m \in Nat \ {0} /\ 0 * (2 * m) = 0 /\ 0 <= 20000 * c + m
  BY <1>1
<1> QED BY <1>2, <1>3, QuotientAtLeast DEF m, c

\* Every share has its band, which is good from one half on.
LEMMA FeedbackBand ==
    ASSUME NEW raw \in Int, NEW max \in Nat \ {0}
    PROVE  LET b == from_percentage(raw, max) IN
           /\ b \in Bands
           /\ Lower(b) * max * Unit <= 100 * Clamped(raw, max)
           /\ 100 * Clamped(raw, max) < Upper(b) * max * Unit
<1> DEFINE m == max * Unit
           c == Clamped(raw, max)
<1>1. m \in Nat \ {0} /\ c \in 0 .. m
  BY Fractions, ClampedInRange
<1>2. \A k \in Int : k * max * Unit = k * m
  BY ScoringAssumption
<1> HIDE DEF m, c
<1>3. \E b \in Bands : Lower(b) * m <= 100 * c /\ 100 * c < Upper(b) * m
  <2> DEFINE Fits(b) == 10 * b * m <= 100 * c /\ 100 * c < (IF b = 9 THEN 101 ELSE 10 * (b + 1)) * m
  <2>1. \/ Fits(0) \/ Fits(1) \/ Fits(2) \/ Fits(3) \/ Fits(4)
        \/ Fits(5) \/ Fits(6) \/ Fits(7) \/ Fits(8) \/ Fits(9)
    BY <1>1
  <2>2. \E b \in Bands : Fits(b)
    BY <2>1 DEF Bands
  <2> QED BY <2>2 DEF Lower, Upper
<1>4. \A b \in Bands : Lower(b) \in Int /\ Upper(b) \in Int
  BY DEF Bands, Lower, Upper
<1>5. \E b \in Bands : Lower(b) * max * Unit <= 100 * Clamped(raw, max)
                       /\ 100 * Clamped(raw, max) < Upper(b) * max * Unit
  BY <1>2, <1>3, <1>4 DEF c
<1> QED BY <1>5 DEF from_percentage

\* The story of VerdictsAgree about one attempt.
LEMMA OneStory ==
    ASSUME NEW raw \in Int, NEW max \in Nat \ {0}
    PROVE  LET p == Percentage(raw, max)
               b == from_percentage(raw, max)
           IN  /\ p > 5000 => Passed(raw, max)
               /\ Passed(raw, max) /\ ~(p > 5000) => p = 5000
               /\ b >= Good <=> Passed(raw, max)
               /\ p = 10000 => b = 9
<1> DEFINE m == max * Unit
           c == Clamped(raw, max)
           p == Percentage(raw, max)
           b == from_percentage(raw, max)
<1>1. m \in Nat \ {0} /\ c \in 0 .. m
  BY Fractions, ClampedInRange
<1>2. /\ p \in Nat
      /\ \A k \in Int : p >= k <=> k * (2 * m) <= 20000 * c + m
  BY PercentageAtLeast
<1>3. b \in Bands /\ Lower(b) * m <= 100 * c /\ 100 * c < Upper(b) * m
  <2>1. b \in Bands /\ Lower(b) \in Int /\ Upper(b) \in Int
    BY FeedbackBand DEF Bands, Lower, Upper
  <2>2. \A k \in Int : k * max * Unit = k * m
    BY ScoringAssumption
  <2> QED BY <2>1, <2>2, FeedbackBand
<1>4. Passed(raw, max) <=> 2 * c >= m
  BY DEF Passed
<1> HIDE DEF m, c, p, b
<1>5. p >= 5001 => 2 * c >= m
  BY <1>1, <1>2
<1>6. 2 * c >= m => p >= 5000
  BY <1>1, <1>2
<1>7. b >= 5 <=> 2 * c >= m
  BY <1>1, <1>3 DEF Bands, Lower, Upper
<1>8. p >= 10000 => b = 9
  BY <1>1, <1>2, <1>3 DEF Bands, Lower, Upper
<1> QED BY <1>2, <1>4, <1>5, <1>6, <1>7, <1>8 DEF p, b, Good

--------------------------------------------------------------------------------
(* Marks.                                                                   *)

\* A share of a maximum is the maximum just when it is all of it.
LEMMA ShareOfMaximum ==
    ASSUME NEW m \in Nat \ {0}, NEW d \in Nat \ {0}, NEW n \in 0 .. d
    PROVE  /\ (m * n) \div d \in 0 .. m
           /\ (m * n) \div d = m <=> n = d
<1> DEFINE x == m * n
           z == m * d
           q == x \div d
<1>1. x \in Int /\ z \in Int /\ 0 <= x /\ x <= z /\ (x = z <=> n = d)
  <2>1. n * m <= d * m /\ (n # d => (n + 1) * m <= d * m)
    BY Products
  <2> QED BY <2>1
<1>2. q \in Int /\ \A k \in Int : q >= k <=> k * d <= x
  BY <1>1, QuotientAtLeast
<1>3. q >= 0
  BY <1>1, <1>2
<1>4. q >= m <=> x = z
  BY <1>1, <1>2
<1>5. ~(q >= m + 1)
  <2>1. (m + 1) * d = z + d
    OBVIOUS
  <2> QED BY <1>1, <1>2, <2>1
<1> HIDE DEF q, x, z
<1>6. q \in 0 .. m /\ (q = m <=> n = d)
  BY <1>1, <1>2, <1>3, <1>4, <1>5
<1> QED BY <1>6 DEF q, x

\* The larger ratio has the larger share.
LEMMA LargerShare ==
    ASSUME NEW m \in Nat \ {0}, NEW n \in Nat, NEW d \in Nat \ {0},
           NEW k \in Nat, NEW e \in Nat \ {0}, k * d <= n * e
    PROVE  (m * k) \div e <= (m * n) \div d
<1> DEFINE q == (m * k) \div e
<1>1. m * k \in Int /\ m * n \in Int /\ k * d \in Int /\ n * e \in Int
  OBVIOUS
<1>2. q \in Int /\ q * e <= m * k
  BY <1>1, QuotientAtLeast
<1> HIDE DEF q
<1>3. (q * e) * d <= (m * k) * d
  BY <1>1, <1>2, Products
<1>4. (k * d) * m <= (n * e) * m
  BY <1>1, Products
<1>5. (q * e) * d = (q * d) * e /\ (m * k) * d = (k * d) * m /\ (n * e) * m = (m * n) * e
  BY <1>2
<1>6. (q * d) * e <= (m * n) * e /\ q * d \in Int
  BY <1>1, <1>2, <1>3, <1>4, <1>5
<1>7. q * d <= m * n
  <2> SUFFICES ASSUME m * n + 1 <= q * d PROVE FALSE
    BY <1>1, <1>6
  <2>1. (m * n + 1) * e <= (q * d) * e
    BY <1>1, <1>6, Products
  <2>2. (m * n + 1) * e = (m * n) * e + e /\ (m * n) * e \in Int
    BY <1>1
  <2> QED BY <1>6, <2>1, <2>2
<1>8. q <= (m * n) \div d
  BY <1>1, <1>2, <1>7, QuotientAtLeast
<1> QED BY <1>8 DEF q

\* More hits among fewer extra choices have the larger ratio.
LEMMA LargerRatio ==
    ASSUME NEW r \in Nat, NEW h \in Nat, NEW x \in Nat, NEW k \in Nat, NEW y \in Nat,
           k <= h, x <= y
    PROVE  (k * k) * (r * (h + x)) <= (h * h) * (r * (k + y))
<1> DEFINE a == (k * k) * h
           b == (h * h) * k
           c == (k * k) * x
           d == (h * h) * y
<1>1. k * k \in Nat /\ h * h \in Nat /\ h * k \in Nat
  OBVIOUS
<1>2. k * (h * k) <= h * (h * k)
  BY <1>1, Products
<1>3. a \in Nat /\ b \in Nat /\ a <= b
  BY <1>2
<1>4. k * k <= h * h
  <2>1. k * k <= h * k /\ k * h <= h * h
    BY Products
  <2> QED BY <2>1
<1>5. (k * k) * x <= (h * h) * x
  BY <1>1, <1>4, Products
<1>6. x * (h * h) <= y * (h * h)
  BY <1>1, Products
<1>7. c \in Nat /\ d \in Nat /\ c <= d
  BY <1>1, <1>5, <1>6
<1>8. (k * k) * (r * (h + x)) = (a + c) * r /\ (h * h) * (r * (k + y)) = (b + d) * r
  OBVIOUS
<1> HIDE DEF a, b, c, d
<1>9. (a + c) * r <= (b + d) * r
  BY <1>3, <1>7, Products
<1> QED BY <1>8, <1>9

\* What a query returns: every choice once, by its order.
LEMMA FetchedOnce ==
    ASSUME NEW q, IsQuestion(q), NEW s \in Fetched(q)
    PROVE  LET n == Cardinality(q.choices) IN
           /\ n \in Nat /\ (n = 0 <=> q.choices = {})
           /\ s \in [1 .. n -> q.choices] /\ DOMAIN s = 1 .. n /\ Len(s) = n
           /\ \A i, j \in 1 .. n : s[i] = s[j] => i = j
           /\ \A c \in q.choices : \E i \in 1 .. n : s[i] = c
           /\ \A i, j \in 1 .. n : i < j => s[i].order <= s[j].order
<1> DEFINE n == Cardinality(q.choices)
<1>1. n \in Nat /\ (n = 0 <=> q.choices = {})
  BY FS_CardinalityType, FS_EmptySet DEF IsQuestion
<1>2. s \in Bijection(1 .. n, q.choices)
  BY DEF Fetched
<1>3. \A i, j \in DOMAIN s : i < j => s[i].order <= s[j].order
  BY DEF Fetched
<1> HIDE DEF n
<1>4. /\ s \in [1 .. n -> q.choices]
      /\ \A i, j \in 1 .. n : s[i] = s[j] => i = j
      /\ \A c \in q.choices : \E i \in 1 .. n : s[i] = c
  BY <1>2 DEF Bijection, Injection, Surjection, IsInjective
<1>5. DOMAIN s = 1 .. n
  BY <1>4
<1>6. s \in Seq(q.choices) /\ Len(s) = n
  BY <1>1, <1>4
<1> QED BY <1>1, <1>3, <1>4, <1>5, <1>6 DEF n

\* Where no two choices have one order, each stands after all that are before it.
LEMMA RankOfChoice ==
    ASSUME NEW q, IsQuestion(q), Ordered(q), NEW s \in Fetched(q), NEW i \in DOMAIN s
    PROVE  Cardinality({d \in q.choices : d.order < s[i].order}) = i - 1
<1> DEFINE n == Cardinality(q.choices)
           before == {d \in q.choices : d.order < s[i].order}
           f == [j \in 1 .. i - 1 |-> s[j]]
<1>1. /\ n \in Nat /\ i \in 1 .. n /\ s \in [1 .. n -> q.choices]
      /\ \A j, k \in 1 .. n : s[j] = s[k] => j = k
      /\ \A c \in q.choices : \E j \in 1 .. n : s[j] = c
      /\ \A j, k \in 1 .. n : j < k => s[j].order <= s[k].order
  BY FetchedOnce
<1>2. \A c \in q.choices : c.order \in Int
  BY DEF IsQuestion
<1> HIDE DEF n
<1>3. \A j \in 1 .. n : s[j] \in before <=> j < i
  <2>1. ASSUME NEW j \in 1 .. n, j < i PROVE s[j] \in before
    <3>1. s[j].order <= s[i].order /\ s[j] # s[i] /\ s[j] \in q.choices /\ s[i] \in q.choices
      BY <1>1, <2>1
    <3>2. s[j].order # s[i].order
      BY <3>1 DEF Ordered
    <3> QED BY <1>2, <3>1, <3>2
  <2>2. ASSUME NEW j \in 1 .. n, ~(j < i) PROVE s[j] \notin before
    <3>1. s[j] \in q.choices /\ s[i] \in q.choices /\ (j = i \/ i < j)
      BY <1>1, <2>2
    <3>2. s[i].order <= s[j].order
      BY <1>1, <1>2, <3>1
    <3> QED BY <1>2, <3>1, <3>2
  <2> QED BY <2>1, <2>2
<1>4. f \in [1 .. i - 1 -> before]
  BY <1>1, <1>3
<1>5. \A c \in before : \E j \in 1 .. i - 1 : f[j] = c
  BY <1>1, <1>3
<1>6. \A j, k \in 1 .. i - 1 : f[j] = f[k] => j = k
  BY <1>1
<1> HIDE DEF f, before
<1>7. f \in Bijection(1 .. i - 1, before)
  BY <1>4, <1>5, <1>6 DEF Bijection, Injection, Surjection, IsInjective
<1>8. IsFiniteSet(1 .. i - 1) /\ Cardinality(1 .. i - 1) = i - 1
  BY <1>1, FS_Interval
<1>9. ExistsBijection(1 .. i - 1, before)
  BY <1>7 DEF ExistsBijection
<1>10. Cardinality(before) = i - 1
  BY <1>8, <1>9, FS_Bijection
<1> QED BY <1>10 DEF before

\* ... so that there is only one order they come in.
LEMMA OneOrder ==
    ASSUME NEW q, IsQuestion(q), Ordered(q), NEW s \in Fetched(q), NEW t \in Fetched(q)
    PROVE  s = t
<1> DEFINE n == Cardinality(q.choices)
<1>1. /\ n \in Nat
      /\ s \in [1 .. n -> q.choices] /\ DOMAIN s = 1 .. n
      /\ t \in [1 .. n -> q.choices] /\ DOMAIN t = 1 .. n
      /\ \A c \in q.choices : \E j \in 1 .. n : s[j] = c
  BY FetchedOnce
<1> HIDE DEF n
<1>2. ASSUME NEW i \in 1 .. n PROVE s[i] = t[i]
  <2>1. PICK j \in 1 .. n : s[j] = t[i]
    BY <1>1
  <2>2. Cardinality({d \in q.choices : d.order < s[j].order}) = j - 1
    BY <1>1, RankOfChoice
  <2>3. Cardinality({d \in q.choices : d.order < t[i].order}) = i - 1
    BY <1>1, RankOfChoice
  <2>4. j = i
    BY <2>1, <2>2, <2>3
  <2> QED BY <2>1, <2>4
<1> QED BY <1>1, <1>2

\* The first entry of a kind is of that kind.
LEMMA FirstIsOne ==
    ASSUME NEW q, IsQuestion(q), NEW s \in Fetched(q), NEW S \in SUBSET q.choices, S # {}
    PROVE  First(s, S) \in S
<1> DEFINE n == Cardinality(q.choices)
           T == {i \in DOMAIN s : s[i] \in S}
<1>1. n \in Nat /\ DOMAIN s = 1 .. n /\ \A c \in q.choices : \E i \in 1 .. n : s[i] = c
  BY FetchedOnce
<1> HIDE DEF n
<1>2. T \in SUBSET Nat /\ T # {}
  BY <1>1
<1>3. \E x \in T : \A y \in T : x <= y
  BY <1>2, LeastExists
<1>4. Min(T) \in T
  BY <1>3 DEF Min
<1> QED BY <1>4 DEF First

LEMMA ListFinite ==
    ASSUME NEW s, IsList(s)
    PROVE  /\ Len(s) \in Nat /\ DOMAIN s = 1 .. Len(s) /\ IsFiniteSet(DOMAIN s)
           /\ s # <<>> => 1 \in DOMAIN s
<1> DEFINE R == Range(s)
<1>1. s \in Seq(R)
  BY DEF IsList
<1> HIDE DEF R
<1>2. Len(s) \in Nat /\ DOMAIN s = 1 .. Len(s)
  BY <1>1
<1>3. s # <<>> => Len(s) > 0
  BY <1>1
<1> QED BY <1>2, <1>3, FS_Interval

LEMMA ListedFinite ==
    ASSUME NEW a, IsList(a.keys)
    PROVE  /\ IsFiniteSet(Listed(a))
           /\ a.keys # <<>> => Listed(a) # {}
<1>1. IsFiniteSet(DOMAIN a.keys) /\ (a.keys # <<>> => 1 \in DOMAIN a.keys)
  BY ListFinite
<1>2. IsFiniteSet({a.keys[i] : i \in DOMAIN a.keys})
  BY <1>1, ImageFinite
<1> QED BY <1>1, <1>2 DEF Listed

LEMMA FoldedFinite ==
    ASSUME NEW S, IsFiniteSet(S)
    PROVE  IsFiniteSet(Folded(S)) /\ Cardinality(Folded(S)) \in Nat /\ (Folded(S) = {} <=> S = {})
BY ImageFinite DEF Folded

\* A multiple selection: hits among right and among chosen ones.
LEMMA MultiMark ==
    ASSUME NEW q, IsQuestion(q), NEW a, IsList(a.keys), a.keys # <<>>
    PROVE  LET R == Folded(RightKeys(q))
               C == Folded(Listed(a))
               h == Cardinality(R \cap C)
               all == Cardinality(R) * Cardinality(C)
           IN  /\ IsFiniteSet(R) /\ IsFiniteSet(C) /\ Cardinality(R) \in Nat
               /\ h \in Nat /\ all \in Nat /\ h * h \in 0 .. all
               /\ R = {} => handle_multi(q, a) = NoMark
               /\ R # {} => /\ all \in Nat \ {0}
                            /\ handle_multi(q, a) = Mark(((q.max * Unit) * (h * h)) \div all, h * h = all)
<1> DEFINE R == Folded(RightKeys(q))
           C == Folded(Listed(a))
           h == Cardinality(R \cap C)
           all == Cardinality(R) * Cardinality(C)
<1>1. IsFiniteSet(RightKeys(q))
  <2>1. IsFiniteSet(Right(q))
    <3>1. Right(q) \in SUBSET q.choices
      BY DEF Right
    <3> QED BY <3>1, FS_Subset DEF IsQuestion
  <2>2. IsFiniteSet({[d \in Right(q) |-> d.key][c] : c \in Right(q)})
    BY <2>1, ImageFinite
  <2>3. {[d \in Right(q) |-> d.key][c] : c \in Right(q)} = RightKeys(q)
    BY DEF RightKeys
  <2> QED BY <2>2, <2>3
<1>2. IsFiniteSet(R) /\ Cardinality(R) \in Nat /\ IsFiniteSet(C) /\ Cardinality(C) \in Nat /\ C # {}
  BY <1>1, ListedFinite, FoldedFinite
<1>3. handle_multi(q, a) = IF R = {} THEN NoMark
                           ELSE Mark((q.max * Unit * h * h) \div all, h * h = all)
  BY DEF handle_multi
<1> HIDE DEF R, C
<1>4. h \in Nat /\ h <= Cardinality(R) /\ h <= Cardinality(C)
  BY <1>2, FS_Intersection, FS_CardinalityType
<1>5. R # {} => Cardinality(R) # 0 /\ Cardinality(C) # 0
  BY <1>2, FS_EmptySet
<1>6. q.max * Unit * h * h = (q.max * Unit) * (h * h)
  BY <1>4, ScoringAssumption DEF IsQuestion
<1> HIDE DEF h
<1>7. h * h \in 0 .. all /\ all \in Nat
  <2>1. h * h <= Cardinality(R) * h /\ h * Cardinality(R) <= Cardinality(C) * Cardinality(R)
    BY <1>2, <1>4, Products
  <2> QED BY <1>2, <1>4, <2>1
<1>8. R # {} => all \in Nat \ {0}
  BY <1>2, <1>5
<1> QED BY <1>2, <1>3, <1>4, <1>6, <1>7, <1>8 DEF R, C, h

\* A ranking: matches among all choices.
LEMMA RankingMark ==
    ASSUME NEW q, IsQuestion(q), NEW s \in Fetched(q), NEW a
    PROVE  LET m == Cardinality(Matches(s, a))
               n == Cardinality(q.choices)
           IN  /\ n \in Nat /\ m \in 0 .. n /\ IsFiniteSet(Matches(s, a))
               /\ n = 0 => handle_ranking(q, s, a) = NoMark
               /\ n # 0 => handle_ranking(q, s, a) = Mark(((q.max * Unit) * m) \div n, m = n)
<1> DEFINE n == Cardinality(q.choices)
<1>1. n \in Nat /\ DOMAIN s = 1 .. n /\ Len(s) = n
  BY FetchedOnce
<1> HIDE DEF n
<1>2. Matches(s, a) \in SUBSET (1 .. n)
  BY <1>1 DEF Matches, Shorter
<1>3. IsFiniteSet(1 .. n) /\ Cardinality(1 .. n) = n
  BY <1>1, FS_Interval
<1>4. IsFiniteSet(Matches(s, a)) /\ Cardinality(Matches(s, a)) <= n
  BY <1>2, <1>3, FS_Subset
<1>5. Cardinality(Matches(s, a)) \in Nat
  BY <1>4, FS_CardinalityType
<1> QED BY <1>1, <1>4, <1>5 DEF handle_ranking, n

\* A mark stays within its question and is full just when it is called correct.
LEMMA MarkInRange ==
    ASSUME NEW q, IsQuestion(q), Sane(q), NEW s \in Fetched(q), NEW a, IsList(a.keys), ValidAnswer(q, a)
    PROVE  LET mark == evaluate_question_answer(q, s, a) IN
           /\ mark.points \in 0 .. q.max * Unit
           /\ mark.correct <=> mark.points = q.max * Unit
<1> DEFINE M == q.max * Unit
           Fine(mark) == mark.points \in 0 .. M /\ (mark.correct <=> mark.points = M)
<1>1. q.max \in Nat \ {0} /\ M \in Nat \ {0}
  BY Fractions DEF IsQuestion, Sane
<1>2. Fine(NoMark) /\ \A ok \in BOOLEAN : Fine(AllOrNone(q, ok))
  BY <1>1 DEF NoMark, AllOrNone, Mark
<1>3. \A n, d \in Nat : d # 0 /\ n <= d => Fine(Mark((M * n) \div d, n = d))
  <2> SUFFICES ASSUME NEW n \in Nat, NEW d \in Nat, d # 0, n <= d
               PROVE  Fine(Mark((M * n) \div d, n = d))
    OBVIOUS
  <2> HIDE DEF M
  <2>1. (M * n) \div d \in 0 .. M /\ ((M * n) \div d = M <=> n = d)
    BY <1>1, ShareOfMaximum
  <2> QED BY <2>1 DEF Mark
<1>4. CASE q.type = "MCQ"
  <2>1. Fine(handle_mcq(q, s, a))
    BY <1>2 DEF handle_mcq
  <2> QED BY <1>4, <2>1 DEF evaluate_question_answer
<1>5. CASE q.type = "TEXT"
  <2>1. Fine(handle_text(q, a))
    BY <1>2 DEF handle_text
  <2> QED BY <1>5, <2>1 DEF evaluate_question_answer
<1>6. CASE q.type = "NUMERIC"
  <2> DEFINE t == Target(q, s)
             ok == a.number - t \in -Tolerance(q.config) .. Tolerance(q.config)
  <2>1. Fine(handle_numeric(q, s, a))
    <3>1. ok \in BOOLEAN
      OBVIOUS
    <3>2. handle_numeric(q, s, a) = IF t = Null THEN NoMark ELSE AllOrNone(q, ok)
      BY DEF handle_numeric
    <3> HIDE DEF t, ok, Fine
    <3> QED BY <1>2, <3>1, <3>2
  <2> QED BY <1>6, <2>1 DEF evaluate_question_answer
<1>7. CASE q.type = "LIKERT"
  <2> DEFINE chosen == {c \in q.choices : Fold[c.key] = Fold[a.keys[1]]}
             match == First(s, chosen)
  <2>1. chosen # {} => match \in q.choices
    BY FirstIsOne
  <2>2. chosen # {} => match.partial \in 0 .. Unit
    BY <2>1 DEF Sane
  <2>3. handle_likert(q, s, a) = IF chosen = {} THEN NoMark
                                 ELSE Mark(q.max * match.partial, match.partial >= Unit)
    BY DEF handle_likert
  <2> HIDE DEF match, chosen
  <2>4. ASSUME chosen # {} PROVE Fine(Mark(q.max * match.partial, match.partial >= Unit))
    <3> DEFINE p == match.partial
    <3>1. p \in 0 .. Unit
      BY <2>2, <2>4
    <3> HIDE DEF p
    <3>2. p * q.max <= Unit * q.max /\ (p # Unit => (p + 1) * q.max <= Unit * q.max)
      BY <1>1, <3>1, ScoringAssumption, Products
    <3>3. q.max * p \in 0 .. M /\ (p >= Unit <=> q.max * p = M)
      BY <1>1, <3>1, <3>2, ScoringAssumption
    <3> QED BY <3>3 DEF Mark, p
  <2>5. Fine(handle_likert(q, s, a))
    BY <1>2, <2>3, <2>4
  <2> QED BY <1>7, <2>5 DEF evaluate_question_answer
<1>8. CASE q.type = "MULTI"
  <2>1. a.keys # <<>>
    BY <1>8 DEF ValidAnswer
  <2>2. Fine(handle_multi(q, a))
    <3> DEFINE R == Folded(RightKeys(q))
               h == Cardinality(R \cap Folded(Listed(a)))
               all == Cardinality(R) * Cardinality(Folded(Listed(a)))
    <3>1. /\ h * h \in 0 .. all
          /\ R = {} => handle_multi(q, a) = NoMark
          /\ R # {} => all \in Nat \ {0} /\ handle_multi(q, a) = Mark((M * (h * h)) \div all, h * h = all)
      BY <2>1, MultiMark
    <3> HIDE DEF R, h, all, M
    <3>2. R # {} => h * h \in Nat /\ all \in Nat /\ all # 0 /\ h * h <= all
      BY <3>1
    <3> QED BY <1>2, <1>3, <3>1, <3>2
  <2> QED BY <1>8, <2>2 DEF evaluate_question_answer
<1>9. CASE q.type = "RANKING"
  <2>1. Fine(handle_ranking(q, s, a))
    <3> DEFINE m == Cardinality(Matches(s, a))
               n == Cardinality(q.choices)
    <3>1. /\ n \in Nat /\ m \in 0 .. n
          /\ n = 0 => handle_ranking(q, s, a) = NoMark
          /\ n # 0 => handle_ranking(q, s, a) = Mark((M * m) \div n, m = n)
      BY RankingMark
    <3> HIDE DEF m, n, M
    <3>2. m \in Nat /\ m <= n
      BY <3>1
    <3> QED BY <1>2, <1>3, <3>1, <3>2
  <2> QED BY <1>9, <2>1 DEF evaluate_question_answer
<1> QED BY <1>4, <1>5, <1>6, <1>7, <1>8, <1>9 DEF IsQuestion, Types

\* All that b has right and no more that is wrong: as many points as b.
LEMMA BetterSelection ==
    ASSUME NEW q, IsQuestion(q), Sane(q),
           NEW a, IsList(a.keys), a.keys # <<>>, Listed(a) \subseteq Keys(q),
           NEW b, IsList(b.keys), b.keys # <<>>, Listed(b) \subseteq Keys(q),
           RightKeys(q) \cap Listed(b) \subseteq Listed(a),
           Listed(a) \ RightKeys(q) \subseteq Listed(b)
    PROVE  handle_multi(q, a).points >= handle_multi(q, b).points
<1> DEFINE M == q.max * Unit
           R == Folded(RightKeys(q))
           A == Folded(Listed(a))
           B == Folded(Listed(b))
           h == Cardinality(R \cap A)
           k == Cardinality(R \cap B)
<1>1. q.max \in Nat \ {0} /\ M \in Nat \ {0}
  BY Fractions DEF IsQuestion, Sane
<1>2. /\ IsFiniteSet(R) /\ IsFiniteSet(A) /\ h \in Nat /\ Cardinality(R) \in Nat
      /\ R = {} => handle_multi(q, a) = NoMark
      /\ R # {} => /\ Cardinality(R) * Cardinality(A) \in Nat \ {0}
                   /\ handle_multi(q, a) = Mark((M * (h * h)) \div (Cardinality(R) * Cardinality(A)),
                                                h * h = Cardinality(R) * Cardinality(A))
  BY MultiMark
<1>3. /\ IsFiniteSet(B) /\ k \in Nat
      /\ R = {} => handle_multi(q, b) = NoMark
      /\ R # {} => /\ Cardinality(R) * Cardinality(B) \in Nat \ {0}
                   /\ handle_multi(q, b) = Mark((M * (k * k)) \div (Cardinality(R) * Cardinality(B)),
                                                k * k = Cardinality(R) * Cardinality(B))
  BY MultiMark
<1>4. RightKeys(q) \subseteq Keys(q) /\ \A x, y \in Keys(q) : Fold[x] = Fold[y] => x = y
  BY DEF RightKeys, Right, Keys, Sane
\* No two keys are folded alike: the sets are compared as they are.
<1>5. /\ Folded(RightKeys(q)) \cap Folded(Listed(a)) = Folded(RightKeys(q) \cap Listed(a))
      /\ Folded(Listed(a)) \ Folded(RightKeys(q)) = Folded(Listed(a) \ RightKeys(q))
      /\ Folded(RightKeys(q)) \cap Folded(Listed(b)) = Folded(RightKeys(q) \cap Listed(b))
      /\ Folded(Listed(b)) \ Folded(RightKeys(q)) = Folded(Listed(b) \ RightKeys(q))
  <2> DEFINE K == Keys(q)
             P == RightKeys(q)
             S == Listed(a)
             T == Listed(b)
  <2>1. P \in SUBSET K /\ S \in SUBSET K /\ T \in SUBSET K
    BY <1>4
  <2>2. \A u, v \in K : Fold[u] = Fold[v] => u = v
    BY <1>4
  <2> HIDE DEF K, P, S, T
  <2>3. Folded(P) \cap Folded(S) = Folded(P \cap S)
    BY <2>1, <2>2 DEF Folded
  <2>4. Folded(P) \cap Folded(T) = Folded(P \cap T)
    BY <2>1, <2>2 DEF Folded
  <2>5. Folded(S) \ Folded(P) = Folded(S \ P)
    BY <2>1, <2>2 DEF Folded
  <2>6. Folded(T) \ Folded(P) = Folded(T \ P)
    BY <2>1, <2>2 DEF Folded
  <2> QED BY <2>3, <2>4, <2>5, <2>6 DEF P, S, T
<1>6. R \cap B \subseteq R \cap A /\ A \ R \subseteq B \ R
  <2>1. RightKeys(q) \cap Listed(b) \subseteq RightKeys(q) \cap Listed(a)
    OBVIOUS
  <2>2. Listed(a) \ RightKeys(q) \subseteq Listed(b) \ RightKeys(q)
    OBVIOUS
  <2>3. \A U, V : U \subseteq V => Folded(U) \subseteq Folded(V)
    BY DEF Folded
  <2>4. Folded(RightKeys(q) \cap Listed(b)) \subseteq Folded(RightKeys(q) \cap Listed(a))
    BY <2>1, <2>3
  <2>5. Folded(Listed(a) \ RightKeys(q)) \subseteq Folded(Listed(b) \ RightKeys(q))
    BY <2>2, <2>3
  <2> QED BY <1>5, <2>4, <2>5
<1> HIDE DEF R, A, B, M
<1>7. k <= h
  <2>1. IsFiniteSet(R \cap A)
    BY <1>2, FS_Intersection
  <2> QED BY <1>6, <2>1, FS_Subset
<1> DEFINE x == Cardinality(A \ R)
           y == Cardinality(B \ R)
<1>8. x \in Nat /\ y \in Nat /\ x <= y
  <2>1. IsFiniteSet(A \ R) /\ IsFiniteSet(B \ R)
    BY <1>2, <1>3, FS_Difference
  <2> QED BY <1>6, <2>1, FS_Subset, FS_CardinalityType
<1>9. Cardinality(A) = h + x /\ Cardinality(B) = k + y
  <2>1. A \cap R = R \cap A /\ B \cap R = R \cap B
    OBVIOUS
  <2>2. x = Cardinality(A) - Cardinality(A \cap R) /\ y = Cardinality(B) - Cardinality(B \cap R)
    BY <1>2, <1>3, FS_Difference
  <2>3. Cardinality(A) \in Nat /\ Cardinality(B) \in Nat
    BY <1>2, <1>3, FS_CardinalityType
  <2>4. Cardinality(A \cap R) = h /\ Cardinality(B \cap R) = k
    BY <2>1
  <2> HIDE DEF x, y, h, k
  <2> QED BY <1>2, <1>3, <2>2, <2>3, <2>4
<1>10. ASSUME R # {} PROVE handle_multi(q, a).points >= handle_multi(q, b).points
  <2> DEFINE r == Cardinality(R)
             d == r * Cardinality(A)
             e == r * Cardinality(B)
  <2>1. d \in Nat \ {0} /\ e \in Nat \ {0} /\ h * h \in Nat /\ k * k \in Nat
    BY <1>2, <1>3, <1>10
  <2>2. (k * k) * d <= (h * h) * e
    <3> HIDE DEF h, k, x, y
    <3>1. r \in Nat /\ d = r * (h + x) /\ e = r * (k + y)
      BY <1>2, <1>9
    <3> HIDE DEF r, d, e
    <3> QED BY <1>2, <1>3, <1>7, <1>8, <3>1, LargerRatio
  <2>3. handle_multi(q, a).points = (M * (h * h)) \div d /\ handle_multi(q, b).points = (M * (k * k)) \div e
    BY <1>2, <1>3, <1>10 DEF Mark
  <2> HIDE DEF h, k, d, e, r
  <2>4. h * h \in Nat /\ k * k \in Nat
    BY <2>1
  <2>5. (M * (k * k)) \div e <= (M * (h * h)) \div d
    BY <1>1, <2>1, <2>2, LargerShare
  <2>6. (M * (k * k)) \div e \in Int /\ (M * (h * h)) \div d \in Int
    <3>1. M * (k * k) \in Int /\ M * (h * h) \in Int
      BY <1>1, <2>4
    <3> QED BY <2>1, <3>1
  <2> QED BY <2>3, <2>5, <2>6
<1>11. ASSUME R = {} PROVE handle_multi(q, a).points >= handle_multi(q, b).points
  BY <1>2, <1>3, <1>11 DEF NoMark, Mark
<1> QED BY <1>10, <1>11

\* All the places of b are right in a as well: as many points as b.
LEMMA BetterOrder ==
    ASSUME NEW q, IsQuestion(q), Sane(q), Ordered(q), q.type = "RANKING",
           NEW s \in Fetched(q), NEW t \in Fetched(q),
           NEW a, IsList(a.keys), ValidAnswer(q, a), NEW b, IsList(b.keys), ValidAnswer(q, b),
           RightPlaces(q, b) \subseteq RightPlaces(q, a)
    PROVE  handle_ranking(q, s, a).points >= handle_ranking(q, t, b).points
<1> DEFINE n == Cardinality(q.choices)
           M == q.max * Unit
<1>1. s = t
  BY OneOrder
<1>2. /\ n \in Nat /\ s \in [1 .. n -> q.choices] /\ DOMAIN s = 1 .. n
      /\ \A c \in q.choices : \E i \in 1 .. n : s[i] = c
  BY FetchedOnce
<1>3. \A i \in 1 .. n : Cardinality({d \in q.choices : d.order < s[i].order}) = i - 1
  BY <1>2, RankOfChoice
<1> HIDE DEF n
<1>4. ASSUME NEW e, IsList(e.keys), ValidAnswer(q, e) PROVE Matches(s, e) = RightPlaces(q, e)
  <2>1. Listed(e) = Keys(q)
    BY <1>4 DEF ValidAnswer
  <2>2. \A i \in DOMAIN e.keys : e.keys[i] \in Keys(q)
    BY <2>1 DEF Listed
  <2>3. \A c \in q.choices : c.key \in Keys(q)
    BY DEF Keys
  <2>4. \A k, l \in Keys(q) : Fold[k] = Fold[l] => k = l
    BY DEF Sane
  <2>5. ASSUME NEW i \in Matches(s, e) PROVE i \in RightPlaces(q, e)
    <3>1. i \in 1 .. n /\ i \in DOMAIN e.keys /\ Fold[e.keys[i]] = Fold[s[i].key] /\ s[i] \in q.choices
      BY <1>2, <2>5 DEF Matches, Shorter
    <3>2. e.keys[i] = s[i].key
      BY <2>2, <2>3, <2>4, <3>1
    <3> QED BY <1>3, <3>1, <3>2 DEF RightPlaces
  <2>6. ASSUME NEW i \in RightPlaces(q, e) PROVE i \in Matches(s, e)
    <3>1. PICK c \in q.choices : c.key = e.keys[i] /\ Cardinality({d \in q.choices : d.order < c.order}) = i - 1
      BY <2>6 DEF RightPlaces
    <3>2. PICK j \in 1 .. n : s[j] = c
      BY <1>2
    <3>3. i \in DOMAIN e.keys /\ i \in Int
      BY <1>4, <2>6, ListFinite DEF RightPlaces
    <3>4. Cardinality({d \in q.choices : d.order < s[j].order}) = j - 1
      BY <1>3
    <3>5. i = j
      BY <3>1, <3>2, <3>3, <3>4
    <3> QED BY <1>2, <3>1, <3>2, <3>3, <3>5 DEF Matches, Shorter
  <2> QED BY <2>5, <2>6
<1> DEFINE h == Cardinality(Matches(s, a))
           k == Cardinality(Matches(s, b))
<1>5. q.max \in Nat \ {0} /\ M \in Nat \ {0}
  BY Fractions DEF IsQuestion, Sane
<1>6. /\ h \in 0 .. n /\ IsFiniteSet(Matches(s, a))
      /\ n = 0 => handle_ranking(q, s, a) = NoMark
      /\ n # 0 => handle_ranking(q, s, a) = Mark((M * h) \div n, h = n)
  BY RankingMark DEF n
<1>7. /\ k \in 0 .. n
      /\ n = 0 => handle_ranking(q, s, b) = NoMark
      /\ n # 0 => handle_ranking(q, s, b) = Mark((M * k) \div n, k = n)
  BY RankingMark DEF n
<1>8. k <= h
  BY <1>4, <1>6, FS_Subset
<1> HIDE DEF h, k, M
<1>9. ASSUME n # 0 PROVE handle_ranking(q, s, a).points >= handle_ranking(q, s, b).points
  <2>1. /\ h \in Nat /\ k \in Nat /\ n \in Nat \ {0}
        /\ k * n <= h * n /\ M * k \in Int /\ M * h \in Int
    <3>1. h \in Nat /\ k \in Nat /\ n \in Nat \ {0}
      BY <1>2, <1>6, <1>7, <1>9
    <3>2. k * n <= h * n
      BY <1>8, <3>1, Products
    <3> QED BY <1>5, <3>1, <3>2
  <2>2. (M * k) \div n <= (M * h) \div n
    BY <1>5, <2>1, LargerShare
  <2>3. (M * k) \div n \in Int /\ (M * h) \div n \in Int
    BY <2>1
  <2> QED BY <1>6, <1>7, <1>9, <2>2, <2>3 DEF Mark
<1>10. ASSUME n = 0 PROVE handle_ranking(q, s, a).points >= handle_ranking(q, s, b).points
  BY <1>6, <1>7, <1>10 DEF NoMark, Mark
<1> QED BY <1>1, <1>9, <1>10

\* The better of two answers to one question never scores less.
LEMMA BetterScoresMore ==
    ASSUME NEW q, IsQuestion(q), Sane(q), NEW s \in Fetched(q), NEW t \in Fetched(q),
           NEW a, IsList(a.keys), ValidAnswer(q, a), NEW b, IsList(b.keys), ValidAnswer(q, b),
           AtLeastAsGood(q, a, b)
    PROVE  evaluate_question_answer(q, s, a).points >= evaluate_question_answer(q, t, b).points
<1>1. CASE q.type = "MULTI"
  <2>1. /\ a.keys # <<>> /\ Listed(a) \subseteq Keys(q)
        /\ b.keys # <<>> /\ Listed(b) \subseteq Keys(q)
    BY <1>1 DEF ValidAnswer
  <2>2. /\ RightKeys(q) \cap Listed(b) \subseteq Listed(a)
        /\ Listed(a) \ RightKeys(q) \subseteq Listed(b)
    BY <1>1 DEF AtLeastAsGood
  <2>3. handle_multi(q, a).points >= handle_multi(q, b).points
    BY <2>1, <2>2, BetterSelection
  <2> QED BY <1>1, <2>3 DEF evaluate_question_answer
<1>2. CASE q.type = "RANKING"
  <2>1. Ordered(q) /\ RightPlaces(q, b) \subseteq RightPlaces(q, a)
    BY <1>2 DEF AtLeastAsGood
  <2>2. handle_ranking(q, s, a).points >= handle_ranking(q, t, b).points
    BY <1>2, <2>1, BetterOrder
  <2> QED BY <1>2, <2>2 DEF evaluate_question_answer
<1>3. CASE q.type \notin {"MULTI", "RANKING"}
  <2>1. a = b /\ Ordered(q)
    BY <1>3 DEF AtLeastAsGood
  <2>2. s = t
    BY <2>1, OneOrder
  <2>3. evaluate_question_answer(q, s, a).points \in 0 .. q.max * Unit
    BY MarkInRange
  <2>4. q.max * Unit \in Int
    BY ScoringAssumption DEF IsQuestion
  <2> QED BY <2>1, <2>2, <2>3, <2>4
<1> QED BY <1>1, <1>2, <1>3

\* Whatever an administrator made of a question, its marks are numbers.
LEMMA MarkIsNumber ==
    ASSUME NEW q, IsQuestion(q), NEW s \in Fetched(q), NEW a, IsList(a.keys), ValidAnswer(q, a)
    PROVE  evaluate_question_answer(q, s, a).points \in Int
<1> DEFINE M == q.max * Unit
           Fine(mark) == mark.points \in Int
<1>1. q.max \in Int /\ M \in Int
  BY ScoringAssumption DEF IsQuestion
<1>2. Fine(NoMark) /\ \A ok : Fine(AllOrNone(q, ok))
  BY <1>1 DEF NoMark, AllOrNone, Mark
<1>3. \A n \in Nat, d \in Nat \ {0} : \A ok : Fine(Mark((M * n) \div d, ok))
  <2> SUFFICES ASSUME NEW n \in Nat, NEW d \in Nat \ {0}, NEW ok PROVE Fine(Mark((M * n) \div d, ok))
    OBVIOUS
  <2>1. M * n \in Int
    BY <1>1
  <2> HIDE DEF M
  <2>2. (M * n) \div d \in Int
    BY <2>1, QuotientAtLeast
  <2> QED BY <2>2 DEF Mark
<1>4. CASE q.type = "MCQ"
  <2>1. Fine(handle_mcq(q, s, a))
    BY <1>2 DEF handle_mcq
  <2> QED BY <1>4, <2>1 DEF evaluate_question_answer
<1>5. CASE q.type = "TEXT"
  <2>1. Fine(handle_text(q, a))
    BY <1>2 DEF handle_text
  <2> QED BY <1>5, <2>1 DEF evaluate_question_answer
<1>6. CASE q.type = "NUMERIC"
  <2>1. Fine(handle_numeric(q, s, a))
    BY <1>2 DEF handle_numeric
  <2> QED BY <1>6, <2>1 DEF evaluate_question_answer
<1>7. CASE q.type = "LIKERT"
  <2> DEFINE chosen == {c \in q.choices : Fold[c.key] = Fold[a.keys[1]]}
             match == First(s, chosen)
  <2>1. chosen # {} => match.partial \in Int
    BY FirstIsOne DEF IsQuestion
  <2>2. handle_likert(q, s, a) = IF chosen = {} THEN NoMark
                                 ELSE Mark(q.max * match.partial, match.partial >= Unit)
    BY DEF handle_likert
  <2> HIDE DEF match, chosen
  <2>3. Fine(handle_likert(q, s, a))
    BY <1>1, <1>2, <2>1, <2>2 DEF Mark
  <2> QED BY <1>7, <2>3 DEF evaluate_question_answer
<1>8. CASE q.type = "MULTI"
  <2>1. a.keys # <<>>
    BY <1>8 DEF ValidAnswer
  <2>2. Fine(handle_multi(q, a))
    <3> DEFINE R == Folded(RightKeys(q))
               h == Cardinality(R \cap Folded(Listed(a)))
               all == Cardinality(R) * Cardinality(Folded(Listed(a)))
    <3>1. /\ h * h \in 0 .. all /\ h \in Nat /\ all \in Nat
          /\ R = {} => handle_multi(q, a) = NoMark
          /\ R # {} => all \in Nat \ {0} /\ handle_multi(q, a) = Mark((M * (h * h)) \div all, h * h = all)
      BY <2>1, MultiMark
    <3> HIDE DEF R, h, all, M, Fine
    <3>2. h * h \in Nat
      BY <3>1
    <3> QED BY <1>2, <1>3, <3>1, <3>2
  <2> QED BY <1>8, <2>2 DEF evaluate_question_answer
<1>9. CASE q.type = "RANKING"
  <2>1. Fine(handle_ranking(q, s, a))
    <3> DEFINE m == Cardinality(Matches(s, a))
               n == Cardinality(q.choices)
    <3>1. /\ n \in Nat /\ m \in 0 .. n
          /\ n = 0 => handle_ranking(q, s, a) = NoMark
          /\ n # 0 => handle_ranking(q, s, a) = Mark((M * m) \div n, m = n)
      BY RankingMark
    <3> HIDE DEF m, n, M, Fine
    <3>2. m \in Nat /\ (n # 0 => n \in Nat \ {0})
      BY <3>1
    <3> QED BY <1>2, <1>3, <3>1, <3>2
  <2> QED BY <1>9, <2>1 DEF evaluate_question_answer
<1> QED BY <1>4, <1>5, <1>6, <1>7, <1>8, <1>9 DEF IsQuestion, Types

--------------------------------------------------------------------------------
(* The state.                                                               *)

\* A questionnaire as it is stored.
IsRow(r) ==
    /\ r = [title |-> r.title, slug |-> r.slug, max |-> r.max, tags |-> r.tags, questions |-> r.questions]
    /\ r.max \in Int
    /\ \A i \in DOMAIN r.questions : IsQuestion(r.questions[i])

\* A recorded mark is the one its question, as it was asked, gives its answer.
IsMark(r) ==
    /\ IsQuestion(r.asked)
    /\ IsList(r.answer.keys)
    /\ ValidAnswer(r.asked, r.answer)
    /\ \E s \in Fetched(r.asked) : r.mark = evaluate_question_answer(r.asked, s, r.answer)

\* The three figures of an attempt are all made of its points.
IsAttempt(a) ==
    /\ a = [profile |-> a.profile, questionnaire |-> a.questionnaire, number |-> a.number,
            marks |-> a.marks, scored |-> a.scored, raw |-> a.raw, max |-> a.max,
            percentage |-> a.percentage, passed |-> a.passed, feedback |-> a.feedback]
    /\ a.scored \in BOOLEAN
    /\ a.raw \in Int
    /\ a.max \in Nat \ {0}
    /\ a.percentage = Percentage(a.raw, a.max)
    /\ a.passed = Passed(a.raw, a.max)
    /\ a.feedback = from_percentage(a.raw, a.max)
    /\ \A r \in a.marks : IsMark(r)

\* A form without errors: nothing of it is passed over.
Flawless(f) ==
    /\ ValidHead(f)
    /\ \A i \in TagRows(f) : f.tags[i].coupling = "ok"
    /\ \A i \in DOMAIN f.questions : ValidQuestion(f.questions[i])
    /\ \A k \in DOMAIN f.choices : ValidChoice(f, f.choices[k])

\* The forms that are saved had no errors when they were checked.
PostsInv ==
    /\ DOMAIN form = Posts /\ DOMAIN progress = Posts
    /\ \A p \in Posts : progress[p] = "checked" => form[p] \in Forms /\ Flawless(form[p])

\* A new id is above all that were given.
IdsInv ==
    /\ lastId = [questionnaires |-> lastId.questionnaires, taken |-> lastId.taken]
    /\ lastId.questionnaires \in Nat /\ lastId.taken \in Nat
    /\ DOMAIN questionnaires \subseteq 1 .. lastId.questionnaires
    /\ DOMAIN taken \subseteq 1 .. lastId.taken

RowsInv == \A id \in DOMAIN questionnaires : IsRow(questionnaires[id])

\* An attempt does not outlive its questionnaire.
AttemptsInv == \A n \in DOMAIN taken :
    taken[n].questionnaire \in DOMAIN questionnaires /\ IsAttempt(taken[n])

QuestionnairesInv == PostsInv /\ IdsInv /\ RowsInv /\ AttemptsInv

LEMMA QuestionnairesInitially == QuestionnairesInit => QuestionnairesInv
<1> SUFFICES ASSUME QuestionnairesInit PROVE QuestionnairesInv
  OBVIOUS
<1> USE DEF QuestionnairesInit
<1>1. PostsInv
  BY DEF PostsInv
<1>2. DOMAIN questionnaires = {} /\ DOMAIN taken = {}
  OBVIOUS
<1>3. IdsInv
  BY <1>2 DEF IdsInv
<1> QED BY <1>1, <1>2, <1>3 DEF QuestionnairesInv, RowsInv, AttemptsInv

\* Where every place is taken, the list is as it was.
LEMMA AllInOrder ==
    ASSUME NEW s, IsList(s)
    PROVE  /\ DOMAIN InOrder(s, DOMAIN s) = DOMAIN s
           /\ \A n \in DOMAIN s : InOrder(s, DOMAIN s)[n] = s[n]
<1> DEFINE N == Len(s)
           at(n) == CHOOSE i \in DOMAIN s : Cardinality({j \in DOMAIN s : j < i}) = n - 1
<1>1. N \in Nat /\ DOMAIN s = 1 .. N
  BY ListFinite
<1> HIDE DEF N
<1>2. Cardinality(DOMAIN s) = N
  BY <1>1, FS_Interval
<1>3. ASSUME NEW i \in 1 .. N PROVE Cardinality({j \in DOMAIN s : j < i}) = i - 1
  <2>1. {j \in DOMAIN s : j < i} = 1 .. i - 1
    BY <1>1
  <2>2. Cardinality(1 .. i - 1) = i - 1
    BY <1>1, FS_Interval
  <2> QED BY <2>1, <2>2
<1>4. ASSUME NEW n \in 1 .. N PROVE at(n) = n
  <2>1. \A i \in DOMAIN s : Cardinality({j \in DOMAIN s : j < i}) = n - 1 <=> i = n
    BY <1>1, <1>3
  <2>2. n \in DOMAIN s
    BY <1>1
  <2> QED BY <2>1, <2>2
<1>5. InOrder(s, DOMAIN s) = [n \in 1 .. N |-> s[at(n)]]
  BY <1>2 DEF InOrder
<1> HIDE DEF at
<1> QED BY <1>1, <1>4, <1>5

\* No question of a flawless form is passed over.
LEMMA NothingPassedOver ==
    ASSUME NEW f \in Forms, Flawless(f)
    PROVE  /\ DOMAIN Kept(f) = DOMAIN f.questions
           /\ \A i \in DOMAIN f.questions : Kept(f)[i] = f.questions[i]
<1>1. IsList(f.questions)
  BY FormsAssumption
<1>2. {i \in DOMAIN f.questions : ValidQuestion(f.questions[i])} = DOMAIN f.questions
  BY DEF Flawless
<1>3. Kept(f) = InOrder(f.questions, DOMAIN f.questions)
  BY <1>2 DEF Kept
<1> QED BY <1>1, <1>3, AllInOrder

LEMMA SavedQuestionTyped ==
    ASSUME NEW f \in Forms, Flawless(f), NEW i \in DOMAIN f.questions
    PROVE  IsQuestion(SavedQuestion(f, i))
<1>1. /\ f.questions[i].type \in Types /\ f.questions[i].max \in Int
      /\ IsList(f.choices)
      /\ \A k \in DOMAIN f.choices : f.choices[k].partial \in Int /\ f.choices[k].order \in Int
  BY FormsAssumption
<1>2. Kept(f)[i] = f.questions[i]
  BY NothingPassedOver
<1> DEFINE saved == [k \in ChoicesOf(f, i) |-> SavedChoice(f.choices[k])]
<1>3. IsFiniteSet(ChoicesOf(f, i))
  <2>1. IsFiniteSet(DOMAIN f.choices) /\ ChoicesOf(f, i) \in SUBSET DOMAIN f.choices
    BY <1>1, ListFinite DEF ChoicesOf
  <2> QED BY <2>1, FS_Subset
<1>4. IsFiniteSet({saved[k] : k \in ChoicesOf(f, i)})
  BY <1>3, ImageFinite
<1>5. SavedQuestion(f, i).choices = {saved[k] : k \in ChoicesOf(f, i)}
  BY DEF SavedQuestion
<1>6. \A k \in ChoicesOf(f, i) : saved[k].partial \in Int /\ saved[k].order \in Int
  BY <1>1 DEF SavedChoice, ChoicesOf
<1>7. SavedQuestion(f, i).type = f.questions[i].type /\ SavedQuestion(f, i).max = f.questions[i].max
  BY <1>2 DEF SavedQuestion
<1> HIDE DEF saved
<1> QED BY <1>1, <1>4, <1>5, <1>6, <1>7 DEF IsQuestion

LEMMA SavedRow ==
    ASSUME NEW f \in Forms, Flawless(f)
    PROVE  IsRow(Saved(f))
<1>1. IsList(f.questions) /\ f.max \in Int \cup {Null} /\ f.max # Null
  BY FormsAssumption DEF Flawless, ValidHead
<1>2. DOMAIN Kept(f) = DOMAIN f.questions /\ DOMAIN f.questions = 1 .. Len(f.questions)
      /\ Len(f.questions) \in Nat
  BY <1>1, NothingPassedOver, ListFinite
<1>3. Saved(f).questions = [i \in 1 .. Len(f.questions) |-> SavedQuestion(f, i)]
  BY <1>2 DEF Saved
<1>5. \A i \in DOMAIN Saved(f).questions : IsQuestion(Saved(f).questions[i])
  BY <1>2, <1>3, SavedQuestionTyped
<1>6. Saved(f).max = f.max
  BY DEF Saved
<1>7. LET r == Saved(f)
      IN  r = [title |-> r.title, slug |-> r.slug, max |-> r.max, tags |-> r.tags, questions |-> r.questions]
  BY DEF Saved
<1> QED BY <1>1, <1>5, <1>6, <1>7 DEF IsRow

--------------------------------------------------------------------------------
(* The steps.                                                               *)

LEMMA CheckStep ==
    ASSUME QuestionnairesInv, NEW p \in Posts, Check(p)
    PROVE  QuestionnairesInv'
<1>1. PICK f \in Forms :
        /\ form' = [form EXCEPT ![p] = IF HasErrors(f) THEN Null ELSE f]
        /\ progress' = [progress EXCEPT ![p] = IF HasErrors(f) THEN "refused" ELSE "checked"]
  BY DEF Check
<1>2. ~HasErrors(f) => Flawless(f)
  BY DEF HasErrors, Flawless, ValidTag
<1>3. PostsInv'
  <2>1. \A o \in Posts \ {p} : progress'[o] = progress[o] /\ form'[o] = form[o]
    BY <1>1
  <2>2. DOMAIN form' = Posts /\ DOMAIN progress' = Posts
    BY <1>1 DEF QuestionnairesInv, PostsInv
  <2>3. /\ progress'[p] = IF HasErrors(f) THEN "refused" ELSE "checked"
        /\ form'[p] = IF HasErrors(f) THEN Null ELSE f
    BY <1>1 DEF QuestionnairesInv, PostsInv
  <2>4. \A o \in Posts : progress'[o] = "checked" => form'[o] \in Forms /\ Flawless(form'[o])
    BY <1>2, <2>1, <2>3 DEF QuestionnairesInv, PostsInv
  <2> QED BY <2>2, <2>4 DEF PostsInv
<1>4. UNCHANGED <<questionnaires, taken, lastId>>
  BY DEF Check
<1> QED BY <1>3, <1>4 DEF QuestionnairesInv, IdsInv, RowsInv, AttemptsInv

LEMMA SaveStep ==
    ASSUME QuestionnairesInv, NEW p \in Posts, Save(p)
    PROVE  QuestionnairesInv'
<1> DEFINE new == lastId'.questionnaires
<1>1. form[p] \in Forms /\ Flawless(form[p])
  BY DEF Save, QuestionnairesInv, PostsInv
<1>2. IsRow(Saved(form[p]))
  BY <1>1, SavedRow
<1>3. PostsInv'
  BY DEF Save, QuestionnairesInv, PostsInv
<1>4. /\ new = lastId.questionnaires + 1 /\ lastId'.taken = lastId.taken
      /\ lastId' = [questionnaires |-> lastId'.questionnaires, taken |-> lastId'.taken]
  BY DEF Save, QuestionnairesInv, IdsInv
<1>5. /\ DOMAIN questionnaires' = DOMAIN questionnaires \cup {new}
      /\ questionnaires'[new] = Saved(form[p])
      /\ \A id \in DOMAIN questionnaires \ {new} : questionnaires'[id] = questionnaires[id]
      /\ taken' = taken
  BY DEF Save
<1> HIDE DEF new
<1>6. IdsInv'
  BY <1>4, <1>5 DEF QuestionnairesInv, IdsInv, new
<1>7. RowsInv'
  BY <1>2, <1>5 DEF QuestionnairesInv, RowsInv
<1>8. AttemptsInv'
  BY <1>5 DEF QuestionnairesInv, AttemptsInv
<1> QED BY <1>3, <1>6, <1>7, <1>8 DEF QuestionnairesInv

LEMMA FailToSaveStep ==
    ASSUME QuestionnairesInv, NEW p \in Posts, FailToSave(p)
    PROVE  QuestionnairesInv'
<1>1. PostsInv'
  BY DEF FailToSave, QuestionnairesInv, PostsInv
<1>2. UNCHANGED <<questionnaires, taken, lastId>>
  BY DEF FailToSave
<1> QED BY <1>1, <1>2 DEF QuestionnairesInv, IdsInv, RowsInv, AttemptsInv

\* Edits that leave every questionnaire where it was.
LEMMA EditedRows ==
    ASSUME QuestionnairesInv, DOMAIN questionnaires' = DOMAIN questionnaires,
           \A id \in DOMAIN questionnaires : IsRow(questionnaires'[id]),
           UNCHANGED <<taken, form, progress, lastId>>
    PROVE  QuestionnairesInv'
BY DEF QuestionnairesInv, PostsInv, IdsInv, RowsInv, AttemptsInv

LEMMA EditQuestionnaireStep ==
    ASSUME QuestionnairesInv, NEW id \in DOMAIN questionnaires, NEW h \in AdminHeads,
           EditQuestionnaire(id, h.title, h.max)
    PROVE  QuestionnairesInv'
<1> DEFINE r == questionnaires[id]
<1>1. IsRow(r) /\ h.max \in Int
  BY AdminAssumption DEF QuestionnairesInv, RowsInv
<1>2. \E x : questionnaires'[id] = [title |-> h.title, slug |-> x, max |-> h.max,
                                    tags |-> r.tags, questions |-> r.questions]
  BY <1>1 DEF EditQuestionnaire, IsRow
<1>3. IsRow(questionnaires'[id])
  BY <1>1, <1>2 DEF IsRow
<1>4. /\ DOMAIN questionnaires' = DOMAIN questionnaires
      /\ \A x \in DOMAIN questionnaires \ {id} : questionnaires'[x] = questionnaires[x]
      /\ UNCHANGED <<taken, form, progress, lastId>>
  BY DEF EditQuestionnaire
<1>5. \A x \in DOMAIN questionnaires : IsRow(questionnaires'[x])
  BY <1>3, <1>4 DEF QuestionnairesInv, RowsInv
<1> QED BY <1>4, <1>5, EditedRows

LEMMA EditQuestionStep ==
    ASSUME QuestionnairesInv, NEW id \in DOMAIN questionnaires,
           NEW i \in DOMAIN questionnaires[id].questions, NEW q \in AdminQuestions, EditQuestion(id, i, q)
    PROVE  QuestionnairesInv'
<1> DEFINE r == questionnaires[id]
           asks == [r.questions EXCEPT ![i] = q]
<1>1. IsRow(r) /\ IsQuestion(q)
  BY AdminAssumption DEF QuestionnairesInv, RowsInv
<1>2. questionnaires'[id] = [title |-> r.title, slug |-> r.slug, max |-> r.max,
                             tags |-> r.tags, questions |-> asks]
  BY <1>1 DEF EditQuestion, IsRow
<1>4. \A k \in DOMAIN asks : IsQuestion(asks[k])
  BY <1>1 DEF IsRow
<1>5. IsRow(questionnaires'[id])
  <2>1. r.max \in Int
    BY <1>1 DEF IsRow
  <2> HIDE DEF asks, r
  <2> QED BY <1>2, <1>4, <2>1 DEF IsRow
<1>6. /\ DOMAIN questionnaires' = DOMAIN questionnaires
      /\ \A x \in DOMAIN questionnaires \ {id} : questionnaires'[x] = questionnaires[x]
      /\ UNCHANGED <<taken, form, progress, lastId>>
  BY DEF EditQuestion
<1>7. \A x \in DOMAIN questionnaires : IsRow(questionnaires'[x])
  BY <1>5, <1>6 DEF QuestionnairesInv, RowsInv
<1> QED BY <1>6, <1>7, EditedRows

LEMMA DeleteTagStep ==
    ASSUME QuestionnairesInv, NEW t \in tags, DeleteTag(t)
    PROVE  QuestionnairesInv'
<1>1. /\ DOMAIN questionnaires' = DOMAIN questionnaires
      /\ UNCHANGED <<taken, form, progress, lastId>>
  BY DEF DeleteTag
<1>2. ASSUME NEW id \in DOMAIN questionnaires PROVE IsRow(questionnaires'[id])
  <2> DEFINE r == questionnaires[id]
  <2>1. IsRow(r)
    BY DEF QuestionnairesInv, RowsInv
  <2>2. questionnaires'[id] = [title |-> r.title, slug |-> r.slug, max |-> r.max,
                               tags |-> r.tags \ {t}, questions |-> r.questions]
    BY <2>1 DEF DeleteTag, IsRow
  <2> HIDE DEF r
  <2> QED BY <2>1, <2>2 DEF IsRow
<1> QED BY <1>1, <1>2, EditedRows

LEMMA DeleteQuestionStep ==
    ASSUME QuestionnairesInv, NEW id \in DOMAIN questionnaires,
           NEW i \in DOMAIN questionnaires[id].questions, DeleteQuestion(id, i)
    PROVE  QuestionnairesInv'
<1> DEFINE r == questionnaires[id]
           asks == [k \in DOMAIN r.questions \ {i} |-> r.questions[k]]
<1>1. IsRow(r)
  BY DEF QuestionnairesInv, RowsInv
<1>2. questionnaires'[id] = [title |-> r.title, slug |-> r.slug, max |-> r.max,
                             tags |-> r.tags, questions |-> asks]
  BY <1>1 DEF DeleteQuestion, IsRow, Restrict
<1>3. \A k \in DOMAIN asks : IsQuestion(asks[k])
  BY <1>1 DEF IsRow
<1>4. r.max \in Int
  BY <1>1 DEF IsRow
<1>5. IsRow(questionnaires'[id])
  <2> HIDE DEF asks, r
  <2> QED BY <1>2, <1>3, <1>4 DEF IsRow
<1>6. /\ DOMAIN questionnaires' = DOMAIN questionnaires
      /\ \A x \in DOMAIN questionnaires \ {id} : questionnaires'[x] = questionnaires[x]
      /\ UNCHANGED <<taken, form, progress, lastId>>
  BY DEF DeleteQuestion
<1>7. \A x \in DOMAIN questionnaires : IsRow(questionnaires'[x])
  BY <1>5, <1>6 DEF QuestionnairesInv, RowsInv
<1> QED BY <1>6, <1>7, EditedRows

LEMMA DeleteQuestionnaireStep ==
    ASSUME QuestionnairesInv, NEW id \in DOMAIN questionnaires, DeleteQuestionnaire(id)
    PROVE  QuestionnairesInv'
<1>1. /\ DOMAIN questionnaires' = DOMAIN questionnaires \ {id}
      /\ \A x \in DOMAIN questionnaires' : questionnaires'[x] = questionnaires[x]
      /\ DOMAIN taken' = DOMAIN taken \ AttemptsOn(id)
      /\ \A n \in DOMAIN taken' : taken'[n] = taken[n]
      /\ UNCHANGED <<form, progress, lastId>>
  BY DEF DeleteQuestionnaire, Restrict
<1>2. PostsInv' /\ IdsInv'
  BY <1>1 DEF QuestionnairesInv, PostsInv, IdsInv
<1>3. RowsInv'
  BY <1>1 DEF QuestionnairesInv, RowsInv
<1>4. AttemptsInv'
  BY <1>1 DEF QuestionnairesInv, AttemptsInv, AttemptsOn
<1> QED BY <1>2, <1>3, <1>4 DEF QuestionnairesInv

\* Some attempts go, and the others are left or lose responses or their score.
LEMMA FewerAttempts ==
    ASSUME QuestionnairesInv,
           DOMAIN taken' \subseteq DOMAIN taken,
           \A n \in DOMAIN taken' :
               taken'[n].questionnaire = taken[n].questionnaire /\ IsAttempt(taken'[n]),
           UNCHANGED <<questionnaires, form, progress, lastId>>
    PROVE  QuestionnairesInv'
<1>1. PostsInv' /\ IdsInv' /\ RowsInv'
  BY DEF QuestionnairesInv, PostsInv, IdsInv, RowsInv
<1>2. AttemptsInv'
  BY DEF QuestionnairesInv, AttemptsInv
<1> QED BY <1>1, <1>2 DEF QuestionnairesInv

LEMMA DeleteRowsStep ==
    ASSUME QuestionnairesInv,
           \/ \E n \in DOMAIN taken : DeleteAttempt(n)
           \/ \E s \in profiles : DeleteProfile(s)
    PROVE  QuestionnairesInv'
<1>1. PICK S : taken' = Restrict(taken, DOMAIN taken \ S)
  BY DEF DeleteAttempt, DeleteProfile
<1>2. /\ DOMAIN taken' \subseteq DOMAIN taken
      /\ \A n \in DOMAIN taken' : taken'[n] = taken[n]
  BY <1>1 DEF Restrict
<1>3. \A n \in DOMAIN taken : IsAttempt(taken[n])
  BY DEF QuestionnairesInv, AttemptsInv
<1>4. UNCHANGED <<questionnaires, form, progress, lastId>>
  BY DEF DeleteAttempt, DeleteProfile
<1> QED BY <1>2, <1>3, <1>4, FewerAttempts

LEMMA DeletePartStep ==
    ASSUME QuestionnairesInv, NEW n \in DOMAIN taken,
           (\E r \in taken[n].marks : DeleteResponse(n, r)) \/ DeleteScore(n)
    PROVE  QuestionnairesInv'
<1> DEFINE a == taken[n]
           b == taken'[n]
<1>1. IsAttempt(a)
  BY DEF QuestionnairesInv, AttemptsInv
<1>2. /\ DOMAIN taken' = DOMAIN taken
      /\ \A m \in DOMAIN taken \ {n} : taken'[m] = taken[m]
      /\ UNCHANGED <<questionnaires, form, progress, lastId>>
  BY DEF DeleteResponse, DeleteScore
<1>3. \E marks \in SUBSET a.marks, scored \in BOOLEAN :
        b = [profile |-> a.profile, questionnaire |-> a.questionnaire, number |-> a.number,
             marks |-> marks, scored |-> scored, raw |-> a.raw, max |-> a.max,
             percentage |-> a.percentage, passed |-> a.passed, feedback |-> a.feedback]
  <2>1. ASSUME NEW r \in a.marks, DeleteResponse(n, r)
        PROVE  b = [profile |-> a.profile, questionnaire |-> a.questionnaire, number |-> a.number,
                    marks |-> a.marks \ {r}, scored |-> a.scored, raw |-> a.raw, max |-> a.max,
                    percentage |-> a.percentage, passed |-> a.passed, feedback |-> a.feedback]
    BY <1>1, <2>1 DEF DeleteResponse, IsAttempt
  <2>2. ASSUME DeleteScore(n)
        PROVE  b = [profile |-> a.profile, questionnaire |-> a.questionnaire, number |-> a.number,
                    marks |-> a.marks, scored |-> FALSE, raw |-> a.raw, max |-> a.max,
                    percentage |-> a.percentage, passed |-> a.passed, feedback |-> a.feedback]
    BY <1>1, <2>2 DEF DeleteScore, IsAttempt
  <2>3. a.scored \in BOOLEAN
    BY <1>1 DEF IsAttempt
  <2> HIDE DEF a, b
  <2>4. ASSUME NEW r \in a.marks PROVE a.marks \ {r} \in SUBSET a.marks
    OBVIOUS
  <2> QED BY <2>1, <2>2, <2>3, <2>4 DEF a
<1>4. b.questionnaire = a.questionnaire /\ IsAttempt(b)
  <2> HIDE DEF a, b
  <2> QED BY <1>1, <1>3 DEF IsAttempt
<1>5. \A m \in DOMAIN taken' :
        taken'[m].questionnaire = taken[m].questionnaire /\ IsAttempt(taken'[m])
  BY <1>2, <1>4 DEF QuestionnairesInv, AttemptsInv
<1> QED BY <1>2, <1>5, FewerAttempts

\* The attempt that Take stores.
LEMMA TakenIsAttempt ==
    ASSUME QuestionnairesInv, NEW s, NEW id \in DOMAIN questionnaires, questionnaires[id].max > 0,
           NEW answers \in Submissions, NEW fetched,
           \A n \in Counted(questionnaires[id], answers) :
               fetched[n] \in Fetched(questionnaires[id].questions[answers[n].question]),
           NEW marks,
           marks = {Response(questionnaires[id], answers, n, fetched[n]) :
                        n \in Counted(questionnaires[id], answers)}
    PROVE  IsAttempt(Attempt(s, id, marks))
<1> DEFINE row == questionnaires[id]
           counted == Counted(row, answers)
           given == [n \in counted |-> Response(row, answers, n, fetched[n])]
<1>1. IsRow(row)
  BY DEF QuestionnairesInv, RowsInv
<1>2. IsList(answers) /\ \A n \in DOMAIN answers : IsList(answers[n].answer.keys)
  BY AnswersAssumption
<1>3. IsFiniteSet(counted)
  <2>1. counted \in SUBSET DOMAIN answers
    BY DEF Counted
  <2> QED BY <1>2, <2>1, ListFinite, FS_Subset
<1>4. ASSUME NEW n \in counted PROVE IsMark(given[n]) /\ given[n].mark.points \in Int
  <2> DEFINE q == row.questions[answers[n].question]
             a == answers[n].answer
  <2>1. n \in DOMAIN answers /\ answers[n].question \in DOMAIN row.questions /\ ValidAnswer(q, a)
    BY DEF Counted
  <2>2. IsQuestion(q) /\ IsList(a.keys)
    BY <1>1, <1>2, <2>1 DEF IsRow
  <2>3. fetched[n] \in Fetched(q)
    OBVIOUS
  <2>4. given[n].asked = q /\ given[n].answer = a
        /\ given[n].mark = evaluate_question_answer(q, fetched[n], a)
    BY DEF Response
  <2> HIDE DEF q, a, given
  <2>5. evaluate_question_answer(q, fetched[n], a).points \in Int
    BY <2>1, <2>2, <2>3, MarkIsNumber
  <2> QED BY <2>1, <2>2, <2>3, <2>4, <2>5 DEF IsMark
<1>5. marks = {given[n] : n \in counted}
  OBVIOUS
<1> HIDE DEF given, counted
<1>6. IsFiniteSet(marks) /\ \A r \in marks : IsMark(r) /\ r.mark.points \in Int
  <2>1. IsFiniteSet({given[n] : n \in counted})
    BY <1>3, ImageFinite
  <2> QED BY <1>4, <1>5, <2>1
<1>7. Total(marks) \in Int
  <2> DEFINE f == [r \in marks |-> r.mark.points]
  <2>1. \A r \in marks : f[r] \in Int
    BY <1>6
  <2>2. DOMAIN f = marks
    OBVIOUS
  <2> HIDE DEF f
  <2>3. SumFunctionOnSet(f, marks) \in Int
    BY <1>6, <2>1, SumRemove
  <2> QED BY <2>2, <2>3 DEF Total, SumFunction, f
<1>8. row.max \in Nat \ {0}
  BY <1>1 DEF IsRow
<1> DEFINE a == Attempt(s, id, marks)
<1>9. /\ a.raw = Total(marks) /\ a.max = row.max /\ a.marks = marks
      /\ a.percentage = Percentage(Total(marks), row.max)
      /\ a.passed = Passed(Total(marks), row.max)
      /\ a.feedback = from_percentage(Total(marks), row.max)
      /\ a.scored = TRUE
      /\ a = [profile |-> a.profile, questionnaire |-> a.questionnaire, number |-> a.number,
              marks |-> a.marks, scored |-> a.scored, raw |-> a.raw, max |-> a.max,
              percentage |-> a.percentage, passed |-> a.passed, feedback |-> a.feedback]
  BY DEF Attempt
<1> HIDE DEF a, row
<1>10. IsAttempt(a)
  BY <1>6, <1>7, <1>8, <1>9 DEF IsAttempt
<1> QED BY <1>10 DEF a

LEMMA TakeStep ==
    ASSUME QuestionnairesInv, NEW s, NEW id \in DOMAIN questionnaires,
           NEW answers \in Submissions, Take(s, id, answers)
    PROVE  QuestionnairesInv'
<1> DEFINE row == questionnaires[id]
           counted == Counted(row, answers)
           new == lastId'.taken
<1>1. PICK marks :
        /\ IsAttempt(Attempt(s, id, marks))
        /\ lastId' = [lastId EXCEPT !.taken = @ + 1]
        /\ taken' = [n \in DOMAIN taken \cup {new} |->
                        IF n = new THEN Attempt(s, id, marks) ELSE taken[n]]
  <2>1. row.max > 0
    BY DEF Take
  <2>2. PICK fetched \in [counted -> UNION {Fetched(row.questions[answers[n].question]) : n \in counted}] :
          /\ \A n \in counted : fetched[n] \in Fetched(row.questions[answers[n].question])
          /\ LET marks == {Response(row, answers, n, fetched[n]) : n \in counted}
             IN  /\ lastId' = [lastId EXCEPT !.taken = @ + 1]
                 /\ taken' = [n \in DOMAIN taken \cup {new} |->
                                 IF n = new THEN Attempt(s, id, marks) ELSE taken[n]]
    BY DEF Take
  <2> DEFINE marks == {Response(row, answers, n, fetched[n]) : n \in counted}
  <2>3. IsAttempt(Attempt(s, id, marks))
    BY <2>1, <2>2, TakenIsAttempt
  <2> QED BY <2>2, <2>3
<1>2. UNCHANGED <<questionnaires, form, progress>>
  BY DEF Take
<1>3. /\ new = lastId.taken + 1 /\ lastId'.questionnaires = lastId.questionnaires
      /\ lastId' = [questionnaires |-> lastId'.questionnaires, taken |-> lastId'.taken]
  BY <1>1 DEF QuestionnairesInv, IdsInv
<1>4. /\ DOMAIN taken' = DOMAIN taken \cup {new}
      /\ taken'[new] = Attempt(s, id, marks)
      /\ \A n \in DOMAIN taken \ {new} : taken'[n] = taken[n]
  BY <1>1
<1>5. Attempt(s, id, marks).questionnaire = id
  BY DEF Attempt
<1> HIDE DEF new
<1>6. PostsInv' /\ RowsInv'
  BY <1>2 DEF QuestionnairesInv, PostsInv, RowsInv
<1>7. IdsInv'
  BY <1>2, <1>3, <1>4 DEF QuestionnairesInv, IdsInv, new
<1>8. AttemptsInv'
  BY <1>1, <1>2, <1>4, <1>5 DEF QuestionnairesInv, AttemptsInv
<1> QED BY <1>6, <1>7, <1>8 DEF QuestionnairesInv

LEMMA QuestionnairesStep ==
    ASSUME QuestionnairesInv, [QuestionnairesNext]_questionnairesVars
    PROVE  QuestionnairesInv'
<1>1. ASSUME NEW p \in Posts, Check(p) \/ Save(p) \/ FailToSave(p) PROVE QuestionnairesInv'
  BY <1>1, CheckStep, SaveStep, FailToSaveStep
<1>2. ASSUME NEW id \in DOMAIN questionnaires, NEW h \in AdminHeads,
             EditQuestionnaire(id, h.title, h.max)
      PROVE  QuestionnairesInv'
  BY <1>2, EditQuestionnaireStep
<1>3. ASSUME NEW id \in DOMAIN questionnaires, NEW i \in DOMAIN questionnaires[id].questions,
             NEW q \in AdminQuestions, EditQuestion(id, i, q)
      PROVE  QuestionnairesInv'
  BY <1>3, EditQuestionStep
<1>4. ASSUME NEW id \in DOMAIN questionnaires, DeleteQuestionnaire(id) PROVE QuestionnairesInv'
  BY <1>4, DeleteQuestionnaireStep
<1>5. ASSUME NEW id \in DOMAIN questionnaires, NEW s \in profiles, NEW answers \in Submissions,
             Take(s, id, answers)
      PROVE  QuestionnairesInv'
  BY <1>5, TakeStep
<1>6. ASSUME NEW t \in tags, DeleteTag(t) PROVE QuestionnairesInv'
  BY <1>6, DeleteTagStep
<1>7. ASSUME NEW id \in DOMAIN questionnaires, NEW i \in DOMAIN questionnaires[id].questions,
             DeleteQuestion(id, i)
      PROVE  QuestionnairesInv'
  BY <1>7, DeleteQuestionStep
<1>8. ASSUME NEW n \in DOMAIN taken,
             DeleteAttempt(n) \/ (\E r \in taken[n].marks : DeleteResponse(n, r)) \/ DeleteScore(n)
      PROVE  QuestionnairesInv'
  BY <1>8, DeleteRowsStep, DeletePartStep
<1>9. ASSUME NEW s \in profiles, DeleteProfile(s) PROVE QuestionnairesInv'
  BY <1>9, DeleteRowsStep
<1>10. CASE UNCHANGED questionnairesVars
  BY <1>10 DEF questionnairesVars, QuestionnairesInv, PostsInv, IdsInv, RowsInv, AttemptsInv
<1> QED BY <1>1, <1>2, <1>3, <1>4, <1>5, <1>6, <1>7, <1>8, <1>9, <1>10 DEF QuestionnairesNext

LEMMA QuestionnairesInvariant == QuestionnairesSpec => []QuestionnairesInv
<1> QED BY QuestionnairesInitially, QuestionnairesStep, PTL DEF QuestionnairesSpec

--------------------------------------------------------------------------------
(* The theorems.                                                            *)

\* Of two answers to the same question the better one never scores less, and a
\* mark stays within its question, full just when it is called correct
\* (attempt_evaluation.py:331-370, 472-550).
THEOREM MarksAlwaysSound == QuestionnairesSpec => []MarksSound
<1>1. QuestionnairesInv => MarksSound
  <2> SUFFICES ASSUME QuestionnairesInv, NEW m \in Recorded, NEW n \in Recorded, Sane(m.asked)
               PROVE  /\ m.mark.points \in 0 .. m.asked.max * Unit
                      /\ m.mark.correct <=> m.mark.points = m.asked.max * Unit
                      /\ m.asked = n.asked /\ AtLeastAsGood(m.asked, m.answer, n.answer)
                            => m.mark.points >= n.mark.points
    BY DEF MarksSound
  <2>1. IsMark(m) /\ IsMark(n)
    BY DEF Recorded, QuestionnairesInv, AttemptsInv, IsAttempt
  <2>2. PICK s \in Fetched(m.asked) : m.mark = evaluate_question_answer(m.asked, s, m.answer)
    BY <2>1 DEF IsMark
  <2>3. PICK t \in Fetched(n.asked) : n.mark = evaluate_question_answer(n.asked, t, n.answer)
    BY <2>1 DEF IsMark
  <2>4. /\ IsQuestion(m.asked)
        /\ IsList(m.answer.keys) /\ ValidAnswer(m.asked, m.answer)
        /\ IsList(n.answer.keys) /\ ValidAnswer(n.asked, n.answer)
    BY <2>1 DEF IsMark
  <2>5. /\ m.mark.points \in 0 .. m.asked.max * Unit
        /\ m.mark.correct <=> m.mark.points = m.asked.max * Unit
    BY <2>2, <2>4, MarkInRange
  <2>6. ASSUME m.asked = n.asked, AtLeastAsGood(m.asked, m.answer, n.answer)
        PROVE  m.mark.points >= n.mark.points
    BY <2>2, <2>3, <2>4, <2>6, BetterScoresMore
  <2> QED BY <2>5, <2>6
<1> QED BY <1>1, QuestionnairesInvariant, PTL

\* Every attempt has the verdicts its points give it.
LEMMA VerdictsFollow == QuestionnairesInv => VerdictsAgree
<1> SUFFICES ASSUME QuestionnairesInv, NEW n \in DOMAIN taken
             PROVE  LET a == taken[n]
                    IN  /\ PassedOnPage(a) => a.passed
                        /\ a.passed /\ ~PassedOnPage(a) => a.percentage = 5000
                        /\ a.feedback >= Good <=> a.passed
                        /\ a.percentage = 10000 => a.feedback = 9
  BY DEF VerdictsAgree
<1> DEFINE a == taken[n]
<1>1. IsAttempt(a)
  BY DEF QuestionnairesInv, AttemptsInv
<1> HIDE DEF a
<1>2. a.raw \in Int /\ a.max \in Nat \ {0}
  BY <1>1 DEF IsAttempt
<1>3. LET p == Percentage(a.raw, a.max)
          b == from_percentage(a.raw, a.max)
      IN  /\ p > 5000 => Passed(a.raw, a.max)
          /\ Passed(a.raw, a.max) /\ ~(p > 5000) => p = 5000
          /\ b >= Good <=> Passed(a.raw, a.max)
          /\ p = 10000 => b = 9
  BY <1>2, OneStory
<1>4. /\ PassedOnPage(a) => a.passed
      /\ a.passed /\ ~PassedOnPage(a) => a.percentage = 5000
      /\ a.feedback >= Good <=> a.passed
      /\ a.percentage = 10000 => a.feedback = 9
  BY <1>1, <1>3 DEF IsAttempt, PassedOnPage
<1> QED BY <1>4 DEF a

\* The report, the results page and the feedback of an attempt tell one story
\* (attempt_evaluation.py:583-585, user_results.py:22,35).
THEOREM VerdictsAlwaysAgree == QuestionnairesSpec => []VerdictsAgree
<1> QED BY VerdictsFollow, QuestionnairesInvariant, PTL

\* A hundred percent.
Whole == 10000

\* A percentage is at most a hundred.
LEMMA PercentageAtMost ==
    ASSUME NEW raw \in Int, NEW max \in Nat \ {0}
    PROVE  Percentage(raw, max) \in 0 .. Whole
<1> DEFINE m == max * Unit
           c == Clamped(raw, max)
           p == Percentage(raw, max)
<1>1. m \in Nat \ {0} /\ c \in 0 .. m
  BY Fractions, ClampedInRange
<1>2. p \in Nat /\ \A k \in Int : p >= k <=> k * (2 * m) <= 20000 * c + m
  BY PercentageAtLeast
<1> HIDE DEF m, c, p
<1>3. ~(p >= 10001)
  BY <1>1, <1>2
<1>4. p \in 0 .. Whole
  BY <1>2, <1>3 DEF Whole
<1> QED BY <1>4 DEF p

\* The percentages of a set of attempts.
LEMMA PercentagesBounded ==
    ASSUME QuestionnairesInv, NEW S \in SUBSET DOMAIN taken
    PROVE  \A n \in S : taken[n].percentage \in 0 .. Whole
<1> SUFFICES ASSUME NEW n \in S PROVE taken[n].percentage \in 0 .. Whole
  OBVIOUS
<1> DEFINE a == taken[n]
<1>1. IsAttempt(a)
  BY DEF QuestionnairesInv, AttemptsInv
<1> HIDE DEF a
<1>2. a.percentage \in 0 .. Whole
  BY <1>1, PercentageAtMost DEF IsAttempt
<1> QED BY <1>2 DEF a

\* The best of some attempts is that of one of those with a score.
LEMMA BestIsOne ==
    ASSUME QuestionnairesInv, NEW S \in SUBSET DOMAIN taken
    PROVE  /\ Best(S) \in Nat
           /\ \A n \in S : taken[n].scored => taken[n].percentage <= Best(S)
           /\ \/ Best(S) = 0
              \/ \E n \in S : taken[n].scored /\ taken[n].percentage = Best(S)
<1> DEFINE T == {n \in S : taken[n].scored}
           P == {taken[n].percentage : n \in T}
<1>1. Whole \in Nat
  BY DEF Whole
<1>2. T \in SUBSET DOMAIN taken
  OBVIOUS
<1>3. \A x \in P : x \in Nat /\ x <= Whole
  <2>1. \A n \in T : taken[n].percentage \in 0 .. Whole
    <3> HIDE DEF T
    <3> QED BY <1>2, PercentagesBounded
  <2> QED BY <1>1, <2>1
<1>4. /\ Best(S) = IF T = {} THEN 0 ELSE Max(P)
      /\ \A n \in T : taken[n].percentage \in P
      /\ \A x \in P : \E n \in T : taken[n].percentage = x
      /\ P = {} <=> T = {}
  BY DEF Best
<1> HIDE DEF P
<1>5. ASSUME T # {} PROVE Best(S) \in P /\ \A x \in P : x <= Best(S)
  <2>1. P # {} /\ P \in SUBSET Nat
    BY <1>3, <1>4, <1>5
  <2>2. \E x \in P : \A y \in P : y <= x
    BY <1>1, <1>3, <2>1, GreatestExists
  <2>3. \E x \in P : \A y \in P : x >= y
    BY <2>1, <2>2
  <2>4. Max(P) \in P /\ \A y \in P : Max(P) >= y
    BY <2>3 DEF Max
  <2> QED BY <1>4, <1>5, <2>1, <2>4
<1>6. CASE T = {}
  BY <1>1, <1>4, <1>6
<1>7. CASE T # {}
  <2>1. Best(S) \in Nat
    BY <1>1, <1>3, <1>5, <1>7
  <2>2. \A n \in T : taken[n].percentage <= Best(S)
    BY <1>4, <1>5, <1>7
  <2>3. \E n \in T : taken[n].percentage = Best(S)
    BY <1>4, <1>5, <1>7
  <2> QED BY <2>1, <2>2, <2>3
<1> QED BY <1>6, <1>7

\* Attempts listed by questionnaire are all the attempts.
LEMMA ListedAddUp ==
    ASSUME NEW own, IsFiniteSet(own), NEW D, IsFiniteSet(D), NEW table,
           \A n \in own : table[n].questionnaire \in D
    PROVE  SumFunction([id \in D |-> Cardinality({n \in own : table[n].questionnaire = id})])
               = Cardinality(own)
<1> DEFINE kind == [n \in own |-> table[n].questionnaire]
           count == [id \in D |-> Cardinality({n \in own : table[n].questionnaire = id})]
<1>1. \A n \in own : kind[n] \in D
  OBVIOUS
<1>2. ASSUME NEW id \in D PROVE count[id] = Cardinality({n \in own : kind[n] = id})
  <2>1. {n \in own : kind[n] = id} = {n \in own : table[n].questionnaire = id}
    OBVIOUS
  <2> QED BY <2>1
<1>3. DOMAIN count = D
  OBVIOUS
<1> HIDE DEF kind, count
<1>4. SumFunction(count) = Cardinality(own)
  BY <1>1, <1>2, <1>3, TableAddsUp
<1> QED BY <1>4 DEF count

\* What a line of the list comes to: without a filter one row for each attempt
\* of the student, and under the filter the same attempts.
LEMMA LineIsOwn ==
    ASSUME NEW s, NEW id, IsFiniteSet(DOMAIN taken)
    PROVE  /\ ListedFor(s, id, FALSE).count = Cardinality(AttemptsOf(s, id))
           /\ ListedFor(s, id, FALSE).best = Best(AttemptsOf(s, id))
           /\ ListedFor(s, id, TRUE).best = ListedFor(s, id, FALSE).best
           /\ ListedFor(s, id, TRUE).latest = ListedFor(s, id, FALSE).latest
<1> DEFINE part == AttemptsOf(s, id)
           once == {row \in Joined(s, id, FALSE) : taken[row[1]].profile = s}
           often == {row \in Joined(s, id, TRUE) : taken[row[1]].profile = s}
<1>1. part \in SUBSET DOMAIN taken /\ part = {n \in AttemptsOn(id) : taken[n].profile = s}
  BY DEF AttemptsOf, Own, AttemptsOn
<1>2. once = part \X {Null} /\ often = part \X part
  BY <1>1 DEF Joined
<1>3. ListedFor(s, id, FALSE) = LineOf(once) /\ ListedFor(s, id, TRUE) = LineOf(often)
  BY DEF ListedFor
<1> HIDE DEF part, once, often
<1>4. {row[1] : row \in once} = part
  <2>1. \A n \in part : <<n, Null>> \in once /\ <<n, Null>>[1] = n
    BY <1>2
  <2>2. \A row \in once : row[1] \in part
    BY <1>2
  <2> QED BY <2>1, <2>2
<1>5. {row[1] : row \in often} = part
  <2>1. \A n \in part : <<n, n>> \in often /\ <<n, n>>[1] = n
    BY <1>2
  <2>2. \A row \in often : row[1] \in part
    BY <1>2
  <2> QED BY <2>1, <2>2
<1>6. Cardinality(once) = Cardinality(part)
  <2>1. IsFiniteSet(part)
    BY <1>1, FS_Subset
  <2>2. Cardinality(part) \in Nat
    BY <2>1, FS_CardinalityType
  <2>3. IsFiniteSet({Null}) /\ Cardinality({Null}) = 1
    BY FS_Singleton
  <2>4. Cardinality(part \X {Null}) = Cardinality(part) * Cardinality({Null})
    BY <2>1, <2>3, FS_Product
  <2>5. Cardinality(part) * Cardinality({Null}) = Cardinality(part)
    BY <2>2, <2>3
  <2> QED BY <1>2, <2>4, <2>5
<1>7. LineOf(once).count = Cardinality(once)
  BY DEF LineOf
<1>8. /\ LineOf(once).best = Best(part) /\ LineOf(often).best = Best(part)
      /\ LineOf(once).latest = LineOf(often).latest
  BY <1>4, <1>5 DEF LineOf
<1> QED BY <1>3, <1>6, <1>7, <1>8 DEF part

\* Rounding moves a figure by half a tenth at most.
LEMMA TenthsNear ==
    ASSUME NEW h \in Nat
    PROVE  10 * Tenths(h) - h \in -5 .. 5
<1> DEFINE down == h \div 10
           rest == h % 10
<1>1. down \in Nat /\ rest \in 0 .. 9 /\ h = 10 * down + rest
  OBVIOUS
<1>2. Tenths(h) = IF rest > 5 \/ (rest = 5 /\ down % 2 = 1) THEN down + 1 ELSE down
  BY DEF Tenths
<1> HIDE DEF down, rest
<1>3. CASE rest > 5 \/ (rest = 5 /\ down % 2 = 1)
  BY <1>1, <1>2, <1>3
<1>4. CASE ~(rest > 5 \/ (rest = 5 /\ down % 2 = 1))
  <2>1. rest <= 5
    BY <1>1, <1>4
  <2> QED BY <1>1, <1>2, <1>4, <2>1
<1> QED BY <1>3, <1>4

\* The results page, the list of questionnaires and the figures above it tell a
\* student the same of the same attempts, but for the rounding of the best one
\* (user_results.py:11-26, fetch_questionnaires.py:38-43, 83-94).
THEOREM PagesAlwaysAgree == QuestionnairesSpec => []PagesAgree
<1>1. ASSUME QuestionnairesInv, NEW s \in profiles
      PROVE  LET D == DOMAIN questionnaires
                 line(id) == ListedFor(s, id, FALSE)
                 filtered(id) == ListedFor(s, id, TRUE)
             IN  /\ SumFunction([id \in D |-> line(id).count]) = Stats(s).total
                 /\ \A id \in D : line(id).best <= Stats(s).best
                 /\ Stats(s).total > 0 => \E id \in D : line(id).best = Stats(s).best
                 /\ \A id \in D : filtered(id).best = line(id).best /\ filtered(id).latest = line(id).latest
                 /\ Shown(s) =>
                      /\ UserResults(s).total = Stats(s).total
                      /\ UserResults(s).passed <= Cardinality({n \in Own(s) : taken[n].passed})
                      /\ 10 * UserResults(s).best - Stats(s).best \in -5 .. 5
  <2> DEFINE D == DOMAIN questionnaires
             own == Own(s)
             count == [id \in D |-> ListedFor(s, id, FALSE).count]
  <2>1. IsFiniteSet(D) /\ IsFiniteSet(DOMAIN taken)
    <3>1. /\ lastId.questionnaires \in Int /\ lastId.taken \in Int
          /\ D \in SUBSET (1 .. lastId.questionnaires)
          /\ DOMAIN taken \in SUBSET (1 .. lastId.taken)
      BY <1>1 DEF QuestionnairesInv, IdsInv
    <3>2. IsFiniteSet(1 .. lastId.questionnaires) /\ IsFiniteSet(1 .. lastId.taken)
      BY <3>1, FS_Interval
    <3> QED BY <3>1, <3>2, FS_Subset
  <2>2. own \in SUBSET DOMAIN taken /\ IsFiniteSet(own)
    BY <2>1, FS_Subset DEF Own
  <2>3. \A n \in own : taken[n].questionnaire \in D
    BY <1>1, <2>2 DEF QuestionnairesInv, AttemptsInv
  <2>4. \A id \in D : AttemptsOf(s, id) = {n \in own : taken[n].questionnaire = id}
    BY DEF AttemptsOf, AttemptsOn, Own
  <2>5. /\ Stats(s).total = Cardinality(own) /\ Stats(s).best = Best(own)
        /\ UserResults(s).total = Cardinality(own) /\ UserResults(s).best = Tenths(Best(own))
        /\ UserResults(s).passed = Cardinality({n \in own : PassedOnPage(taken[n])})
    BY DEF Stats, UserResults
  <2>6. SumFunction(count) = Stats(s).total
    <3> DEFINE sizes == [id \in D |-> Cardinality({n \in own : taken[n].questionnaire = id})]
    <3>1. \A id \in D : ListedFor(s, id, FALSE).count = sizes[id]
      <4> TAKE id \in D
      <4>1. ListedFor(s, id, FALSE).count = Cardinality(AttemptsOf(s, id))
        BY <2>1, LineIsOwn
      <4> QED BY <2>4, <4>1
    <3>2. count = sizes
      BY <3>1
    <3> HIDE DEF D, own, count
    <3>3. SumFunction(sizes) = Cardinality(own)
      BY <2>1, <2>2, <2>3, ListedAddUp
    <3> QED BY <2>5, <3>2, <3>3
  <2>7. \A id \in D : /\ ListedFor(s, id, FALSE).best = Best(AttemptsOf(s, id))
                      /\ ListedFor(s, id, TRUE).best = ListedFor(s, id, FALSE).best
                      /\ ListedFor(s, id, TRUE).latest = ListedFor(s, id, FALSE).latest
    BY <2>1, LineIsOwn
  <2>8. /\ Best(own) \in Nat
        /\ \A n \in own : taken[n].scored => taken[n].percentage <= Best(own)
        /\ Best(own) = 0 \/ \E n \in own : taken[n].scored /\ taken[n].percentage = Best(own)
    BY <1>1, <2>2, BestIsOne
  <2>9. ASSUME NEW id \in D
        PROVE  /\ ListedFor(s, id, FALSE).best \in Nat
               /\ ListedFor(s, id, FALSE).best <= Best(own)
               /\ \A n \in own : taken[n].questionnaire = id /\ taken[n].scored
                                    => taken[n].percentage <= ListedFor(s, id, FALSE).best
    <3> DEFINE part == AttemptsOf(s, id)
    <3>1. part \in SUBSET own /\ part \in SUBSET DOMAIN taken
          /\ \A n \in own : taken[n].questionnaire = id => n \in part
      BY <2>2, <2>4
    <3> HIDE DEF part, own, D
    <3>2. /\ Best(part) \in Nat
          /\ \A n \in part : taken[n].scored => taken[n].percentage <= Best(part)
          /\ Best(part) = 0 \/ \E n \in part : taken[n].scored /\ taken[n].percentage = Best(part)
      BY <1>1, <3>1, BestIsOne
    <3>3. Best(part) <= Best(own)
      BY <2>8, <3>1, <3>2
    <3>4. ListedFor(s, id, FALSE).best = Best(part)
      BY <2>7 DEF part
    <3> QED BY <3>1, <3>2, <3>3, <3>4
  <2>10. ASSUME Stats(s).total > 0
         PROVE  \E id \in D : ListedFor(s, id, FALSE).best = Best(own)
    <3>1. own # {}
      BY <2>5, <2>10, FS_EmptySet
    <3>2. PICK n \in own : \/ Best(own) = 0
                           \/ taken[n].scored /\ taken[n].percentage = Best(own)
      BY <2>8, <3>1
    <3> DEFINE id == taken[n].questionnaire
    <3>3. id \in D
      BY <2>3
    <3> HIDE DEF own, D
    <3>4. /\ ListedFor(s, id, FALSE).best \in Nat
          /\ ListedFor(s, id, FALSE).best <= Best(own)
          /\ taken[n].scored => taken[n].percentage <= ListedFor(s, id, FALSE).best
      BY <2>9, <3>3
    <3>5. ListedFor(s, id, FALSE).best = Best(own)
      <4> DEFINE best == Best(own)
                 top == ListedFor(s, id, FALSE).best
      <4>1. best \in Nat /\ top \in Nat /\ top <= best /\ (best = 0 \/ best <= top)
        BY <2>8, <3>2, <3>4
      <4> HIDE DEF best, top
      <4>2. top = best
        BY <4>1
      <4> QED BY <4>2 DEF best, top
    <3> QED BY <3>3, <3>5
  <2>11. UserResults(s).passed <= Cardinality({n \in own : taken[n].passed})
    <3>1. {n \in own : PassedOnPage(taken[n])} \subseteq {n \in own : taken[n].passed}
      <4>1. VerdictsAgree
        BY <1>1, VerdictsFollow
      <4> QED BY <2>2, <4>1 DEF VerdictsAgree
    <3>2. IsFiniteSet({n \in own : taken[n].passed})
      BY <2>2, FS_Subset
    <3> QED BY <2>5, <3>1, <3>2, FS_Subset
  <2>12. 10 * UserResults(s).best - Stats(s).best \in -5 .. 5
    <3> HIDE DEF own
    <3> QED BY <2>5, <2>8, TenthsNear
  <2>13. \A id \in D : ListedFor(s, id, FALSE).best <= Stats(s).best
    BY <2>5, <2>9
  <2>14. Stats(s).total > 0 => \E id \in D : ListedFor(s, id, FALSE).best = Stats(s).best
    BY <2>5, <2>10
  <2> QED BY <2>5, <2>6, <2>7, <2>11, <2>12, <2>13, <2>14
<1>2. QuestionnairesInv => PagesAgree
  BY <1>1 DEF PagesAgree
<1> QED BY <1>2, QuestionnairesInvariant, PTL

--------------------------------------------------------------------------------
(* Posts and responses.                                                     *)

\* A flawless form is saved as it asked.
LEMMA SavedAsAsked ==
    ASSUME NEW f \in Forms, Flawless(f)
    PROVE  AsAsked(Saved(f), f)
<1> DEFINE row == Saved(f)
<1>1. IsList(f.questions) /\ IsList(f.tags)
  BY FormsAssumption
<1>2. DOMAIN f.questions = 1 .. Len(f.questions) /\ Len(f.questions) \in Nat
  BY <1>1, ListFinite
<1>3. /\ DOMAIN Kept(f) = DOMAIN f.questions
      /\ \A i \in DOMAIN f.questions : Kept(f)[i] = f.questions[i]
  BY NothingPassedOver
<1>4. /\ row.title = f.title
      /\ row.questions = [i \in 1 .. Len(f.questions) |-> SavedQuestion(f, i)]
      /\ row.tags = {f.tags[i].tag : i \in TagRows(f)}
  BY <1>2, <1>3 DEF Saved
<1>5. Len(row.questions) = Len(f.questions)
  BY <1>2, <1>4
<1>6. \A i \in DOMAIN f.questions :
        /\ row.questions[i].type = f.questions[i].type
        /\ row.questions[i].max = f.questions[i].max
        /\ row.questions[i].choices = {SavedChoice(f.choices[k]) : k \in ChoicesOf(f, i)}
  BY <1>2, <1>3, <1>4 DEF SavedQuestion
<1>7. TagRows(f) = {n \in DOMAIN f.tags : f.tags[n].primary /\ f.tags[n].coupling = "ok"}
  BY ScoringAssumption DEF TagRows, Flawless
<1>8. row.tags = {f.tags[i].tag : i \in {n \in DOMAIN f.tags : f.tags[n].primary /\ f.tags[n].coupling = "ok"}}
  BY <1>4, <1>7
<1> HIDE DEF row
<1>9. AsAsked(row, f)
  BY <1>4, <1>5, <1>6, <1>8 DEF AsAsked
<1> QED BY <1>9 DEF row

\* The promise of CreatedAsAsked about the posts, for one step.
PostsAsAsked ==
    \A p \in Posts :
        progress'[p] # progress[p] =>
            IF progress'[p] = "created"
            THEN \E id \in DOMAIN questionnaires' \ DOMAIN questionnaires :
                     AsAsked(questionnaires'[id], form[p])
            ELSE questionnaires' = questionnaires

\* A questionnaire is stored for the post that is answered "created", as it was
\* asked for, and none for one that is refused or fails
\* (questionnare_post.py:101-188).
THEOREM CreatedAlwaysAsAsked == QuestionnairesSpec => CreatedAsAsked
<1>1. ASSUME QuestionnairesInv, [QuestionnairesNext]_questionnairesVars PROVE PostsAsAsked
  <2> SUFFICES ASSUME NEW p \in Posts, progress'[p] # progress[p]
               PROVE  IF progress'[p] = "created"
                      THEN \E id \in DOMAIN questionnaires' \ DOMAIN questionnaires :
                               AsAsked(questionnaires'[id], form[p])
                      ELSE questionnaires' = questionnaires
    BY DEF PostsAsAsked
  <2>1. DOMAIN progress = Posts
    BY <1>1 DEF QuestionnairesInv, PostsInv
  <2>2. PICK o \in Posts : Check(o) \/ Save(o) \/ FailToSave(o)
    BY <1>1 DEF QuestionnairesNext, questionnairesVars, EditQuestionnaire, EditQuestion,
                DeleteQuestion, DeleteQuestionnaire, Take, DeleteAttempt, DeleteResponse,
                DeleteScore, DeleteProfile, DeleteTag
  <2>3. CASE Check(o)
    <3>1. progress'[p] # "created" /\ questionnaires' = questionnaires
      BY <2>1, <2>3 DEF Check
    <3> QED BY <3>1
  <2>4. CASE FailToSave(o)
    <3>1. progress'[p] # "created" /\ questionnaires' = questionnaires
      BY <2>1, <2>4 DEF FailToSave
    <3> QED BY <3>1
  <2>5. CASE Save(o)
    <3> DEFINE new == lastId'.questionnaires
    <3>1. o = p /\ progress'[p] = "created"
      BY <2>1, <2>5 DEF Save
    <3>2. form[p] \in Forms /\ Flawless(form[p])
      BY <1>1, <2>5, <3>1 DEF Save, QuestionnairesInv, PostsInv
    <3>3. /\ lastId.questionnaires \in Nat /\ new = lastId.questionnaires + 1
          /\ DOMAIN questionnaires \subseteq 1 .. lastId.questionnaires
      BY <1>1, <2>5 DEF Save, QuestionnairesInv, IdsInv
    <3>4. new \in DOMAIN questionnaires' /\ questionnaires'[new] = Saved(form[p])
      BY <2>5, <3>1 DEF Save
    <3> HIDE DEF new
    <3>5. new \notin DOMAIN questionnaires
      BY <3>3
    <3> QED BY <3>1, <3>2, <3>4, <3>5, SavedAsAsked
  <2> QED BY <2>2, <2>3, <2>4, <2>5
<1>2. QuestionnairesInv /\ [QuestionnairesNext]_questionnairesVars => [PostsAsAsked]_questionnairesVars
  BY <1>1
<1>3. [][QuestionnairesNext]_questionnairesVars /\ []QuestionnairesInv => [][PostsAsAsked]_questionnairesVars
  BY <1>2, PTL
<1> QED BY <1>3, QuestionnairesInvariant, PTL DEF QuestionnairesSpec, CreatedAsAsked, PostsAsAsked

\* Response r is still there in attempt n, or was deleted: itself or with its owner.
Stays(n, r) ==
    \/ n \in DOMAIN taken' /\ r \in taken'[n].marks
    \/ DeleteAttempt(n) \/ DeleteResponse(n, r)
    \/ DeleteProfile(taken[n].profile)

\* What a student answered and the mark for it outlive every edit, and go only
\* with the response, the attempt or the account, because a response protects
\* its question and an attempt its questionnaire
\* (assessments/models.py:267-274, 328-339).
THEOREM AnswersAlwaysStay == QuestionnairesSpec => ResponsesStay
<1>1. ASSUME QuestionnairesInv, [QuestionnairesNext]_questionnairesVars,
             NEW n \in DOMAIN taken, NEW r \in taken[n].marks
      PROVE  Stays(n, r)
  <2>1. ASSUME n \in DOMAIN taken', taken'[n] = taken[n] PROVE Stays(n, r)
    BY <2>1 DEF Stays
  <2>2. ASSUME UNCHANGED taken PROVE Stays(n, r)
    BY <2>1, <2>2
  <2>3. ASSUME NEW p \in Posts, Check(p) \/ Save(p) \/ FailToSave(p) PROVE UNCHANGED taken
    BY <2>3 DEF Check, Save, FailToSave
  <2>4. ASSUME NEW id \in DOMAIN questionnaires,
               \/ \E h \in AdminHeads : EditQuestionnaire(id, h.title, h.max)
               \/ \E i \in DOMAIN questionnaires[id].questions :
                    DeleteQuestion(id, i) \/ \E q \in AdminQuestions : EditQuestion(id, i, q)
        PROVE  UNCHANGED taken
    BY <2>4 DEF EditQuestionnaire, EditQuestion, DeleteQuestion
  <2>5. ASSUME NEW t \in tags, DeleteTag(t) PROVE UNCHANGED taken
    BY <2>5 DEF DeleteTag
  <2>6. ASSUME NEW id \in DOMAIN questionnaires, DeleteQuestionnaire(id) PROVE Stays(n, r)
    <3>1. AttemptsOn(id) = {} /\ taken' = Restrict(taken, DOMAIN taken \ AttemptsOn(id))
      BY <2>6 DEF DeleteQuestionnaire, Unprotected
    <3>2. n \in DOMAIN taken' /\ taken'[n] = taken[n]
      BY <3>1 DEF Restrict
    <3> QED BY <2>1, <3>2
  <2>7. ASSUME NEW id \in DOMAIN questionnaires, NEW s \in profiles, NEW answers \in Submissions,
               Take(s, id, answers)
        PROVE  Stays(n, r)
    <3> DEFINE new == lastId'.taken
    <3>1. /\ lastId' = [lastId EXCEPT !.taken = @ + 1]
          /\ \E marks : taken' = [m \in DOMAIN taken \cup {new} |->
                                     IF m = new THEN Attempt(s, id, marks) ELSE taken[m]]
      BY <2>7 DEF Take
    <3>2. /\ lastId.taken \in Nat /\ new = lastId.taken + 1
          /\ DOMAIN taken \subseteq 1 .. lastId.taken
      BY <1>1, <3>1 DEF QuestionnairesInv, IdsInv
    <3> HIDE DEF new
    <3>3. new \notin DOMAIN taken
      BY <3>2
    <3>4. n \in DOMAIN taken' /\ taken'[n] = taken[n]
      BY <3>1, <3>3
    <3> QED BY <2>1, <3>4
  <2>8. ASSUME NEW m \in DOMAIN taken, DeleteAttempt(m) PROVE Stays(n, r)
    <3>1. CASE m = n
      BY <2>8, <3>1 DEF Stays
    <3>2. CASE m # n
      <4>1. n \in DOMAIN taken' /\ taken'[n] = taken[n]
        BY <2>8, <3>2 DEF DeleteAttempt, Restrict
      <4> QED BY <2>1, <4>1
    <3> QED BY <3>1, <3>2
  <2>9. ASSUME NEW m \in DOMAIN taken, NEW x \in taken[m].marks, DeleteResponse(m, x)
        PROVE  Stays(n, r)
    <3>1. CASE m = n /\ x = r
      BY <2>9, <3>1 DEF Stays
    <3>2. CASE ~(m = n /\ x = r)
      <4> DEFINE marks == IF n = m THEN taken[n].marks \ {x} ELSE taken[n].marks
      <4>1. /\ IsAttempt(taken[n])
            /\ n \in DOMAIN taken' /\ DOMAIN taken' = DOMAIN taken
            /\ taken'[n] = IF n = m THEN [taken[n] EXCEPT !.marks = @ \ {x}] ELSE taken[n]
        BY <1>1, <2>9 DEF DeleteResponse, QuestionnairesInv, AttemptsInv
      <4>2. taken'[n].marks = marks
        BY <4>1 DEF IsAttempt
      <4>3. r \in marks
        BY <3>2
      <4> QED BY <4>1, <4>2, <4>3 DEF Stays
    <3> QED BY <3>1, <3>2
  <2>10. ASSUME NEW m \in DOMAIN taken, DeleteScore(m) PROVE Stays(n, r)
    <3>1. /\ IsAttempt(taken[n])
          /\ n \in DOMAIN taken'
          /\ taken'[n] = IF n = m THEN [taken[n] EXCEPT !.scored = FALSE] ELSE taken[n]
      BY <1>1, <2>10 DEF DeleteScore, QuestionnairesInv, AttemptsInv
    <3>2. taken'[n].marks = taken[n].marks
      BY <3>1 DEF IsAttempt
    <3> QED BY <3>1, <3>2 DEF Stays
  <2>11. ASSUME NEW s \in profiles, DeleteProfile(s) PROVE Stays(n, r)
    <3>1. CASE s = taken[n].profile
      BY <2>11, <3>1 DEF Stays
    <3>2. CASE s # taken[n].profile
      <4>1. n \in DOMAIN taken' /\ taken'[n] = taken[n]
        BY <2>11, <3>2 DEF DeleteProfile, Restrict, Own
      <4> QED BY <2>1, <4>1
    <3> QED BY <3>1, <3>2
  <2>12. CASE UNCHANGED questionnairesVars
    BY <2>2, <2>12 DEF questionnairesVars
  <2>13. CASE QuestionnairesNext
    BY <2>2, <2>3, <2>4, <2>5, <2>6, <2>7, <2>8, <2>9, <2>10, <2>11, <2>13 DEF QuestionnairesNext
  <2> QED BY <1>1, <2>12, <2>13
<1>2. ASSUME QuestionnairesInv, [QuestionnairesNext]_questionnairesVars
      PROVE  \A n \in DOMAIN taken : \A r \in taken[n].marks : Stays(n, r)
  BY <1>1, <1>2
<1> QED BY <1>2, QuestionnairesInvariant, PTL DEF QuestionnairesSpec, ResponsesStay, Stays

================================================================================
