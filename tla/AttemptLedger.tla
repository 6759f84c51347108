---------------------------- MODULE AttemptLedger ----------------------------
(***************************************************************************)
(* What the scoring service promises: a ledger of scored attempts.  Each   *)
(* entry appears in one piece (attempt, answers and score together), takes *)
(* the next number of its profile+questionnaire pair, is never changed, and *)
(* a request enters at most one.                                           *)
(***************************************************************************)
EXTENDS Naturals

CONSTANTS
    Requests,   \* submissions (one POST of a filled questionnaire each)
    Pairs,      \* profile+questionnaire pairs
    PairOf,     \* PairOf[r]: the pair a submission is for
    MaxMarks    \* the most marks a submission can earn

VARIABLE ledger

Entry == [pair : Pairs, number : Nat \ {0}, owner : Requests, marks : 0..MaxMarks]

Entered(p) == {e.number : e \in {f \in ledger : f.pair = p}}

\* The highest of a set of numbers, 0 where it is empty.
Highest(S) == CHOOSE n \in S \cup {0} : \A m \in S : m <= n

Init == ledger = {}

\* Enter the next attempt of r's pair with its marks.
Record(r, marks) ==
    /\ \A e \in ledger : e.owner # r
    /\ ledger' = ledger \cup
           {[pair |-> PairOf[r], number |-> Highest(Entered(PairOf[r])) + 1,
             owner |-> r, marks |-> marks]}

Next == \E r \in Requests, marks \in 0..MaxMarks : Record(r, marks)

Spec == Init /\ [][Next]_ledger
==============================================================================
