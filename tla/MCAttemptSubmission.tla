------------------------- MODULE MCAttemptSubmission -------------------------
(***************************************************************************)
(* Small instances of AttemptSubmission for TLC.                           *)
(***************************************************************************)
EXTENDS AttemptSubmission, TLC

CONSTANTS r1, r2, r3, q1, q2, math

OnePair == [r \in Requests |-> math]

\* Three submissions; one of them answers a question twice.
MixedAnswers == (r1 :> <<q1, q2>>) @@ (r2 :> <<q1, q1>>) @@ (r3 :> <<q2>>)

\* One submission of two answers.
TwoAnswers == [r \in Requests |-> <<q1, q2>>]
==============================================================================
