-------------------------- MODULE MCPercentileRanks --------------------------
(***************************************************************************)
(* A small instance of PercentileRanks for TLC.                            *)
(***************************************************************************)
EXTENDS PercentileRanks, TLC

CONSTANTS a1, a2, a3, a4, a5, b1, b2, iq, eq

\* Five attempts of one questionnaire, two alike below and two at the top, and
\* two of another.
InTwo == [a \in {a1, a2, a3, a4, a5} |-> iq] @@ [a \in {b1, b2} |-> eq]
Percentages ==
    (a1 :> 20) @@ (a2 :> 20) @@ (a3 :> 60) @@ (a4 :> 80) @@ (a5 :> 80) @@ (b1 :> 50) @@ (b2 :> 70)
==============================================================================
