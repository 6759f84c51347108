---------------------------- MODULE MCGenerationJob ----------------------------
(***************************************************************************)
(* Small instances of GenerationJob for TLC.                               *)
(***************************************************************************)
EXTENDS GenerationJob

CONSTANTS j1, j2, shadow, t1, t2

\* Bound: there is evidence about every tag to begin with.
MCInit == Init /\ evidence = [t \in Tags |-> 1]

MCSpec == MCInit /\ [][Next]_vars /\ Fairness
================================================================================
