---------------------------- MODULE MCRegenDebounce ----------------------------
(***************************************************************************)
(* Small instances of RegenDebounce for TLC.                               *)
(***************************************************************************)
EXTENDS RegenDebounce, TLC

CONSTANTS s1, s2, s3, w1, w2

\* One web process for all submissions.
OneProcess == [s \in Submissions |-> w1]

=================================================================================
