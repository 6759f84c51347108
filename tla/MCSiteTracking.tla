---------------------------- MODULE MCSiteTracking ----------------------------
(***************************************************************************)
(* A small instance of SiteTracking for TLC.                               *)
(***************************************************************************)
EXTENDS SiteTracking

CONSTANTS u1, u2, k1, k2, k3, r1, r2

\* A reader at home, one at the office, an administrator, and a client whose
\* address does not fit its column.
reader == [ip |-> "home", path |-> "page", excluded |-> FALSE, fits |-> TRUE]
colleague == [reader EXCEPT !.ip = "office", !.path = "form"]
administrator == [reader EXCEPT !.path = "admin", !.excluded = TRUE]
malformed == [reader EXCEPT !.ip = "home:80", !.fits = FALSE]

AllVisitors == {reader, colleague, administrator, malformed}

\* Bound: a long table, many requests at a time, many sessions, much time and an
\* overview do not all come together.
Budget ==
    Len(table) + Cardinality(Issued) + now
    + Cardinality({r \in Requests : request[r] # Idle})
    + (IF overview.at = "none" THEN 0 ELSE 1) <= 5

Symmetry == Permutations(Users) \cup Permutations(Keys) \cup Permutations(Requests)
================================================================================
