---------------------------- MODULE ActivityReports ----------------------------
(***************************************************************************)
(* What of the table SiteActivity its readers go by: the queries of the    *)
(* overview and the sessions of visitors (analytics/repositories,          *)
(* analytics/services/analytics/aggregations), and the list of sessions on *)
(* the settings page (accounts/services/user_sessions.py).                 *)
(*                                                                         *)
(* The table is a sequence of rows, in the order they were inserted.  A    *)
(* report is a function of the table and a window.                         *)
(***************************************************************************)
EXTENDS Integers, Sequences, FiniteSets, SequencesExt

CONSTANTS
    Nobody,  \* NULL in the columns user and session_key
    Gap      \* ANALYTICS_SESSION_TIMEOUT_MINUTES, in ticks

ASSUME ReportAssumption == Gap \in Nat

--------------------------------------------------------------------------------
\* The queries of ActivityRepository, as sets of positions of the table T.

for_date_range(T, start, end) == {i \in DOMAIN T : start <= T[i].at /\ T[i].at <= end}

Values(T, rows, field) == {T[i][field] : i \in rows}
KnownUser(T, rows) == {i \in rows : T[i].user # Nobody}
Anonymous(T, rows) == {i \in rows : T[i].user = Nobody}

--------------------------------------------------------------------------------
\* Sessions: the requests of one identity, cut where nothing came for longer
\* than the timeout.

session_identity(row) ==
    IF row.key # Nobody THEN <<"sk", row.key>>
    ELSE IF row.user # Nobody THEN <<"uid", row.user>>
    ELSE <<"ip", row.ip>>

\* Mutant of segment: a gap as long as the timeout ends a session too.
segment_at_timeout(T, rows) ==
    LET times == Values(T, rows, "at")
        starts == {t \in times : \A u \in times : u < t => t - u >= Gap}
    IN {{i \in rows : Max({t \in starts : t <= T[i].at}) = s} : s \in starts}

\* _segment_into_sessions, of rows that are sorted by time: a session starts
\* when the last request before was longer ago than the timeout, and goes on
\* until the next one starts.
segment(T, rows) ==
    LET times == Values(T, rows, "at")
        starts == {t \in times : \A u \in times : u < t => t - u > Gap}
    IN {{i \in rows : Max({t \in starts : t <= T[i].at}) = s} : s \in starts}

build_sessions(T, rows) ==
    UNION {segment(T, {i \in rows : session_identity(T[i]) = who})
             : who \in {session_identity(T[i]) : i \in rows}}

\* _summarise_session.
summarise(T, session) ==
    LET times == Values(T, session, "at")
    IN [duration |-> Max(times) - Min(times),
        page_views |-> Cardinality(session),
        unique_paths |-> Cardinality(Values(T, session, "path"))]

--------------------------------------------------------------------------------
\* get_active_sessions_for_user: among the live session keys those the user was
\* seen with, each with the newest request it was seen in.

\* Mutant of active_sessions: whoever was seen with the key.
active_sessions_of_all(T, live, user, current) ==
    LET seen == {i \in DOMAIN T : T[i].key \in live}
    IN {[id |-> k, current |-> k = current,
         latest |-> CHOOSE i \in seen : /\ T[i].key = k
                        /\ \A j \in seen : T[j].key = k => T[j].at <= T[i].at]
          : k \in Values(T, seen, "key")}

active_sessions(T, live, user, current) ==
    LET seen == {i \in DOMAIN T : T[i].user = user /\ T[i].key \in live}
    IN {[id |-> k, current |-> k = current,
         latest |-> CHOOSE i \in seen : /\ T[i].key = k
                        /\ \A j \in seen : T[j].key = k => T[j].at <= T[i].at]
          : k \in Values(T, seen, "key")}
================================================================================
