----------------------------- MODULE SiteTracking -----------------------------
(***************************************************************************)
(* Requests, the sessions behind them, the row the tracking middleware     *)
(* records of each (analytics/middleware, analytics/services/tracking), and *)
(* who reads those rows meanwhile: the list of a user's sessions           *)
(* (accounts/services/user_sessions.py) and the overview dashboard behind  *)
(* its cache (analytics/services/analytics/overview_service.py).           *)
(*                                                                         *)
(* A request runs its view, then process_response records it; other        *)
(* requests run in between.  No request is a transaction but the deletion  *)
(* of an account.  A browser may send any session key ever issued, or none.*)
(***************************************************************************)
EXTENDS ActivityReports

CONSTANTS
    Users, Keys,  \* accounts; session keys
    Requests,     \* requests that can be under way at a time
    Visitors,     \* what is recorded of a request besides its user: records
    SessionAge,   \* SESSION_COOKIE_AGE, in ticks
    CacheTime,    \* ANALYTICS_CACHE_TIMEOUT, in ticks
    Horizon,      \* bound: the last tick
    MaxRows       \* bound: rows recorded and under way

ASSUME TrackingAssumption ==
    /\ Nobody \notin Users \cup Keys
    /\ SessionAge \in Nat \ {0} /\ CacheTime \in Nat
    /\ Horizon \in Nat /\ MaxRows \in Nat

VARIABLES
    now,       \* the time, in ticks
    password,  \* password[u]: how often it was changed, or Gone
    session,   \* session[k]: its row in django_session, or NoSession
    owner,     \* owner[k]: who the key was issued to (history)
    table,     \* SiteActivity, in the order of insertion
    request,   \* request[r]: where request r is and what it knows
    overview,  \* the overview that is being computed or shown
    cache      \* the overview in the cache, and until when

vars == <<now, password, session, owner, table, request, overview, cache>>

Gone == -1
NoSession == [user |-> Nobody, hash |-> 0, expires |-> 0]

Idle == [at |-> "idle", user |-> Nobody, key |-> Nobody, live |-> {}, upto |-> 0,
         sessions |-> {}]

NoOverview == [at |-> "none", step |-> 1, asked |-> 0, total |-> 0, auth |-> 0, anon |-> 0]

Init ==
    /\ now = 0
    /\ password = [u \in Users |-> 0]
    /\ session = [k \in Keys |-> NoSession]
    /\ owner = [k \in Keys |-> Nobody]
    /\ table = <<>>
    /\ request = [r \in Requests |-> Idle]
    /\ overview = NoOverview
    /\ cache = [until |-> 0, overview |-> NoOverview]

--------------------------------------------------------------------------------
\* Sessions, as Django keeps them.

Live == {k \in Keys : session[k] # NoSession /\ now < session[k].expires}
Issued == {k \in Keys : owner[k] # Nobody}

\* A live session whose password hash is out of date: flushed when it is used.
Outdated(k) ==
    k \in Live /\ password[session[k].user] # Gone
               /\ session[k].hash # password[session[k].user]

\* request.user and request.session.session_key after authentication.
UserOf(k) ==
    IF k \in Live /\ session[k].hash = password[session[k].user]
    THEN session[k].user ELSE Nobody
KeyOf(k) == IF k \in Live /\ ~Outdated(k) THEN k ELSE Nobody

Flushed(ks) == [k \in Keys |-> IF k \in ks THEN NoSession ELSE session[k]]
Stale(k) == IF Outdated(k) THEN {k} ELSE {}

--------------------------------------------------------------------------------
\* Views.  Each starts at an idle r, with the key a browser sent.

Free == Len(table) + Cardinality({r \in Requests : request[r].at # "idle"}) < MaxRows

\* Authentication for the view of r; key is the one r has afterwards.
Begin(r, k, at, user, key) ==
    /\ request[r] = Idle /\ Free
    /\ request' = [request EXCEPT ![r] =
           [Idle EXCEPT !.at = at, !.user = user, !.key = key,
                        !.live = IF at = "reading" THEN Live ELSE {},
                        !.upto = IF at = "deleting" THEN Len(table) ELSE 0]]
    /\ UNCHANGED <<now, table, overview, cache>>

\* Any page.
Visit(r, k) ==
    /\ Begin(r, k, "answered", UserOf(k), KeyOf(k))
    /\ session' = Flushed(Stale(k))
    /\ UNCHANGED <<password, owner>>

\* UserLogin.post: login() keeps the key of a session of that user, and starts
\* a new one otherwise; a session of somebody else is flushed.
LogIn(r, k, u) ==
    /\ password[u] # Gone
    /\ IF UserOf(k) = u
       THEN /\ Begin(r, k, "answered", u, k)
            /\ UNCHANGED <<session, owner>>
       ELSE \E fresh \in Keys \ Issued :
            /\ Begin(r, k, "answered", u, fresh)
            /\ session' = [Flushed({k} \cap Live) EXCEPT ![fresh] =
                   [user |-> u, hash |-> password[u], expires |-> now + SessionAge]]
            /\ owner' = [owner EXCEPT ![fresh] = u]
    /\ UNCHANGED password

\* logout_user: the session is flushed, and the request is nobody's.
LogOut(r, k) ==
    /\ UserOf(k) # Nobody
    /\ Begin(r, k, "answered", Nobody, Nobody)
    /\ session' = Flushed({k})
    /\ UNCHANGED <<password, owner>>

\* change_user_password: every session of the user is out of date from now on,
\* the one of this request as well.
ChangePassword(r, k) ==
    LET u == UserOf(k) IN
    /\ u # Nobody /\ password[u] = 0
    /\ Begin(r, k, "answered", u, k)
    /\ password' = [password EXCEPT ![u] = @ + 1]
    /\ UNCHANGED <<session, owner>>

\* delete_user_session: a session row of the same user, expired or not.
DeleteSession(r, k, id) ==
    /\ UserOf(k) # Nobody
    /\ session[id] # NoSession /\ session[id].user = UserOf(k)
    /\ Begin(r, k, "answered", UserOf(k), k)
    /\ session' = Flushed({id})
    /\ UNCHANGED <<password, owner>>

--------------------------------------------------------------------------------
\* delete_user_account, one transaction: the user column of the user's rows is
\* cleared, then the user is deleted.  The foreign key is checked at the commit,
\* where a row recorded in between makes the whole deletion fail.

BeginDeletion(r, k) ==
    /\ UserOf(k) # Nobody
    /\ Begin(r, k, "deleting", UserOf(k), k)
    /\ UNCHANGED <<password, session, owner>>

\* Whether it fails or not, the copy of the user has lost its primary key.
CommitDeletion(r) ==
    LET u == request[r].user
        cleared == {i \in 1..request[r].upto : table[i].user = u}
    IN
    /\ request[r].at = "deleting"
    /\ IF \E i \in DOMAIN table \ cleared : table[i].user = u
       THEN UNCHANGED <<password, table>>
       ELSE /\ password' = [password EXCEPT ![u] = Gone]
            /\ table' = [i \in DOMAIN table |->
                   IF i \in cleared THEN [table[i] EXCEPT !.user = Nobody] ELSE table[i]]
    /\ request' = [request EXCEPT ![r].at = "answered", ![r].user = Nobody]
    /\ UNCHANGED <<now, session, owner, overview, cache>>

--------------------------------------------------------------------------------
\* UserSettings.get: first the live sessions, then the rows that name them.

ReadSessions(r, k) ==
    /\ UserOf(k) # Nobody
    /\ Begin(r, k, "reading", UserOf(k), k)
    /\ UNCHANGED <<password, session, owner>>

ListSessions(r) ==
    /\ request[r].at = "reading"
    /\ request' = [request EXCEPT ![r].at = "answered",
           ![r].sessions = active_sessions(table, request[r].live,
                                           request[r].user, request[r].key)]
    /\ UNCHANGED <<now, password, session, owner, table, overview, cache>>

--------------------------------------------------------------------------------
\* process_response: record the request, unless its path is excluded.  Whatever
\* fails is logged, and the answer is sent all the same.

\* The row of request r: the time of the recording, the user and the session key
\* as the view has left them, and the rest from the headers.
Row(r, v) ==
    [at |-> now, user |-> request[r].user, key |-> request[r].key,
     ip |-> v.ip, path |-> v.path]

\* Its columns accept what the headers say (a malformed address does not fit),
\* and its foreign key finds the user.
Storable(r, v) ==
    v.fits /\ (request[r].user = Nobody \/ password[request[r].user] # Gone)

Respond(r) ==
    /\ request[r].at = "answered"
    /\ \E v \in Visitors :
         table' = IF v.excluded \/ ~Storable(r, v) THEN table ELSE Append(table, Row(r, v))
    /\ request' = [request EXCEPT ![r] = Idle]
    /\ UNCHANGED <<now, password, session, owner, overview, cache>>

--------------------------------------------------------------------------------
\* The overview of the whole horizon: get_or_set, and a query at a time.

AskOverview ==
    /\ overview.at \in {"none", "shown"}
    /\ overview' = IF now < cache.until
                   THEN [cache.overview EXCEPT !.at = "shown", !.asked = now]
                   ELSE [NoOverview EXCEPT !.at = "counting", !.asked = now]
    /\ UNCHANGED <<now, password, session, owner, table, request, cache>>

Window == for_date_range(table, 0, Horizon)

\* Mutant of Queries: the anonymous visits are counted before the others.
QueriesSwapped == <<"total", "anon", "auth">>

Queries == <<"total", "auth", "anon">>

Counted(query) ==
    Cardinality(CASE query = "total" -> Window
                  [] query = "auth" -> KnownUser(table, Window)
                  [] query = "anon" -> Anonymous(table, Window))

CountNext ==
    LET n == overview.step IN
    /\ overview.at = "counting"
    /\ overview' = [overview EXCEPT !.step = n + 1, ![Queries[n]] = Counted(Queries[n]),
                        !.at = IF n = Len(Queries) THEN "shown" ELSE "counting"]
    /\ cache' = IF n = Len(Queries)
                THEN [until |-> now + CacheTime, overview |-> overview'] ELSE cache
    /\ UNCHANGED <<now, password, session, owner, table, request>>

--------------------------------------------------------------------------------
\* Computing an overview takes no whole tick.
Tick ==
    /\ now < Horizon
    /\ overview.at \in {"none", "shown"}
    /\ now' = now + 1
    /\ UNCHANGED <<password, session, owner, table, request, overview, cache>>

View(r, k) ==
    \/ Visit(r, k) \/ LogOut(r, k) \/ ChangePassword(r, k)
    \/ BeginDeletion(r, k) \/ ReadSessions(r, k)
    \/ \E u \in Users : LogIn(r, k, u)
    \/ \E id \in Keys : DeleteSession(r, k, id)

Next ==
    \/ Tick \/ AskOverview \/ CountNext
    \/ \E r \in Requests :
        \/ CommitDeletion(r) \/ ListSessions(r) \/ Respond(r)
        \/ \E k \in Issued \cup {Nobody} : View(r, k)

Spec == Init /\ [][Next]_vars

--------------------------------------------------------------------------------
TypeOK ==
    /\ now \in 0..Horizon
    /\ password \in [Users -> {Gone} \cup Nat]
    /\ \A k \in Keys :
        session[k] = NoSession \/ (session[k].user \in Users /\ owner[k] = session[k].user)
    /\ owner \in [Keys -> Users \cup {Nobody}]
    /\ Len(table) <= MaxRows
    /\ overview.at \in {"none", "counting", "shown"}

\* The settings page shows a user no session but his own
\* (user_sessions.py:63-77), though the rows it goes by are written after the
\* answers of other requests: after a login, logout or deletion in the meantime.
ListedAreOwn ==
    \A r \in Requests : \A s \in request[r].sessions :
        /\ owner[s.id] = request[r].user
        /\ s.current <=> s.id = request[r].key

\* An overview misses no visit older than the life of a cache entry, and loses
\* none between its queries (overview_service.py:79-83): each is among the
\* authenticated or the anonymous ones, even if its user is deleted meanwhile.
OverviewComplete ==
    overview.at = "shown" =>
        /\ overview.total <= overview.auth + overview.anon
        /\ overview.total >=
              Cardinality(for_date_range(table, 0, overview.asked - CacheTime - 1))

\* From a visit to a visit: any other window takes in the same rows as one of these.
Windows ==
    LET times == Values(table, DOMAIN table, "at") IN {w \in times \X times : w[1] <= w[2]}

\* Whatever window is asked for: the sessions (aggregations/sessions.py) take in
\* every visit once; visits of one identity are in one session if no gap longer
\* than the timeout lies between them, and in different ones otherwise.
SessionsAreChains ==
    \A w \in Windows :
        LET rows == for_date_range(table, w[1], w[2])
            sessions == build_sessions(table, rows)
            mates(i, j) == session_identity(table[i]) = session_identity(table[j])
            linked(i, j) ==  \* i is not younger than j
                \A t \in table[i].at .. (table[j].at - Gap - 1) :
                    \E h \in rows : mates(h, i) /\ table[h].at \in t+1 .. t+Gap
        IN /\ \A i \in rows : Cardinality({s \in sessions : i \in s}) = 1
           /\ SumFunction([s \in sessions |-> summarise(table, s).page_views]) = Cardinality(rows)
           /\ \A i, j \in rows : table[i].at <= table[j].at =>
                ((\E s \in sessions : {i, j} \subseteq s)
                    <=> mates(i, j) /\ linked(i, j))
================================================================================
