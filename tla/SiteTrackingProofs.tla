--------------------------- MODULE SiteTrackingProofs ---------------------------
(***************************************************************************)
(* Whose sessions the settings page shows, what an overview misses, and    *)
(* how sessions are made of the rows, for any users, keys, requests and    *)
(* rows.                                                                   *)
(***************************************************************************)
EXTENDS SiteTracking, FiniteSums, TLAPS

SomeUser == Users \cup {Nobody}
SomeKey == Keys \cup {Nobody}

\* What a request records, whoever sends it.
Rows ==
    [at : Nat, user : SomeUser, key : SomeKey,
     ip : {v.ip : v \in Visitors}, path : {v.path : v \in Visitors}]

\* A user and a key that stand in one place belong together.
Together(user, key) == user # Nobody /\ key # Nobody => owner[key] = user

\* Keys are issued to users, and a session is its owner's.
OwnersInv ==
    /\ owner \in [Keys -> SomeUser]
    /\ DOMAIN session = Keys
    /\ \A k \in Keys : session[k] = NoSession \/ (session[k].user \in Users /\ owner[k] = session[k].user)

\* Each row was recorded for the owner of its key, or for nobody.
TableInv ==
    /\ table \in Seq(Rows)
    /\ \A i \in DOMAIN table : Together(table[i].user, table[i].key)

\* A request knows a user and a key that belong together; it shows no session
\* unless it has come to that.
RequestInv ==
    /\ DOMAIN request = Requests
    /\ \A r \in Requests :
        LET q == request[r] IN
        /\ DOMAIN q = DOMAIN Idle
        /\ q.user \in SomeUser /\ q.key \in SomeKey /\ q.live \subseteq Keys
        /\ Together(q.user, q.key)
        /\ q.at \in {"deleting", "reading"} => q.user # Nobody /\ q.sessions = {}
        /\ q.sessions # {} => q.user # Nobody
        /\ \A s \in q.sessions : s.id \in Keys

TrackingInv == now \in Nat /\ OwnersInv /\ TableInv /\ RequestInv /\ ListedAreOwn

LEMMA TrackingInit == Init => TrackingInv
<1> SUFFICES ASSUME Init PROVE TrackingInv
  OBVIOUS
<1>1. OwnersInv
  BY DEF Init, OwnersInv, SomeUser
<1>2. TableInv
  BY DEF Init, TableInv
<1>3. RequestInv
  BY DEF Init, RequestInv, Idle, Together, SomeUser, SomeKey
<1>4. now \in Nat /\ ListedAreOwn
  BY DEF Init, ListedAreOwn, Idle
<1> QED BY <1>1, <1>2, <1>3, <1>4 DEF TrackingInv

--------------------------------------------------------------------------------
\* The user of a key is the one it was issued to.
LEMMA AuthenticatedOwner ==
    ASSUME TrackingInv, NEW k \in SomeKey
    PROVE  /\ UserOf(k) \in SomeUser
           /\ UserOf(k) # Nobody => k \in Keys /\ owner[k] = UserOf(k)
           /\ KeyOf(k) \in SomeKey
           /\ KeyOf(k) # Nobody => KeyOf(k) = k
BY TrackingAssumption DEF TrackingInv, OwnersInv, UserOf, KeyOf, Live, SomeUser, SomeKey, NoSession

\* Keys keep their owners, and only keys no one had are issued.
OwnersKept == owner' \in [Keys -> SomeUser] /\ \A k \in Keys : owner[k] # Nobody => owner'[k] = owner[k]

\* Sessions end and begin, the table and the other requests stay: what was
\* known of users and keys remains so.
LEMMA BeginKeeps ==
    ASSUME TrackingInv, OwnersKept, OwnersInv',
           NEW r \in Requests, NEW k, NEW at \in {"answered", "deleting", "reading"},
           NEW user \in SomeUser, NEW key \in SomeKey,
           user # Nobody /\ key # Nobody => owner'[key] = user,
           at \in {"deleting", "reading"} => user # Nobody,
           Begin(r, k, at, user, key)
    PROVE  TrackingInv'
<1>1. TableInv'
  <2>1. \A i \in DOMAIN table : table[i].user \in SomeUser /\ table[i].key \in SomeKey
    <3>1. ASSUME NEW i \in DOMAIN table PROVE table[i] \in Rows
      BY DEF TrackingInv, TableInv
    <3> QED BY <3>1 DEF Rows
  <2> QED BY <2>1 DEF TrackingInv, TableInv, Begin, Together, OwnersKept, SomeKey, SomeUser
<1>2. RequestInv'
  <2> DEFINE live == IF at = "reading" THEN Live ELSE {}
             upto == IF at = "deleting" THEN Len(table) ELSE 0
             begun == [Idle EXCEPT !.at = at, !.user = user, !.key = key, !.live = live,
                                   !.upto = upto]
  <2>1. /\ begun.at = at /\ begun.user = user /\ begun.key = key /\ begun.live = live
        /\ begun.sessions = {} /\ DOMAIN begun = DOMAIN Idle
    <3> HIDE DEF live, upto
    <3> QED BY DEF Idle
  <2>2. request' = [request EXCEPT ![r] = begun]
    BY DEF Begin
  <2>3. live \subseteq Keys
    BY DEF Live
  <2> HIDE DEF live, upto, begun
  <2>4. request'[r] = begun /\ DOMAIN request' = Requests
        /\ \A q \in Requests \ {r} : request'[q] = request[q]
    BY <2>2 DEF TrackingInv, RequestInv
  <2>5. ASSUME NEW q \in Requests \ {r}
        PROVE  request[q].user # Nobody /\ request[q].key # Nobody =>
                 owner'[request[q].key] = request[q].user
    BY DEF TrackingInv, RequestInv, Together, OwnersKept, SomeKey
  <2> QED BY <2>1, <2>3, <2>4, <2>5 DEF TrackingInv, RequestInv, Together
<1>3. ListedAreOwn'
  <2>1. request'[r].sessions = {} /\ \A q \in Requests \ {r} : request'[q] = request[q]
    BY DEF Begin, Idle, TrackingInv, RequestInv
  <2>2. \A q \in Requests : \A s \in request[q].sessions : owner'[s.id] = request[q].user
    BY DEF TrackingInv, RequestInv, ListedAreOwn, OwnersKept
  <2> QED BY <2>1, <2>2 DEF TrackingInv, ListedAreOwn
<1> QED BY <1>1, <1>2, <1>3 DEF TrackingInv, Begin

--------------------------------------------------------------------------------
(* One lemma per kind of step                                               *)

\* A session that ends is nobody's.
LEMMA FlushedOwned ==
    ASSUME OwnersInv, NEW ks, NEW k \in Keys
    PROVE  /\ DOMAIN Flushed(ks) = Keys
           /\ Flushed(ks)[k] = NoSession
              \/ (Flushed(ks)[k].user \in Users /\ owner[k] = Flushed(ks)[k].user)
BY DEF OwnersInv, Flushed

LEMMA ViewKeeps ==
    ASSUME TrackingInv, NEW r \in Requests, NEW k \in SomeKey, View(r, k)
    PROVE  TrackingInv'
<1>0. OwnersInv
  BY DEF TrackingInv
<1> DEFINE user == UserOf(k)
<1>1. /\ user \in SomeUser
      /\ user # Nobody => k \in Keys /\ owner[k] = user
      /\ KeyOf(k) \in SomeKey
      /\ KeyOf(k) # Nobody => KeyOf(k) = k
  BY AuthenticatedOwner
<1>2. UNCHANGED owner => OwnersKept
  BY <1>0 DEF OwnersKept, OwnersInv
<1>3. ASSUME UNCHANGED owner, NEW ks, session' = Flushed(ks) PROVE OwnersInv'
  <2>1. DOMAIN session' = Keys
    BY <1>3 DEF Flushed
  <2>2. ASSUME NEW l \in Keys
        PROVE  session'[l] = NoSession \/ (session'[l].user \in Users /\ owner'[l] = session'[l].user)
    BY <1>0, <1>3, FlushedOwned
  <2> QED BY <1>0, <1>3, <2>1, <2>2 DEF OwnersInv
<1>4. (UNCHANGED <<owner, session>>) => OwnersInv'
  BY <1>0 DEF OwnersInv
<1> HIDE DEF user
<1>5. CASE Visit(r, k)
  BY <1>1, <1>2, <1>3, <1>5, BeginKeeps DEF Visit, user
<1>6. CASE LogOut(r, k)
  <2>1. Begin(r, k, "answered", Nobody, Nobody) /\ UNCHANGED owner /\ session' = Flushed({k})
    BY <1>6 DEF LogOut
  <2>2. OwnersKept /\ OwnersInv'
    BY <1>2, <1>3, <2>1
  <2> QED BY <2>1, <2>2, BeginKeeps DEF SomeUser, SomeKey
<1>7. CASE ChangePassword(r, k)
  BY <1>1, <1>2, <1>4, <1>7, BeginKeeps DEF ChangePassword, user
<1>8. CASE BeginDeletion(r, k)
  BY <1>1, <1>2, <1>4, <1>8, BeginKeeps DEF BeginDeletion, user
<1>9. CASE ReadSessions(r, k)
  BY <1>1, <1>2, <1>4, <1>9, BeginKeeps DEF ReadSessions, user
<1>10. ASSUME NEW id \in Keys, DeleteSession(r, k, id) PROVE TrackingInv'
  BY <1>1, <1>2, <1>3, <1>10, BeginKeeps DEF DeleteSession, user
<1>11. ASSUME NEW u \in Users, LogIn(r, k, u) PROVE TrackingInv'
  <2>1. CASE UserOf(k) = u
    BY <1>1, <1>2, <1>4, <1>11, <2>1, BeginKeeps, TrackingAssumption DEF LogIn, user
  <2>2. CASE UserOf(k) # u
    <3>1. PICK fresh \in Keys \ Issued :
            /\ Begin(r, k, "answered", u, fresh)
            /\ session' = [Flushed({k} \cap Live) EXCEPT ![fresh] =
                   [user |-> u, hash |-> password[u], expires |-> now + SessionAge]]
            /\ owner' = [owner EXCEPT ![fresh] = u]
      BY <1>11, <2>2 DEF LogIn
    <3>2. OwnersKept /\ owner'[fresh] = u
      BY <1>0, <3>1 DEF OwnersKept, OwnersInv, Issued, SomeUser
    <3>3. OwnersInv'
      <4>1. owner' \in [Keys -> SomeUser] /\ DOMAIN session' = Keys
        BY <3>1, <3>2, <1>0, FlushedOwned DEF OwnersKept
      <4>2. session'[fresh].user = u /\ owner'[fresh] = u
        BY <3>1, <3>2, <1>0, FlushedOwned
      <4>3. ASSUME NEW l \in Keys \ {fresh}
            PROVE  session'[l] = Flushed({k} \cap Live)[l] /\ owner'[l] = owner[l]
        BY <3>1, <1>0, FlushedOwned DEF OwnersInv
      <4> QED BY <4>1, <4>2, <4>3, <1>0, FlushedOwned DEF OwnersInv
    <3> QED BY <3>1, <3>2, <3>3, BeginKeeps DEF SomeUser, SomeKey
  <2> QED BY <2>1, <2>2
<1> QED BY <1>5, <1>6, <1>7, <1>8, <1>9, <1>10, <1>11 DEF View

\* A list is made of rows of the user himself, whose keys are his.
LEMMA ListKeeps ==
    ASSUME TrackingInv, NEW r \in Requests, ListSessions(r)
    PROVE  TrackingInv'
<1> DEFINE q == request[r]
           list == active_sessions(table, q.live, q.user, q.key)
<1>1. q.user # Nobody /\ q.live \subseteq Keys /\ q.user \in SomeUser /\ q.at = "reading"
  BY DEF TrackingInv, RequestInv, ListSessions
<1>2. \A s \in list : s.id \in Keys /\ owner[s.id] = q.user /\ (s.current <=> s.id = q.key)
  <2> SUFFICES ASSUME NEW s \in list
               PROVE  s.id \in Keys /\ owner[s.id] = q.user /\ (s.current <=> s.id = q.key)
    OBVIOUS
  <2> DEFINE seen == {i \in DOMAIN table : table[i].user = q.user /\ table[i].key \in q.live}
  <2>1. PICK k \in Values(table, seen, "key") : s.id = k /\ s.current = (k = q.key)
    BY DEF active_sessions
  <2>2. PICK i \in seen : table[i].key = k
    BY DEF Values, Rows, TrackingInv, TableInv
  <2>3. k \in Keys /\ owner[k] = q.user
    BY <1>1, <2>2, TrackingAssumption DEF TrackingInv, TableInv, Together
  <2> QED BY <2>1, <2>3
<1> HIDE DEF list
<1>3. /\ DOMAIN request' = Requests
      /\ \A p \in Requests \ {r} : request'[p] = request[p]
      /\ request'[r].at = "answered" /\ request'[r].user = q.user /\ request'[r].key = q.key
      /\ request'[r].live = q.live /\ request'[r].sessions = list
      /\ DOMAIN request'[r] = DOMAIN Idle
  <2>1. request' = [request EXCEPT ![r] = [q EXCEPT !.at = "answered", !.sessions = list]]
    BY DEF ListSessions, list, TrackingInv, RequestInv
  <2>2. DOMAIN request = Requests /\ DOMAIN q = {"at", "user", "key", "live", "upto", "sessions"}
    BY DEF TrackingInv, RequestInv, Idle
  <2> QED BY <2>1, <2>2 DEF Idle
<1>4. RequestInv'
  BY <1>1, <1>2, <1>3 DEF TrackingInv, RequestInv, Together, ListSessions
<1>5. ListedAreOwn'
  BY <1>2, <1>3 DEF TrackingInv, ListedAreOwn, ListSessions
<1> QED BY <1>4, <1>5 DEF TrackingInv, OwnersInv, TableInv, Together, ListSessions

\* Clearing the user of a row or a request leaves nothing to be wrong about.
LEMMA CommitKeeps ==
    ASSUME TrackingInv, NEW r \in Requests, CommitDeletion(r)
    PROVE  TrackingInv'
<1> DEFINE q == request[r]
<1>1. q.sessions = {} /\ q.at = "deleting" /\ DOMAIN q = {"at", "user", "key", "live", "upto", "sessions"}
  BY DEF TrackingInv, RequestInv, CommitDeletion, Idle
<1>2. /\ DOMAIN request' = Requests
      /\ \A p \in Requests \ {r} : request'[p] = request[p]
      /\ request'[r].at = "answered" /\ request'[r].user = Nobody /\ request'[r].key = q.key
      /\ request'[r].live = q.live /\ request'[r].sessions = {}
      /\ DOMAIN request'[r] = DOMAIN Idle
  <2>1. request' = [request EXCEPT ![r] = [q EXCEPT !.at = "answered", !.user = Nobody]]
    BY DEF CommitDeletion, TrackingInv, RequestInv
  <2> QED BY <1>1, <2>1 DEF TrackingInv, RequestInv, Idle
<1>3. RequestInv'
  BY <1>2 DEF TrackingInv, RequestInv, Together, CommitDeletion, SomeUser
<1>4. ListedAreOwn'
  BY <1>2 DEF TrackingInv, ListedAreOwn, CommitDeletion
<1>5. TableInv'
  <2>1. CASE UNCHANGED table
    BY <2>1 DEF TrackingInv, TableInv, Together, CommitDeletion
  <2>2. CASE \E cleared : table' = [i \in DOMAIN table |->
               IF i \in cleared THEN [table[i] EXCEPT !.user = Nobody] ELSE table[i]]
    <3>1. PICK cleared : table' = [i \in DOMAIN table |->
               IF i \in cleared THEN [table[i] EXCEPT !.user = Nobody] ELSE table[i]]
      BY <2>2
    <3>2. ASSUME NEW i \in DOMAIN table
          PROVE  [table[i] EXCEPT !.user = Nobody] \in Rows
      <4>1. table[i] \in Rows /\ Nobody \in SomeUser
        BY DEF TrackingInv, TableInv, SomeUser
      <4> QED BY <4>1 DEF Rows
    <3>3. table' \in Seq(Rows)
      BY <3>1, <3>2 DEF TrackingInv, TableInv
    <3>4. ASSUME NEW i \in DOMAIN table
          PROVE  table'[i].user \in {table[i].user, Nobody} /\ table'[i].key = table[i].key
      BY <3>1 DEF TrackingInv, TableInv, Rows
    <3> QED BY <3>1, <3>3, <3>4 DEF TrackingInv, TableInv, Together, CommitDeletion
  <2> QED BY <2>1, <2>2 DEF CommitDeletion
<1> QED BY <1>3, <1>4, <1>5 DEF TrackingInv, OwnersInv, CommitDeletion

\* A row has the user and the key its request has.
LEMMA RespondKeeps ==
    ASSUME TrackingInv, NEW r \in Requests, Respond(r)
    PROVE  TrackingInv'
<1>1. TableInv'
  <2>1. ASSUME NEW v \in Visitors
        PROVE  /\ Row(r, v) \in Rows
               /\ Row(r, v).user = request[r].user /\ Row(r, v).key = request[r].key
    BY DEF Row, Rows, TrackingInv, RequestInv
  <2>2. CASE UNCHANGED table
    BY <2>2 DEF TrackingInv, TableInv, Together, Respond
  <2>3. ASSUME NEW v \in Visitors, table' = Append(table, Row(r, v)) PROVE TableInv'
    BY <2>1, <2>3 DEF TrackingInv, TableInv, RequestInv, Together, Respond
  <2> QED BY <2>2, <2>3 DEF Respond
<1>2. RequestInv'
  BY DEF TrackingInv, RequestInv, Together, Respond, Idle, SomeUser, SomeKey
<1>3. ListedAreOwn'
  BY DEF TrackingInv, RequestInv, ListedAreOwn, Respond, Idle
<1> QED BY <1>1, <1>2, <1>3 DEF TrackingInv, OwnersInv, Respond

LEMMA TrackingNext == TrackingInv /\ [Next]_vars => TrackingInv'
<1> SUFFICES ASSUME TrackingInv, [Next]_vars PROVE TrackingInv'
  OBVIOUS
<1>1. ASSUME now' \in Nat, UNCHANGED <<session, owner, table, request>> PROVE TrackingInv'
  BY <1>1 DEF TrackingInv, OwnersInv, TableInv, RequestInv, ListedAreOwn, Together
<1>2. CASE Tick \/ AskOverview \/ CountNext \/ UNCHANGED vars
  BY <1>1, <1>2 DEF Tick, AskOverview, CountNext, vars, TrackingInv
<1>3. Issued \cup {Nobody} \subseteq SomeKey
  BY DEF Issued, SomeKey
<1> QED BY <1>2, <1>3, ViewKeeps, ListKeeps, CommitKeeps, RespondKeeps DEF Next

\* However logins, password changes, deletions and the recording of requests
\* interleave, the settings page shows a user only sessions issued to him.
THEOREM ListsAlwaysOwn == Spec => []ListedAreOwn
<1>1. TrackingInv => ListedAreOwn
  BY DEF TrackingInv
<1> QED BY <1>1, TrackingInit, TrackingNext, PTL DEF Spec

--------------------------------------------------------------------------------
(* The overview                                                             *)

Overviews == [at : {"none", "counting", "shown"}, step : 1..4, asked : Nat,
              total : Nat, auth : Nat, anon : Nat]

\* The rows that were there by time t.
Older(t) == for_date_range(table, 0, t)

\* What the queries have found so far of the visits of now.
CountingInv ==
    overview.at = "counting" =>
        /\ overview.asked = now /\ overview.step \in 1..3
        /\ overview.step >= 2 =>
            /\ overview.total >= Cardinality(Older(now - 1))
            /\ overview.total <= Cardinality(Window)
        /\ overview.step = 3 =>
            overview.total <= overview.auth + Cardinality(Anonymous(table, Window))

\* What a cached overview found at the time it was computed.
CachedInv ==
    LET c == cache.overview IN
    /\ DOMAIN cache = {"until", "overview"} /\ cache.until \in Nat /\ c \in Overviews
    /\ cache.until > 0 =>
        /\ c.asked <= now /\ cache.until = c.asked + CacheTime
        /\ c.total <= c.auth + c.anon
        /\ c.total >= Cardinality(Older(c.asked - 1))

OverviewInv ==
    /\ now \in 0..Horizon
    /\ \A i \in DOMAIN table : table[i].at \in Nat /\ table[i].at <= now
    /\ overview \in Overviews /\ overview.asked <= now
    /\ CountingInv /\ CachedInv /\ OverviewComplete

\* Rows are added at the end with the time they are added, keep their times, and
\* lose their users at most.
TableGrows ==
    /\ DOMAIN table \subseteq DOMAIN table'
    /\ \A i \in DOMAIN table : /\ table'[i].at = table[i].at
                               /\ table[i].user = Nobody => table'[i].user = Nobody
    /\ \A i \in DOMAIN table' \ DOMAIN table : table'[i].at = now

LEMMA TableTyped ==
    ASSUME TrackingInv
    PROVE  /\ Len(table) \in Nat /\ DOMAIN table = 1..Len(table)
           /\ IsFiniteSet(DOMAIN table)
           /\ \A i \in DOMAIN table : table[i].at \in Nat /\ table[i] \in Rows
<1>1. table \in Seq(Rows)
  BY DEF TrackingInv, TableInv
<1>2. Len(table) \in Nat /\ DOMAIN table = 1..Len(table)
  BY <1>1
<1>3. IsFiniteSet(DOMAIN table)
  BY <1>2, FS_Interval
<1>4. ASSUME NEW i \in DOMAIN table PROVE table[i] \in Rows /\ table[i].at \in Nat
  <2>1. table[i] \in Rows
    BY <1>1
  <2> QED BY <2>1 DEF Rows
<1> QED BY <1>2, <1>3, <1>4

\* A view touches neither the clock nor the table nor the overview.
LEMMA ViewLeaves ==
    ASSUME NEW r, NEW k, View(r, k)
    PROVE  UNCHANGED <<now, table, overview, cache>>
<1>1. Visit(r, k) \/ LogOut(r, k) \/ ChangePassword(r, k) => UNCHANGED <<now, table, overview, cache>>
  BY DEF Visit, LogOut, ChangePassword, Begin
<1>2. BeginDeletion(r, k) \/ ReadSessions(r, k) => UNCHANGED <<now, table, overview, cache>>
  BY DEF BeginDeletion, ReadSessions, Begin
<1>3. ASSUME NEW u, LogIn(r, k, u) PROVE UNCHANGED <<now, table, overview, cache>>
  BY <1>3 DEF LogIn, Begin
<1>4. ASSUME NEW id, DeleteSession(r, k, id) PROVE UNCHANGED <<now, table, overview, cache>>
  BY <1>4 DEF DeleteSession, Begin
<1> QED BY <1>1, <1>2, <1>3, <1>4 DEF View

LEMMA TableStep ==
    ASSUME TrackingInv, [Next]_vars
    PROVE  TableGrows
<1>1. CASE UNCHANGED table
  BY <1>1 DEF TableGrows
<1>2. ASSUME NEW r \in Requests, CommitDeletion(r), table' # table PROVE TableGrows
  <2>1. PICK cleared : table' = [i \in DOMAIN table |->
             IF i \in cleared THEN [table[i] EXCEPT !.user = Nobody] ELSE table[i]]
    BY <1>2 DEF CommitDeletion
  <2>2. ASSUME NEW i \in DOMAIN table
        PROVE  /\ table'[i].at = table[i].at
               /\ table[i].user = Nobody => table'[i].user = Nobody
    BY <2>1, TableTyped DEF Rows
  <2> QED BY <2>1, <2>2 DEF TableGrows
<1>3. ASSUME NEW r \in Requests, Respond(r), table' # table PROVE TableGrows
  <2>1. PICK v \in Visitors : table' = Append(table, Row(r, v))
    BY <1>3 DEF Respond
  <2>2. Row(r, v) \in Rows /\ Row(r, v).at = now
    BY DEF Row, Rows, TrackingInv, RequestInv
  <2>3. /\ DOMAIN table' = 1..(Len(table) + 1) /\ table'[Len(table) + 1] = Row(r, v)
        /\ \A i \in DOMAIN table : table'[i] = table[i]
    BY <2>1, <2>2, TableTyped DEF TrackingInv, TableInv
  <2> QED BY <2>2, <2>3, TableTyped DEF TableGrows
<1>4. CASE Tick \/ AskOverview \/ CountNext \/ (\E r \in Requests : ListSessions(r)) \/ UNCHANGED vars
  BY <1>1, <1>4 DEF Tick, AskOverview, CountNext, ListSessions, vars
<1>5. ASSUME NEW r \in Requests, NEW k, View(r, k) PROVE TableGrows
  BY <1>1, <1>5, ViewLeaves
<1> QED BY <1>1, <1>2, <1>3, <1>4, <1>5 DEF Next

\* The visits of the past stay as they are; the anonymous ones become more.
LEMMA WindowGrows ==
    ASSUME TrackingInv, TrackingInv', OverviewInv, TableGrows
    PROVE  /\ \A i \in DOMAIN table' : table'[i].at \in Nat /\ table'[i].at <= now
           /\ \A t \in Int : t < now => Older(t)' = Older(t)
           /\ Cardinality(Window') \in Nat /\ Cardinality(Window) <= Cardinality(Window')
           /\ Cardinality(Anonymous(table, Window)') \in Nat
           /\ Cardinality(Anonymous(table, Window)) <= Cardinality(Anonymous(table, Window)')
<1>1. \A i \in DOMAIN table' : table'[i].at \in Nat /\ table'[i].at <= now
  BY DEF TableGrows, OverviewInv
<1>2. \A t \in Int : t < now => Older(t)' = Older(t)
  BY DEF TableGrows, OverviewInv, Older, for_date_range
<1>3. Horizon' = Horizon /\ Horizon \in Nat
  BY TrackingAssumption
<1>4. Window \subseteq Window' /\ Anonymous(table, Window) \subseteq Anonymous(table, Window)'
  BY <1>3 DEF TableGrows, Window, Anonymous, for_date_range
<1>5. IsFiniteSet(Window') /\ IsFiniteSet(Anonymous(table, Window)')
  <2>1. IsFiniteSet(DOMAIN table')
    <3>1. table' \in Seq(Rows)
      BY DEF TrackingInv, TableInv
    <3>2. DOMAIN table' = 1..Len(table') /\ Len(table') \in Nat
      BY <3>1
    <3> QED BY <3>2, FS_Interval
  <2>2. Window' \subseteq DOMAIN table' /\ Anonymous(table, Window)' \subseteq DOMAIN table'
    BY DEF Window, Anonymous, for_date_range
  <2> QED BY <2>1, <2>2, FS_Subset
<1>6. Cardinality(Window') \in Nat /\ Cardinality(Anonymous(table, Window)') \in Nat
  BY <1>5, FS_CardinalityType
<1> QED BY <1>1, <1>2, <1>4, <1>5, <1>6, FS_Subset

\* The sizes the overview is made of.
LEMMA CountsTyped ==
    ASSUME TrackingInv
    PROVE  /\ \A t : Cardinality(Older(t)) \in Nat
           /\ Cardinality(Window) \in Nat
           /\ Cardinality(KnownUser(table, Window)) \in Nat
           /\ Cardinality(Anonymous(table, Window)) \in Nat
           /\ Cardinality(Window) = Cardinality(KnownUser(table, Window))
                                      + Cardinality(Anonymous(table, Window))
<1>1. ASSUME NEW S \in SUBSET DOMAIN table PROVE IsFiniteSet(S) /\ Cardinality(S) \in Nat
  BY TableTyped, FS_Subset, FS_CardinalityType
<1> DEFINE known == KnownUser(table, Window)
           anon == Anonymous(table, Window)
<1>2. /\ \A t : Older(t) \subseteq DOMAIN table
      /\ Window \subseteq DOMAIN table
      /\ known \subseteq DOMAIN table /\ anon \subseteq DOMAIN table
      /\ Window = known \cup anon /\ known \cap anon = {}
  BY DEF Older, Window, KnownUser, Anonymous, for_date_range
<1> HIDE DEF known, anon
<1>3. Cardinality(known \cup anon) = Cardinality(known) + Cardinality(anon) - Cardinality({})
  BY <1>1, <1>2, FS_Union
<1>4. Cardinality(known \cup anon) = Cardinality(known) + Cardinality(anon)
  BY <1>1, <1>2, <1>3, FS_EmptySet
<1> QED BY <1>1, <1>2, <1>4 DEF known, anon

\* A wider past has no fewer visits.
LEMMA OlderMonotone ==
    ASSUME TrackingInv, NEW s \in Int, NEW t \in Int, s <= t
    PROVE  Cardinality(Older(s)) <= Cardinality(Older(t))
<1>1. Older(s) \subseteq Older(t) /\ Older(t) \subseteq DOMAIN table
  BY TableTyped DEF Older, for_date_range
<1> QED BY <1>1, TableTyped, FS_Subset

\* Every step but those of the overview itself and the clock.
LEMMA OthersKeepOverview ==
    ASSUME TrackingInv, TrackingInv', OverviewInv, TableGrows,
           UNCHANGED <<now, overview, cache>>
    PROVE  OverviewInv'
<1>1. now \in Nat /\ overview \in Overviews /\ CacheTime \in Nat
  BY TrackingAssumption DEF OverviewInv
<1>2. CountingInv'
  <2>1. Older(now - 1)' = Older(now - 1)
    BY <1>1, WindowGrows DEF Older
  <2> DEFINE w == Cardinality(Window)
             a == Cardinality(Anonymous(table, Window))
  <2>2. /\ w \in Nat /\ w' \in Nat /\ w <= w' /\ a \in Nat /\ a' \in Nat /\ a <= a'
        /\ overview.total \in Nat /\ overview.auth \in Nat
    BY <1>1, WindowGrows, CountsTyped DEF Overviews
  <2>3. overview.at = "counting" =>
          /\ overview.asked = now /\ overview.step \in 1..3
          /\ overview.step >= 2 => overview.total >= Cardinality(Older(now - 1)) /\ overview.total <= w
          /\ overview.step = 3 => overview.total <= overview.auth + a
    BY DEF OverviewInv, CountingInv
  <2>4. overview.step >= 2 /\ overview.total <= w => overview.total <= w'
    BY <2>2
  <2>5. overview.total <= overview.auth + a => overview.total <= overview.auth + a'
    BY <2>2
  <2> QED BY <2>1, <2>3, <2>4, <2>5 DEF CountingInv
<1>3. CachedInv'
  <2>1. cache.overview.asked - 1 \in Int /\ (cache.until > 0 => cache.overview.asked - 1 < now)
    BY <1>1 DEF OverviewInv, CachedInv, Overviews
  <2> QED BY <2>1, WindowGrows DEF OverviewInv, CachedInv
<1>4. OverviewComplete'
  <2>1. overview.asked - CacheTime - 1 \in Int /\ overview.asked - CacheTime - 1 < now
    BY <1>1 DEF OverviewInv, Overviews
  <2>2. Older(overview.asked - CacheTime - 1)' = Older(overview.asked - CacheTime - 1)
    BY <2>1, WindowGrows, TrackingAssumption DEF Older
  <2> QED BY <2>2 DEF OverviewInv, OverviewComplete, Older
<1> QED BY <1>2, <1>3, <1>4, WindowGrows DEF OverviewInv

LEMMA TickKeepsOverview ==
    ASSUME TrackingInv, OverviewInv, Tick
    PROVE  OverviewInv'
<1>1. now' \in 0..Horizon /\ now' = now + 1 /\ now \in Nat
  BY TrackingAssumption DEF OverviewInv, Tick
<1>2. \A i \in DOMAIN table' : table'[i].at \in Nat /\ table'[i].at <= now'
  BY <1>1 DEF OverviewInv, Tick
<1>3. overview' \in Overviews /\ overview'.asked <= now'
  BY <1>1 DEF OverviewInv, Tick, Overviews
<1>4. CountingInv'
  BY DEF CountingInv, Tick
<1>5. CachedInv'
  BY <1>1 DEF OverviewInv, CachedInv, Tick, Older, Overviews
<1>6. OverviewComplete'
  BY DEF OverviewInv, OverviewComplete, Tick
<1> QED BY <1>1, <1>2, <1>3, <1>4, <1>5, <1>6 DEF OverviewInv

\* An overview from the cache is younger than the life of a cache entry.
LEMMA AskKeepsOverview ==
    ASSUME TrackingInv, OverviewInv, AskOverview
    PROVE  OverviewInv'
<1> USE TrackingAssumption
<1>1. UNCHANGED <<now, table, cache>> /\ now \in Nat
  BY DEF AskOverview, OverviewInv
<1>2. CachedInv'
  BY <1>1 DEF OverviewInv, CachedInv, Older
<1>3. CASE now < cache.until
  <2> DEFINE c == cache.overview
  <2>1. c \in Overviews
    BY DEF OverviewInv, CachedInv
  <2>2. overview' = [c EXCEPT !.at = "shown", !.asked = now]
    BY <1>3 DEF AskOverview
  <2> HIDE DEF c
  <2>3. /\ overview' \in Overviews /\ overview'.at = "shown" /\ overview'.asked = now
        /\ overview'.total = c.total /\ overview'.auth = c.auth /\ overview'.anon = c.anon
    BY <1>1, <2>1, <2>2 DEF Overviews
  <2>4. /\ c.asked \in Nat /\ c.total \in Nat
        /\ c.asked <= now /\ now < c.asked + CacheTime
        /\ c.total <= c.auth + c.anon /\ c.total >= Cardinality(Older(c.asked - 1))
    BY <1>1, <1>3, <2>1 DEF OverviewInv, CachedInv, Overviews, c
  <2>5. Cardinality(Older(now - CacheTime - 1)) <= Cardinality(Older(c.asked - 1))
    BY <1>1, <2>4, OlderMonotone
  <2>6. c.total >= Cardinality(Older(now - CacheTime - 1))
    BY <2>4, <2>5, CountsTyped
  <2>7. OverviewComplete'
    BY <1>1, <2>3, <2>4, <2>6 DEF OverviewComplete, Older
  <2>8. CountingInv'
    BY <2>3 DEF CountingInv
  <2> QED BY <1>1, <1>2, <2>3, <2>7, <2>8 DEF OverviewInv
<1>4. CASE ~(now < cache.until)
  <2>1. overview' = [NoOverview EXCEPT !.at = "counting", !.asked = now]
    BY <1>4 DEF AskOverview
  <2>2. /\ overview' \in Overviews /\ overview'.at = "counting" /\ overview'.asked = now
        /\ overview'.step = 1
    <3>1. NoOverview \in Overviews /\ NoOverview.step = 1
      BY DEF NoOverview, Overviews
    <3> QED BY <1>1, <2>1, <3>1 DEF Overviews
  <2>3. CountingInv' /\ OverviewComplete'
    BY <1>1, <2>2 DEF CountingInv, OverviewComplete
  <2> QED BY <1>1, <1>2, <2>2, <2>3 DEF OverviewInv
<1> QED BY <1>3, <1>4

\* What a query writes into an overview leaves an overview.
LEMMA UpdateTyped ==
    ASSUME NEW o \in Overviews, NEW m \in Nat, NEW k \in 1..4, NEW a \in {"counting", "shown"}
    PROVE  /\ [o EXCEPT !.step = k, !.total = m, !.at = a] \in Overviews
           /\ [o EXCEPT !.step = k, !.auth = m, !.at = a] \in Overviews
           /\ [o EXCEPT !.step = k, !.anon = m, !.at = a] \in Overviews
<1>1. [o EXCEPT !.step = k, !.total = m, !.at = a] \in Overviews
  BY DEF Overviews
<1>2. [o EXCEPT !.step = k, !.auth = m, !.at = a] \in Overviews
  BY DEF Overviews
<1>3. [o EXCEPT !.step = k, !.anon = m, !.at = a] \in Overviews
  BY DEF Overviews
<1> QED BY <1>1, <1>2, <1>3

\* The next query: the total, then the authenticated, then the anonymous visits.
LEMMA CountKeepsOverview ==
    ASSUME TrackingInv, OverviewInv, CountNext
    PROVE  OverviewInv'
<1> USE TrackingAssumption
<1> DEFINE n == overview.step
           at == IF n = 3 THEN "shown" ELSE "counting"
<1>1. UNCHANGED <<now, table>> /\ now \in Nat /\ overview.at = "counting"
  BY DEF CountNext, OverviewInv
<1>2. /\ overview \in Overviews /\ overview.asked = now /\ n \in 1..3
      /\ n >= 2 => /\ overview.total >= Cardinality(Older(now - 1))
                   /\ overview.total <= Cardinality(Window)
      /\ n = 3 => overview.total <= overview.auth + Cardinality(Anonymous(table, Window))
  BY <1>1 DEF OverviewInv, CountingInv
<1>3. Queries[1] = "total" /\ Queries[2] = "auth" /\ Queries[3] = "anon" /\ Len(Queries) = 3
  BY DEF Queries
<1>4. overview' = [overview EXCEPT !.step = n + 1, ![Queries[n]] = Counted(Queries[n]), !.at = at]
  BY <1>3 DEF CountNext
<1>5. /\ Counted("total") = Cardinality(Window)
      /\ Counted("auth") = Cardinality(KnownUser(table, Window))
      /\ Counted("anon") = Cardinality(Anonymous(table, Window))
  BY DEF Counted
<1>6. Older(now - 1)' = Older(now - 1) /\ Window' = Window
        /\ Anonymous(table, Window)' = Anonymous(table, Window)
  BY <1>1 DEF Older, Window, Anonymous
<1>7. Cardinality(Older(now - 1)) <= Cardinality(Window)
  <2>1. Older(now - 1) \subseteq Window
    BY <1>1, TableTyped DEF Older, Window, for_date_range, OverviewInv
  <2>2. IsFiniteSet(Window)
    BY TableTyped, FS_Subset DEF Window, for_date_range
  <2> QED BY <2>1, <2>2, FS_Subset
<1>8. /\ overview'.step = n + 1 /\ overview'.at = at /\ overview'.asked = now
      /\ overview'.total = (IF n = 1 THEN Counted("total") ELSE overview.total)
      /\ overview'.auth = (IF n = 2 THEN Counted("auth") ELSE overview.auth)
      /\ overview'.anon = (IF n = 3 THEN Counted("anon") ELSE overview.anon)
      /\ overview' \in Overviews
  <2>1. CASE n = 1
    <3> DEFINE m == Cardinality(Window)
    <3>1. overview' = [overview EXCEPT !.step = 2, !.total = m, !.at = "counting"]
      <4>1. n + 1 = 2 /\ Queries[n] = "total" /\ Counted("total") = m /\ at = "counting"
        BY <1>3, <1>5, <2>1
      <4> QED BY <1>4, <4>1, Zenon
    <3>2. m \in Nat
      BY CountsTyped
    <3>3. Counted("total") = m
      BY <1>5
    <3> HIDE DEF m
    <3>4. at = "counting" /\ n + 1 = 2
      BY <2>1
    <3>5. /\ overview' \in Overviews /\ overview'.step = 2 /\ overview'.at = "counting"
          /\ overview'.asked = overview.asked /\ overview'.total = m
          /\ overview'.auth = overview.auth /\ overview'.anon = overview.anon
      <4>1. overview \in Overviews
        BY <1>2
      <4>2. [overview EXCEPT !.step = 2, !.total = m, !.at = "counting"] \in Overviews
        <5>1. 2 \in 1..4 /\ "counting" \in {"counting", "shown"}
          OBVIOUS
        <5> QED BY <3>2, <4>1, <5>1, UpdateTyped, Zenon
      <4>3. overview' \in Overviews
        BY <3>1, <4>2, Zenon
      <4>4. /\ overview'.step = 2 /\ overview'.at = "counting"
            /\ overview'.asked = overview.asked /\ overview'.total = m
        BY <3>1, <4>1 DEF Overviews
      <4>5. overview'.auth = overview.auth /\ overview'.anon = overview.anon
        BY <3>1, <4>1 DEF Overviews
      <4> QED BY <4>3, <4>4, <4>5
    <3> QED BY <1>2, <2>1, <3>3, <3>4, <3>5
  <2>2. CASE n = 2
    <3> DEFINE m == Cardinality(KnownUser(table, Window))
    <3>1. overview' = [overview EXCEPT !.step = 3, !.auth = m, !.at = "counting"]
      <4>1. n + 1 = 3 /\ Queries[n] = "auth" /\ Counted("auth") = m /\ at = "counting"
        BY <1>3, <1>5, <2>2
      <4> QED BY <1>4, <4>1, Zenon
    <3>2. m \in Nat
      BY CountsTyped
    <3>3. Counted("auth") = m
      BY <1>5
    <3> HIDE DEF m
    <3>4. at = "counting" /\ n + 1 = 3
      BY <2>2
    <3>5. /\ overview' \in Overviews /\ overview'.step = 3 /\ overview'.at = "counting"
          /\ overview'.asked = overview.asked /\ overview'.auth = m
          /\ overview'.total = overview.total /\ overview'.anon = overview.anon
      <4>1. overview \in Overviews
        BY <1>2
      <4>2. [overview EXCEPT !.step = 3, !.auth = m, !.at = "counting"] \in Overviews
        <5>1. 3 \in 1..4 /\ "counting" \in {"counting", "shown"}
          OBVIOUS
        <5> QED BY <3>2, <4>1, <5>1, UpdateTyped, Zenon
      <4>3. overview' \in Overviews
        BY <3>1, <4>2, Zenon
      <4>4. /\ overview'.step = 3 /\ overview'.at = "counting"
            /\ overview'.asked = overview.asked /\ overview'.auth = m
        BY <3>1, <4>1 DEF Overviews
      <4>5. overview'.total = overview.total /\ overview'.anon = overview.anon
        BY <3>1, <4>1 DEF Overviews
      <4> QED BY <4>3, <4>4, <4>5
    <3> QED BY <1>2, <2>2, <3>3, <3>4, <3>5
  <2>3. CASE n = 3
    <3> DEFINE m == Cardinality(Anonymous(table, Window))
    <3>1. overview' = [overview EXCEPT !.step = 4, !.anon = m, !.at = "shown"]
      <4>1. n + 1 = 4 /\ Queries[n] = "anon" /\ Counted("anon") = m /\ at = "shown"
        BY <1>3, <1>5, <2>3
      <4> QED BY <1>4, <4>1, Zenon
    <3>2. m \in Nat
      BY CountsTyped
    <3>3. Counted("anon") = m
      BY <1>5
    <3> HIDE DEF m
    <3>4. at = "shown" /\ n + 1 = 4
      BY <2>3
    <3>5. /\ overview' \in Overviews /\ overview'.step = 4 /\ overview'.at = "shown"
          /\ overview'.asked = overview.asked /\ overview'.anon = m
          /\ overview'.total = overview.total /\ overview'.auth = overview.auth
      <4>1. overview \in Overviews
        BY <1>2
      <4>2. [overview EXCEPT !.step = 4, !.anon = m, !.at = "shown"] \in Overviews
        <5>1. 4 \in 1..4 /\ "shown" \in {"counting", "shown"}
          OBVIOUS
        <5> QED BY <3>2, <4>1, <5>1, UpdateTyped, Zenon
      <4>3. overview' \in Overviews
        BY <3>1, <4>2, Zenon
      <4>4. /\ overview'.step = 4 /\ overview'.at = "shown"
            /\ overview'.asked = overview.asked /\ overview'.anon = m
        BY <3>1, <4>1 DEF Overviews
      <4>5. overview'.total = overview.total /\ overview'.auth = overview.auth
        BY <3>1, <4>1 DEF Overviews
      <4> QED BY <4>3, <4>4, <4>5
    <3> QED BY <1>2, <2>3, <3>3, <3>4, <3>5
  <2> QED BY <1>2, <2>1, <2>2, <2>3
<1> HIDE DEF n, at
<1>9. CountingInv'
  BY <1>1, <1>2, <1>5, <1>6, <1>7, <1>8, CountsTyped DEF CountingInv, at, Overviews
<1>10. n = 3 => /\ overview'.total <= overview'.auth + overview'.anon
                /\ overview'.total >= Cardinality(Older(now - 1))
                /\ overview'.at = "shown"
  BY <1>2, <1>5, <1>8 DEF at
<1>11. n # 3 => overview'.at = "counting"
  BY <1>8 DEF at
<1>12. OverviewComplete'
  <2>1. Cardinality(Older(now - CacheTime - 1)) <= Cardinality(Older(now - 1))
    BY <1>1, OlderMonotone
  <2>2. n = 3 => overview'.total >= Cardinality(Older(now - CacheTime - 1))
    BY <1>8, <1>10, <2>1, CountsTyped DEF Overviews
  <2> QED BY <1>1, <1>8, <1>10, <1>11, <2>2 DEF OverviewComplete, Older
<1>13. CachedInv'
  <2>1. CASE n = 3
    <3>1. cache' = [until |-> now + CacheTime, overview |-> overview']
      BY <1>3, <2>1 DEF CountNext, n
    <3> QED BY <1>1, <1>6, <1>8, <1>10, <2>1, <3>1 DEF CachedInv, Older
  <2>2. CASE n # 3
    <3>1. cache' = cache
      BY <1>3, <2>2 DEF CountNext, n
    <3> QED BY <1>1, <3>1 DEF OverviewInv, CachedInv, Older
  <2> QED BY <2>1, <2>2
<1> QED BY <1>1, <1>8, <1>9, <1>12, <1>13 DEF OverviewInv

LEMMA OverviewNext == TrackingInv /\ TrackingInv' /\ OverviewInv /\ [Next]_vars => OverviewInv'
<1> SUFFICES ASSUME TrackingInv, TrackingInv', OverviewInv, [Next]_vars PROVE OverviewInv'
  OBVIOUS
<1>1. TableGrows
  BY TableStep
<1>2. CASE UNCHANGED <<now, overview, cache>>
  BY <1>1, <1>2, OthersKeepOverview
<1>3. CASE Tick \/ AskOverview \/ CountNext
  BY <1>3, TickKeepsOverview, AskKeepsOverview, CountKeepsOverview
<1>4. ASSUME NEW r, NEW k, View(r, k) PROVE OverviewInv'
  BY <1>2, <1>4, ViewLeaves
<1>5. ASSUME NEW r, CommitDeletion(r) \/ ListSessions(r) \/ Respond(r) PROVE OverviewInv'
  BY <1>2, <1>5 DEF CommitDeletion, ListSessions, Respond
<1>6. CASE UNCHANGED vars
  BY <1>2, <1>6 DEF vars
<1> QED BY <1>3, <1>4, <1>5, <1>6 DEF Next

LEMMA OverviewInit == Init => OverviewInv
<1> SUFFICES ASSUME Init PROVE OverviewInv
  OBVIOUS
<1>1. overview = NoOverview /\ cache = [until |-> 0, overview |-> NoOverview] /\ now = 0
        /\ table = <<>>
  BY DEF Init
<1>2. NoOverview \in Overviews /\ NoOverview.asked = 0 /\ NoOverview.at = "none"
  BY DEF NoOverview, Overviews
<1> QED BY <1>1, <1>2, TrackingAssumption
        DEF OverviewInv, CountingInv, CachedInv, OverviewComplete

\* However the queries of an overview interleave with the requests they count,
\* and whether it comes from the cache or not, it misses no visit older than the
\* life of a cache entry and leaves none out of both of its parts.
THEOREM OverviewsComplete == Spec => []OverviewComplete
<1>1. OverviewInv => OverviewComplete
  BY DEF OverviewInv
<1> QED BY <1>1, TrackingInit, TrackingNext, OverviewInit, OverviewNext, PTL DEF Spec

--------------------------------------------------------------------------------
(* Types                                                                    *)

\* A request has room in the table for its row from its beginning.
Busy == {r \in Requests : request[r].at # "idle"}
RoomInv == Len(table) + Cardinality(Busy) <= MaxRows

PasswordInv == password \in [Users -> {Gone} \cup Nat]

LEMMA ViewBegins ==
    ASSUME NEW r, NEW k, View(r, k)
    PROVE  \E at \in {"answered", "deleting", "reading"} : \E user, key : Begin(r, k, at, user, key)
<1>1. Visit(r, k) => Begin(r, k, "answered", UserOf(k), KeyOf(k))
  BY DEF Visit
<1>2. LogOut(r, k) => Begin(r, k, "answered", Nobody, Nobody)
  BY DEF LogOut
<1>3. ChangePassword(r, k) => Begin(r, k, "answered", UserOf(k), k)
  BY DEF ChangePassword
<1>4. BeginDeletion(r, k) => Begin(r, k, "deleting", UserOf(k), k)
  BY DEF BeginDeletion
<1>5. ReadSessions(r, k) => Begin(r, k, "reading", UserOf(k), k)
  BY DEF ReadSessions
<1>6. ASSUME NEW u, LogIn(r, k, u) PROVE \E key : Begin(r, k, "answered", u, key)
  BY <1>6 DEF LogIn
<1>7. ASSUME NEW id, DeleteSession(r, k, id) PROVE Begin(r, k, "answered", UserOf(k), k)
  BY <1>7 DEF DeleteSession
<1> QED BY <1>1, <1>2, <1>3, <1>4, <1>5, <1>6, <1>7 DEF View

\* A request that begins, goes on or ends changes its own place only.
LEMMA PlacesKept ==
    ASSUME TrackingInv, NEW r \in Requests, NEW q, request' = [request EXCEPT ![r] = q]
    PROVE  /\ q.at # "idle" => Busy' = Busy \cup {r}
           /\ q.at = "idle" => Busy' = Busy \ {r}
<1>1. DOMAIN request = Requests
  BY DEF TrackingInv, RequestInv
<1>2. request'[r] = q /\ \A p \in Requests \ {r} : request'[p] = request[p]
  BY <1>1
<1> QED BY <1>2 DEF Busy

LEMMA RoomStep ==
    ASSUME TrackingInv, RoomInv, IsFiniteSet(Requests), [Next]_vars
    PROVE  RoomInv'
<1>1. IsFiniteSet(Busy) /\ Cardinality(Busy) \in Nat /\ Len(table) \in Nat /\ MaxRows \in Nat
  <2>1. Busy \in SUBSET Requests
    BY DEF Busy
  <2> QED BY <2>1, FS_Subset, FS_CardinalityType, TableTyped, TrackingAssumption
<1>2. CASE UNCHANGED <<table, request>>
  BY <1>2 DEF RoomInv, Busy
<1>3. ASSUME NEW r \in Requests, NEW k, View(r, k) PROVE RoomInv'
  <2>1. PICK at \in {"answered", "deleting", "reading"} : \E user, key : Begin(r, k, at, user, key)
    BY <1>3, ViewBegins
  <2>2. PICK user, key : Begin(r, k, at, user, key)
    BY <2>1
  <2> DEFINE q == [Idle EXCEPT !.at = at, !.user = user, !.key = key,
                               !.live = IF at = "reading" THEN Live ELSE {},
                               !.upto = IF at = "deleting" THEN Len(table) ELSE 0]
  <2>3. q.at # "idle"
    BY DEF Idle
  <2>4. /\ request' = [request EXCEPT ![r] = q] /\ table' = table
        /\ Len(table) + Cardinality(Busy) < MaxRows
    BY <2>2 DEF Begin, Free, Busy
  <2> HIDE DEF q
  <2>5. Busy' = Busy \cup {r}
    BY <2>3, <2>4, PlacesKept
  <2>6. Cardinality(Busy') <= Cardinality(Busy) + 1 /\ Cardinality(Busy') \in Nat
    <3>1. /\ IsFiniteSet(Busy \cup {r})
          /\ Cardinality(Busy \cup {r}) = IF r \in Busy THEN Cardinality(Busy) ELSE Cardinality(Busy) + 1
      BY <1>1, FS_AddElement
    <3>2. Cardinality(Busy \cup {r}) \in Nat
      BY <3>1, FS_CardinalityType
    <3> QED BY <1>1, <2>5, <3>1, <3>2
  <2> QED BY <1>1, <2>4, <2>6 DEF RoomInv
<1>4. ASSUME NEW r \in Requests, CommitDeletion(r) \/ ListSessions(r) PROVE RoomInv'
  <2>1. r \in Busy /\ DOMAIN request[r] = DOMAIN Idle
    BY <1>4 DEF Busy, CommitDeletion, ListSessions, TrackingInv, RequestInv
  <2>2. \E q : q.at = "answered" /\ request' = [request EXCEPT ![r] = q]
    <3>1. CASE CommitDeletion(r)
      <4> DEFINE q == [request[r] EXCEPT !.at = "answered", !.user = Nobody]
      <4>1. request' = [request EXCEPT ![r] = q] /\ q.at = "answered"
        BY <2>1, <3>1 DEF CommitDeletion, Idle
      <4> QED BY <4>1
    <3>2. CASE ListSessions(r)
      <4> DEFINE list == active_sessions(table, request[r].live, request[r].user, request[r].key)
                 q == [request[r] EXCEPT !.at = "answered", !.sessions = list]
      <4>1. request' = [request EXCEPT ![r] = q]
        BY <3>2 DEF ListSessions
      <4>2. q.at = "answered"
        <5> HIDE DEF list
        <5> QED BY <2>1 DEF Idle
      <4> QED BY <4>1, <4>2
    <3> QED BY <1>4, <3>1, <3>2
  <2>3. Busy' = Busy \cup {r}
    BY <2>2, PlacesKept
  <2>4. Busy' = Busy
    BY <2>1, <2>3
  <2>5. Len(table') = Len(table)
    <3>1. CASE UNCHANGED table
      BY <3>1
    <3>2. CASE CommitDeletion(r) /\ table' # table
      <4>1. DOMAIN table' = DOMAIN table
        BY <3>2 DEF CommitDeletion
      <4>2. table' \in Seq(Rows)
        BY <1>4, CommitKeeps, <3>2 DEF TrackingInv, TableInv
      <4>3. DOMAIN table' = 1..Len(table') /\ Len(table') \in Nat /\ DOMAIN table = 1..Len(table)
        BY <4>2, TableTyped
      <4>4. \A n \in Nat : Cardinality(1..n) = n
        BY FS_Interval
      <4> QED BY <1>1, <4>1, <4>3, <4>4
    <3> QED BY <1>4, <3>1, <3>2 DEF ListSessions
  <2> QED BY <2>4, <2>5 DEF RoomInv
<1>5. ASSUME NEW r \in Requests, Respond(r) PROVE RoomInv'
  <2>1. Busy' = Busy \ {r} /\ r \in Busy
    <3>1. request' = [request EXCEPT ![r] = Idle] /\ Idle.at = "idle"
      BY <1>5 DEF Respond, Idle
    <3> QED BY <1>5, <3>1, PlacesKept DEF Busy, Respond
  <2>2. Cardinality(Busy') = Cardinality(Busy) - 1
    BY <1>1, <2>1, FS_RemoveElement
  <2>3. Len(table') <= Len(table) + 1 /\ Len(table') \in Nat
    <3>1. table \in Seq(Rows)
      BY DEF TrackingInv, TableInv
    <3>2. PICK v : table' = table \/ table' = Append(table, Row(r, v))
      BY <1>5 DEF Respond
    <3>3. Len(Append(table, Row(r, v))) = Len(table) + 1
      BY <3>1
    <3> QED BY <1>1, <3>2, <3>3
  <2> QED BY <1>1, <2>2, <2>3 DEF RoomInv
<1>6. Tick \/ AskOverview \/ CountNext \/ UNCHANGED vars => UNCHANGED <<table, request>>
  BY DEF Tick, AskOverview, CountNext, vars
<1> QED BY <1>2, <1>3, <1>4, <1>5, <1>6 DEF Next

LEMMA PasswordStep ==
    ASSUME PasswordInv, [Next]_vars
    PROVE  PasswordInv'
<1>1. CASE UNCHANGED password
  BY <1>1 DEF PasswordInv
<1>2. ASSUME NEW r, NEW k, ChangePassword(r, k) PROVE PasswordInv'
  <2> DEFINE u == UserOf(k)
  <2>1. password[u] = 0 /\ password' = [password EXCEPT ![u] = @ + 1]
    BY <1>2 DEF ChangePassword
  <2> HIDE DEF u
  <2>2. password' = [password EXCEPT ![u] = 1]
    BY <2>1
  <2> QED BY <2>2 DEF PasswordInv
<1>3. ASSUME NEW r, CommitDeletion(r) PROVE PasswordInv'
  BY <1>3 DEF PasswordInv, CommitDeletion
<1>4. ASSUME NEW r, NEW k, View(r, k), ~ChangePassword(r, k) PROVE UNCHANGED password
  <2>1. Visit(r, k) \/ LogOut(r, k) \/ BeginDeletion(r, k) \/ ReadSessions(r, k) => UNCHANGED password
    BY DEF Visit, LogOut, BeginDeletion, ReadSessions
  <2>2. ASSUME NEW u, LogIn(r, k, u) PROVE UNCHANGED password
    BY <2>2 DEF LogIn
  <2>3. ASSUME NEW id, DeleteSession(r, k, id) PROVE UNCHANGED password
    BY <2>3 DEF DeleteSession
  <2> QED BY <1>4, <2>1, <2>2, <2>3 DEF View
<1>5. Tick \/ AskOverview \/ CountNext \/ UNCHANGED vars => UNCHANGED password
  BY DEF Tick, AskOverview, CountNext, vars
<1>6. ASSUME NEW r, ListSessions(r) \/ Respond(r) PROVE UNCHANGED password
  BY <1>6 DEF ListSessions, Respond
<1> QED BY <1>1, <1>2, <1>3, <1>4, <1>5, <1>6 DEF Next

\* The types of the tracked site: sessions belong to the accounts their keys
\* were issued to, and the table never outgrows its room.
THEOREM TrackingTyped == ASSUME IsFiniteSet(Requests) PROVE Spec => []TypeOK
<1>1. Init => RoomInv /\ PasswordInv
  <2> SUFFICES ASSUME Init PROVE RoomInv /\ PasswordInv
    OBVIOUS
  <2>1. Busy = {} /\ table = <<>>
    BY DEF Busy, Init, Idle
  <2>2. Cardinality({}) = 0
    BY FS_EmptySet
  <2> QED BY <2>1, <2>2, TrackingAssumption DEF RoomInv, PasswordInv, Init
<1>2. TrackingInv /\ RoomInv /\ PasswordInv /\ [Next]_vars => RoomInv' /\ PasswordInv'
  BY RoomStep, PasswordStep
<1>3. TrackingInv /\ OverviewInv /\ RoomInv /\ PasswordInv => TypeOK
  <2> SUFFICES ASSUME TrackingInv, OverviewInv, RoomInv, PasswordInv PROVE TypeOK
    OBVIOUS
  <2>1. Len(table) <= MaxRows
    <3>1. IsFiniteSet(Busy)
      <4>1. Busy \in SUBSET Requests
        BY DEF Busy
      <4> QED BY <4>1, FS_Subset
    <3> QED BY <3>1, FS_CardinalityType, TableTyped, TrackingAssumption DEF RoomInv
  <2>2. now \in 0..Horizon /\ overview.at \in {"none", "counting", "shown"}
    BY DEF OverviewInv, Overviews
  <2>3. /\ owner \in [Keys -> Users \cup {Nobody}]
        /\ \A k \in Keys : session[k] = NoSession
                           \/ (session[k].user \in Users /\ owner[k] = session[k].user)
    BY DEF TrackingInv, OwnersInv, SomeUser
  <2> QED BY <2>1, <2>2, <2>3 DEF TypeOK, PasswordInv
<1> QED BY <1>1, <1>2, <1>3, TrackingInit, TrackingNext, OverviewInit, OverviewNext, PTL DEF Spec

--------------------------------------------------------------------------------
(* Sessions                                                                 *)

\* A breakdown by a kind that every row has exactly once adds up to the rows.
LEMMA BreakdownSums ==
    ASSUME NEW rows, IsFiniteSet(rows), NEW kind, NEW count,
           DOMAIN count = {kind[i] : i \in rows},
           \A k \in DOMAIN count : count[k] = Cardinality({i \in rows : kind[i] = k})
    PROVE  SumFunction(count) = Cardinality(rows)
<1>1. IsFiniteSet(DOMAIN count) /\ \A i \in rows : kind[i] \in DOMAIN count
  BY ImageFinite
<1> QED BY <1>1, TableAddsUp

\* The times at which the sessions of the rows of one identity start, and the
\* start of the session a row is in.
Starts(T, G) == {t \in Values(T, G, "at") : \A u \in Values(T, G, "at") : u < t => t - u > Gap}
StartOf(T, G, i) == Max({t \in Starts(T, G) : t <= T[i].at})

\* Every row is in the session that started last before it.
LEMMA RowHasStart ==
    ASSUME NEW T, NEW G, \A k \in G : T[k].at \in Nat, NEW i \in G
    PROVE  /\ StartOf(T, G, i) \in Starts(T, G)
           /\ StartOf(T, G, i) <= T[i].at
           /\ \A t \in Starts(T, G) : t <= T[i].at => t <= StartOf(T, G, i)
<1> DEFINE times == Values(T, G, "at")
           P == {t \in Starts(T, G) : t <= T[i].at}
<1>1. times \in SUBSET Nat /\ T[i].at \in times
  BY DEF Values
<1>2. \E t \in times : \A u \in times : t <= u
  <2> HIDE DEF times
  <2> QED BY <1>1, LeastExists
<1>3. PICK first \in times : \A u \in times : first <= u
  BY <1>2
<1>4. first \in P
  <2>1. \A u \in times : ~(u < first)
    BY <1>1, <1>3
  <2>2. first \in Starts(T, G)
    BY <2>1 DEF Starts
  <2> QED BY <1>1, <1>3, <2>2
<1>5. P \in SUBSET Nat /\ \A t \in P : t <= T[i].at
  BY <1>1 DEF Starts
<1>6. T[i].at \in Nat
  OBVIOUS
<1>7. \A t : t \in P <=> t \in Starts(T, G) /\ t <= T[i].at
  OBVIOUS
<1>8. StartOf(T, G, i) = Max(P)
  BY DEF StartOf
<1> HIDE DEF P
<1>9. \E t \in P : \A u \in P : u <= t
  BY <1>4, <1>5, <1>6, GreatestExists
<1>10. \E t \in P : \A u \in P : t >= u
  BY <1>5, <1>9
<1>11. Max(P) \in P /\ \A u \in P : Max(P) >= u
  BY <1>10 DEF Max
<1> QED BY <1>5, <1>7, <1>8, <1>11

\* Two rows are in one session just when every pause longer than the timeout
\* that could lie between them has a row in it.
LEMMA OneSession ==
    ASSUME NEW T, NEW G, \A k \in G : T[k].at \in Nat,
           NEW i \in G, NEW j \in G, T[i].at <= T[j].at
    PROVE  StartOf(T, G, i) = StartOf(T, G, j)
             <=> \A t \in T[i].at .. (T[j].at - Gap - 1) : \E h \in G : T[h].at \in t + 1 .. t + Gap
<1> DEFINE times == Values(T, G, "at")
           a == T[i].at
           z == T[j].at
           si == StartOf(T, G, i)
           sj == StartOf(T, G, j)
<1>1. times \in SUBSET Nat /\ a \in times /\ z \in times /\ a \in Nat /\ z \in Nat /\ Gap \in Nat
  BY ReportAssumption DEF Values
<1>2. \A u \in times : \E h \in G : T[h].at = u
  BY DEF Values
<1>3. \A u : u \in Starts(T, G) <=> u \in times /\ \A v \in times : v < u => u - v > Gap
  BY DEF Starts
<1>4. /\ si \in Starts(T, G) /\ si <= a /\ \A t \in Starts(T, G) : t <= a => t <= si
      /\ sj \in Starts(T, G) /\ sj <= z /\ \A t \in Starts(T, G) : t <= z => t <= sj
  BY RowHasStart
<1>5. \A h \in G : T[h].at \in times
  BY DEF Values
<1>6. a <= z
  OBVIOUS
<1> HIDE DEF times, a, z, si, sj
<1>7. ASSUME si = sj, NEW t \in a .. (z - Gap - 1)
      PROVE  \E h \in G : T[h].at \in t + 1 .. t + Gap
  <2> DEFINE later == {u \in times : u > t}
  <2>1. t \in Int /\ a <= t /\ t <= z - Gap - 1
    BY <1>1, <1>7
  <2>2. later \in SUBSET Nat /\ z \in later /\ t \in Nat
    <3>1. t \in Nat /\ z > t
      BY <1>1, <2>1
    <3> QED BY <1>1, <3>1
  <2>3. \E u \in later : \A v \in later : u <= v
    <3> HIDE DEF later
    <3> QED BY <2>2, LeastExists
  <2>4. PICK u \in later : \A v \in later : u <= v
    BY <2>3
  <2>5. u \in Nat /\ u \in times /\ u > t /\ u <= z
    BY <2>2, <2>4
  <2>6. CASE u <= t + Gap
    <3>1. u \in t + 1 .. t + Gap
      BY <1>1, <2>2, <2>5, <2>6
    <3> QED BY <1>2, <2>5, <3>1
  <2>7. CASE u > t + Gap
    <3>1. ASSUME NEW v \in times, v < u PROVE u - v > Gap
      <4>1. v \in Nat /\ v <= t
        BY <1>1, <2>2, <2>4, <2>5, <3>1
      <4> QED BY <1>1, <2>2, <2>5, <2>7, <4>1
    <3>2. u \in Starts(T, G)
      BY <1>3, <2>5, <3>1
    <3>3. u <= sj
      BY <1>4, <2>5, <3>2
    <3>4. si \in Nat /\ sj \in Nat
      <4>1. si \in times /\ sj \in times
        BY <1>3, <1>4
      <4> QED BY <1>1, <4>1
    <3> QED BY <1>1, <1>4, <1>7, <2>1, <2>2, <2>5, <3>3, <3>4
  <2> QED BY <1>1, <2>2, <2>5, <2>6, <2>7
<1>8. ASSUME \A t \in a .. (z - Gap - 1) : \E h \in G : T[h].at \in t + 1 .. t + Gap
      PROVE  si = sj
  <2>1. si \in Nat /\ sj \in Nat /\ sj \in times
    BY <1>1, <1>3, <1>4
  <2>2. si <= sj
    BY <1>1, <1>4, <1>6, <2>1
  <2>3. CASE sj <= a
    BY <1>4, <2>1, <2>2, <2>3
  <2>4. CASE sj > a
    <3> DEFINE earlier == {u \in times : u < sj}
    <3>1. earlier \in SUBSET Nat /\ a \in earlier /\ \A u \in earlier : u <= sj
      <4>1. a < sj /\ \A u \in times : u \in Nat
        BY <1>1, <2>1, <2>4
      <4>2. \A u \in earlier : u \in Nat /\ u < sj
        BY <4>1
      <4>3. a \in earlier
        BY <1>1, <4>1
      <4>4. \A u \in earlier : u <= sj
        BY <2>1, <4>2
      <4>5. earlier \in SUBSET Nat
        BY <4>2
      <4> QED BY <4>3, <4>4, <4>5
    <3>2. \E t \in earlier : \A u \in earlier : u <= t
      <4> HIDE DEF earlier
      <4> QED BY <2>1, <3>1, GreatestExists
    <3>3. PICK t \in earlier : \A u \in earlier : u <= t
      BY <3>2
    <3>4. t \in Nat /\ t \in times /\ a <= t /\ t < sj /\ sj - t > Gap
      BY <1>3, <1>4, <3>1, <3>3
    <3>5. t \in a .. (z - Gap - 1)
      BY <1>1, <1>4, <2>1, <3>4
    <3>6. PICK h \in G : T[h].at \in t + 1 .. t + Gap
      BY <1>8, <3>5
    <3>7. T[h].at \in times /\ T[h].at \in Nat /\ T[h].at > t /\ T[h].at < sj
      BY <1>1, <1>5, <2>1, <3>4, <3>6
    <3> QED BY <3>3, <3>4, <3>7
  <2> QED BY <1>1, <2>1, <2>3, <2>4
<1> QED BY <1>7, <1>8 DEF a, z, si, sj

\* The rows of the identity of a row, and the session the row is in.
Mine(T, rows, i) == {k \in rows : session_identity(T[k]) = session_identity(T[i])}
SessionOf(T, rows, i) ==
    {k \in Mine(T, rows, i) : StartOf(T, Mine(T, rows, i), k) = StartOf(T, Mine(T, rows, i), i)}

\* The sessions are those of the rows.
LEMMA SessionsOfRows ==
    ASSUME NEW T, NEW rows, \A k \in rows : T[k].at \in Nat
    PROVE  build_sessions(T, rows) = {SessionOf(T, rows, i) : i \in rows}
<1> DEFINE group(who) == {k \in rows : session_identity(T[k]) = who}
<1>1. ASSUME NEW G \in SUBSET rows
      PROVE  segment(T, G) = {{k \in G : StartOf(T, G, k) = s} : s \in Starts(T, G)}
  BY DEF segment, Starts, StartOf
<1>2. \A i \in rows : Mine(T, rows, i) = group(session_identity(T[i]))
                       /\ i \in Mine(T, rows, i) /\ Mine(T, rows, i) \in SUBSET rows
  BY DEF Mine
<1>3. ASSUME NEW i \in rows PROVE SessionOf(T, rows, i) \in build_sessions(T, rows)
  <2> DEFINE G == Mine(T, rows, i)
  <2>1. StartOf(T, G, i) \in Starts(T, G)
    BY <1>2, RowHasStart
  <2>2. SessionOf(T, rows, i) \in segment(T, G)
    BY <1>1, <1>2, <2>1 DEF SessionOf
  <2>3. G = group(session_identity(T[i]))
    BY <1>2
  <2> QED BY <2>2, <2>3 DEF build_sessions
<1>4. ASSUME NEW s \in build_sessions(T, rows) PROVE \E i \in rows : s = SessionOf(T, rows, i)
  <2>1. PICK who \in {session_identity(T[i]) : i \in rows} : s \in segment(T, group(who))
    BY DEF build_sessions
  <2> DEFINE G == group(who)
  <2>2. G \in SUBSET rows
    OBVIOUS
  <2>3. segment(T, G) = {{k \in G : StartOf(T, G, k) = b} : b \in Starts(T, G)}
    BY <1>1, <2>2
  <2>4. PICK b \in Starts(T, G) : s = {k \in G : StartOf(T, G, k) = b}
    <3>1. s \in segment(T, G)
      BY <2>1
    <3> HIDE DEF G
    <3> QED BY <2>3, <3>1
  <2>5. PICK i \in G : T[i].at = b
    BY <2>4 DEF Starts, Values
  <2>6. StartOf(T, G, i) = b
    <3>1. /\ StartOf(T, G, i) \in Starts(T, G) /\ StartOf(T, G, i) <= b
          /\ b <= b => b <= StartOf(T, G, i)
      BY <2>2, <2>4, <2>5, RowHasStart
    <3>2. b \in Nat /\ StartOf(T, G, i) \in Nat
      BY <2>2, <2>5, <3>1 DEF Starts, Values
    <3> QED BY <3>1, <3>2
  <2>7. Mine(T, rows, i) = G
    BY <1>2, <2>5
  <2> QED BY <2>2, <2>4, <2>5, <2>6, <2>7 DEF SessionOf
<1> QED BY <1>3, <1>4

\* The sessions of any rows are the maximal chains of each identity.
LEMMA Chains ==
    ASSUME NEW T, NEW rows, IsFiniteSet(rows), \A k \in rows : T[k].at \in Nat
    PROVE  LET sessions == build_sessions(T, rows)
               mates(i, j) == session_identity(T[i]) = session_identity(T[j])
               linked(i, j) ==
                   \A t \in T[i].at .. (T[j].at - Gap - 1) :
                       \E h \in rows : mates(h, i) /\ T[h].at \in t+1 .. t+Gap
           IN /\ \A i \in rows : Cardinality({s \in sessions : i \in s}) = 1
              /\ SumFunction([s \in sessions |-> summarise(T, s).page_views]) = Cardinality(rows)
              /\ \A i, j \in rows : T[i].at <= T[j].at =>
                   ((\E s \in sessions : {i, j} \subseteq s) <=> mates(i, j) /\ linked(i, j))
<1> DEFINE sessions == build_sessions(T, rows)
           of == [i \in rows |-> SessionOf(T, rows, i)]
           mates(i, j) == session_identity(T[i]) = session_identity(T[j])
           linked(i, j) ==
               \A t \in T[i].at .. (T[j].at - Gap - 1) :
                   \E h \in rows : mates(h, i) /\ T[h].at \in t+1 .. t+Gap
<1>1. sessions = {of[i] : i \in rows}
  BY SessionsOfRows
<1>2. ASSUME NEW i \in rows, NEW k \in rows
      PROVE  /\ i \in of[i]
             /\ k \in of[i] => of[k] = of[i]
  BY DEF SessionOf, Mine
<1>3. ASSUME NEW i \in rows, NEW s \in sessions PROVE i \in s <=> s = of[i]
  BY <1>1, <1>2
<1>4. ASSUME NEW i \in rows PROVE Cardinality({s \in sessions : i \in s}) = 1
  <2>1. {s \in sessions : i \in s} = {of[i]}
    BY <1>1, <1>3
  <2> QED BY <2>1, FS_Singleton
<1>5. SumFunction([s \in sessions |-> summarise(T, s).page_views]) = Cardinality(rows)
  <2> DEFINE count == [s \in sessions |-> summarise(T, s).page_views]
  <2>1. DOMAIN count = {of[i] : i \in rows}
    BY <1>1
  <2>2. ASSUME NEW s \in DOMAIN count PROVE count[s] = Cardinality({i \in rows : of[i] = s})
    <3>1. s \in SUBSET rows
      BY <1>1 DEF SessionOf, Mine
    <3>2. {i \in rows : of[i] = s} = s
      BY <1>3, <3>1
    <3>3. count[s] = Cardinality(s)
      BY DEF summarise
    <3> QED BY <3>2, <3>3
  <2> HIDE DEF of, count
  <2>3. SumFunction(count) = Cardinality(rows)
    BY <2>1, <2>2, BreakdownSums
  <2> QED BY <2>3 DEF count
<1>6. ASSUME NEW i \in rows, NEW j \in rows, T[i].at <= T[j].at
      PROVE  (\E s \in sessions : {i, j} \subseteq s) <=> mates(i, j) /\ linked(i, j)
  <2> DEFINE G == Mine(T, rows, i)
  <2>1. (\E s \in sessions : {i, j} \subseteq s) <=> j \in of[i]
    BY <1>1, <1>2, <1>3
  <2>2. j \in of[i] <=> j \in G /\ StartOf(T, G, i) = StartOf(T, G, j)
    BY DEF SessionOf
  <2>3. j \in G <=> mates(i, j)
    BY DEF Mine
  <2>4. i \in G /\ \A k \in G : T[k].at \in Nat
    BY DEF Mine
  <2>5. linked(i, j) <=> \A t \in T[i].at .. (T[j].at - Gap - 1) : \E h \in G : T[h].at \in t + 1 .. t + Gap
    BY DEF Mine
  <2> HIDE DEF G, linked
  <2>6. j \in G => (StartOf(T, G, i) = StartOf(T, G, j) <=> linked(i, j))
    BY <1>6, <2>4, <2>5, OneSession
  <2> QED BY <2>1, <2>2, <2>3, <2>6
<1> QED BY <1>4, <1>5, <1>6

\* Whatever was recorded and whatever window is asked for, sessions are the
\* maximal chains of requests of one identity (aggregations/sessions.py).
THEOREM SessionsAlwaysChains == Spec => []SessionsAreChains
<1>1. TrackingInv /\ OverviewInv => SessionsAreChains
  <2> SUFFICES ASSUME TrackingInv, OverviewInv, NEW w \in Windows
               PROVE  SessionsAreChains!(w)
    BY DEF SessionsAreChains
  <2> DEFINE rows == for_date_range(table, w[1], w[2])
  <2>1. rows \in SUBSET DOMAIN table /\ IsFiniteSet(DOMAIN table)
    BY TableTyped DEF for_date_range
  <2>2. IsFiniteSet(rows)
    BY <2>1, FS_Subset
  <2>3. \A k \in rows : table[k].at \in Nat
    BY <2>1 DEF OverviewInv
  <2> HIDE DEF rows
  <2> QED BY <2>2, <2>3, Chains DEF rows
<1> QED BY <1>1, TrackingInit, TrackingNext, OverviewInit, OverviewNext, PTL DEF Spec
================================================================================
