------------------------ MODULE RecommendationRunProofs ------------------------
(***************************************************************************)
(* What holds of the tags and of the engine's runs for any number of tags, *)
(* requests, careers and workers.  The two invariants are about disjoint   *)
(* variables, so each has an inductive invariant of its own.               *)
(***************************************************************************)
EXTENDS RecommendationRun, FiniteSums

relVars == <<rel, pc, pair, value, held, overtaken>>

\* What the transactions hold: a request has its own row, and the opposite one
\* once it has mirrored its row there.
Hold(a) ==
    /\ ~Open(a) => held[a] = {}
    /\ Open(a) =>
          /\ pair[a] \in Pairs
          /\ held[a] = {pair[a]} \/ held[a] = {pair[a], Opposite(pair[a])}
    /\ pc[a] \in {"signal", "create", "update"} => held[a] = {pair[a]} /\ value[a] \in Rows
    /\ Open(a) /\ held[a] # {pair[a]} => value[a] \in Rows

HoldInv ==
    /\ rel \in [Pairs -> Rows \cup {NoRow}]
    /\ pc \in [Admins -> {"idle", "signal", "create", "update", "commit"}]
    /\ pair \in [Admins -> Pairs \cup {NoRow}]
    /\ value \in [Admins -> Rows \cup {NoRow}]
    /\ held \in [Admins -> SUBSET Pairs]
    /\ overtaken \in BOOLEAN
    /\ \A a \in Admins : Hold(a)
    /\ \A a, b \in Admins : a # b => held[a] \cap held[b] = {}

\* A request about to commit its row alone has found the opposite row, and so
\* its own row of before, in agreement with what it writes.
Settled(a) == pc[a] = "commit" /\ held[a] = {pair[a]}
SettledAgrees(a) ==
    Settled(a) => Agree(rel[pair[a]], value[a]) /\ Agree(rel[Opposite(pair[a])], value[a])
NoClash(a, b) ==
    Settled(a) /\ Settled(b) /\ pair[b] = Opposite(pair[a]) => Agree(value[a], value[b])
\* A row that is to be updated is still there.
Present(a) == pc[a] = "update" => rel[Opposite(pair[a])] # NoRow

SyncInv ==
    /\ \A p \in Pairs : Agree(rel[p], rel[Opposite(p)])
    /\ \A a \in Admins : SettledAgrees(a) /\ Present(a)
    /\ \A a, b \in Admins : NoClash(a, b)

GInv == HoldInv /\ (overtaken \/ SyncInv)

--------------------------------------------------------------------------------
LEMMA OppositeTwice ==
    ASSUME NEW p \in Pairs
    PROVE  Opposite(p) \in Pairs /\ Opposite(Opposite(p)) = p /\ Opposite(p) # p
  BY DEF Pairs, Opposite

LEMMA RowsAreRecords ==
    ASSUME NEW r \in Rows
    PROVE  r # NoRow /\ r.strength \in Strengths /\ r.symmetric \in BOOLEAN
           /\ r = [strength |-> r.strength, symmetric |-> r.symmetric]
  BY RowsAssumption DEF Rows

LEMMA InitGInv == Init => GInv
  <1> SUFFICES ASSUME Init PROVE GInv
    OBVIOUS
  <1>1. HoldInv
    BY DEF Init, GraphInit, HoldInv, Hold, Open
  <1>2. SyncInv
    BY DEF Init, GraphInit, SyncInv, SettledAgrees, Settled, Present, NoClash
  <1> QED BY <1>1, <1>2 DEF GInv

LEMMA StableGInv == GInv /\ UNCHANGED relVars => GInv'
  BY DEF GInv, relVars, HoldInv, Hold, Open, SyncInv, SettledAgrees, Settled, Present, NoClash,
         Agree, Pairs, Opposite, Rows

\* What the requests hold, under every step of a request.
LEMMA HoldStep ==
    ASSUME HoldInv, NEW a \in Admins, Relate(a)
    PROVE  HoldInv'
  <1> USE OppositeTwice, RowsAreRecords DEF HoldInv, Hold, Open
  <1>1. ASSUME NEW p \in Pairs, NEW v \in Rows, SaveRow(a, p, v) PROVE HoldInv'
    BY <1>1 DEF SaveRow, LockedByOthers
  <1>2. ASSUME NEW p \in Pairs, DeleteRow(a, p) PROVE HoldInv'
    BY <1>2 DEF DeleteRow, LockedByOthers
  <1>3. CASE FindOpposite(a)
    BY <1>3 DEF FindOpposite
  <1>4. CASE CreateOpposite(a)
    <2>1. CASE rel[Opposite(pair[a])] = NoRow
      BY <1>4, <2>1 DEF CreateOpposite, LockedByOthers
    <2>2. CASE rel[Opposite(pair[a])] # NoRow
      BY <1>4, <2>2 DEF CreateOpposite
    <2> QED BY <2>1, <2>2
  <1>5. CASE UpdateOpposite(a)
    <2>1. CASE rel[Opposite(pair[a])] = NoRow
      BY <1>5, <2>1 DEF UpdateOpposite
    <2>2. CASE rel[Opposite(pair[a])] # NoRow
      BY <1>5, <2>2 DEF UpdateOpposite, LockedByOthers
    <2> QED BY <2>1, <2>2
  <1>6. CASE Commit(a)
    BY <1>6 DEF Commit, End
  <1>7. CASE Abort(a)
    BY <1>7 DEF Abort, End
  <1> QED BY <1>1, <1>2, <1>3, <1>4, <1>5, <1>6, <1>7 DEF Relate

\* Reading the opposite row is where a request learns that it has nothing to do.
LEMMA FindSync ==
    ASSUME HoldInv, SyncInv, NEW a \in Admins, FindOpposite(a)
    PROVE  SyncInv'
  <1> DEFINE q == Opposite(pair[a])
  <1>1. /\ pair[a] \in Pairs /\ q \in Pairs /\ Opposite(q) = pair[a]
        /\ value[a] \in Rows /\ pc[a] = "signal"
    BY OppositeTwice DEF HoldInv, Hold, Open, FindOpposite
  <1>2. UNCHANGED <<rel, pair, value, held>> /\ \A b \in Admins \ {a} : pc'[b] = pc[b]
    BY DEF FindOpposite, HoldInv
  <1>3. \A p \in Pairs : Agree(rel[p], rel[Opposite(p)])'
    BY <1>2 DEF SyncInv, Agree
  <1>4. Present(a)'
    BY <1>1, <1>2 DEF FindOpposite, Present, HoldInv
  <1>5. ASSUME pc'[a] = "commit"
        PROVE  rel[q] \in Rows /\ rel[q].symmetric /\ rel[q].strength = value[a].strength
    <2>1. rel[q] # NoRow /\ ~Differs(rel[q], value[a])
      BY <1>1, <1>5 DEF FindOpposite, HoldInv
    <2> QED BY <1>1, <2>1 DEF Differs, HoldInv, Rows
  <1>6. SettledAgrees(a)'
    <2>1. CASE pc'[a] = "commit"
      <3>1. Agree(rel[q], value[a])
        BY <1>5, <2>1 DEF Agree
      <3>2. Agree(rel[pair[a]], value[a])
        <4>1. Agree(rel[q], rel[Opposite(q)])
          BY <1>1 DEF SyncInv
        <4> QED BY <1>1, <1>5, <2>1, <4>1, RowsAreRecords DEF Agree
      <3>3. pair'[a] = pair[a] /\ value'[a] = value[a] /\ rel' = rel
        BY <1>2
      <3> QED BY <3>1, <3>2, <3>3 DEF SettledAgrees
    <2>2. CASE pc'[a] # "commit"
      BY <2>2 DEF SettledAgrees, Settled
    <2> QED BY <2>1, <2>2
  <1>7. ASSUME NEW b \in Admins, pair[b] = q, Settled(b), b # a, pc'[a] = "commit"
        PROVE  Agree(value[a], value[b]) /\ Agree(value[b], value[a])
    <2>1. Agree(rel[q], value[b])
      BY <1>7 DEF SyncInv, SettledAgrees
    <2> QED BY <1>1, <1>5, <1>7, <2>1, RowsAreRecords DEF Agree
  <1>8. \A b, c \in Admins : NoClash(b, c)'
    <2> SUFFICES ASSUME NEW b \in Admins, NEW c \in Admins, Settled(b)', Settled(c)',
                        pair[c] = Opposite(pair[b])
                 PROVE  Agree(value[b], value[c])
      BY <1>2 DEF NoClash, Agree
    <2>1. CASE b = a
      <3>1. c # a /\ Settled(c) /\ pair[c] = q
        BY <1>1, <1>2, <2>1, OppositeTwice DEF Settled
      <3> QED BY <1>7, <2>1, <3>1 DEF Settled
    <2>2. CASE c = a /\ b # a
      <3>1. Settled(b) /\ pair[b] \in Pairs
        BY <1>2, <2>2 DEF Settled, HoldInv, Hold, Open
      <3>2. pair[b] = q
        BY <3>1, <2>2, OppositeTwice
      <3> QED BY <1>7, <2>2, <3>1, <3>2 DEF Settled
    <2>3. CASE b # a /\ c # a
      BY <1>2, <2>3 DEF SyncInv, NoClash, Settled, Agree
    <2> QED BY <2>1, <2>2, <2>3
  <1>9. \A b \in Admins \ {a} : SettledAgrees(b)' /\ Present(b)'
    BY <1>2 DEF SyncInv, SettledAgrees, Settled, Present, Agree
  <1> QED BY <1>3, <1>4, <1>6, <1>8, <1>9 DEF SyncInv

\* Committing shows what the request holds, and nothing else, to the others.
LEMMA CommitSync ==
    ASSUME HoldInv, SyncInv, NEW a \in Admins, Commit(a)
    PROVE  overtaken' \/ SyncInv'
  <1> DEFINE p == pair[a]
             q == Opposite(pair[a])
  <1>1. /\ p \in Pairs /\ q \in Pairs /\ Opposite(q) = p /\ p # q
        /\ held[a] = {p} \/ (held[a] = {p, q} /\ value[a] \in Rows)
        /\ pc[a] = "commit"
    BY OppositeTwice DEF Commit, HoldInv, Hold, Open
  <1>2. /\ \A x \in Pairs : rel'[x] = IF x \in held[a] THEN value[a] ELSE rel[x]
        /\ pc'[a] = "idle" /\ \A b \in Admins \ {a} : pc'[b] = pc[b] /\ pair'[b] = pair[b]
                                        /\ value'[b] = value[b] /\ held'[b] = held[b]
    BY DEF Commit, End, HoldInv
  <1>3. \A x \in Pairs : Agree(rel'[x], rel'[Opposite(x)])
    <2> SUFFICES ASSUME NEW x \in Pairs PROVE Agree(rel'[x], rel'[Opposite(x)])
      OBVIOUS
    <2>1. Opposite(x) \in Pairs /\ Opposite(Opposite(x)) = x
      BY OppositeTwice
    <2>2. CASE held[a] = {p, q}
      BY <1>1, <1>2, <2>1, <2>2 DEF Agree, SyncInv
    <2>3. CASE held[a] = {p}
      <3>1. Agree(rel[p], value[a]) /\ Agree(rel[q], value[a])
        BY <1>1, <2>3 DEF SyncInv, SettledAgrees, Settled
      <3>2. CASE x = p
        BY <1>1, <1>2, <2>3, <3>1, <3>2 DEF Agree
      <3>3. CASE x = q
        BY <1>1, <1>2, <2>3, <3>1, <3>3 DEF Agree
      <3>4. CASE x # p /\ x # q
        BY <1>1, <1>2, <2>1, <2>3, <3>4 DEF SyncInv
      <3> QED BY <3>2, <3>3, <3>4
    <2> QED BY <1>1, <2>2, <2>3
  <1>4. ASSUME NEW b \in Admins, b # a, Open(b)
        PROVE  /\ pair[b] \in Pairs /\ Opposite(pair[b]) \in Pairs
               /\ pair[b] \notin held[a]
               /\ Opposite(pair[b]) \in held[a] => pair[b] = q /\ held[a] = {p}
    <2>1. pair[b] \in Pairs /\ pair[b] \in held[b] /\ Opposite(pair[b]) \in Pairs
      BY <1>4, OppositeTwice DEF HoldInv, Hold
    <2>2. pair[b] \notin held[a]
      BY <1>4, <2>1 DEF HoldInv
    <2>3. ASSUME Opposite(pair[b]) \in held[a] PROVE pair[b] = q /\ held[a] = {p}
      BY <1>1, <2>1, <2>2, <2>3, OppositeTwice
    <2> QED BY <2>1, <2>2, <2>3
  <1>5. ASSUME NEW b \in Admins, Settled(b)'
        PROVE  SettledAgrees(b)'
    <2>1. b # a /\ Settled(b) /\ Open(b)
      BY <1>2, <1>5 DEF Settled, Open
    <2>2. Agree(rel[pair[b]], value[b]) /\ Agree(rel[Opposite(pair[b])], value[b])
      BY <2>1 DEF SyncInv, SettledAgrees
    <2>3. rel'[pair[b]] = rel[pair[b]]
      BY <1>2, <1>4, <2>1
    <2>4. Agree(rel'[Opposite(pair[b])], value[b])
      <3>1. CASE Opposite(pair[b]) \notin held[a]
        BY <1>2, <1>4, <2>1, <2>2, <3>1
      <3>2. CASE Opposite(pair[b]) \in held[a]
        <4>1. Settled(a) /\ pair[b] = Opposite(pair[a])
          BY <1>1, <1>4, <2>1, <3>2 DEF Settled
        <4>2. Agree(value[a], value[b])
          BY <2>1, <4>1 DEF SyncInv, NoClash
        <4> QED BY <1>2, <1>4, <2>1, <3>2, <4>2
      <3> QED BY <3>1, <3>2
    <2> QED BY <1>2, <2>1, <2>2, <2>3, <2>4 DEF SettledAgrees
  <1>6. ASSUME ~overtaken', NEW b \in Admins PROVE Present(b)'
    <2> SUFFICES ASSUME pc'[b] = "update" PROVE rel'[Opposite(pair'[b])] # NoRow
      BY DEF Present
    <2>1. b # a /\ Open(b) /\ pc[b] = "update" /\ rel[Opposite(pair[b])] # NoRow
      BY <1>2 DEF SyncInv, Present, Open
    <2>2. Opposite(pair[b]) \in held[a] => value[a] # NoRow
      BY <1>4, <1>6, <2>1 DEF Commit, DeletesUnder
    <2> QED BY <1>2, <1>4, <2>1, <2>2
  <1>7. ASSUME NEW b \in Admins, NEW c \in Admins PROVE NoClash(b, c)'
    BY <1>2 DEF SyncInv, NoClash, Settled, Agree
  <1> QED BY <1>3, <1>5, <1>6, <1>7 DEF SyncInv, SettledAgrees

\* A step that settles nobody and shows nothing leaves the agreement as it is.
LEMMA QuietSync ==
    ASSUME HoldInv, SyncInv, NEW a \in Admins, UNCHANGED <<rel, pair, value>>,
           pc'[a] # "update", pc'[a] = "commit" => held'[a] # {pair[a]},
           \A b \in Admins \ {a} : pc'[b] = pc[b] /\ held'[b] = held[b]
    PROVE  SyncInv'
  <1>1. ~Settled(a)' /\ \A b \in Admins \ {a} : Settled(b)' <=> Settled(b)
    BY DEF Settled
  <1>2. \A b \in Admins : SettledAgrees(b)' /\ Present(b)'
    BY <1>1 DEF SyncInv, SettledAgrees, Present, Agree
  <1>3. \A b, c \in Admins : NoClash(b, c)'
    BY <1>1 DEF SyncInv, NoClash, Agree
  <1>4. \A p \in Pairs : Agree(rel[p], rel[Opposite(p)])'
    BY DEF SyncInv, Agree
  <1> QED BY <1>2, <1>3, <1>4 DEF SyncInv

\* The opposite row is written and locked, or another request was faster.
LEMMA MirrorSync ==
    ASSUME HoldInv, SyncInv, NEW a \in Admins, CreateOpposite(a) \/ UpdateOpposite(a)
    PROVE  SyncInv'
  <1> DEFINE q == Opposite(pair[a])
  <1>1. /\ pair[a] \in Pairs /\ q \in Pairs /\ q # pair[a] /\ held[a] = {pair[a]}
    BY OppositeTwice DEF HoldInv, Hold, Open, CreateOpposite, UpdateOpposite
  <1>2. UNCHANGED <<rel, pair, value>> /\ pc'[a] # "update"
    BY DEF CreateOpposite, UpdateOpposite, HoldInv
  <1>3. \A b \in Admins \ {a} : pc'[b] = pc[b] /\ held'[b] = held[b]
    BY DEF CreateOpposite, UpdateOpposite, HoldInv
  <1>4. pc'[a] = "commit" => held'[a] # {pair[a]}
    <2>1. CASE CreateOpposite(a)
      BY <1>1, <2>1 DEF CreateOpposite, HoldInv
    <2>2. CASE UpdateOpposite(a)
      <3>1. rel[q] # NoRow
        BY <2>2 DEF UpdateOpposite, SyncInv, Present
      <3>2. held'[a] = {pair[a], q}
        BY <1>1, <2>2, <3>1 DEF UpdateOpposite, HoldInv
      <3> QED BY <1>1, <3>2
    <2> QED BY <2>1, <2>2
  <1> QED BY <1>2, <1>3, <1>4, QuietSync

LEMMA SyncStep ==
    ASSUME HoldInv, SyncInv, HoldInv', NEW a \in Admins, Relate(a)
    PROVE  overtaken' \/ SyncInv'
  <1> USE DEF SyncInv, SettledAgrees, Settled, Present, NoClash, Agree, HoldInv, Hold, Open
  <1>1. ASSUME NEW p \in Pairs, NEW v \in Rows, SaveRow(a, p, v) PROVE SyncInv'
    BY <1>1, RowsAreRecords DEF SaveRow
  <1>2. ASSUME NEW p \in Pairs, DeleteRow(a, p) PROVE SyncInv'
    BY <1>2 DEF DeleteRow
  <1>3. CASE FindOpposite(a)
    BY <1>3, FindSync
  <1>4. CASE CreateOpposite(a)
    BY <1>4, MirrorSync
  <1>5. CASE UpdateOpposite(a)
    BY <1>5, MirrorSync
  <1>6. CASE Commit(a)
    BY <1>6, CommitSync
  <1>7. CASE Abort(a)
    BY <1>7 DEF Abort, End
  <1> QED BY <1>1, <1>2, <1>3, <1>4, <1>5, <1>6, <1>7 DEF Relate

LEMMA DeleteTagGInv ==
    ASSUME GInv, NEW t \in Tags, DeleteTag(t)
    PROVE  GInv'
  <1>1. \A p \in Pairs : rel'[p] = IF t \in {p[1], p[2]} THEN NoRow ELSE rel[p]
    BY DEF DeleteTag
  <1>2. UNCHANGED <<pc, pair, value, held, overtaken>>
    BY DEF DeleteTag
  <1>3. HoldInv'
    <2>1. rel' \in [Pairs -> Rows \cup {NoRow}]
      BY DEF DeleteTag, GInv, HoldInv
    <2> QED BY <1>2, <2>1 DEF GInv, HoldInv, Hold, Open
  <1>4. ASSUME SyncInv PROVE SyncInv'
    <2>1. \A p \in Pairs : rel'[p] = rel[p] \/ rel'[p] = NoRow
      BY <1>1
    <2>2. \A p \in Pairs : Agree(rel[p], rel[Opposite(p)])'
      BY <1>4, <2>1, OppositeTwice DEF SyncInv, Agree
    <2>3. \A a \in Admins : SettledAgrees(a)'
      BY <1>2, <1>4, <2>1, OppositeTwice
      DEF SyncInv, SettledAgrees, Settled, Agree, GInv, HoldInv, Hold, Open
    <2>4. ASSUME NEW a \in Admins PROVE Present(a)'
      <3> SUFFICES ASSUME pc[a] = "update" PROVE rel'[Opposite(pair[a])] # NoRow
        BY <1>2 DEF Present
      <3>1. pair[a] \in Pairs /\ Opposite(pair[a]) \in Pairs /\ t \notin {pair[a][1], pair[a][2]}
        BY OppositeTwice DEF GInv, HoldInv, Hold, Open, DeleteTag
      <3>2. t \notin {Opposite(pair[a])[1], Opposite(pair[a])[2]}
        BY <3>1 DEF Opposite
      <3> QED BY <1>1, <1>4, <3>1, <3>2 DEF SyncInv, Present
    <2>5. \A a, b \in Admins : NoClash(a, b)'
      BY <1>2, <1>4 DEF SyncInv, NoClash, Settled, Agree
    <2> QED BY <2>2, <2>3, <2>4, <2>5 DEF SyncInv
  <1> QED BY <1>2, <1>3, <1>4 DEF GInv

LEMMA NextGInv == GInv /\ [Next]_vars => GInv'
  <1> SUFFICES ASSUME GInv, [Next]_vars PROVE GInv'
    OBVIOUS
  <1>1. ASSUME NEW a \in Admins, Relate(a) PROVE GInv'
    <2>1. HoldInv'
      BY <1>1, HoldStep DEF GInv
    <2>2. CASE SyncInv
      BY <1>1, <2>1, <2>2, SyncStep DEF GInv
    <2>3. CASE overtaken
      <3>1. overtaken'
        BY <1>1, <2>3 DEF Relate, SaveRow, DeleteRow, FindOpposite, CreateOpposite,
                          UpdateOpposite, Commit, Abort
      <3> QED BY <2>1, <3>1 DEF GInv
    <2> QED BY <2>2, <2>3 DEF GInv
  <1>2. CASE EditProfile
    BY <1>2, StableGInv DEF EditProfile, relVars
  <1>3. ASSUME NEW p \in Editors, NEW c \in Careers, NEW t \in Tags,
               NEW w \in Weights \cup {NoLink}, SetLink(p, c, t, w)
        PROVE  GInv'
    BY <1>3, StableGInv DEF SetLink, relVars
  <1>4. ASSUME NEW p \in Editors, NEW t \in Tags, EditTag(p, t) PROVE GInv'
    <2>1. UNCHANGED relVars \/ DeleteTag(t)
      BY <1>4 DEF EditTag, AddTag, RenameTag, relVars
    <2> QED BY <2>1, StableGInv, DeleteTagGInv
  <1>5. CASE Tick
    BY <1>5, StableGInv DEF Tick, graphVars, relVars
  <1>6. ASSUME NEW w \in Workers, Run(w) PROVE GInv'
    BY <1>6, StableGInv DEF Run, relVars
  <1>7. CASE UNCHANGED vars
    BY <1>7, StableGInv DEF vars, graphVars, relVars
  <1> QED BY <1>1, <1>2, <1>3, <1>4, <1>5, <1>6, <1>7 DEF Next

\* The two directions of a symmetric relationship keep the same strength under
\* any overlap of saves, deletions and failures, unless a row is deleted under
\* an open save of its opposite.  PairsAgree alone is not inductive: what a
\* request has read must stay true until it commits (Settled, NoClash).
THEOREM PairsAgreeAlways == Spec => []PairsAgree
  <1>1. GInv => PairsAgree
    BY DEF GInv, SyncInv, PairsAgree
  <1> QED BY <1>1, InitGInv, NextGInv, PTL DEF Spec

--------------------------------------------------------------------------------
\* A table that was in force in one of the ticks of the last TTL.
RecentAt(v, at) == \E k \in 0..Horizon : at - TTL < k /\ k <= at /\ v \in seen[k]

VInv ==
    /\ now \in 0..Horizon
    /\ DOMAIN seen = 0..Horizon /\ DOMAIN cached = Processes /\ DOMAIN job = Workers
    /\ links \in seen[now]
    /\ \A p \in Processes : cached[p] # NoVectors =>
           /\ cached[p].until \in Int /\ cached[p].until - TTL \in 0..now
           /\ cached[p].vectors \in seen[cached[p].until - TTL]
    /\ \A w \in Workers :
           /\ job[w].pc = "fill" => job[w].vectors \in seen[now]
           /\ job[w].pc \in {"rank", "persist"} =>
                  job[w].at \in 0..now /\ RecentAt(job[w].vectors, job[w].at)

LEMMA InitVInv == Init => VInv
  BY CacheAssumption DEF Init, VInv, Idle

\* Steps that touch neither a cache nor a run nor the clock: what has been seen
\* is only added to.
LEMMA SeenMore ==
    ASSUME VInv, UNCHANGED <<job, now>>, DOMAIN seen' = 0..Horizon,
           \A k \in 0..Horizon : seen[k] \subseteq seen'[k],
           links' \in seen'[now], DOMAIN cached' = Processes,
           \A p \in Processes : cached'[p] \in {cached[p], NoVectors}
    PROVE  VInv'
  <1>1. \A w \in Workers : job[w].pc \in {"rank", "persist"} => RecentAt(job[w].vectors, job[w].at)'
    BY DEF VInv, RecentAt
  <1>2. \A p \in Processes : cached'[p] # NoVectors =>
            /\ cached'[p].until \in Int /\ cached'[p].until - TTL \in 0..now
            /\ cached'[p].vectors \in seen'[cached'[p].until - TTL]
    BY CacheAssumption DEF VInv
  <1> QED BY <1>1, <1>2 DEF VInv

LEMMA TickVInv ==
    ASSUME VInv, Tick
    PROVE  VInv'
  <1>1. /\ now \in Nat /\ now' = now + 1 /\ now' \in 0..Horizon /\ UNCHANGED <<links, cached, job>>
        /\ \A w \in Workers : job[w].pc # "fill"
        /\ seen' = [seen EXCEPT ![now + 1] = {links}]
    BY CacheAssumption DEF VInv, Tick, runVars
  <1>2. DOMAIN seen' = 0..Horizon /\ links \in seen'[now']
        /\ \A k \in 0..now : seen'[k] = seen[k]
    BY <1>1, CacheAssumption DEF VInv
  <1>3. \A w \in Workers : job[w].pc \in {"rank", "persist"} =>
            job[w].at \in 0..now' /\ RecentAt(job[w].vectors, job[w].at)'
    BY <1>1, <1>2, CacheAssumption DEF VInv, RecentAt
  <1>4. \A p \in Processes : cached[p] # NoVectors =>
            /\ cached[p].until \in Int /\ cached[p].until - TTL \in 0..now'
            /\ cached[p].vectors \in seen'[cached[p].until - TTL]
    BY <1>1, <1>2, CacheAssumption DEF VInv
  <1> QED BY <1>1, <1>2, <1>3, <1>4 DEF VInv

\* A run takes its vectors from a valid entry, or from the table of this tick.
LEMMA RunVInv ==
    ASSUME VInv, NEW w \in Workers, Run(w)
    PROVE  VInv'
  <1>1. UNCHANGED <<links, seen, now>> /\ now \in Nat /\ w \in Processes /\ TTL \in Nat /\ TTL > 0
    BY CacheAssumption DEF Run, linkVars, VInv, Processes
  <1>2. CASE Collect(w)
    <2>1. UNCHANGED job \/ \E e, u :
              job' = [job EXCEPT ![w] = [pc |-> "fetch", evidence |-> e, user |-> u]]
      BY <1>2 DEF Collect, Set
    <2>2. UNCHANGED cached
      BY <1>2 DEF Collect
    <2>3. DOMAIN job' = Workers /\ \A v \in Workers : job'[v] = job[v] \/ job'[v].pc = "fetch"
      BY <2>1 DEF VInv
    <2> QED BY <1>1, <2>2, <2>3 DEF VInv, RecentAt
  <1>3. CASE FetchCached(w)
    <2>1. /\ cached[w].until \in Int /\ cached[w].until - TTL \in 0..now /\ cached[w].until > now
          /\ cached[w].vectors \in seen[cached[w].until - TTL]
      BY <1>1, <1>3 DEF FetchCached, Valid, VInv
    <2>2. RecentAt(cached[w].vectors, now)
      <3> DEFINE k == cached[w].until - TTL
      <3>1. k \in 0..Horizon /\ now - TTL < k /\ k <= now
        BY <1>1, <2>1, CacheAssumption DEF VInv
      <3> QED BY <2>1, <3>1 DEF RecentAt
    <2> QED BY <1>1, <1>3, <2>2 DEF FetchCached, Set, VInv, RecentAt
  <1>4. CASE Query(w)
    BY <1>1, <1>4 DEF Query, Set, Idle, VInv, RecentAt
  <1>5. CASE Fill(w)
    <2>1. job[w].vectors \in seen[now]
      BY <1>5 DEF Fill, VInv
    <2>2. RecentAt(job[w].vectors, now)
      BY <1>1, <2>1 DEF RecentAt, VInv
    <2>3. (now + TTL) - TTL = now /\ now \in 0..now
      BY <1>1
    <2> QED BY <1>1, <1>5, <2>1, <2>2, <2>3 DEF Fill, Set, VInv, RecentAt
  <1>6. CASE Rank(w)
    BY <1>1, <1>6 DEF Rank, Set, VInv, RecentAt
  <1>7. CASE Persist(w)
    <2>1. (now + TTL) - TTL = now /\ now \in 0..now
      BY <1>1
    <2> QED BY <1>1, <1>7, <2>1 DEF Persist, Set, Idle, Entry, VInv, RecentAt
  <1> QED BY <1>2, <1>3, <1>4, <1>5, <1>6, <1>7 DEF Run

LEMMA NextVInv == VInv /\ [Next]_vars => VInv'
  <1> SUFFICES ASSUME VInv, [Next]_vars PROVE VInv'
    OBVIOUS
  <1>1. ASSUME NEW a \in Admins, Relate(a), UNCHANGED <<profileVars, runVars, linkVars>> PROVE VInv'
    BY <1>1, SeenMore DEF VInv, runVars, linkVars
  <1>2. CASE EditProfile
    BY <1>2, SeenMore DEF EditProfile, VInv, runVars, linkVars
  <1>3. ASSUME NEW p \in Editors, NEW c \in Careers, NEW t \in Tags,
               NEW w \in Weights \cup {NoLink}, SetLink(p, c, t, w)
        PROVE  VInv'
    <2>1. /\ UNCHANGED <<job, now>> /\ DOMAIN seen' = 0..Horizon /\ DOMAIN cached' = Processes
          /\ \A k \in 0..Horizon : seen[k] \subseteq seen'[k]
      BY <1>3 DEF SetLink, VInv
    <2>2. links' \in seen'[now]
      <3>1. seen'[now] = seen[now] \cup {links'}
        BY <1>3 DEF SetLink, VInv
      <3> QED BY <3>1
    <2>3. \A x \in Processes : cached'[x] \in {cached[x], NoVectors}
      BY <1>3 DEF SetLink, VInv
    <2> HIDE DEF VInv
    <2> QED BY <2>1, <2>2, <2>3, SeenMore
  <1>4. ASSUME NEW p \in Editors, NEW t \in Tags, EditTag(p, t) PROVE VInv'
    <2>1. UNCHANGED <<job, now>>
      BY <1>4 DEF EditTag
    <2>2. CASE UNCHANGED <<links, seen, cached>>
      <3>1. links' \in seen'[now] /\ DOMAIN seen' = 0..Horizon /\ DOMAIN cached' = Processes
        BY <2>2 DEF VInv
      <3> QED BY <2>1, <2>2, <3>1, SeenMore
    <2>3. CASE /\ seen' = [seen EXCEPT ![now] = @ \cup {links'}]
               /\ cached' = IF links' = links THEN cached ELSE [cached EXCEPT ![p] = NoVectors]
      <3>1. seen'[now] = seen[now] \cup {links'} /\ DOMAIN seen' = 0..Horizon
            /\ \A k \in 0..Horizon : seen[k] \subseteq seen'[k]
        BY <2>3 DEF VInv
      <3>2. DOMAIN cached' = Processes /\ \A x \in Processes : cached'[x] \in {cached[x], NoVectors}
        BY <2>3 DEF VInv
      <3> QED BY <2>1, <3>1, <3>2, SeenMore
    <2> QED BY <1>4, <2>2, <2>3 DEF EditTag
  <1>5. CASE Tick
    BY <1>5, TickVInv
  <1>6. ASSUME NEW w \in Workers, Run(w) PROVE VInv'
    BY <1>6, RunVInv
  <1>7. CASE UNCHANGED vars
    BY <1>7, SeenMore DEF VInv, vars, runVars, linkVars
  <1> QED BY <1>1, <1>2, <1>3, <1>4, <1>5, <1>6, <1>7 DEF Next

\* No run uses career vectors that were out of force for longer than the time
\* to live, with any number of workers and editors.
THEOREM VectorsAlwaysRecent == Spec => []VectorsRecent
  <1>1. VInv => VectorsRecent
    BY DEF VInv, VectorsRecent, RecentAt
  <1> QED BY <1>1, InitVInv, NextVInv, PTL DEF Spec

--------------------------------------------------------------------------------
TInv == TypeOK /\ HoldInv

LEMMA GraphTypes ==
    ASSUME TInv, HoldInv', title' \in [Tags -> Titles \cup {NoTitle}], requests' \in Nat
    PROVE  GraphTypeOK'
  BY DEF TInv, HoldInv, GraphTypeOK

LEMMA NextTInv == TInv /\ HoldInv' /\ [Next]_vars => TypeOK'
  <1> SUFFICES ASSUME TInv, HoldInv', [Next]_vars PROVE TypeOK'
    OBVIOUS
  <1> USE DEF TInv, TypeOK
  <1>0. title \in [Tags -> Titles \cup {NoTitle}] /\ requests \in Nat
    BY DEF GraphTypeOK
  <1>1. ASSUME NEW a \in Admins, Relate(a), UNCHANGED <<profileVars, runVars, linkVars>> PROVE TypeOK'
    <2>1. UNCHANGED title /\ requests' \in Nat
      <3>1. UNCHANGED title /\ (UNCHANGED requests \/ requests' = requests + 1)
        BY <1>1 DEF Relate, SaveRow, DeleteRow, FindOpposite, CreateOpposite,
                    UpdateOpposite, Commit, Abort, End
      <3> QED BY <1>0, <3>1
    <2>2. GraphTypeOK'
      BY <1>0, <2>1, GraphTypes
    <2> QED BY <1>1, <2>2 DEF profileVars, runVars, linkVars
  <1>2. CASE EditProfile
    <2>1. /\ title' \in [Tags -> Titles \cup {NoTitle}] /\ requests' \in Nat
          /\ name' \in [Subjects -> Titles] /\ grade' \in [Subjects -> Grades]
      <3>1. ASSUME NEW u \in Subjects, NEW n \in Titles, RenameSubject(u, n)
            PROVE  title' \in [Tags -> Titles \cup {NoTitle}] /\ UNCHANGED grade
                   /\ name' \in [Subjects -> Titles] /\ requests' = requests + 1
        BY <1>0, <3>1 DEF RenameSubject, Started
      <3>2. ASSUME NEW u \in Subjects, NEW g \in Grades, Grade(u, g)
            PROVE  UNCHANGED name /\ grade' \in [Subjects -> Grades] /\ requests' = requests + 1
        BY <3>2 DEF Grade, Started
      <3>3. ASSUME NEW q \in Questionnaires, NEW x \in Percentages, NEW k \in 0..MaxAttempts,
                   Attempt(q, x, k)
            PROVE  UNCHANGED <<name, grade>> /\ requests' = requests + 1
        BY <3>3 DEF Attempt, Started
      <3>4. CompleteTest => UNCHANGED <<name, grade>> /\ requests' = requests + 1
        BY DEF CompleteTest, Started
      <3> QED BY <1>0, <1>2, <3>1, <3>2, <3>3, <3>4 DEF EditProfile
    <2>2. GraphTypeOK'
      BY <2>1, GraphTypes
    <2> QED BY <1>2, <2>1, <2>2 DEF EditProfile, runVars, linkVars
  <1>3. ASSUME NEW p \in Editors, NEW c \in Careers, NEW t \in Tags,
               NEW w \in Weights \cup {NoLink}, SetLink(p, c, t, w)
        PROVE  TypeOK'
    <2>1. GraphTypeOK'
      BY <1>0, <1>3, GraphTypes DEF SetLink, Started
    <2>2. links' \in [Careers -> [Tags -> Weights \cup {NoLink}]]
      BY <1>3 DEF SetLink
    <2> QED BY <1>3, <2>1, <2>2 DEF SetLink, profileVars
  <1>4. ASSUME NEW p \in Editors, NEW t \in Tags, EditTag(p, t) PROVE TypeOK'
    <2>1. title' \in [Tags -> Titles \cup {NoTitle}] /\ requests' \in Nat
      BY <1>0, <1>4 DEF EditTag, AddTag, RenameTag, DeleteTag, Started
    <2>2. GraphTypeOK'
      BY <2>1, GraphTypes
    <2>3. links' \in [Careers -> [Tags -> Weights \cup {NoLink}]] /\ DOMAIN cached' = Processes
      BY <1>4 DEF EditTag
    <2> QED BY <1>4, <2>2, <2>3 DEF EditTag
  <1>5. CASE Tick
    <2>1. GraphTypeOK'
      BY <1>0, <1>5, GraphTypes DEF Tick, graphVars
    <2>2. now' \in 0..Horizon
      BY <1>5, CacheAssumption DEF Tick
    <2> QED BY <1>5, <2>1, <2>2 DEF Tick, profileVars, runVars
  <1>6. ASSUME NEW w \in Workers, Run(w) PROVE TypeOK'
    <2>1. requests' \in Nat /\ UNCHANGED title
      <3>1. UNCHANGED title /\ (UNCHANGED requests \/ requests' = requests + 1)
        BY <1>6 DEF Run, Collect, FetchCached, Query, Fill, Rank, Persist, Started
      <3> QED BY <1>0, <3>1
    <2>2. GraphTypeOK'
      BY <1>0, <2>1, GraphTypes
    <2>3. DOMAIN cached' = Processes /\ DOMAIN job' = Workers
      <3>1. DOMAIN job' = Workers
        BY <1>6 DEF Run, Collect, FetchCached, Query, Fill, Rank, Persist, Set
      <3>2. DOMAIN cached' = Processes
        BY <1>6 DEF Run, Collect, FetchCached, Query, Fill, Rank, Persist
      <3> QED BY <3>1, <3>2
    <2> QED BY <1>6, <2>2, <2>3 DEF Run, profileVars, linkVars
  <1>7. CASE UNCHANGED vars
    <2>1. GraphTypeOK'
      BY <1>0, <1>7, GraphTypes DEF vars, graphVars
    <2> QED BY <1>7, <2>1 DEF vars, profileVars, runVars, linkVars
  <1> QED BY <1>1, <1>2, <1>3, <1>4, <1>5, <1>6, <1>7 DEF Next

\* The rows, the requests and the caches keep their shapes.
THEOREM TypesHold == Spec => []TypeOK
  <1>1. Init => TInv
    <2>1. Init => HoldInv
      BY InitGInv DEF GInv
    <2>2. Init => TypeOK
      <3>1. Init => GraphTypeOK
        <4>1. Init => title \in [Tags -> Titles \cup {NoTitle}] /\ requests \in Nat
          BY DEF Init, GraphInit
        <4> QED BY <2>1, <4>1 DEF HoldInv, GraphTypeOK
      <3> QED BY <3>1, CacheAssumption DEF Init, TypeOK
    <2> QED BY <2>1, <2>2 DEF TInv
  <1>2. TInv /\ GInv /\ GInv' /\ [Next]_vars => TInv'
    BY NextTInv DEF TInv, GInv
  <1>3. TInv => TypeOK
    BY DEF TInv
  <1> QED BY <1>1, <1>2, <1>3, InitGInv, NextGInv, PTL DEF Spec

--------------------------------------------------------------------------------
\* What makes the evidence of a run the profile's: a subject's tag is there
\* until an administrator takes it away, and attempts whose clocks agree are in
\* the order of their completion.
EvidenceInv ==
    /\ renamed \/ \A s \in Subjects : Taken(name[s])
    /\ attempts \in Seq([questionnaire : Questionnaires, percentage : Percentages,
                         completed : 0..MaxAttempts])
    /\ clockwise => \A i, j \in DOMAIN attempts : i < j => attempts[i].completed < attempts[j].completed

LEMMA InitEvidence == Init => EvidenceInv
  BY DEF Init, EvidenceInv

\* A further attempt comes last, and later than the others if its clock agrees.
LEMMA AttemptEvidence ==
    ASSUME EvidenceInv, NEW q \in Questionnaires, NEW p \in Percentages, NEW k \in 0..MaxAttempts,
           Attempt(q, p, k), UNCHANGED title
    PROVE  EvidenceInv'
  <1> DEFINE R == [questionnaire : Questionnaires, percentage : Percentages, completed : 0..MaxAttempts]
             x == [questionnaire |-> q, percentage |-> p, completed |-> k]
  <1>1. attempts \in Seq(R) /\ x \in R /\ attempts' = Append(attempts, x) /\ x.completed = k
    BY DEF EvidenceInv, Attempt
  <1> HIDE DEF R, x
  <1>2. attempts' \in Seq(R) /\ Len(attempts) \in Nat /\ DOMAIN attempts = 1..Len(attempts)
        /\ DOMAIN attempts' = 1..Len(attempts) + 1 /\ attempts'[Len(attempts) + 1] = x
        /\ \A i \in DOMAIN attempts : attempts'[i] = attempts[i]
    BY <1>1
  <1>3. ASSUME clockwise', NEW i \in DOMAIN attempts', NEW j \in DOMAIN attempts', i < j
        PROVE  attempts'[i].completed < attempts'[j].completed
    <2>1. clockwise /\ \A l \in DOMAIN attempts : attempts[l].completed < k
      BY <1>3 DEF Attempt
    <2>2. i \in DOMAIN attempts /\ (j \in DOMAIN attempts \/ j = Len(attempts) + 1)
      BY <1>2, <1>3
    <2> QED BY <1>1, <1>2, <1>3, <2>1, <2>2 DEF EvidenceInv
  <1>4. UNCHANGED <<name, title, renamed>>
    BY DEF Attempt
  <1> QED BY <1>2, <1>3, <1>4 DEF EvidenceInv, Taken, R

\* A title that is taken stays taken when another tag is created.
LEMMA NamesEvidence ==
    ASSUME TypeOK, EvidenceInv, UNCHANGED <<attempts, clockwise, renamed>>,
           name' \in [Subjects -> Titles],
           \A s \in Subjects : name'[s] = name[s] \/ \E t \in Tags : title'[t] = name'[s],
           \A t \in Tags : title'[t] = title[t] \/ ~Exists(t)
    PROVE  EvidenceInv'
  <1>1. ASSUME NEW s \in Subjects, Taken(name[s]) PROVE \E t \in Tags : title'[t] = name[s]
    <2>1. name[s] # NoTitle
      BY RowsAssumption DEF TypeOK
    <2> QED BY <1>1, <2>1 DEF Taken, Exists
  <1>2. renamed \/ \A s \in Subjects : Taken(name[s])'
    BY <1>1 DEF EvidenceInv, Taken
  <1> QED BY <1>2 DEF EvidenceInv

LEMMA NextEvidence == TypeOK /\ EvidenceInv /\ [Next]_vars => EvidenceInv'
  <1> SUFFICES ASSUME TypeOK, EvidenceInv, [Next]_vars PROVE EvidenceInv'
    OBVIOUS
  <1>0. title \in [Tags -> Titles \cup {NoTitle}] /\ name \in [Subjects -> Titles]
    BY DEF TypeOK, GraphTypeOK
  <1>a. UNCHANGED <<title, name, attempts, clockwise, renamed>> => EvidenceInv'
    BY DEF EvidenceInv, Taken
  <1>b. renamed' /\ UNCHANGED <<attempts, clockwise>> => EvidenceInv'
    BY DEF EvidenceInv
  <1>1. ASSUME NEW a \in Admins, Relate(a), UNCHANGED <<profileVars, runVars, linkVars>>
        PROVE  EvidenceInv'
    <2>1. UNCHANGED title
      BY <1>1 DEF Relate, SaveRow, DeleteRow, FindOpposite, CreateOpposite,
                  UpdateOpposite, Commit, Abort, End
    <2> QED BY <1>1, <1>a, <2>1 DEF profileVars
  <1>2. CASE EditProfile
    <2>1. ASSUME NEW s \in Subjects, NEW g \in Grades, Grade(s, g), UNCHANGED title PROVE EvidenceInv'
      BY <1>a, <2>1 DEF Grade
    <2>2. ASSUME NEW q \in Questionnaires, NEW p \in Percentages, NEW k \in 0..MaxAttempts,
                 Attempt(q, p, k), UNCHANGED title
          PROVE  EvidenceInv'
      BY <2>2, AttemptEvidence
    <2>3. ASSUME CompleteTest, UNCHANGED title PROVE EvidenceInv'
      BY <1>a, <2>3 DEF CompleteTest
    <2>4. ASSUME NEW s \in Subjects, NEW n \in Titles, RenameSubject(s, n) PROVE EvidenceInv'
      <3>1. /\ UNCHANGED <<attempts, clockwise, renamed>>
            /\ name' = [name EXCEPT ![s] = n]
            /\ \/ title' = title /\ Taken(n)
               \/ \E t \in Tags : ~Exists(t) /\ title' = [title EXCEPT ![t] = n]
        BY <2>4 DEF RenameSubject
      <3>2. /\ \E t \in Tags : title'[t] = n
            /\ \A t \in Tags : title'[t] = title[t] \/ ~Exists(t)
        BY <1>0, <3>1 DEF Taken
      <3>3. name' \in [Subjects -> Titles] /\ \A u \in Subjects : name'[u] = name[u] \/ name'[u] = n
        BY <1>0, <3>1
      <3>4. \A u \in Subjects : name'[u] = name[u] \/ \E t \in Tags : title'[t] = name'[u]
        BY <3>2, <3>3
      <3> QED BY <3>1, <3>2, <3>3, <3>4, NamesEvidence
    <2> QED BY <1>2, <2>1, <2>2, <2>3, <2>4 DEF EditProfile
  <1>3. ASSUME NEW p \in Editors, NEW c \in Careers, NEW t \in Tags,
               NEW w \in Weights \cup {NoLink}, SetLink(p, c, t, w)
        PROVE  EvidenceInv'
    BY <1>3, <1>a DEF SetLink, profileVars
  <1>4. ASSUME NEW p \in Editors, NEW t \in Tags, EditTag(p, t) PROVE EvidenceInv'
    <2>1. UNCHANGED <<name, attempts, clockwise>>
      BY <1>4 DEF EditTag
    <2>2. ASSUME NEW n \in Titles, AddTag(t, n), UNCHANGED renamed PROVE EvidenceInv'
      <3>1. \A u \in Tags : title'[u] = title[u] \/ ~Exists(u)
        BY <1>0, <2>2 DEF AddTag
      <3> QED BY <1>0, <2>1, <2>2, <3>1, NamesEvidence
    <2> QED BY <1>4, <1>b, <2>1, <2>2 DEF EditTag
  <1>5. CASE Tick
    BY <1>5, <1>a DEF Tick, graphVars, profileVars
  <1>6. ASSUME NEW w \in Workers, Run(w) PROVE EvidenceInv'
    BY <1>6, <1>a DEF Run, profileVars
  <1>7. CASE UNCHANGED vars
    BY <1>7, <1>a DEF vars, graphVars, profileVars
  <1> QED BY <1>1, <1>2, <1>3, <1>4, <1>5, <1>6, <1>7 DEF Next

\* The subjects' part of the evidence.
LEMMA SubjectsFound ==
    ASSUME TypeOK, NEW other, \A e \in other : e.source \in Nat, NEW s \in Subjects
    PROVE  LET evidence == SubjectEvidence(title, name, grade) \cup other
           IN  /\ grade[s] = 0 => TagsFrom(evidence, s) = {}
               /\ grade[s] # 0 /\ Taken(name[s]) => TagsFrom(evidence, s) # {}
  <1> DEFINE mine == SubjectEvidence(title, name, grade)
  <1>0. s \notin Nat
    BY SourcesAssumption
  <1>1. DOMAIN title = Tags /\ DOMAIN name = Subjects
    BY DEF TypeOK, GraphTypeOK
  <1>2. \A e \in mine : e.source \in Subjects /\ grade[e.source] # 0
    BY <1>1 DEF SubjectEvidence
  <1>3. ASSUME grade[s] # 0, Taken(name[s]) PROVE \E e \in mine : e.source = s
    <2>1. PICK t \in Tags : title[t] = name[s]
      BY <1>3 DEF Taken
    <2> DEFINE e == [tag |-> t, signal |-> grade[s], trust |-> 10, weight |-> Scale, source |-> s]
    <2>2. e \in mine
      BY <1>1, <1>3, <2>1 DEF SubjectEvidence
    <2> QED BY <2>2
  <1> HIDE DEF mine
  <1> QED BY <1>0, <1>2, <1>3 DEF TagsFrom, mine

\* The attempts' part: those that are chosen, each with all that its
\* questionnaire measures.
LEMMA AttemptsFound ==
    ASSUME NEW others, \A e \in others : e.source \notin Nat, NEW rows, NEW done,
           NEW chosen \in SUBSET Nat, NEW i \in Nat
    PROVE  TagsFrom(others \cup AssessmentEvidence(rows, done, chosen), i) =
               IF i \in chosen THEN {c.tag : c \in {c \in rows : c.questionnaire = done[i].questionnaire}}
               ELSE {}
  <1> DEFINE From(l, c) == [tag |-> c.tag, signal |-> done[l].percentage,
                            trust |-> IF c.primary THEN 9 ELSE 7,
                            weight |-> IF c.strength = 0 THEN Scale ELSE c.strength, source |-> l]
             Measuring(l) == {c \in rows : c.questionnaire = done[l].questionnaire}
  <1>1. AssessmentEvidence(rows, done, chosen) = UNION {{From(l, c) : c \in Measuring(l)} : l \in chosen}
    BY DEF AssessmentEvidence
  <1>2. \A l, c : From(l, c).source = l /\ From(l, c).tag = c.tag
    OBVIOUS
  <1> HIDE DEF From
  <1>3. \A t : t \in TagsFrom(others \cup AssessmentEvidence(rows, done, chosen), i)
                  <=> \E e \in AssessmentEvidence(rows, done, chosen) : e.source = i /\ e.tag = t
    BY DEF TagsFrom
  <1>4. \A t : (\E e \in AssessmentEvidence(rows, done, chosen) : e.source = i /\ e.tag = t)
                  <=> i \in chosen /\ \E c \in Measuring(i) : c.tag = t
    BY <1>1, <1>2
  <1>5. \A t : t \in TagsFrom(others \cup AssessmentEvidence(rows, done, chosen), i)
                  <=> t \in IF i \in chosen THEN {c.tag : c \in Measuring(i)} ELSE {}
    <2>1. \A t : t \in {c.tag : c \in Measuring(i)} <=> \E c \in Measuring(i) : c.tag = t
      OBVIOUS
    <2> HIDE DEF Measuring
    <2>2. CASE i \in chosen
      BY <1>3, <1>4, <2>1, <2>2, Zenon
    <2>3. CASE i \notin chosen
      BY <1>3, <1>4, <2>3, Zenon
    <2> QED BY <2>2, <2>3
  <1> QED BY <1>5

\* With clocks that agree, the attempt chosen for a questionnaire is the one no
\* attempt at it was saved after.
LEMMA ChosenIsLast ==
    ASSUME EvidenceInv, clockwise, NEW chosen \in LatestAttempts(attempts), NEW i \in DOMAIN attempts
    PROVE  i \in chosen <=> ~Superseded(i)
  <1> DEFINE same == {j \in chosen : attempts[j].questionnaire = attempts[i].questionnaire}
  <1>1. /\ chosen \subseteq DOMAIN attempts /\ \A j \in chosen : MostRecent(attempts, j)
        /\ Cardinality(same) = 1
    BY DEF LatestAttempts
  <1>2. DOMAIN attempts \subseteq Nat /\ \A j \in DOMAIN attempts : attempts[j].completed \in Int
    <2>1. /\ DOMAIN attempts = 1..Len(attempts) /\ Len(attempts) \in Nat
          /\ \A j \in DOMAIN attempts : attempts[j] \in
                 [questionnaire : Questionnaires, percentage : Percentages, completed : 0..MaxAttempts]
      <3> DEFINE R == [questionnaire : Questionnaires, percentage : Percentages,
                       completed : 0..MaxAttempts]
      <3>1. attempts \in Seq(R)
        BY DEF EvidenceInv
      <3> HIDE DEF R
      <3>2. /\ DOMAIN attempts = 1..Len(attempts) /\ Len(attempts) \in Nat
            /\ \A j \in DOMAIN attempts : attempts[j] \in R
        BY <3>1
      <3> QED BY <3>2 DEF R
    <2> QED BY <2>1
  <1>3. \A j \in DOMAIN attempts : j < i => attempts[j].completed < attempts[i].completed
    BY DEF EvidenceInv
  <1>4. \A j \in DOMAIN attempts : i < j => attempts[i].completed < attempts[j].completed
    BY DEF EvidenceInv
  <1>5. ASSUME i \in chosen, Superseded(i) PROVE FALSE
    BY <1>1, <1>2, <1>4, <1>5 DEF Superseded, MostRecent
  <1>6. ASSUME ~Superseded(i) PROVE i \in chosen
    <2>1. same # {}
      BY <1>1, FS_EmptySet
    <2>2. PICK j \in same : TRUE
      BY <2>1
    <2>3. j \in DOMAIN attempts /\ ~(j > i) /\ ~(j < i)
      BY <1>1, <1>2, <1>3, <1>6, <2>2 DEF Superseded, MostRecent
    <2> QED BY <1>2, <2>2, <2>3
  <1> QED BY <1>5, <1>6

LEMMA CollectCurrent ==
    ASSUME TypeOK, EvidenceInv, NEW w \in Workers, job[w].pc = "idle", Collect(w), job'[w].pc = "fetch"
    PROVE  EvidenceOf(w)
  <1>1. PICK chosen \in LatestAttempts(attempts) :
            job'[w].evidence = SubjectEvidence(title, name, grade)
                                   \cup AssessmentEvidence(couplings, attempts, chosen)
    <2>1. ~tested
      BY DEF Collect
    <2>2. PICK chosen \in LatestAttempts(attempts) : \E u :
              Set(w, [pc |-> "fetch", user |-> u,
                      evidence |-> SubjectEvidence(title, name, grade)
                                       \cup AssessmentEvidence(couplings, attempts, chosen)])
      BY <2>1 DEF Collect
    <2> QED BY <2>2 DEF Set, TypeOK
  <1> DEFINE mine == SubjectEvidence(title, name, grade)
             other == AssessmentEvidence(couplings, attempts, chosen)
             evidence == mine \cup other
  <1>2. chosen \in SUBSET Nat /\ DOMAIN attempts \subseteq Nat
    BY DEF LatestAttempts, EvidenceInv
  <1>3. \A e \in other : e.source \in Nat
    BY <1>2 DEF AssessmentEvidence
  <1>4. \A e \in mine : e.source \notin Nat
    <2>1. DOMAIN name = Subjects
      BY DEF TypeOK
    <2> QED BY <2>1, SourcesAssumption DEF SubjectEvidence
  <1>5. renamed \/ \A s \in Subjects : grade[s] = 0 <=> TagsFrom(evidence, s) = {}
    <2> SUFFICES ASSUME ~renamed, NEW s \in Subjects PROVE grade[s] = 0 <=> TagsFrom(evidence, s) = {}
      OBVIOUS
    <2>1. Taken(name[s])
      BY DEF EvidenceInv
    <2> HIDE DEF other
    <2> QED BY <1>3, <2>1, SubjectsFound
  <1>6. ASSUME clockwise, NEW i \in DOMAIN attempts
        PROVE  TagsFrom(evidence, i) =
                   IF Superseded(i) THEN {} ELSE Measured(attempts[i].questionnaire)
    <2>1. TagsFrom(evidence, i) = IF i \in chosen THEN Measured(attempts[i].questionnaire) ELSE {}
      <3>1. i \in Nat
        BY <1>2
      <3> HIDE DEF mine
      <3> QED BY <1>2, <1>4, <3>1, AttemptsFound DEF Measured
    <2> HIDE DEF evidence
    <2> QED BY <1>6, <2>1, ChosenIsLast
  <1> QED BY <1>1, <1>5, <1>6 DEF EvidenceOf

\* The evidence of a run is the profile's, with any number of subjects and
\* attempts: every graded subject whose tag no administrator took away, and the
\* last attempt at every questionnaire.
THEOREM EvidenceAlwaysCurrent == Spec => EvidenceCurrent
  <1>1. ASSUME TypeOK, EvidenceInv, [Next]_vars, NEW w \in Workers, job[w].pc = "idle", job'[w].pc = "fetch"
        PROVE  EvidenceOf(w)
    <2>1. job' # job
      BY <1>1
    <2>2. ASSUME NEW a \in Admins, Relate(a), UNCHANGED <<profileVars, runVars, linkVars>> PROVE FALSE
      BY <2>1, <2>2 DEF runVars
    <2>3. ~EditProfile /\ ~Tick /\ ~UNCHANGED vars
      BY <2>1 DEF EditProfile, Tick, vars, runVars
    <2>4. \A p, c, t, x : ~SetLink(p, c, t, x)
      BY <2>1 DEF SetLink
    <2>5. \A p, t : ~EditTag(p, t)
      BY <2>1 DEF EditTag
    <2>6. PICK v \in Workers : Run(v)
      BY <1>1, <2>2, <2>3, <2>4, <2>5 DEF Next
    <2>7. v = w
      <3>1. \E j : job' = [job EXCEPT ![v] = j]
        BY <2>1, <2>6 DEF Run, Collect, FetchCached, Query, Fill, Rank, Persist, Set
      <3> QED BY <1>1, <3>1
    <2>8. Collect(w)
      BY <1>1, <2>6, <2>7 DEF Run, FetchCached, Query, Fill, Rank, Persist
    <2> QED BY <1>1, <2>8, CollectCurrent
  <1>2. TypeOK /\ EvidenceInv /\ [Next]_vars
            => [\A w \in Workers : job[w].pc = "idle" /\ job'[w].pc = "fetch" => EvidenceOf(w)]_vars
    BY <1>1
  <1> QED BY <1>2, TypesHold, InitEvidence, NextEvidence, PTL DEF Spec, EvidenceCurrent

--------------------------------------------------------------------------------
\* Similarities.

\* A fraction keeps its quotient when both sides are multiplied.
LEMMA DivideScaled ==
    ASSUME NEW x \in Nat, NEW y \in Nat, y > 0, NEW k \in Nat, k > 0
    PROVE  (k * x) \div (k * y) = x \div y
<1> DEFINE q == x \div y
<1>1. q \in Nat /\ y * q <= x /\ x < y * (q + 1)
  OBVIOUS
<1> HIDE DEF q
<1>2. (k * y) * q = k * (y * q) /\ (k * y) * (q + 1) = k * (y * (q + 1))
  BY <1>1
<1>3. k * (y * q) <= k * x /\ k * x < k * (y * (q + 1))
  BY <1>1
<1>4. k * y > 0 /\ k * y \in Nat /\ k * x \in Nat
  OBVIOUS
<1>5. \A a \in Nat, b \in Nat, c \in Nat : b > 0 /\ b * c <= a /\ a < b * (c + 1) => a \div b = c
  OBVIOUS
<1>6. (k * x) \div (k * y) = q
  BY <1>1, <1>2, <1>3, <1>4, <1>5
<1> QED BY <1>6 DEF q
\* A quotient of numbers within a factor of each other is within that factor.
LEMMA QuotientBounds ==
    ASSUME NEW x \in Nat, NEW y \in Nat, y > 0, NEW m \in Nat, x <= m * y
    PROVE  x \div y \in 0..m /\ (x >= y => x \div y >= 1)
<1>1. x \div y \in Nat /\ y * (x \div y) <= x
  OBVIOUS
<1> DEFINE q == x \div y
<1>2. q \in Nat /\ y * q <= m * y /\ x < y * (q + 1)
  BY <1>1
<1> HIDE DEF q
<1>3. q <= m
  <2> SUFFICES ASSUME q >= m + 1 PROVE FALSE
    BY <1>2
  <2>1. (m + 1) * y <= q * y
    BY <1>2, Products
  <2> QED BY <1>2, <2>1
<1>4. x >= y => q >= 1
  BY <1>2
<1> QED BY <1>2, <1>3, <1>4 DEF q

\* Every number up to the square of Scale has a root.
LEMMA RootFound ==
    ASSUME NEW n \in 0..Scale * Scale
    PROVE  Root(n) \in 0..Scale * Scale /\ Root(n) * Root(n) <= n /\ n < (Root(n) + 1) * (Root(n) + 1)
<1>1. Scale \in Nat /\ Scale >= 1 /\ Scale <= Scale * Scale /\ Scale * Scale \in Nat
  BY ScaleAssumption
<1> DEFINE T == {r \in 0..Scale : r * r <= n}
<1>2. PICK g \in T : \A r \in T : r <= g
  <2>1. T \in SUBSET Nat /\ 0 \in T /\ \A r \in T : r <= Scale
    BY <1>1
  <2> HIDE DEF T
  <2> QED BY <1>1, <2>1, GreatestExists
<1>3. g \in 0..Scale * Scale /\ g * g <= n
  BY <1>1, <1>2
<1>4. n < (g + 1) * (g + 1)
  <2> SUFFICES ASSUME (g + 1) * (g + 1) <= n PROVE FALSE
    BY <1>1, <1>3
  <2>1. (g + 1) * (g + 1) <= Scale * Scale
    BY <1>1, <1>3
  <2>2. g + 1 <= Scale
    BY <1>1, <1>3, <2>1, SquaresOrdered
  <2>3. g + 1 \in T
    BY <1>1, <1>3, <2>2
  <2> QED BY <1>2, <1>3, <2>3
<1> QED BY <1>3, <1>4 DEF Root

\* User vectors, and the career vectors of a table.
UserVector(user) == IsFiniteSet(DOMAIN user) /\ \A t \in DOMAIN user : user[t].affinity \in Int
CareerVectors == [Tags -> Weights \cup {NoLink}]

LEMMA LinksTyped ==
    ASSUME NEW weights \in CareerVectors
    PROVE  /\ IsFiniteSet(Linked(weights)) /\ Linked(weights) \subseteq Tags
           /\ \A t \in Linked(weights) : weights[t] \in Int
<1>1. Linked(weights) \in SUBSET Tags /\ \A t \in Linked(weights) : weights[t] \in Int
  BY ScoresAssumption DEF Linked, CareerVectors
<1>2. IsFiniteSet(Tags)
  BY RowsFinite
<1> QED BY <1>1, <1>2, FS_Subset

\* The similarity is a quotient of numbers that are in order: it never exceeds
\* one, whatever the vectors are.
LEMMA ProductBounded ==
    ASSUME NEW user, UserVector(user), NEW weights \in CareerVectors
    PROVE  /\ Dot(user, weights) \in Int /\ Lengths(user, weights) \in Nat
           /\ Dot(user, weights) * Dot(user, weights) <= Lengths(user, weights)
<1> DEFINE U == DOMAIN user
           L == Linked(weights)
           S == Shared(user, weights)
           f == [t \in U |-> user[t].affinity]
           p == [t \in S |-> user[t].affinity * weights[t]]
           a == [t \in U |-> user[t].affinity * user[t].affinity]
           b == [t \in L |-> weights[t] * weights[t]]
           P == SumFunctionOnSet(p, S)
           A == SumFunctionOnSet(a, S)
           B == SumFunctionOnSet(b, S)
<1>1. /\ Dot(user, weights) = P
      /\ Lengths(user, weights) = SumFunctionOnSet(a, U) * SumFunctionOnSet(b, L)
  BY DEF Dot, Lengths, SumFunction
<1>2. /\ IsFiniteSet(U) /\ IsFiniteSet(L) /\ S \in SUBSET U /\ S \in SUBSET L
      /\ \A t \in U : user[t].affinity \in Int
      /\ \A t \in L : weights[t] \in Int
  BY LinksTyped DEF UserVector, Shared
<1>3. IsFiniteSet(S)
  BY <1>2, FS_Subset
<1>4. \A t \in S : /\ f[t] \in Int /\ weights[t] \in Int /\ p[t] = f[t] * weights[t]
                   /\ a[t] = f[t] * f[t] /\ b[t] = weights[t] * weights[t]
  BY <1>2
<1>5. (\A t \in U : a[t] \in Nat) /\ (\A t \in L : b[t] \in Nat) /\ (\A t \in S : p[t] \in Int)
  BY <1>2, SquareNat
<1> HIDE DEF f, p, a, b, U, L, S
<1>6. P * P <= A * B
  BY <1>3, <1>4, CauchySchwarz
<1>7. A \in Nat /\ B \in Nat /\ P \in Int
  <2>1. (\A t \in S : a[t] \in Nat) /\ (\A t \in S : b[t] \in Nat)
    BY <1>2, <1>5
  <2> QED BY <1>3, <1>5, <2>1, SumNat, SumRemove
<1>8. A <= SumFunctionOnSet(a, U) /\ SumFunctionOnSet(a, U) \in Nat
  BY <1>2, <1>5, SumPart, SumNat
<1>9. B <= SumFunctionOnSet(b, L) /\ SumFunctionOnSet(b, L) \in Nat
  BY <1>2, <1>5, SumPart, SumNat
<1> HIDE DEF P, A, B
<1> DEFINE Au == SumFunctionOnSet(a, U)
           Bl == SumFunctionOnSet(b, L)
<1>10. A * B <= Au * B
  BY <1>7, <1>8, Products
<1>11. B * Au <= Bl * Au
  BY <1>7, <1>8, <1>9, Products
<1>12. P * P <= Au * Bl /\ Au * Bl \in Nat
  <2> HIDE DEF Au, Bl
  <2>1. Au \in Nat /\ Bl \in Nat
    BY <1>8, <1>9 DEF Au, Bl
  <2> QED BY <2>1, <1>6, <1>7, <1>10, <1>11
<1> QED BY <1>1, <1>7, <1>12

\* No affinity is no similarity, and one that can be measured is some.
THEOREM SimilarityMeasures ==
    ASSUME NEW user, UserVector(user), NEW weights \in CareerVectors
    PROVE  /\ Similarity(user, weights) \in 0..Scale
           /\ ~Related(user, weights) => Similarity(user, weights) = 0
           /\ Measurable(user, weights) => Similarity(user, weights) >= 1
<1> DEFINE d == Dot(user, weights)
           l == Lengths(user, weights)
           x == Scale * d
           n == (x * x) \div l
<1>0. Scale \in Nat /\ Scale >= 1
  BY ScaleAssumption
<1>1. d \in Int /\ l \in Nat /\ d * d <= l
  BY ProductBounded
<1>2. /\ Similarity(user, weights) = IF x <= 0 \/ l = 0 THEN 0 ELSE Clamped(Root(n))
      /\ Related(user, weights) <=> d > 0
      /\ Measurable(user, weights) <=> d > 0 /\ x * x >= l
  BY DEF Similarity, Related, Measurable
<1> HIDE DEF d, l
<1>3. x * x = (Scale * Scale) * (d * d) /\ x \in Int /\ x * x \in Nat /\ Scale * Scale \in Nat
  BY <1>0, <1>1, SquareNat
<1>4. x * x <= (Scale * Scale) * l
  <2>1. (d * d) * (Scale * Scale) <= l * (Scale * Scale)
    BY <1>0, <1>1, <1>3, Products
  <2> QED BY <1>0, <1>1, <1>3, <2>1
<1>5. d > 0 <=> x > 0
  BY <1>0, <1>1
<1> HIDE DEF x
<1>6. ASSUME l > 0 PROVE /\ Clamped(Root(n)) \in 0..Scale
                         /\ x * x >= l => Clamped(Root(n)) >= 1
  <2>1. n \in 0..Scale * Scale /\ (x * x >= l => n >= 1)
    BY <1>1, <1>3, <1>4, <1>6, QuotientBounds
  <2> HIDE DEF n
  <2>2. Root(n) \in Nat /\ n < (Root(n) + 1) * (Root(n) + 1)
    BY <1>3, <2>1, RootFound
  <2>3. n >= 1 => Root(n) >= 1
    BY <2>1, <2>2
  <2> QED BY <1>0, <2>1, <2>2, <2>3 DEF Clamped, Least
<1>7. d > 0 => l > 0
  BY <1>1
<1> DEFINE c == Clamped(Root(n))
<1>8. Similarity(user, weights) = IF x <= 0 \/ l = 0 THEN 0 ELSE c
  BY <1>2
<1>9. l > 0 => c \in 0..Scale /\ (x * x >= l => c >= 1)
  BY <1>6
<1> HIDE DEF c, n
<1>10. x <= 0 \/ l > 0
  BY <1>1, <1>3, <1>5, <1>7
<1>11. Similarity(user, weights) \in 0..Scale
  BY <1>0, <1>1, <1>3, <1>8, <1>9
<1>12. ~Related(user, weights) => Similarity(user, weights) = 0
  BY <1>1, <1>2, <1>3, <1>5, <1>8
<1>13. Measurable(user, weights) => Similarity(user, weights) >= 1
  BY <1>1, <1>2, <1>3, <1>5, <1>7, <1>8, <1>9
<1> QED BY <1>11, <1>12, <1>13

\* Heavier weights on the same tags make both the product and the length longer.
LEMMA HeavierIsNoCloser ==
    ASSUME NEW user, UserVector(user), NEW v \in CareerVectors, NEW w \in CareerVectors, Heavier(v, w)
    PROVE  Similarity(user, v) = Similarity(user, w)
<1>1. PICK k \in 2..Scale : \A t \in Linked(w) : v[t] = k * w[t]
  BY DEF Heavier
<1>2. k \in Nat /\ k > 0 /\ k * k \in Nat /\ k * k > 0
  BY <1>1, ScaleAssumption
<1> DEFINE U == DOMAIN user
           L == Linked(w)
           S == Shared(user, w)
           pv == [t \in S |-> user[t].affinity * v[t]]
           pw == [t \in S |-> user[t].affinity * w[t]]
           bv == [t \in L |-> v[t] * v[t]]
           bw == [t \in L |-> w[t] * w[t]]
           A == SumFunction([t \in U |-> user[t].affinity * user[t].affinity])
           Bv == SumFunctionOnSet(bv, L)
           Bw == SumFunctionOnSet(bw, L)
<1>3. Linked(v) = L /\ Shared(user, v) = S
  BY DEF Heavier, Shared
<1>4. /\ Dot(user, v) = SumFunctionOnSet(pv, S) /\ Dot(user, w) = SumFunctionOnSet(pw, S)
      /\ Lengths(user, v) = A * Bv /\ Lengths(user, w) = A * Bw
  BY <1>3 DEF Dot, Lengths, SumFunction
<1>5. /\ IsFiniteSet(U) /\ IsFiniteSet(L) /\ S \in SUBSET U /\ S \in SUBSET L
      /\ \A t \in U : user[t].affinity \in Int
      /\ \A t \in L : w[t] \in Int
  BY LinksTyped DEF UserVector, Shared
<1>6. \A t \in S : pw[t] \in Int /\ pv[t] = k * pw[t]
  <2>1. \A x, y \in Int : x * (k * y) = k * (x * y) /\ x * y \in Int
    BY <1>2
  <2> QED BY <1>1, <1>5, <2>1
<1>7. \A t \in L : bw[t] \in Int /\ bv[t] = (k * k) * bw[t]
  <2>1. \A y \in Int : (k * y) * (k * y) = (k * k) * (y * y) /\ y * y \in Int
    BY <1>2
  <2> QED BY <1>1, <1>5, <2>1
<1>8. IsFiniteSet(S)
  BY <1>5, FS_Subset
<1>9. A \in Int
  <2> DEFINE a == [t \in U |-> user[t].affinity * user[t].affinity]
  <2>1. \A t \in U : a[t] \in Int
    BY <1>5
  <2> HIDE DEF a
  <2>2. SumFunctionOnSet(a, U) \in Int
    BY <1>5, <2>1, SumRemove
  <2> QED BY <2>2 DEF a, SumFunction
<1> HIDE DEF pv, pw, bv, bw, A
<1>10. SumFunctionOnSet(pv, S) = k * SumFunctionOnSet(pw, S) /\ SumFunctionOnSet(pw, S) \in Int
  BY <1>2, <1>6, <1>8, SumScale, SumRemove
<1>11. Bv = (k * k) * Bw /\ Bw \in Int
  BY <1>2, <1>5, <1>7, SumScale, SumRemove
<1> DEFINE d == Dot(user, w)
           l == Lengths(user, w)
           x == Scale * d
<1>12. d \in Int /\ l \in Nat /\ Dot(user, v) = k * d
  BY <1>4, <1>10, ProductBounded
<1>13. Lengths(user, v) = (k * k) * l
  <2> HIDE DEF Bv, Bw
  <2>1. A * ((k * k) * Bw) = (k * k) * (A * Bw)
    BY <1>2, <1>9, <1>11
  <2> QED BY <1>4, <1>11, <2>1
<1>14. Scale * (k * d) = k * x /\ x \in Int /\ x * x \in Nat /\ (k * x) * (k * x) = (k * k) * (x * x)
  <2>1. Scale \in Int
    BY ScaleAssumption
  <2> HIDE DEF d
  <2> QED BY <1>2, <1>12, <2>1, SquareNat
<1>15. /\ Similarity(user, v) = IF k * x <= 0 \/ (k * k) * l = 0 THEN 0
                                ELSE Clamped(Root(((k * x) * (k * x)) \div ((k * k) * l)))
       /\ Similarity(user, w) = IF x <= 0 \/ l = 0 THEN 0 ELSE Clamped(Root((x * x) \div l))
  BY <1>12, <1>13, <1>14 DEF Similarity
<1> HIDE DEF x, l
<1>16. (k * x <= 0 <=> x <= 0) /\ ((k * k) * l = 0 <=> l = 0)
  BY <1>2, <1>12, <1>14
<1>17. ASSUME l # 0 PROVE ((k * x) * (k * x)) \div ((k * k) * l) = (x * x) \div l
  BY <1>2, <1>12, <1>14, <1>17, DivideScaled
<1> QED BY <1>15, <1>16, <1>17

--------------------------------------------------------------------------------
\* Rankings.

\* An order of a finite set leaves nothing out.
LEMMA OrdersComplete ==
    ASSUME NEW S, IsFiniteSet(S), NEW o \in Orders(S)
    PROVE  /\ Cardinality(S) \in Nat /\ DOMAIN o = 1..Cardinality(S)
           /\ {o[i] : i \in DOMAIN o} = S
<1> DEFINE n == Cardinality(S)
<1>1. n \in Nat
  BY FS_CardinalityType
<1>2. o \in [1..n -> S] /\ \A i, j \in 1..n : o[i] = o[j] => i = j
  BY DEF Orders
<1>3. IsFiniteSet(1..n) /\ Cardinality(1..n) = n
  <2>1. Cardinality(1..n) = IF 1 > n THEN 0 ELSE n - 1 + 1
    BY <1>1, FS_Interval
  <2> HIDE DEF n
  <2> QED BY <1>1, <2>1, FS_Interval
<1>4. o \in Injection(1..n, S)
  BY <1>2 DEF Injection, IsInjective
<1>5. o \in Surjection(1..n, S)
  BY <1>3, <1>4, FS_Injection
<1>6. \A x \in S : \E i \in 1..n : o[i] = x
  BY <1>5 DEF Surjection
<1> QED BY <1>1, <1>2, <1>6

\* What RankingSound says of a ranking.
SoundFor(user, vectors, ranked) ==
    /\ {ranked[i].career : i \in DOMAIN ranked} = Candidates(vectors)
    /\ Len(ranked) = Cardinality(Candidates(vectors))
    /\ \A i, j \in DOMAIN ranked :
           LET u == vectors[ranked[i].career]
               v == vectors[ranked[j].career]
           IN  /\ Measurable(user, u) /\ ~Related(user, v) => i < j
               /\ Heavier(u, v) => ranked[i].fit = ranked[j].fit

LEMMA RankingsSound ==
    ASSUME NEW user, UserVector(user), NEW vectors \in [Careers -> CareerVectors],
           NEW r \in Rankings(user, vectors)
    PROVE  SoundFor(user, vectors, r)
<1> DEFINE C == Candidates(vectors)
           fit == [c \in C |-> Similarity(user, vectors[c])]
           n == Cardinality(C)
<1>1. C \in SUBSET Careers /\ IsFiniteSet(C)
  <2>1. C \in SUBSET Careers
    BY DEF Candidates
  <2>2. IsFiniteSet(Careers)
    BY RowsFinite
  <2> QED BY <2>1, <2>2, FS_Subset
<1>2. PICK s \in Orders(C) :
          /\ Descending(fit, s)
          /\ r = [i \in DOMAIN s |->
                     [career |-> s[i], fit |-> fit[s[i]],
                      confidence |-> Confidence(user, vectors[s[i]], [k \in DOMAIN s |-> fit[s[k]]])]]
  BY DEF Rankings
<1>3. n \in Nat /\ DOMAIN s = 1..n /\ {s[i] : i \in DOMAIN s} = C
  BY <1>1, OrdersComplete
<1> HIDE DEF C, fit
<1>4. /\ DOMAIN r = 1..n
      /\ \A i \in 1..n : r[i].career = s[i] /\ r[i].fit = fit[s[i]] /\ s[i] \in C
  BY <1>2, <1>3
<1>5. {r[i].career : i \in DOMAIN r} = C
  BY <1>3, <1>4
<1>6. Len(r) = n
  <2> HIDE DEF n
  <2> QED BY <1>3, <1>4
<1>7. \A c \in C : fit[c] = Similarity(user, vectors[c]) /\ vectors[c] \in CareerVectors
  BY <1>1 DEF fit
<1>8. ASSUME NEW i \in DOMAIN r, NEW j \in DOMAIN r,
             Measurable(user, vectors[r[i].career]), ~Related(user, vectors[r[j].career])
      PROVE  i < j
  <2>1. /\ s[i] \in C /\ s[j] \in C /\ r[i].career = s[i] /\ r[j].career = s[j]
        /\ i \in Nat /\ j \in Nat /\ i \in DOMAIN s /\ j \in DOMAIN s
    BY <1>3, <1>4
  <2>2. fit[s[i]] >= 1 /\ fit[s[j]] = 0 /\ fit[s[i]] \in Int
    BY <1>7, <1>8, <2>1, SimilarityMeasures
  <2>3. ~(j < i)
    BY <1>2, <2>1, <2>2 DEF Descending
  <2>4. i # j
    BY <2>2
  <2> QED BY <2>1, <2>3, <2>4
<1>9. ASSUME NEW i \in DOMAIN r, NEW j \in DOMAIN r,
             Heavier(vectors[r[i].career], vectors[r[j].career])
      PROVE  r[i].fit = r[j].fit
  <2>1. s[i] \in C /\ s[j] \in C /\ r[i].career = s[i] /\ r[j].career = s[j]
        /\ r[i].fit = fit[s[i]] /\ r[j].fit = fit[s[j]]
    BY <1>3, <1>4
  <2> QED BY <1>7, <1>9, <2>1, HeavierIsNoCloser
<1> QED BY <1>5, <1>6, <1>8, <1>9 DEF SoundFor, C

\* Evidence that can be merged: a finite set of it, each of some trust.
Mergeable(evidence) ==
    /\ IsFiniteSet(evidence)
    /\ \A e \in evidence : e.signal \in Int /\ e.weight \in Int /\ e.trust \in 1..10

LEMMA MergedIsVector ==
    ASSUME NEW evidence, Mergeable(evidence)
    PROVE  UserVector(Aggregate(evidence))
<1> DEFINE tags == {e.tag : e \in evidence}
           user == Aggregate(evidence)
<1>1. DOMAIN user = tags
  BY DEF Aggregate
<1>2. IsFiniteSet(tags)
  <2> DEFINE f == [e \in evidence |-> e.tag]
  <2>1. tags = {f[e] : e \in evidence}
    OBVIOUS
  <2>2. IsFiniteSet({f[e] : e \in evidence})
    <3> HIDE DEF f
    <3> QED BY ImageFinite DEF Mergeable
  <2> QED BY <2>1, <2>2
<1>3. ASSUME NEW t \in tags PROVE user[t].affinity \in Int
  <2> DEFINE items == {e \in evidence : e.tag = t}
             num == [e \in items |-> Effective(e) * e.trust]
             den == [e \in items |-> e.trust]
  <2>1. user[t].affinity = SumFunctionOnSet(num, items) \div SumFunctionOnSet(den, items)
    BY DEF Aggregate, Aggregated, SumFunction
  <2>2. items # {} /\ items \in SUBSET evidence /\ IsFiniteSet(items)
    <3>1. items # {} /\ items \in SUBSET evidence
      OBVIOUS
    <3> QED BY <3>1, FS_Subset DEF Mergeable
  <2>3. \A e \in items : e.trust \in Nat /\ e.trust >= 1 /\ Effective(e) \in Int
    <3>1. \A e \in items : e.signal \in Int /\ e.weight \in Int /\ e.trust \in 1..10
      BY DEF Mergeable
    <3>2. \A x, y \in Int : Clamped((x * y) \div Scale) \in Int
      BY ScaleAssumption DEF Clamped, Least
    <3> QED BY <3>1, <3>2 DEF Effective
  <2>4. (\A e \in items : num[e] \in Int) /\ (\A e \in items : den[e] \in Nat /\ den[e] >= 1)
    BY <2>3
  <2> HIDE DEF items, num, den
  <2>5. SumFunctionOnSet(num, items) \in Int /\ SumFunctionOnSet(den, items) \in Nat
        /\ \A e \in items : den[e] <= SumFunctionOnSet(den, items)
    BY <2>2, <2>4, SumRemove, SumNat
  <2>6. SumFunctionOnSet(den, items) >= 1
    BY <2>2, <2>4, <2>5
  <2> QED BY <2>1, <2>5, <2>6
<1> QED BY <1>1, <1>2, <1>3 DEF UserVector

\* A finite family of finite sets has a finite union.
LEMMA FamilyFinite ==
    ASSUME NEW I, IsFiniteSet(I), NEW G, \A i \in I : IsFiniteSet(G[i])
    PROVE  IsFiniteSet(UNION {G[i] : i \in I})
<1>1. IsFiniteSet({G[i] : i \in I})
  BY ImageFinite
<1> QED BY <1>1, FS_UNION

CouplingsInv == IsFiniteSet(couplings) /\ \A c \in couplings : c.strength \in 0..Scale

LEMMA SubjectsMerge == TypeOK => Mergeable(SubjectEvidence(title, name, grade))
<1> SUFFICES ASSUME TypeOK PROVE Mergeable(SubjectEvidence(title, name, grade))
  OBVIOUS
<1> DEFINE D == {s \in DOMAIN name : grade[s] # 0}
           From(s, t) == [tag |-> t, signal |-> grade[s], trust |-> 10, weight |-> Scale, source |-> s]
           Titled(s) == {t \in DOMAIN title : title[t] = name[s]}
           G == [s \in D |-> {From(s, t) : t \in Titled(s)}]
<1>1. /\ DOMAIN title = Tags /\ DOMAIN name = Subjects /\ grade \in [Subjects -> Grades]
      /\ IsFiniteSet(Tags) /\ IsFiniteSet(Subjects)
  BY RowsFinite DEF TypeOK, GraphTypeOK
<1>2. IsFiniteSet(D)
  <2>1. D \in SUBSET Subjects
    BY <1>1
  <2> QED BY <1>1, <2>1, FS_Subset
<1>3. SubjectEvidence(title, name, grade) = UNION {G[s] : s \in D}
  <2>1. SubjectEvidence(title, name, grade) = UNION {{From(s, t) : t \in Titled(s)} : s \in D}
    BY Zenon DEF SubjectEvidence
  <2>2. \A s \in D : G[s] = {From(s, t) : t \in Titled(s)}
    BY Zenon
  <2> HIDE DEF G, From, Titled, D
  <2>3. {G[s] : s \in D} = {{From(s, t) : t \in Titled(s)} : s \in D}
    BY <2>2
  <2> QED BY <2>1, <2>3
<1>4. ASSUME NEW s \in D
      PROVE  /\ IsFiniteSet(G[s])
             /\ \A e \in G[s] : e.signal \in Int /\ e.weight \in Int /\ e.trust \in 1..10
  <2> DEFINE f == [t \in Titled(s) |-> From(s, t)]
  <2>1. IsFiniteSet(Titled(s))
    <3>1. Titled(s) \in SUBSET Tags
      BY <1>1
    <3> QED BY <1>1, <3>1, FS_Subset
  <2>2. G[s] = {f[t] : t \in Titled(s)}
    OBVIOUS
  <2>3. IsFiniteSet({f[t] : t \in Titled(s)})
    <3> HIDE DEF f, Titled
    <3> QED BY <2>1, ImageFinite
  <2>4. grade[s] \in Int /\ Scale \in Int
    <3>1. s \in Subjects
      BY <1>1
    <3>2. grade[s] \in Grades
      BY <3>1 DEF TypeOK
    <3>3. Grades \subseteq Int /\ Scale \in Int
      BY ScoresAssumption, ScaleAssumption
    <3> QED BY <3>2, <3>3
  <2>5. \A e \in G[s] : e.signal \in Int /\ e.weight \in Int /\ e.trust \in 1..10
    BY <2>4
  <2> QED BY <2>2, <2>3, <2>5
<1> HIDE DEF G, D
<1>5. IsFiniteSet(UNION {G[s] : s \in D})
  BY <1>2, <1>4, FamilyFinite
<1>6. \A e \in UNION {G[s] : s \in D} : e.signal \in Int /\ e.weight \in Int /\ e.trust \in 1..10
  BY <1>4
<1> QED BY <1>3, <1>5, <1>6 DEF Mergeable

LEMMA AttemptsMerge ==
    ASSUME EvidenceInv, CouplingsInv, NEW chosen \in SUBSET DOMAIN attempts
    PROVE  Mergeable(AssessmentEvidence(couplings, attempts, chosen))
<1> DEFINE From(i, c) == [tag |-> c.tag, signal |-> attempts[i].percentage,
                          trust |-> IF c.primary THEN 9 ELSE 7,
                          weight |-> IF c.strength = 0 THEN Scale ELSE c.strength, source |-> i]
           Measuring(i) == {c \in couplings : c.questionnaire = attempts[i].questionnaire}
           G == [i \in chosen |-> {From(i, c) : c \in Measuring(i)}]
<1>1. /\ DOMAIN attempts = 1..Len(attempts) /\ Len(attempts) \in Nat
      /\ \A i \in DOMAIN attempts : attempts[i].percentage \in Int
  <2> DEFINE R == [questionnaire : Questionnaires, percentage : Percentages, completed : 0..MaxAttempts]
  <2>1. attempts \in Seq(R) /\ \A x \in R : x.percentage \in Int
    BY ScoresAssumption DEF EvidenceInv
  <2> HIDE DEF R
  <2> QED BY <2>1
<1>2. IsFiniteSet(chosen)
  <2>1. IsFiniteSet(1..Len(attempts))
    BY <1>1, FS_Interval
  <2> QED BY <1>1, <2>1, FS_Subset
<1>3. AssessmentEvidence(couplings, attempts, chosen) = UNION {G[i] : i \in chosen}
  BY DEF AssessmentEvidence
<1>4. ASSUME NEW i \in chosen
      PROVE  /\ IsFiniteSet(G[i])
             /\ \A e \in G[i] : e.signal \in Int /\ e.weight \in Int /\ e.trust \in 1..10
  <2> DEFINE f == [c \in Measuring(i) |-> From(i, c)]
  <2>1. IsFiniteSet(Measuring(i))
    <3>1. Measuring(i) \in SUBSET couplings
      OBVIOUS
    <3> QED BY <3>1, FS_Subset DEF CouplingsInv
  <2>2. G[i] = {f[c] : c \in Measuring(i)}
    OBVIOUS
  <2>3. IsFiniteSet({f[c] : c \in Measuring(i)})
    <3> HIDE DEF f, Measuring
    <3> QED BY <2>1, ImageFinite
  <2>4. attempts[i].percentage \in Int /\ Scale \in Int /\ \A c \in couplings : c.strength \in Int
    BY <1>1, ScaleAssumption DEF CouplingsInv
  <2>5. \A e \in G[i] : e.signal \in Int /\ e.weight \in Int /\ e.trust \in 1..10
    BY <2>4
  <2> QED BY <2>2, <2>3, <2>5
<1> HIDE DEF G
<1>5. IsFiniteSet(UNION {G[i] : i \in chosen})
  BY <1>2, <1>4, FamilyFinite
<1>6. \A e \in UNION {G[i] : i \in chosen} : e.signal \in Int /\ e.weight \in Int /\ e.trust \in 1..10
  BY <1>4
<1> QED BY <1>3, <1>5, <1>6 DEF Mergeable

--------------------------------------------------------------------------------
\* A worker has a merged user vector from the moment it has collected, a career
\* table once it has read one, and a ranking of these two and no other.
Tables == [Careers -> CareerVectors]
RunInv(w) ==
    /\ job[w].pc \in {"fetch", "fill", "rank", "persist"} => UserVector(job[w].user)
    /\ job[w].pc \in {"fill", "rank", "persist"} => job[w].vectors \in Tables
    /\ job[w].pc = "persist" => job[w].ranked \in Rankings(job[w].user, job[w].vectors)
RankInv ==
    /\ CouplingsInv
    /\ \A p \in Processes : cached[p] # NoVectors => cached[p].vectors \in Tables
    /\ \A w \in Workers : RunInv(w)

LEMMA InitRank == Init => RankInv
<1> SUFFICES ASSUME Init PROVE RankInv
  OBVIOUS
<1> DEFINE R == [questionnaire : Questionnaires, tag : Tags, strength : 0..Scale, primary : BOOLEAN]
           Z == (Questionnaires \X Tags) \X ((0..Scale) \X BOOLEAN)
           f == [z \in Z |-> [questionnaire |-> z[1][1], tag |-> z[1][2],
                              strength |-> z[2][1], primary |-> z[2][2]]]
<1>1. couplings \subseteq R /\ \A c \in R : c.strength \in 0..Scale
  BY DEF Init
<1>2. IsFiniteSet(Z)
  <2>1. IsFiniteSet(Questionnaires \X Tags)
    BY RowsFinite, FS_Product
  <2>2. IsFiniteSet(0..Scale) /\ IsFiniteSet(BOOLEAN)
    <3>1. BOOLEAN = {TRUE} \cup {FALSE}
      OBVIOUS
    <3>2. IsFiniteSet({TRUE} \cup {FALSE})
      BY FS_Singleton, FS_AddElement
    <3>3. IsFiniteSet(0..Scale)
      BY FS_Interval, ScaleAssumption
    <3> QED BY <3>1, <3>2, <3>3
  <2>3. IsFiniteSet((0..Scale) \X BOOLEAN)
    BY <2>2, FS_Product
  <2> QED BY <2>1, <2>3, FS_Product
<1>3. R \subseteq {f[z] : z \in Z}
  <2> SUFFICES ASSUME NEW c \in R PROVE \E z \in Z : f[z] = c
    OBVIOUS
  <2> DEFINE z == <<<<c.questionnaire, c.tag>>, <<c.strength, c.primary>>>>
  <2>1. z \in Z
    OBVIOUS
  <2>2. f[z] = c
    OBVIOUS
  <2> QED BY <2>1, <2>2
<1> HIDE DEF R, Z, f
<1>4. IsFiniteSet({f[z] : z \in Z})
  BY <1>2, ImageFinite
<1>5. IsFiniteSet(couplings)
  <2>1. couplings \in SUBSET {f[z] : z \in Z}
    BY <1>1, <1>3
  <2> QED BY <1>4, <2>1, FS_Subset
<1> QED BY <1>1, <1>5 DEF Init, Idle, RankInv, CouplingsInv, RunInv

\* Steps of others leave a run alone, and change its cache at most by clearing it.
LEMMA RankKept ==
    ASSUME RankInv, UNCHANGED job, couplings' \in SUBSET couplings,
           \A p \in Processes : cached'[p] \in {cached[p], NoVectors}
    PROVE  RankInv'
<1>1. CouplingsInv'
  BY FS_Subset DEF RankInv, CouplingsInv
<1>2. \A w \in Workers : RunInv(w)'
  BY DEF RankInv, RunInv
<1> QED BY <1>1, <1>2 DEF RankInv

LEMMA RunRank ==
    ASSUME TypeOK, EvidenceInv, RankInv, NEW w \in Workers, Run(w)
    PROVE  RankInv'
<1>1. CouplingsInv' /\ w \in Processes /\ DOMAIN job = Workers /\ DOMAIN cached = Processes
  BY DEF Run, profileVars, RankInv, CouplingsInv, TypeOK, Processes
<1>2. links \in Tables
  BY DEF TypeOK, Tables, CareerVectors
<1>3. ASSUME NEW j, Set(w, j)
      PROVE  job'[w] = j /\ \A v \in Workers \ {w} : RunInv(v)'
  BY <1>1, <1>3 DEF Set, RankInv, RunInv
<1>4. ASSUME \A v \in Workers : RunInv(v)', \A p \in Processes : cached'[p] # NoVectors => cached'[p].vectors \in Tables
      PROVE  RankInv'
  BY <1>1, <1>4 DEF RankInv, Processes
<1>5. CASE Collect(w)
  <2>1. CASE tested
    BY <1>5, <2>1, RankKept DEF Collect, Run, profileVars
  <2>2. CASE ~tested
    <3>1. PICK chosen \in LatestAttempts(attempts) :
              LET evidence == SubjectEvidence(title, name, grade)
                                  \cup AssessmentEvidence(couplings, attempts, chosen)
              IN  Set(w, [pc |-> "fetch", evidence |-> evidence, user |-> Aggregate(evidence)])
      BY <1>5, <2>2 DEF Collect
    <3> DEFINE evidence == SubjectEvidence(title, name, grade)
                               \cup AssessmentEvidence(couplings, attempts, chosen)
    <3>2. Mergeable(evidence)
      <4>1. chosen \in SUBSET DOMAIN attempts
        BY DEF LatestAttempts
      <4>2. Mergeable(AssessmentEvidence(couplings, attempts, chosen))
        BY <4>1, AttemptsMerge DEF RankInv
      <4> QED BY <4>2, SubjectsMerge, FS_Union DEF Mergeable
    <3> HIDE DEF evidence
    <3>3. UserVector(Aggregate(evidence))
      BY <3>2, MergedIsVector
    <3>4. /\ job'[w] = [pc |-> "fetch", evidence |-> evidence, user |-> Aggregate(evidence)]
          /\ \A v \in Workers \ {w} : RunInv(v)'
      BY <1>3, <3>1 DEF evidence
    <3>5. RunInv(w)'
      BY <3>3, <3>4 DEF RunInv
    <3>6. UNCHANGED cached
      BY <1>5 DEF Collect
    <3> QED BY <1>4, <3>4, <3>5, <3>6 DEF RankInv
  <2> QED BY <2>1, <2>2
<1>6. CASE FetchCached(w)
  <2>1. /\ job[w].pc = "fetch" /\ UNCHANGED cached /\ cached[w] # NoVectors
        /\ Set(w, [pc |-> "rank", user |-> job[w].user, vectors |-> cached[w].vectors, at |-> now])
    BY <1>6 DEF FetchCached, Valid
  <2>2. UserVector(job[w].user) /\ cached[w].vectors \in Tables
    BY <1>1, <2>1 DEF RankInv, RunInv
  <2>3. RunInv(w)'
    BY <1>3, <2>1, <2>2 DEF RunInv
  <2> QED BY <1>3, <1>4, <2>1, <2>3 DEF RankInv
<1>7. CASE Query(w)
  <2>1. /\ job[w].pc = "fetch" /\ UNCHANGED cached
        /\ \/ Set(w, [pc |-> "fill", user |-> job[w].user, vectors |-> links])
           \/ Set(w, Idle)
    BY <1>7 DEF Query
  <2>2. UserVector(job[w].user)
    BY <2>1 DEF RankInv, RunInv
  <2>3. RunInv(w)'
    BY <1>2, <1>3, <2>1, <2>2 DEF RunInv, Idle
  <2> QED BY <1>3, <1>4, <2>1, <2>3 DEF RankInv
<1>8. CASE Fill(w)
  <2>1. /\ job[w].pc = "fill"
        /\ cached' = [cached EXCEPT ![w] = [vectors |-> job[w].vectors, until |-> now + TTL]]
        /\ Set(w, [pc |-> "rank", user |-> job[w].user, vectors |-> job[w].vectors, at |-> now])
    BY <1>8 DEF Fill
  <2>2. UserVector(job[w].user) /\ job[w].vectors \in Tables
    BY <2>1 DEF RankInv, RunInv
  <2>3. RunInv(w)'
    BY <1>3, <2>1, <2>2 DEF RunInv
  <2>4. \A p \in Processes : cached'[p] # NoVectors => cached'[p].vectors \in Tables
    BY <1>1, <2>1, <2>2 DEF RankInv
  <2> QED BY <1>3, <1>4, <2>1, <2>3, <2>4
<1>9. CASE Rank(w)
  <2>1. PICK r \in Rankings(job[w].user, job[w].vectors) :
            Set(w, [pc |-> "persist", user |-> job[w].user, vectors |-> job[w].vectors,
                    at |-> job[w].at, ranked |-> r])
    BY <1>9 DEF Rank
  <2>2. job[w].pc = "rank" /\ UNCHANGED cached
    BY <1>9 DEF Rank
  <2>3. UserVector(job[w].user) /\ job[w].vectors \in Tables
    BY <2>2 DEF RankInv, RunInv
  <2>4. RunInv(w)'
    BY <1>3, <2>1, <2>3 DEF RunInv
  <2> QED BY <1>3, <1>4, <2>1, <2>2, <2>4 DEF RankInv
<1>10. CASE Persist(w)
  <2>1. Set(w, Idle) /\ (cached' = cached \/ cached' = [cached EXCEPT ![w] = Entry])
    BY <1>10 DEF Persist
  <2>2. RunInv(w)'
    BY <1>3, <2>1 DEF RunInv, Idle
  <2>3. \A p \in Processes : cached'[p] # NoVectors => cached'[p].vectors \in Tables
    BY <1>1, <1>2, <2>1 DEF RankInv, Entry
  <2> QED BY <1>3, <1>4, <2>1, <2>2, <2>3
<1> QED BY <1>5, <1>6, <1>7, <1>8, <1>9, <1>10 DEF Run

LEMMA NextRank == TypeOK /\ EvidenceInv /\ RankInv /\ [Next]_vars => RankInv'
<1> SUFFICES ASSUME TypeOK, EvidenceInv, RankInv, [Next]_vars PROVE RankInv'
  OBVIOUS
<1>0. DOMAIN cached = Processes
  BY DEF TypeOK
<1>a. UNCHANGED <<job, cached, couplings>> => RankInv'
  BY RankKept
<1>1. ASSUME NEW a \in Admins, Relate(a), UNCHANGED <<profileVars, runVars, linkVars>> PROVE RankInv'
  BY <1>1, <1>a DEF profileVars, runVars
<1>2. CASE EditProfile
  <2>1. UNCHANGED couplings
    BY <1>2 DEF EditProfile, Grade, Attempt, CompleteTest, RenameSubject
  <2> QED BY <1>2, <1>a, <2>1 DEF EditProfile, runVars
<1>3. ASSUME NEW p \in Editors, NEW c \in Careers, NEW t \in Tags,
             NEW x \in Weights \cup {NoLink}, SetLink(p, c, t, x)
      PROVE  RankInv'
  <2>1. UNCHANGED <<job, couplings>> /\ cached' = [cached EXCEPT ![p] = NoVectors]
    BY <1>3 DEF SetLink, profileVars
  <2>2. \A q \in Processes : cached'[q] \in {cached[q], NoVectors}
    BY <1>0, <2>1
  <2> QED BY <2>1, <2>2, RankKept
<1>4. ASSUME NEW p \in Editors, NEW t \in Tags, EditTag(p, t) PROVE RankInv'
  <2>1. UNCHANGED job
    BY <1>4 DEF EditTag
  <2>2. couplings' \in SUBSET couplings
    BY <1>4 DEF EditTag
  <2>3. cached' = cached \/ cached' = [cached EXCEPT ![p] = NoVectors]
    BY <1>4 DEF EditTag
  <2>4. \A q \in Processes : cached'[q] \in {cached[q], NoVectors}
    BY <1>0, <2>3
  <2> QED BY <2>1, <2>2, <2>4, RankKept
<1>5. CASE Tick
  BY <1>5, <1>a DEF Tick, profileVars, runVars
<1>6. ASSUME NEW w \in Workers, Run(w) PROVE RankInv'
  BY <1>6, RunRank
<1>7. CASE UNCHANGED vars
  BY <1>7, <1>a DEF vars, profileVars, runVars
<1> QED BY <1>1, <1>2, <1>3, <1>4, <1>5, <1>6, <1>7 DEF Next

\* Every ranking a run is about to save is complete and without repetition,
\* puts careers the user has nothing for last and ignores how heavy a career's
\* weights are, for any tags, weights, careers and evidence.  That the
\* similarity never exceeds one is the inequality of Cauchy and Schwarz.
THEOREM RankingsAlwaysSound == Spec => []RankingSound
<1>1. RankInv => RankingSound
  <2> SUFFICES ASSUME RankInv, NEW w \in Workers, job[w].pc = "persist"
               PROVE  SoundFor(job[w].user, job[w].vectors, job[w].ranked)
    BY DEF RankingSound, SoundFor
  <2>1. /\ UserVector(job[w].user) /\ job[w].vectors \in [Careers -> CareerVectors]
        /\ job[w].ranked \in Rankings(job[w].user, job[w].vectors)
    BY DEF RankInv, RunInv, Tables
  <2> QED BY <2>1, RankingsSound
<1> QED BY <1>1, TypesHold, InitEvidence, NextEvidence, InitRank, NextRank, PTL DEF Spec
================================================================================
