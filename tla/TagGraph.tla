------------------------------- MODULE TagGraph -------------------------------
(***************************************************************************)
(* The tags and their relationships (core/models.py), and the receiver     *)
(* that mirrors a symmetric relationship (core/signals.py).                *)
(*                                                                         *)
(* A relationship is saved in one transaction of the admin site: its own   *)
(* row, and in the same transaction, if it is symmetric, the row of the    *)
(* opposite direction, created or brought to the same strength.            *)
(* PostgreSQL, READ COMMITTED: a query sees committed rows, a write waits  *)
(* for the transaction that wrote the row, and an UPDATE that finds its    *)
(* row gone after the wait changes nothing.  Two requests that wait for    *)
(* each other are a deadlock, which the database ends by aborting one.     *)
(*                                                                         *)
(* The type of a relationship is part of its key, and rows of different    *)
(* types never meet, so one type stands for all of them.                   *)
(***************************************************************************)
EXTENDS Integers

CONSTANTS
    Tags,         \* rows the tag table can have
    Titles,       \* their titles; slugify keeps these apart
    NoTitle,      \* the title of a tag that is not there
    Strengths,    \* the strengths an administrator enters
    Admins,       \* concurrent requests about relationships
    NoRow,        \* a relationship that is not there
    MaxRequests   \* bound: requests and jobs that start

ASSUME RowsAssumption == NoTitle \notin Titles
    /\ \A s \in Strengths, b \in BOOLEAN : NoRow # [strength |-> s, symmetric |-> b]

VARIABLES
    title,      \* title[t] of a tag, or NoTitle
    rel,        \* rel[p]: the committed row of the pair p = <<from, to>>
    pc,         \* pc[a]: where request a is
    pair,       \* pair[a]: the row it saves or deletes
    value,      \* value[a]: what it writes there
    held,       \* held[a]: rows it has written and so keeps locked
    requests,   \* requests and jobs started so far
    overtaken   \* a row was deleted under an open save of its opposite (history)

graphVars == <<title, rel, pc, pair, value, held, requests, overtaken>>

Pairs == {p \in Tags \X Tags : p[1] # p[2]}
Opposite(p) == <<p[2], p[1]>>
Rows == [strength : Strengths, symmetric : BOOLEAN]

Exists(t) == title[t] # NoTitle
Taken(n) == \E t \in Tags : title[t] = n
Open(a) == pc[a] # "idle"
LockedByOthers(a, p) == \E b \in Admins \ {a} : p \in held[b]
MayStart == requests < MaxRequests

Agree(r, s) == (r # NoRow /\ s # NoRow /\ r.symmetric /\ s.symmetric) => r.strength = s.strength
--------------------------------------------------------------------------------
GraphInit ==
    /\ title \in [Tags -> Titles \cup {NoTitle}]
    /\ \A t, u \in Tags : title[t] = title[u] => t = u \/ ~Exists(t)
    /\ rel \in [Pairs -> Rows \cup {NoRow}]
    /\ \A p \in Pairs : rel[p] # NoRow => Exists(p[1]) /\ Exists(p[2])
    /\ \A p \in Pairs : Agree(rel[p], rel[Opposite(p)])
    /\ pc = [a \in Admins |-> "idle"]
    /\ pair = [a \in Admins |-> NoRow]
    /\ value = [a \in Admins |-> NoRow]
    /\ held = [a \in Admins |-> {}]
    /\ requests = 0
    /\ overtaken = FALSE

\* TagForm and TagAdmin create a tag; its slug is made of the title and unique,
\* so a second tag of that title is refused by the database.
AddTag(t, n) ==
    /\ ~Exists(t) /\ ~Taken(n)
    /\ title' = [title EXCEPT ![t] = n]
    /\ UNCHANGED <<rel, pc, pair, value, held, overtaken>>

\* Tag.save: a new title is a new slug as well.
RenameTag(t, n) ==
    /\ Exists(t) /\ ~Taken(n)
    /\ title' = [title EXCEPT ![t] = n]
    /\ UNCHANGED <<rel, pc, pair, value, held, overtaken>>

\* Deleting a tag takes its relationships with it.  It waits for the saves that
\* refer to the tag.
DeleteTag(t) ==
    /\ Exists(t)
    /\ \A a \in Admins : Open(a) => t \notin {pair[a][1], pair[a][2]}
    /\ title' = [title EXCEPT ![t] = NoTitle]
    /\ rel' = [p \in Pairs |-> IF t \in {p[1], p[2]} THEN NoRow ELSE rel[p]]
    /\ UNCHANGED <<pc, pair, value, held, overtaken>>

--------------------------------------------------------------------------------
\* TagRelationship.save from the admin site: the row of p is written.
SaveRow(a, p, v) ==
    /\ ~Open(a) /\ MayStart
    /\ Exists(p[1]) /\ Exists(p[2]) /\ ~LockedByOthers(a, p)
    /\ pc' = [pc EXCEPT ![a] = IF v.symmetric THEN "signal" ELSE "commit"]
    /\ pair' = [pair EXCEPT ![a] = p]
    /\ value' = [value EXCEPT ![a] = v]
    /\ held' = [held EXCEPT ![a] = {p}]
    /\ requests' = requests + 1
    /\ UNCHANGED <<title, rel, overtaken>>

DeleteRow(a, p) ==
    /\ ~Open(a) /\ MayStart
    /\ rel[p] # NoRow /\ ~LockedByOthers(a, p)
    /\ pc' = [pc EXCEPT ![a] = "commit"]
    /\ pair' = [pair EXCEPT ![a] = p]
    /\ value' = [value EXCEPT ![a] = NoRow]
    /\ held' = [held EXCEPT ![a] = {p}]
    /\ requests' = requests + 1
    /\ UNCHANGED <<title, rel, overtaken>>

\* Mutant of Differs: the strength of a row that is there is left alone.
DiffersInFlag(row, v) == ~row.symmetric
\* A mirrored row is brought in line when its strength or its flag differs.
Differs(row, v) == row.strength # v.strength \/ ~row.symmetric

\* get_or_create looks for the row of the opposite direction.
FindOpposite(a) ==
    LET row == rel[Opposite(pair[a])]
    IN  /\ pc[a] = "signal"
        /\ pc' = [pc EXCEPT ![a] =
               IF row = NoRow THEN "create"
               ELSE IF Differs(row, value[a]) THEN "update" ELSE "commit"]
        /\ UNCHANGED <<title, rel, pair, value, held, requests, overtaken>>

\* It creates the row, or finds the one that was committed in between.
CreateOpposite(a) ==
    LET q == Opposite(pair[a])
    IN  /\ pc[a] = "create" /\ ~LockedByOthers(a, q)
        /\ IF rel[q] = NoRow
           THEN /\ held' = [held EXCEPT ![a] = @ \cup {q}]
                /\ pc' = [pc EXCEPT ![a] = "commit"]
           ELSE /\ pc' = [pc EXCEPT ![a] = "signal"]
                /\ UNCHANGED held
        /\ UNCHANGED <<title, rel, pair, value, requests, overtaken>>

\* filter(pk=...).update(...): nothing happens when the row has gone.
UpdateOpposite(a) ==
    LET q == Opposite(pair[a])
    IN  /\ pc[a] = "update" /\ ~LockedByOthers(a, q)
        /\ held' = [held EXCEPT ![a] = IF rel[q] = NoRow THEN @ ELSE @ \cup {q}]
        /\ pc' = [pc EXCEPT ![a] = "commit"]
        /\ UNCHANGED <<title, rel, pair, value, requests, overtaken>>

DeletesUnder(a, b) == Open(b) /\ value[a] = NoRow /\ pair[b] = Opposite(pair[a])

End(a) ==
    /\ pc' = [pc EXCEPT ![a] = "idle"]
    /\ pair' = [pair EXCEPT ![a] = NoRow]
    /\ value' = [value EXCEPT ![a] = NoRow]
    /\ held' = [held EXCEPT ![a] = {}]
    /\ UNCHANGED <<title, requests>>

Commit(a) ==
    /\ pc[a] = "commit"
    /\ rel' = [p \in Pairs |-> IF p \in held[a] THEN value[a] ELSE rel[p]]
    /\ overtaken' = (overtaken \/ \E b \in Admins : b # a /\ DeletesUnder(a, b))
    /\ End(a)

\* The transaction is undone: the connection is lost, or the database ends it
\* to break a deadlock.
Abort(a) ==
    /\ Open(a)
    /\ End(a)
    /\ UNCHANGED <<rel, overtaken>>

Relate(a) ==
    \/ \E p \in Pairs, v \in Rows : SaveRow(a, p, v)
    \/ \E p \in Pairs : DeleteRow(a, p)
    \/ FindOpposite(a) \/ CreateOpposite(a) \/ UpdateOpposite(a)
    \/ Commit(a) \/ Abort(a)

--------------------------------------------------------------------------------
GraphTypeOK ==
    /\ title \in [Tags -> Titles \cup {NoTitle}]
    /\ rel \in [Pairs -> Rows \cup {NoRow}]
    /\ pc \in [Admins -> {"idle", "signal", "create", "update", "commit"}]
    /\ pair \in [Admins -> Pairs \cup {NoRow}]
    /\ value \in [Admins -> Rows \cup {NoRow}]
    /\ held \in [Admins -> SUBSET Pairs]
    /\ requests \in Nat
    /\ overtaken \in BOOLEAN

\* The receiver keeps the two directions of a symmetric relationship in sync:
\* rows that both say they are symmetric have the same strength, however saves,
\* deletions and failures overlap.  The exception is a row deleted while its
\* opposite is being saved: the update of the save finds nothing, and a row
\* that is created again meanwhile is compared with a strength of the past.
PairsAgree == overtaken \/ \A p \in Pairs : Agree(rel[p], rel[Opposite(p)])
================================================================================
