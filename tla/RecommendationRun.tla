--------------------------- MODULE RecommendationRun ---------------------------
(***************************************************************************)
(* A profile's evidence, the career vectors and their cache, and the runs  *)
(* of the engine over them, beside the administration of the tags all of   *)
(* them refer to (TagGraph).                                               *)
(*                                                                         *)
(* The cache is Django's local-memory cache: one per process.  Celery's    *)
(* workers fill theirs; the receiver that clears a cache runs where the    *)
(* CareerTag row was saved, in a web process or a command.  What is left   *)
(* for the workers is the time to live.                                    *)
(*                                                                         *)
(* Reading the evidence and storing the user vector are one step here;     *)
(* GenerationJob has them apart, and the retries of a run that fails.      *)
(***************************************************************************)
EXTENDS TagGraph, RecommendationEngine

CONSTANTS
    Subjects, Questionnaires, Careers,
    Grades,        \* scores of the grades that are entered, 0 for none
    Percentages,   \* scores of the attempts, as fractions of Scale
    Weights,       \* recommendation weights of career tags
    Workers,       \* worker processes, one job each
    Editors,       \* processes in which administrators and commands run
    TTL,           \* ALL_CAREER_VECTORS_CACHE_TTL, in ticks
    Horizon,       \* bound: the last tick
    MaxAttempts,   \* bound: attempts
    NoVectors      \* a cache without an entry

ASSUME CacheAssumption == TTL \in Nat \ {0} /\ Horizon \in Nat
\* A piece of evidence names its source: a subject or the number of an attempt.
ASSUME SourcesAssumption == \A s \in Subjects : s \notin Nat
ASSUME ScoresAssumption == Grades \subseteq Int /\ Percentages \subseteq Int /\ Weights \subseteq Int
ASSUME RowsFinite == \A T \in {Tags, Subjects, Questionnaires, Careers} : IsFiniteSet(T)

VARIABLES
    name,          \* name[s] of a subject
    grade,         \* grade[s] in the profile, 0 when there is none
    attempts,      \* the scored attempts in the order they were saved
    couplings,     \* QuestionnaireTag rows
    tested,        \* a completed psychometric response exists
    links,         \* links[c][t]: the weight of the CareerTag row, or NoLink
    vector,        \* UserTagVector: the stored row of each tag that has one
    now,
    seen,          \* seen[k]: the CareerTag tables of tick k (history)
    cached,        \* cached[p]: [vectors, until] or NoVectors, per process
    job,           \* job[w]: the run of worker w
    latest,        \* the recommendation saved last, or NoVectors
    renamed,       \* a tag was renamed or deleted (history)
    clockwise      \* no attempt was saved with an earlier completed_at (history)

profileVars == <<name, grade, attempts, couplings, tested, renamed, clockwise>>
runVars == <<vector, cached, job, latest>>
linkVars == <<links, seen, now>>
vars == <<graphVars, profileVars, runVars, linkVars>>

Processes == Workers \cup Editors
Valid(p) == cached[p] # NoVectors /\ cached[p].until > now
Entry == [vectors |-> links, until |-> now + TTL]
AnyLink == \E c \in Careers : Linked(links[c]) # {}
Idle == [pc |-> "idle"]

--------------------------------------------------------------------------------
Init ==
    /\ GraphInit
    /\ name \in [Subjects -> Titles]
    /\ \A s \in Subjects : Taken(name[s])
    /\ grade \in [Subjects -> Grades]
    /\ attempts = <<>>
    /\ couplings \in SUBSET {c \in [questionnaire : Questionnaires, tag : Tags,
                                    strength : 0..Scale, primary : BOOLEAN] : Exists(c.tag)}
    /\ tested = FALSE
    /\ links \in [Careers -> [Tags -> Weights \cup {NoLink}]]
    /\ \A c \in Careers : \A t \in Linked(links[c]) : Exists(t)
    /\ vector = [t \in {} |-> 0]
    /\ now = 0
    /\ seen = [k \in 0..Horizon |-> IF k = 0 THEN {links} ELSE {}]
    /\ cached = [p \in Processes |-> NoVectors]
    /\ job = [w \in Workers |-> Idle]
    /\ latest = NoVectors
    /\ renamed = FALSE
    /\ clockwise = TRUE

Started == MayStart /\ requests' = requests + 1

--------------------------------------------------------------------------------
\* Grades, attempts and psychometric responses of the profile.
Grade(s, g) ==
    /\ Started
    /\ grade' = [grade EXCEPT ![s] = g]
    /\ UNCHANGED <<name, attempts, couplings, tested, renamed, clockwise>>

\* completed_at comes with the submission.
Attempt(q, p, completed) ==
    /\ Started
    /\ Len(attempts) < MaxAttempts
    /\ attempts' = Append(attempts,
                          [questionnaire |-> q, percentage |-> p, completed |-> completed])
    /\ clockwise' = (clockwise /\ \A i \in DOMAIN attempts : attempts[i].completed < completed)
    /\ UNCHANGED <<name, grade, couplings, tested, renamed>>

CompleteTest ==
    /\ Started
    /\ tested' = TRUE
    /\ UNCHANGED <<name, grade, attempts, couplings, renamed, clockwise>>

\* Subject.save: the tag titled like the subject is found or created.
RenameSubject(s, n) ==
    /\ Started
    /\ \A u \in Subjects \ {s} : name[u] # n
    /\ name' = [name EXCEPT ![s] = n]
    /\ IF Taken(n) THEN UNCHANGED title
       ELSE \E t \in Tags : ~Exists(t) /\ title' = [title EXCEPT ![t] = n]
    /\ UNCHANGED <<grade, attempts, couplings, tested, renamed, clockwise>>

EditProfile ==
    /\ \/ \E s \in Subjects, g \in Grades : Grade(s, g) /\ UNCHANGED title
       \/ \E q \in Questionnaires, p \in Percentages, k \in 0..MaxAttempts :
              Attempt(q, p, k) /\ UNCHANGED title
       \/ CompleteTest /\ UNCHANGED title
       \/ \E s \in Subjects, n \in Titles : RenameSubject(s, n)
    /\ UNCHANGED <<rel, pc, pair, value, held, overtaken, runVars, linkVars>>

--------------------------------------------------------------------------------
\* A CareerTag row is saved or deleted by process p, and on_career_tag_changed
\* clears the cache of that process.
SetLink(p, c, t, w) ==
    /\ Started
    /\ Exists(t) /\ links[c][t] # w
    /\ links' = [links EXCEPT ![c][t] = w]
    /\ seen' = [seen EXCEPT ![now] = @ \cup {links'}]
    /\ cached' = [cached EXCEPT ![p] = NoVectors]
    /\ UNCHANGED <<title, rel, pc, pair, value, held, overtaken>>
    /\ UNCHANGED <<profileVars, vector, job, latest, now>>

\* Tags are created, renamed and deleted; every row of a deleted tag goes too.
EditTag(p, t) ==
    /\ Started
    /\ \/ \E n \in Titles :
              /\ AddTag(t, n)
              /\ UNCHANGED <<couplings, links, vector, seen, cached, renamed>>
       \/ \E n \in Titles :
              /\ RenameTag(t, n)
              /\ renamed' = TRUE
              /\ UNCHANGED <<couplings, links, vector, seen, cached>>
       \/ /\ DeleteTag(t)
          /\ renamed' = TRUE
          /\ couplings' = {c \in couplings : c.tag # t}
          /\ links' = [c \in Careers |-> [links[c] EXCEPT ![t] = NoLink]]
          /\ vector' = [u \in DOMAIN vector \ {t} |-> vector[u]]
          /\ seen' = [seen EXCEPT ![now] = @ \cup {links'}]
          /\ cached' = IF links' = links THEN cached ELSE [cached EXCEPT ![p] = NoVectors]
    /\ UNCHANGED <<name, grade, attempts, tested, clockwise, job, latest, now>>

\* A worker fills its cache in less than a tick (hours).
Tick ==
    /\ now < Horizon
    /\ \A w \in Workers : job[w].pc # "fill"
    /\ now' = now + 1
    /\ seen' = [seen EXCEPT ![now + 1] = {links}]
    /\ UNCHANGED <<graphVars, profileVars, runVars, links>>

--------------------------------------------------------------------------------
Set(w, j) == job' = [job EXCEPT ![w] = j]

\* The engine reads all evidence, merges it and stores the rows of the tags it
\* has evidence for.  Rows of other tags stay.  Once a completed psychometric
\* response exists, its answers cannot be read and the run fails.
Collect(w) ==
    /\ job[w].pc = "idle" /\ Started
    /\ IF tested THEN UNCHANGED <<job, vector>>
       ELSE \E chosen \in LatestAttempts(attempts) :
                LET evidence == SubjectEvidence(title, name, grade)
                                    \cup AssessmentEvidence(couplings, attempts, chosen)
                    user == Aggregate(evidence)
                IN  /\ vector' = [t \in DOMAIN vector \cup DOMAIN user |->
                                      IF t \in DOMAIN user THEN user[t] ELSE vector[t]]
                    /\ Set(w, [pc |-> "fetch", evidence |-> evidence, user |-> user])
    /\ UNCHANGED <<cached, latest>>

\* Mutant of FetchCached: an entry is used whatever its age.
FetchCachedForever(w) ==
    /\ job[w].pc = "fetch" /\ cached[w] # NoVectors
    /\ Set(w, [pc |-> "rank", user |-> job[w].user, vectors |-> cached[w].vectors, at |-> now])
    /\ UNCHANGED <<vector, cached, latest, requests>>
\* get_all_career_tag_vectors: the entry of this process, if it has one.
FetchCached(w) ==
    /\ job[w].pc = "fetch" /\ Valid(w)
    /\ Set(w, [pc |-> "rank", user |-> job[w].user, vectors |-> cached[w].vectors, at |-> now])
    /\ UNCHANGED <<vector, cached, latest, requests>>

\* Otherwise the table; a table without rows is not cached and ends the run.
Query(w) ==
    /\ job[w].pc = "fetch" /\ ~Valid(w)
    /\ Set(w, IF AnyLink THEN [pc |-> "fill", user |-> job[w].user, vectors |-> links]
              ELSE Idle)
    /\ UNCHANGED <<vector, cached, latest, requests>>

Fill(w) ==
    /\ job[w].pc = "fill"
    /\ cached' = [cached EXCEPT ![w] = [vectors |-> job[w].vectors, until |-> now + TTL]]
    /\ Set(w, [pc |-> "rank", user |-> job[w].user, vectors |-> job[w].vectors, at |-> now])
    /\ UNCHANGED <<vector, latest, requests>>

Rank(w) ==
    /\ job[w].pc = "rank"
    /\ \E r \in Rankings(job[w].user, job[w].vectors) :
           Set(w, [pc |-> "persist", user |-> job[w].user, vectors |-> job[w].vectors,
                   at |-> job[w].at, ranked |-> r])
    /\ UNCHANGED <<vector, cached, latest, requests>>

\* persist_recommendation explains from the stored user vector and from the
\* career vectors as they are then, cached or not.
Persist(w) ==
    LET vectors == IF Valid(w) THEN cached[w].vectors ELSE links
    IN  /\ job[w].pc = "persist"
        /\ \E x \in Explanations(job[w].ranked, vector, vectors) :
               latest' = [ranked |-> job[w].ranked, explained |-> x]
        /\ cached' = IF Valid(w) \/ ~AnyLink THEN cached ELSE [cached EXCEPT ![w] = Entry]
        /\ Set(w, Idle)
        /\ UNCHANGED <<vector, requests>>

Run(w) ==
    /\ Collect(w) \/ FetchCached(w) \/ Query(w) \/ Fill(w) \/ Rank(w) \/ Persist(w)
    /\ UNCHANGED <<title, rel, pc, pair, value, held, overtaken, profileVars, linkVars>>

Next ==
    \/ \E a \in Admins : Relate(a) /\ UNCHANGED <<profileVars, runVars, linkVars>>
    \/ EditProfile
    \/ \E p \in Editors, c \in Careers, t \in Tags, w \in Weights \cup {NoLink} : SetLink(p, c, t, w)
    \/ \E p \in Editors, t \in Tags : EditTag(p, t)
    \/ Tick
    \/ \E w \in Workers : Run(w)

Spec == Init /\ [][Next]_vars

--------------------------------------------------------------------------------
TypeOK ==
    /\ GraphTypeOK
    /\ name \in [Subjects -> Titles]
    /\ grade \in [Subjects -> Grades]
    /\ links \in [Careers -> [Tags -> Weights \cup {NoLink}]]
    /\ now \in 0..Horizon
    /\ DOMAIN cached = Processes /\ DOMAIN job = Workers

Superseded(i) ==
    \E j \in DOMAIN attempts : j > i /\ attempts[j].questionnaire = attempts[i].questionnaire
Measured(q) == {c.tag : c \in {c \in couplings : c.questionnaire = q}}
TagsFrom(evidence, source) == {e.tag : e \in {e \in evidence : e.source = source}}
EvidenceOf(w) ==
    LET evidence == job'[w].evidence
    IN  /\ renamed \/ \A s \in Subjects : grade[s] = 0 <=> TagsFrom(evidence, s) = {}
        /\ clockwise => \A i \in DOMAIN attempts :
               TagsFrom(evidence, i) =
                   IF Superseded(i) THEN {} ELSE Measured(attempts[i].questionnaire)

\* The evidence of a run is the profile's: a grade of every subject that has
\* one, unless an administrator renamed or deleted a tag under it, and of every
\* questionnaire the attempt that was saved last and no other, unless the
\* clients' clocks say otherwise.
EvidenceCurrent ==
    [][\A w \in Workers : job[w].pc = "idle" /\ job'[w].pc = "fetch" => EvidenceOf(w)]_vars

\* The career vectors of a run are the table of some moment of the last TTL:
\* no process serves them longer, even though the receiver that clears the
\* cache on a change never reaches the workers' caches.
VectorsRecent ==
    \A w \in Workers : job[w].pc \in {"rank", "persist"} =>
        \E k \in 0..Horizon :
            job[w].at - TTL < k /\ k <= job[w].at /\ job[w].vectors \in seen[k]

Related(user, weights) == Dot(user, weights) > 0
\* The similarity does not disappear when it is rounded.
Measurable(user, weights) ==
    LET product == Scale * Dot(user, weights)
    IN  Related(user, weights) /\ product * product >= Lengths(user, weights)
Heavier(v, w) == Linked(v) = Linked(w) /\ \E k \in 2..Scale : \A t \in Linked(w) : v[t] = k * w[t]

\* A ranking lists every career that has tags once; a career none of whose
\* tags the user has an affinity for comes after every career whose similarity
\* is not rounded to nothing, and a career is not helped by heavier weights on
\* the same tags.
RankingSound ==
    \A w \in Workers : job[w].pc = "persist" =>
        LET user == job[w].user
            vectors == job[w].vectors
            ranked == job[w].ranked
        IN  /\ {ranked[i].career : i \in DOMAIN ranked} = Candidates(vectors)
            /\ Len(ranked) = Cardinality(Candidates(vectors))
            /\ \A i, j \in DOMAIN ranked :
                   LET u == vectors[ranked[i].career]
                       v == vectors[ranked[j].career]
                   IN  /\ Measurable(user, u) /\ ~Related(user, v) => i < j
                       /\ Heavier(u, v) => ranked[i].fit = ranked[j].fit
================================================================================
