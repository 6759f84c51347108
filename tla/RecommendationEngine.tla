------------------------- MODULE RecommendationEngine -------------------------
(***************************************************************************)
(* What engine v1 computes (careers/selectors/evidence.py and services/    *)
(* aggregation.py, scoring.py, explanation.py), without its state.         *)
(*                                                                         *)
(* Decimals between 0 and 1 are whole numbers between 0 and Scale, and a   *)
(* quotient or a root is rounded down.  A grade is the number GRADE_MAP or *)
(* the conversion to Decimal makes of it, 0 when it is unknown or blank.   *)
(* A user vector is a function of the tags it has a row for, a career      *)
(* vector gives every tag a weight or NoLink.                              *)
(***************************************************************************)
EXTENDS Integers, Sequences, FiniteSets, Functions

CONSTANTS
    Scale,        \* what 1.0 is
    NoLink,       \* the weight of a tag the career has no row for
    ExplainTop,   \* EXPLAIN_TOP_N: careers that are explained
    TagLimit      \* limit: tags an explanation lists

ASSUME ScaleAssumption == Scale \in Nat \ {0}

Least(a, b) == IF a < b THEN a ELSE b
Clamped(x) == Least(IF x < 0 THEN 0 ELSE x, Scale)
Root(n) == CHOOSE r \in 0..Scale * Scale : r * r <= n /\ n < (r + 1) * (r + 1)

--------------------------------------------------------------------------------
\* get_subject_evidence: a subject reaches its tag by the title.
SubjectEvidence(title, name, grade) ==
    UNION {{[tag |-> t, signal |-> grade[s], trust |-> 10, weight |-> Scale, source |-> s] :
               t \in {t \in DOMAIN title : title[t] = name[s]}} :
           s \in {s \in DOMAIN name : grade[s] # 0}}

\* The attempt numbers among which DISTINCT ON takes one per questionnaire:
\* those no other attempt at the questionnaire was completed after.
MostRecent(attempts, i) ==
    \A j \in DOMAIN attempts :
        attempts[j].questionnaire = attempts[i].questionnaire
            => attempts[j].completed <= attempts[i].completed
\* Mutant of LatestAttempts: any attempt at the questionnaire may be taken.
AnyAttempts(attempts) ==
    {S \in SUBSET DOMAIN attempts : \A i \in DOMAIN attempts :
        Cardinality({j \in S : attempts[j].questionnaire = attempts[i].questionnaire}) = 1}
LatestAttempts(attempts) ==
    {S \in SUBSET {i \in DOMAIN attempts : MostRecent(attempts, i)} :
        \A i \in DOMAIN attempts :
            Cardinality({j \in S : attempts[j].questionnaire = attempts[i].questionnaire}) = 1}

\* get_assessment_evidence: a coupling of 0 counts as 1 ("or 1.0").
AssessmentEvidence(couplings, attempts, chosen) ==
    UNION {{[tag |-> c.tag, signal |-> attempts[i].percentage,
             trust |-> IF c.primary THEN 9 ELSE 7,
             weight |-> IF c.strength = 0 THEN Scale ELSE c.strength, source |-> i] :
               c \in {c \in couplings : c.questionnaire = attempts[i].questionnaire}} :
           i \in chosen}

--------------------------------------------------------------------------------
\* aggregate_tag_evidence.
Effective(e) == Clamped((e.signal * e.weight) \div Scale)

Agreement(items) ==
    LET n == Cardinality(items)
        spread == n * SumFunction([e \in items |-> Effective(e) * Effective(e)])
                    - SumFunction([e \in items |-> Effective(e)]) * SumFunction([e \in items |-> Effective(e)])
    IN  IF n = 1 THEN (3 * Scale) \div 4
        ELSE Clamped(Scale - Least((12 * spread) \div (5 * n * n * Scale), (3 * Scale) \div 5))

Volume(items) == (Scale * Least(Cardinality(items), 5)) \div 5

Aggregated(items) ==
    [affinity |-> SumFunction([e \in items |-> Effective(e) * e.trust])
                      \div SumFunction([e \in items |-> e.trust]),
     confidence |-> Clamped((Agreement(items) * Volume(items)) \div Scale),
     count |-> Cardinality(items)]

Aggregate(evidence) ==
    [t \in {e.tag : e \in evidence} |-> Aggregated({e \in evidence : e.tag = t})]

--------------------------------------------------------------------------------
\* weighted_cosine_similarity: tags only one side has add nothing.
Linked(weights) == {t \in DOMAIN weights : weights[t] # NoLink}
Shared(user, weights) == DOMAIN user \cap Linked(weights)
Dot(user, weights) == SumFunction([t \in Shared(user, weights) |-> user[t].affinity * weights[t]])
\* The product of the squared lengths.
Lengths(user, weights) ==
    SumFunction([t \in DOMAIN user |-> user[t].affinity * user[t].affinity])
        * SumFunction([t \in Linked(weights) |-> weights[t] * weights[t]])

\* Mutant of Similarity: the product without the lengths.
DotProduct(user, weights) == Clamped(Dot(user, weights) \div Scale)
Similarity(user, weights) ==
    LET product == Scale * Dot(user, weights)
    IN  IF product <= 0 \/ Lengths(user, weights) = 0 THEN 0
        ELSE Clamped(Root((product * product) \div Lengths(user, weights)))

\* _margin_factor: the gap between the two best careers, whichever career it is for.
Margin(fits) ==
    IF Len(fits) < 2 THEN Scale ELSE Clamped(Scale \div 2 + fits[1] - fits[2])

\* compute_confidence: the geometric mean of four factors.
Confidence(user, weights, fits) ==
    LET tags == Linked(weights)
        covered == Shared(user, weights)
        coverage == (Scale * Cardinality(covered)) \div Cardinality(tags)
        agreement == SumFunction([t \in covered |-> user[t].confidence]) \div Cardinality(covered)
        density == Clamped((Scale * Cardinality(tags)) \div 8)
    IN  IF covered = {} THEN 0
        ELSE Clamped(Root(Root(coverage * agreement * density * Margin(fits))))

\* rank_careers: the careers that have a vector, the best fit first.  Careers
\* with the same fit stay in the order in which the database returned them.
Candidates(vectors) == {c \in DOMAIN vectors : Linked(vectors[c]) # {}}
Orders(S) == {s \in [1..Cardinality(S) -> S] : \A i, j \in DOMAIN s : s[i] = s[j] => i = j}
Descending(f, s) == \A i, j \in DOMAIN s : i < j => f[s[i]] >= f[s[j]]

Rankings(user, vectors) ==
    LET fit == [c \in Candidates(vectors) |-> Similarity(user, vectors[c])]
        ranked(s) ==
            [i \in DOMAIN s |->
                [career |-> s[i], fit |-> fit[s[i]],
                 confidence |-> Confidence(user, vectors[s[i]], [k \in DOMAIN s |-> fit[s[k]]])]]
    IN  {ranked(s) : s \in {o \in Orders(Candidates(vectors)) : Descending(fit, o)}}

--------------------------------------------------------------------------------
\* top_contributing_tags: of the tags both sides have, those that add most.
TopTags(user, weights) ==
    LET contribution == [t \in Shared(user, weights) |-> user[t].affinity * weights[t]]
    IN  {SubSeq(o, 1, Least(TagLimit, Len(o))) :
            o \in {s \in Orders(Shared(user, weights)) : Descending(contribution, s)}}

\* The careers persist_recommendation explains, each with its leading tags.
Explanations(ranked, user, vectors) ==
    LET top == 1..Least(ExplainTop, Len(ranked))
    IN  {x \in [top -> UNION {TopTags(user, vectors[ranked[i].career]) : i \in top}] :
            \A i \in top : x[i] \in TopTags(user, vectors[ranked[i].career])}
================================================================================
