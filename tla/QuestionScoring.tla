--------------------------- MODULE QuestionScoring ---------------------------
(***************************************************************************)
(* How one answer is checked and marked: the type rules of                 *)
(* QuestionResponseForm (assessments/forms.py) and the handlers of         *)
(* AttemptEvaluationService (assessments/services/attempt_evaluation.py),  *)
(* then percentage, pass mark and feedback of a whole attempt.             *)
(*                                                                         *)
(* Points and partial scores are counted in fractions 1/Unit of a point.   *)
(* A text or key means the same as another if Fold makes them equal, which *)
(* is what strip().lower() does.                                           *)
(***************************************************************************)
EXTENDS Integers, Sequences, FiniteSets, SequencesExt

CONSTANTS
    Unit,   \* the fractions of a point
    Fold,   \* Fold[k] is the key or text k trimmed and in one case
    Null

\* There are fractions, and the missing value is none of the others.
ASSUME ScoringAssumption ==
    /\ Unit \in Nat \ {0}
    /\ Null \notin Int \cup {"ok"}

\* An answer is a list of keys or a single key, with the number it reads as.
One(k) == [list |-> FALSE, keys |-> <<k>>, number |-> Null]
Several(keys) == [list |-> TRUE, keys |-> keys, number |-> Null]
Number(n) == [list |-> FALSE, keys |-> <<>>, number |-> n]

Keys(q) == {c.key : c \in q.choices}
Listed(a) == {a.keys[i] : i \in DOMAIN a.keys}
Folded(S) == {Fold[k] : k \in S}

--------------------------------------------------------------------------------
(* QuestionResponseForm                                                     *)

InRange(q, n) ==
    /\ q.config.min # Null => n >= q.config.min
    /\ q.config.max # Null => n <= q.config.max

\* The form compares a ranking with the keys as a set only.
ValidAnswer(q, a) ==
    CASE q.type \in {"MCQ", "LIKERT"} -> ~a.list /\ Listed(a) # {} /\ Listed(a) \subseteq Keys(q)
      [] q.type = "MULTI"   -> a.list /\ a.keys # <<>> /\ Listed(a) \subseteq Keys(q)
      [] q.type = "NUMERIC" -> a.number # Null /\ InRange(q, a.number)
      [] q.type = "RANKING" -> a.list /\ a.keys # <<>> /\ Listed(a) = Keys(q)
      [] q.type = "TEXT"    -> ~a.list /\ a.keys # <<>>

--------------------------------------------------------------------------------
(* The handlers.  answer_choices is the list of q.choices the query         *)
(* returned: by their order field, and as it likes where that is the same.  *)

Fetched(q) ==
    {s \in Bijection(1 .. Cardinality(q.choices), q.choices) :
        \A i, j \in DOMAIN s : i < j => s[i].order <= s[j].order}

Right(q) == {c \in q.choices : c.correct}

\* The first entry of a list that has one of the set.
First(s, S) == s[Min({i \in DOMAIN s : s[i] \in S})]

Mark(points, ok) == [points |-> points, correct |-> ok]
NoMark == Mark(0, FALSE)
AllOrNone(q, ok) == Mark(IF ok THEN q.max * Unit ELSE 0, ok)

handle_mcq(q, answer_choices, a) ==
    IF Right(q) = {} THEN NoMark
    ELSE AllOrNone(q, Fold[a.keys[1]] = Fold[First(answer_choices, Right(q)).key])

RightKeys(q) == {c.key : c \in Right(q)}

\* One that adds to the share of the right choices the share of all that were ticked.
handle_multi_ticked(q, a) ==
    LET right  == Folded(RightKeys(q))
        chosen == Folded(Listed(a))
        hits   == Cardinality(right \cap chosen)
        all    == Cardinality(right) * Cardinality(q.choices)
    IN  IF right = {} THEN NoMark
        ELSE Mark((q.max * Unit * hits * Cardinality(chosen)) \div all,
                  hits * Cardinality(chosen) = all)

\* Recall times precision.
handle_multi(q, a) ==
    LET right  == Folded(RightKeys(q))
        chosen == Folded(Listed(a))
        hits   == Cardinality(right \cap chosen)
        all    == Cardinality(right) * Cardinality(chosen)
    IN  IF right = {} THEN NoMark
        ELSE Mark((q.max * Unit * hits * hits) \div all, hits * hits = all)

Tolerance(c) == IF c.tolerance # Null THEN c.tolerance ELSE IF c.step # Null THEN c.step ELSE 0

\* The configured value, or else the key of the first correct choice as a number.
Target(q, answer_choices) ==
    IF q.config.correct # Null THEN q.config.correct
    ELSE IF Right(q) = {} THEN Null ELSE First(answer_choices, Right(q)).number

handle_numeric(q, answer_choices, a) ==
    LET target == Target(q, answer_choices)
    IN  IF target = Null THEN NoMark
        ELSE AllOrNone(q, a.number - target \in -Tolerance(q.config) .. Tolerance(q.config))

handle_text(q, a) ==
    AllOrNone(q, \E c \in Right(q) : Fold[c.text] = Fold[a.keys[1]])

handle_likert(q, answer_choices, a) ==
    LET chosen == {c \in q.choices : Fold[c.key] = Fold[a.keys[1]]}
        match  == First(answer_choices, chosen)
    IN  IF chosen = {} THEN NoMark
        ELSE Mark(q.max * match.partial, match.partial >= Unit)

Shorter(s, t) == DOMAIN s \cap DOMAIN t

\* The share of the places at which the list has the choice of that rank.
Matches(ranked, a) ==
    {i \in Shorter(ranked, a.keys) : Fold[a.keys[i]] = Fold[ranked[i].key]}

\* Sorting by order once more changes nothing.
handle_ranking(q, answer_choices, a) ==
    LET matches == Cardinality(Matches(answer_choices, a))
        all     == Len(answer_choices)
    IN  IF all = 0 THEN NoMark
        ELSE Mark((q.max * Unit * matches) \div all, matches = all)

evaluate_question_answer(q, answer_choices, a) ==
    CASE q.type = "MCQ"     -> handle_mcq(q, answer_choices, a)
      [] q.type = "MULTI"   -> handle_multi(q, a)
      [] q.type = "TEXT"    -> handle_text(q, a)
      [] q.type = "NUMERIC" -> handle_numeric(q, answer_choices, a)
      [] q.type = "LIKERT"  -> handle_likert(q, answer_choices, a)
      [] q.type = "RANKING" -> handle_ranking(q, answer_choices, a)

--------------------------------------------------------------------------------
(* The verdict on an attempt of raw points, of which the questionnaire asks *)
(* for max.  A share is raw/max; percentages are in hundredths.             *)

\* Clamped to 0..100 percent before anything is made of it.
Clamped(raw, max) == IF raw < 0 THEN 0 ELSE IF raw > max * Unit THEN max * Unit ELSE raw

Percentage(raw, max) == (20000 * Clamped(raw, max) + max * Unit) \div (2 * max * Unit)

Passed(raw, max) == 2 * Clamped(raw, max) >= max * Unit

\* Feedback.from_percentage: bands of ten percent, the last one open above.
Bands == 0 .. 9
Lower(b) == 10 * b
Upper(b) == IF b = 9 THEN 101 ELSE 10 * (b + 1)
Good == 5

from_percentage(raw, max) ==
    CHOOSE b \in Bands :
        /\ Lower(b) * max * Unit <= 100 * Clamped(raw, max)
        /\ 100 * Clamped(raw, max) < Upper(b) * max * Unit

\* The sign rule of AttemptScoreForm, both scores being the same number.
ScoreAccepted(raw) == raw <= raw * 10

================================================================================
