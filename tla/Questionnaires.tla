---------------------------- MODULE Questionnaires ----------------------------
(***************************************************************************)
(* The life of a questionnaire: staff post it in one form                  *)
(* (assessments/services/questionnare_post.py), students answer it, and    *)
(* the pages show what came of it.  Administrators edit and delete         *)
(* questionnaires, questions, attempts, responses and scores.              *)
(*                                                                         *)
(* A post checks its form first and saves it in one transaction later.     *)
(* Attempts are taken one at a time: AttemptSubmission has the races.      *)
(***************************************************************************)
EXTENDS QuestionScoring

CONSTANTS
    Posts,           \* requests of staff
    Forms,           \* what they may post
    Students,        \* profiles
    Submissions,     \* the lists of answers a student may send
    AdminHeads,      \* the titles and maxima an administrator may give
    AdminQuestions,  \* what an administrator may make of a question
    Tags,            \* tags at first
    Slugify,         \* Slugify[title]
    MaxAttempts,     \* bound: attempts in all
    MaxEdits         \* bound: requests of administrators, and accounts deleted

Types == {"MCQ", "MULTI", "TEXT", "NUMERIC", "LIKERT", "RANKING"}

\* A question as it is stored: the numbers of its choices are numbers.
IsQuestion(q) ==
    /\ q.type \in Types /\ q.max \in Int
    /\ IsFiniteSet(q.choices)
    /\ \A c \in q.choices : c.partial \in Int /\ c.order \in Int

IsList(s) == s \in Seq(Range(s))

\* Forms and answers are lists; what a form reads as a number is one or missing.
ASSUME FormsAssumption == \A f \in Forms :
    /\ f.max \in Int \cup {Null}
    /\ IsList(f.tags) /\ IsList(f.questions) /\ IsList(f.choices)
    /\ \A i \in DOMAIN f.questions : f.questions[i].type \in Types /\ f.questions[i].max \in Int
    /\ \A k \in DOMAIN f.choices : f.choices[k].partial \in Int /\ f.choices[k].order \in Int

ASSUME AdminAssumption ==
    /\ \A h \in AdminHeads : h.max \in Int
    /\ \A q \in AdminQuestions : IsQuestion(q)

ASSUME AnswersAssumption == \A answers \in Submissions :
    IsList(answers) /\ \A n \in DOMAIN answers : IsList(answers[n].answer.keys)

VARIABLES
    questionnaires,  \* id |-> title, slug, max, tags, questions
    taken,           \* id |-> an attempt with its marks and its verdict
    tags,            \* the tags there are
    profiles,        \* the students who still have an account
    form,            \* form[p]: what request p has to save
    progress,        \* progress[p]: idle, checked, created, refused or failed
    lastId,          \* the last id given in each of the two tables
    edits            \* requests of administrators so far, and accounts deleted

questionnairesVars == <<questionnaires, taken, tags, profiles, form, progress, lastId, edits>>

QuestionnairesInit ==
    /\ questionnaires = <<>>
    /\ taken = <<>>
    /\ tags = Tags
    /\ profiles = Students
    /\ form = [p \in Posts |-> Null]
    /\ progress = [p \in Posts |-> "idle"]
    /\ lastId = [questionnaires |-> 0, taken |-> 0]
    /\ edits = 0

--------------------------------------------------------------------------------
(* Creation                                                                 *)

\* An unticked box is sent empty, and a row with an empty field is passed over.
TagRows(f) == {i \in DOMAIN f.tags : f.tags[i].coupling # Null /\ f.tags[i].primary}

ValidTag(t) == t.tag \in tags /\ t.coupling = "ok"

ValidConfig(q) ==
    q.type = "NUMERIC" => /\ q.config.min # Null
                          /\ q.config.max # Null
                          /\ q.config.min < q.config.max

ValidQuestion(q) == q.valid /\ q.max > 0 /\ ValidConfig(q)

ValidChoice(f, c) == c.question \in DOMAIN f.questions /\ c.valid /\ c.partial \in 0 .. Unit

ValidHead(f) == f.title # Null /\ f.max # Null /\ f.max > 0

\* One that forgets to count an invalid question.
HasErrorsNotInQuestions(f) ==
    \/ ~ValidHead(f)
    \/ \E i \in TagRows(f) : ~ValidTag(f.tags[i])
    \/ \E i \in DOMAIN f.choices : ~ValidChoice(f, f.choices[i])

HasErrors(f) ==
    \/ ~ValidHead(f)
    \/ \E i \in TagRows(f) : ~ValidTag(f.tags[i])
    \/ \E i \in DOMAIN f.questions : ~ValidQuestion(f.questions[i])
    \/ \E i \in DOMAIN f.choices : ~ValidChoice(f, f.choices[i])

\* The four parts of the form are checked, each as far as it goes.
Check(p) ==
    /\ progress[p] = "idle"
    /\ \E f \in Forms :
         /\ form' = [form EXCEPT ![p] = IF HasErrors(f) THEN Null ELSE f]
         /\ progress' = [progress EXCEPT ![p] = IF HasErrors(f) THEN "refused" ELSE "checked"]
    /\ UNCHANGED <<questionnaires, taken, tags, profiles, lastId, edits>>

\* The entries of a list at some of its places, in their order.
InOrder(s, places) ==
    [n \in 1 .. Cardinality(places) |->
        s[CHOOSE i \in places : Cardinality({j \in places : j < i}) = n - 1]]

\* Only the forms found valid are saved.
Kept(f) == InOrder(f.questions, {i \in DOMAIN f.questions : ValidQuestion(f.questions[i])})

SavedChoice(c) ==
    [key |-> Fold[c.key], text |-> c.text, number |-> c.number,
     correct |-> c.correct, partial |-> c.partial, order |-> c.order]

\* The choices of a question are found by its place in the list that is saved.
ChoicesOf(f, i) == {k \in DOMAIN f.choices : f.choices[k].question = i}

SavedQuestion(f, i) ==
    [type |-> Kept(f)[i].type, max |-> Kept(f)[i].max, config |-> Kept(f)[i].config,
     choices |-> {SavedChoice(f.choices[k]) : k \in ChoicesOf(f, i)}]

Saved(f) ==
    [title |-> f.title, slug |-> Slugify[f.title], max |-> f.max,
     tags |-> {f.tags[i].tag : i \in TagRows(f)},
     questions |-> [i \in DOMAIN Kept(f) |-> SavedQuestion(f, i)]]

\* The constraints of the database, on versions that all begin as number 1.
SlugFree(slug, but) == \A id \in DOMAIN questionnaires \ but : questionnaires[id].slug # slug

Storable(f) ==
    /\ SlugFree(Slugify[f.title], {})
    /\ \A i, j \in TagRows(f) : f.tags[i].tag = f.tags[j].tag => i = j
    /\ Saved(f).tags \subseteq tags
    /\ \A i \in DOMAIN f.choices : f.choices[i].question \in DOMAIN Kept(f)
    /\ \A i \in DOMAIN Kept(f) : \A k, l \in ChoicesOf(f, i) :
           SavedChoice(f.choices[k]).key = SavedChoice(f.choices[l]).key => k = l

Save(p) ==
    /\ progress[p] = "checked"
    /\ Storable(form[p])
    /\ lastId' = [lastId EXCEPT !.questionnaires = @ + 1]
    /\ questionnaires' = [id \in DOMAIN questionnaires \cup {lastId'.questionnaires} |->
                             IF id = lastId'.questionnaires THEN Saved(form[p]) ELSE questionnaires[id]]
    /\ form' = [form EXCEPT ![p] = Null]
    /\ progress' = [progress EXCEPT ![p] = "created"]
    /\ UNCHANGED <<taken, tags, profiles, edits>>

\* A constraint, or any other exception, undoes the whole transaction.
FailToSave(p) ==
    /\ progress[p] = "checked"
    /\ form' = [form EXCEPT ![p] = Null]
    /\ progress' = [progress EXCEPT ![p] = "failed"]
    /\ UNCHANGED <<questionnaires, taken, tags, profiles, lastId, edits>>

--------------------------------------------------------------------------------
(* Administration                                                           *)

Edit == edits < MaxEdits /\ edits' = edits + 1

\* An edit changes the row itself; no new version is made.  A new title gives
\* a new slug.
EditQuestionnaire(id, title, max) ==
    /\ Edit
    /\ SlugFree(Slugify[title], {id})
    /\ questionnaires' = [questionnaires EXCEPT
           ![id].slug = IF title = questionnaires[id].title THEN @ ELSE Slugify[title],
           ![id].title = title,
           ![id].max = max]
    /\ UNCHANGED <<taken, tags, profiles, form, progress, lastId>>

EditQuestion(id, i, q) ==
    /\ Edit
    /\ questionnaires' = [questionnaires EXCEPT ![id].questions[i] = q]
    /\ UNCHANGED <<taken, tags, profiles, form, progress, lastId>>

AttemptsOn(id) == {n \in DOMAIN taken : taken[n].questionnaire = id}

\* One that lets a questionnaire take its attempts along.
UnprotectedAlways(id) == TRUE

\* An attempt protects its questionnaire, and a response its question.
Unprotected(id) == AttemptsOn(id) = {}

Unanswered(id, i) == \A n \in AttemptsOn(id) : \A r \in taken[n].marks : r.question # i

\* What hangs on the row goes with it.
DeleteQuestionnaire(id) ==
    /\ Edit
    /\ Unprotected(id)
    /\ questionnaires' = Restrict(questionnaires, DOMAIN questionnaires \ {id})
    /\ taken' = Restrict(taken, DOMAIN taken \ AttemptsOn(id))
    /\ UNCHANGED <<tags, profiles, form, progress, lastId>>

\* The other questions keep their places.
DeleteQuestion(id, i) ==
    /\ Edit
    /\ Unanswered(id, i)
    /\ questionnaires' = [questionnaires EXCEPT ![id].questions = Restrict(@, DOMAIN @ \ {i})]
    /\ UNCHANGED <<taken, tags, profiles, form, progress, lastId>>

\* An attempt goes with its responses and its score.
DeleteAttempt(n) ==
    /\ Edit
    /\ taken' = Restrict(taken, DOMAIN taken \ {n})
    /\ UNCHANGED <<questionnaires, tags, profiles, form, progress, lastId>>

\* The score was computed with it, and stays.
DeleteResponse(n, r) ==
    /\ Edit
    /\ taken' = [taken EXCEPT ![n].marks = @ \ {r}]
    /\ UNCHANGED <<questionnaires, tags, profiles, form, progress, lastId>>

DeleteScore(n) ==
    /\ Edit
    /\ taken' = [taken EXCEPT ![n].scored = FALSE]
    /\ UNCHANGED <<questionnaires, tags, profiles, form, progress, lastId>>

Own(s) == {n \in DOMAIN taken : taken[n].profile = s}

\* By an administrator, or by the student.
DeleteProfile(s) ==
    /\ Edit
    /\ profiles' = profiles \ {s}
    /\ taken' = Restrict(taken, DOMAIN taken \ Own(s))
    /\ UNCHANGED <<questionnaires, tags, form, progress, lastId>>

DeleteTag(t) ==
    /\ Edit
    /\ tags' = tags \ {t}
    /\ questionnaires' = [id \in DOMAIN questionnaires |->
                             [questionnaires[id] EXCEPT !.tags = @ \ {t}]]
    /\ UNCHANGED <<taken, profiles, form, progress, lastId>>

--------------------------------------------------------------------------------
(* Attempts                                                                 *)

\* The answers that count: the first valid one to each question.
Counted(row, answers) ==
    LET Valid(n) == /\ answers[n].question \in DOMAIN row.questions
                    /\ ValidAnswer(row.questions[answers[n].question], answers[n].answer)
    IN  {n \in DOMAIN answers :
            /\ Valid(n)
            /\ ~\E k \in 1 .. n - 1 : Valid(k) /\ answers[k].question = answers[n].question}

Response(row, answers, n, fetched) ==
    [question |-> answers[n].question, asked |-> row.questions[answers[n].question],
     answer |-> answers[n].answer,
     mark |-> evaluate_question_answer(row.questions[answers[n].question], fetched, answers[n].answer)]

Total(marks) == SumFunction([r \in marks |-> r.mark.points])

AttemptsOf(s, id) == Own(s) \cap AttemptsOn(id)

NextNumber(s, id) ==
    IF AttemptsOf(s, id) = {} THEN 1 ELSE Max({taken[n].number : n \in AttemptsOf(s, id)}) + 1

Attempt(s, id, marks) ==
    LET max == questionnaires[id].max
        raw == Total(marks)
    IN  [profile |-> s, questionnaire |-> id, number |-> NextNumber(s, id),
         marks |-> marks, scored |-> TRUE, raw |-> raw, max |-> max,
         percentage |-> Percentage(raw, max), passed |-> Passed(raw, max),
         feedback |-> from_percentage(raw, max)]

\* Whatever the status of the questionnaire.  The maximum is the one it was
\* given, which nothing keeps in step with its questions.
Take(s, id, answers) ==
    LET row == questionnaires[id]
        counted == Counted(row, answers)
    IN  /\ Cardinality(DOMAIN taken) < MaxAttempts
        /\ row.max > 0
        /\ \E fetched \in [counted -> UNION {Fetched(row.questions[answers[n].question]) : n \in counted}] :
             /\ \A n \in counted : fetched[n] \in Fetched(row.questions[answers[n].question])
             /\ LET marks == {Response(row, answers, n, fetched[n]) : n \in counted}
                IN  /\ ScoreAccepted(Total(marks))
                    /\ lastId' = [lastId EXCEPT !.taken = @ + 1]
                    /\ taken' = [n \in DOMAIN taken \cup {lastId'.taken} |->
                                     IF n = lastId'.taken THEN Attempt(s, id, marks) ELSE taken[n]]
        /\ UNCHANGED <<questionnaires, tags, profiles, form, progress, edits>>

QuestionnairesNext ==
    \/ \E p \in Posts : Check(p) \/ Save(p) \/ FailToSave(p)
    \/ \E id \in DOMAIN questionnaires :
         \/ \E h \in AdminHeads : EditQuestionnaire(id, h.title, h.max)
         \/ \E i \in DOMAIN questionnaires[id].questions, q \in AdminQuestions : EditQuestion(id, i, q)
         \/ \E i \in DOMAIN questionnaires[id].questions : DeleteQuestion(id, i)
         \/ DeleteQuestionnaire(id)
         \/ \E s \in profiles, answers \in Submissions : Take(s, id, answers)
    \/ \E n \in DOMAIN taken :
         \/ DeleteAttempt(n)
         \/ \E r \in taken[n].marks : DeleteResponse(n, r)
         \/ taken[n].scored /\ DeleteScore(n)
    \/ \E s \in profiles : DeleteProfile(s)
    \/ \E t \in tags : DeleteTag(t)

QuestionnairesSpec == QuestionnairesInit /\ [][QuestionnairesNext]_questionnairesVars

--------------------------------------------------------------------------------
(* The pages                                                                *)

\* The best of those that have a score.
Best(S) ==
    LET scored == {n \in S : taken[n].scored}
    IN  IF scored = {} THEN 0 ELSE Max({taken[n].percentage : n \in scored})

\* Hundredths to tenths; a half goes to the even tenth.
Tenths(hundredths) ==
    LET down == hundredths \div 10
        rest == hundredths % 10
    IN  IF rest > 5 \/ (rest = 5 /\ down % 2 = 1) THEN down + 1 ELSE down

\* One that passes everyone from fifty on.
PassedOnPageFromFifty(a) == a.percentage >= 5000

\* The results page goes by the stored percentage, and asks for more than fifty.
PassedOnPage(a) == a.percentage > 5000

\* The results page asks every attempt for its score, and there is none without.
Shown(s) == \A n \in Own(s) : taken[n].scored

UserResults(s) ==
    [total |-> Cardinality(Own(s)),
     best |-> Tenths(Best(Own(s))),
     passed |-> Cardinality({n \in Own(s) : PassedOnPage(taken[n])})]

\* The figures above the list of questionnaires.
Stats(s) == [total |-> Cardinality(Own(s)), best |-> Best(Own(s))]

\* The rows a line of the list is counted from: the attempts of everybody,
\* once each; under the filter "completed", which every attempt passes, once
\* for each attempt of the student.
Joined(s, id, completed) ==
    AttemptsOn(id) \X (IF completed THEN AttemptsOf(s, id) ELSE {Null})

LineOf(rows) ==
    LET listed == {row[1] : row \in rows}
    IN  [count |-> Cardinality(rows), best |-> Best(listed),
         latest |-> IF listed = {} THEN 0 ELSE Max(listed)]

\* One that lists the attempts of everybody.
ListedForAll(s, id, completed) == LineOf(Joined(s, id, completed))

\* A line of the list: the number of rows, the best percentage, and the
\* attempt with the highest id.
ListedFor(s, id, completed) ==
    LineOf({row \in Joined(s, id, completed) : taken[row[1]].profile = s})

--------------------------------------------------------------------------------
(* Properties                                                               *)

\* The questions of the form one by one, each with the choices that name its
\* row of the form, and the tags that were asked for as primary ones.
AsAsked(row, f) ==
    /\ row.title = f.title
    /\ Len(row.questions) = Len(f.questions)
    /\ \A i \in DOMAIN f.questions :
         /\ row.questions[i].type = f.questions[i].type
         /\ row.questions[i].max = f.questions[i].max
         /\ row.questions[i].choices = {SavedChoice(f.choices[k]) : k \in ChoicesOf(f, i)}
    /\ row.tags = {f.tags[i].tag : i \in {n \in DOMAIN f.tags : f.tags[n].primary /\ f.tags[n].coupling = "ok"}}

\* A post that is answered "created" has stored the questionnaire it asked for,
\* every choice under its own question although the two are sent as separate
\* lists; one that is answered otherwise has stored nothing
\* (questionnare_post.py:101-188).
CreatedAsAsked ==
    [][\A p \in Posts :
          progress'[p] # progress[p] =>
              IF progress'[p] = "created"
              THEN \E id \in DOMAIN questionnaires' \ DOMAIN questionnaires :
                       AsAsked(questionnaires'[id], form[p])
              ELSE questionnaires' = questionnaires]_questionnairesVars

Recorded == UNION {taken[n].marks : n \in DOMAIN taken}

\* The places at which a ranking has the choice that belongs there.
RightPlaces(q, a) ==
    {i \in DOMAIN a.keys : \E c \in q.choices :
        /\ c.key = a.keys[i]
        /\ Cardinality({d \in q.choices : d.order < c.order}) = i - 1}

Ordered(q) == \A c, d \in q.choices : c.order = d.order => c = d

AtLeastAsGood(q, a, b) ==
    CASE q.type = "MULTI"   -> /\ RightKeys(q) \cap Listed(b) \subseteq Listed(a)
                               /\ Listed(a) \ RightKeys(q) \subseteq Listed(b)
      [] q.type = "RANKING" -> /\ Ordered(q)
                               /\ RightPlaces(q, b) \subseteq RightPlaces(q, a)
      [] OTHER              -> a = b /\ Ordered(q)

\* What the forms of the staff ensure, and those of the administrators do not.
Sane(q) ==
    /\ q.max > 0
    /\ \A c \in q.choices : c.partial \in 0 .. Unit
    /\ \A k, l \in Keys(q) : Fold[k] = Fold[l] => k = l

\* Of two answers to the same question, whoever gave them and whenever, the
\* one that has all the other has right and no more wrong never scores less; a
\* mark stays within its question, and is full just when it is called correct
\* (attempt_evaluation.py:331-370, 472-550).
MarksSound ==
    \A m, n \in Recorded :
        Sane(m.asked) =>
            /\ m.mark.points \in 0 .. m.asked.max * Unit
            /\ m.mark.correct <=> m.mark.points = m.asked.max * Unit
            /\ m.asked = n.asked /\ AtLeastAsGood(m.asked, m.answer, n.answer)
                  => m.mark.points >= n.mark.points

\* The report, the results page and the feedback of one attempt tell the same
\* story: the page passes nobody the report fails, the report passes one the
\* page fails only at fifty percent to the hundredth, and the feedback is good
\* or better just for those who pass (attempt_evaluation.py:583-585,
\* user_results.py:22,35).
VerdictsAgree ==
    \A n \in DOMAIN taken :
        LET a == taken[n]
        IN  /\ PassedOnPage(a) => a.passed
            /\ a.passed /\ ~PassedOnPage(a) => a.percentage = 5000
            /\ a.feedback >= Good <=> a.passed
            /\ a.percentage = 10000 => a.feedback = 9

\* What the pages tell a student of the same attempts: the lines of the list
\* add up to the figures above it and the best line is the best attempt; a
\* filter changes neither the best nor the latest attempt of a line; and the
\* results page counts as many, has no more of them passed than the reports
\* did, and rounds the best by at most half a tenth (user_results.py:11-26,
\* fetch_questionnaires.py:38-43, 83-94).
PagesAgree ==
    \A s \in profiles :
        LET D == DOMAIN questionnaires
            line(id) == ListedFor(s, id, FALSE)
            filtered(id) == ListedFor(s, id, TRUE)
        IN  /\ SumFunction([id \in D |-> line(id).count]) = Stats(s).total
            /\ \A id \in D : line(id).best <= Stats(s).best
            /\ Stats(s).total > 0 => \E id \in D : line(id).best = Stats(s).best
            /\ \A id \in D : filtered(id).best = line(id).best /\ filtered(id).latest = line(id).latest
            /\ Shown(s) =>
                 /\ UserResults(s).total = Stats(s).total
                 /\ UserResults(s).passed <= Cardinality({n \in Own(s) : taken[n].passed})
                 /\ 10 * UserResults(s).best - Stats(s).best \in -5 .. 5

\* What a student answered and the mark it got are never changed, whatever is
\* edited afterwards; only the deletion of the response, of its attempt or of
\* the account takes it away, never that of the question or the questionnaire
\* (assessments/models.py:267-274, 328-339).
ResponsesStay ==
    [][\A n \in DOMAIN taken : \A r \in taken[n].marks :
          \/ n \in DOMAIN taken' /\ r \in taken'[n].marks
          \/ DeleteAttempt(n) \/ DeleteResponse(n, r)
          \/ DeleteProfile(taken[n].profile)]_questionnairesVars

================================================================================
