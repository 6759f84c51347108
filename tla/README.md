# EdPal in TLA+

EdPal is a Django application that lets students answer questionnaires, scores
them, and turns what is known about a student into ranked careers from a
catalogue that administrators and import commands fill. This
directory holds TLA+ models of the parts where several processes meet one
database and of the rules that turn answers into marks and evidence into
careers, TLC configurations that check them on small instances, and proofs
checked by TLAPS. Paths are relative to the repository's source tree.

Deployment as modelled: several Gunicorn/Uvicorn web processes (`README.md:45`),
PostgreSQL at READ COMMITTED with no `ATOMIC_REQUESTS`, a `LocMemCache` in each
process (`EdPal/settings.py:170-174`; the Redis cache is commented out), Celery
workers behind RabbitMQ, Celery beat, and an SMTP server.

## 1. Inventory

| Component | State it keeps | Operations | What makes it correct |
|---|---|---|---|
| Attempt evaluation (`assessments/services/attempt_evaluation.py`, `assessments/views.py:249`) | `QuestionnaireAttempt`, `QuestionResponse`, `AttemptScore`; the uncommitted rows of each request | POST of a filled questionnaire: number the attempt, insert, score each answer, save the score, commit, reply | numbers 1..n per profile and questionnaire, all rows or none, replies that agree with the tables, no endless waiting |
| Regeneration debounce (`careers/signals.py`, `careers/tasks.py`) | a lock entry per process cache, delayed jobs | receiver of a saved score, delayed job, redelivery, weekly safety net | few jobs per window, no score forgotten, nothing lost that a recommendation rested on before a run began |
| Recommendation tasks and email (`careers/tasks.py`, `careers/services/*`) | `UserTagVector`, `CareerRecommendation`, `email_sent`, messages | generate, shadow run, send email, retries | every job answered, duplicates explained by a failure, `email_sent` true, explanation and ranking agree |
| Engine registry (`careers/models/recsys.py:299-352`, `careers/admin.py:748`) | `EngineVersion.is_active` | save in the admin (a transaction), make active (autocommit), read by jobs | exactly one active version |
| Percentile ranks (`careers/tasks.py:157`) | `AttemptScore.percentile_rank` | nightly task against submissions and deletions, failing or broken off | ranks follow percentages |
| Career vector cache (`careers/selectors/tags.py:28-77`, `careers/signals.py`) | `CareerTag` vectors in the cache of each process | fill on a miss, invalidate on a save | no run uses vectors older than the time limit |
| Evidence selectors and aggregation (`careers/selectors/evidence.py`, `careers/services/aggregation.py`) | `UserTagVector` | collect evidence, clamp, weigh, aggregate, upsert | every grade and the last attempt of each questionnaire, nothing else |
| Ranking and explanation (`careers/services/scoring.py`, `explanation.py`) | none | gate, score, sort, top tags | complete rankings, what was measured comes first |
| Question scoring and feedback (`attempt_evaluation.py:273-590`, `assessments/forms.py:404-490`, `feedback_classifier.py`) | none | validate and mark each question type, percentage, verdict, feedback | a better answer never scores less, one story about an attempt |
| Questionnaires (`assessments/services/questionnare_post.py`, `assessments/models.py`, `assessments/selectors/`) | questionnaire, tags, questions, choices, attempts | post one form with four lists, edit, take, list; delete any row, down to the account | the questionnaire that was asked for; no response is lost with its question |
| Accounts (`accounts/views.py`, `forms.py`, `signals.py`) | user, profile, preference, subjects | register, update profile, avatar, reset the password | a user has a profile; a subject list is what was asked for; no request undoes another |
| Settings and sessions (`accounts/services/`) | settings, password, session rows | change a setting or the password, delete the account, list and end sessions | a deleted account stays deleted; a change is reported as it went; a user sees his own sessions only |
| Tag graph (`core/models.py`, `signals.py`, `forms.py`) | tags, relationships | save and delete a tag, a relationship and its inverse | both directions of a symmetric relationship agree |
| Catalogue importers (`careers/importer/`, `careers/management/commands/`) | institutions, careers, courses, requirements, cutoffs, career tags | read and validate a file, look up, insert and update in one transaction | no row changed unasked, the table says what the file says, a slug says the name |
| Site analytics (`analytics/`) | one `SiteActivity` row per request, cached reports | record after the response, cut rows into sessions, count, cache | overviews that miss no visit, sessions that are what the rows say |
| Psychometric tests, catalogue pages, admin, account emails, browser scripts | see PROJECT.json | | see section 8 |

How they meet: saving an `AttemptScore` inside the transaction of the attempt
fires the debounce receiver, which sets a cache lock and enqueues a delayed
job. The job asks the registry for the active engine, collects the evidence
(attempt scores, psychometrics, profile subjects, preferences), upserts
`UserTagVector`, ranks, reads the vector back, persists a recommendation and
enqueues its email. Beat starts the safety net, the percentile ranks and the
retry of stuck jobs. Administrators change engine versions, tags, career tags and
the catalogue, and run the import commands beside the site; saving a `CareerTag`
clears the vector cache of the process that saves it. Every request, whatever its
view, is recorded by the tracking middleware after it was answered; the page that
lists a user's sessions reads those rows.

What is hard, and hard to test: two submissions that compute one attempt
number; an exception swallowed inside a transaction; a job enqueued before the
commit it is about; a lock that outlives the message it stands for; jobs that
overlap, are redelivered or die between two writes; a mail accepted but not
recorded; two administrators; a long task over data that changes; names looked up
before the transaction that uses them; rows recorded after the view they are
about; caches that no invalidation reaches; choices that find their question by
its place in a list. The list is in
PROJECT.json under "hazards", each with its line.

## 2. Modules

| Module | Models | Builds on |
|---|---|---|
| `AttemptLedger` | abstract specification: complete entries, next number, one per request | |
| `AttemptSubmission` | `AttemptEvaluationService.evaluate` in concurrent transactions | refines `AttemptLedger` |
| `RegenDebounce` | receiver, lock, delayed job, safety net, against a clock | |
| `GenerationJob` | recommendation job, shadow run and email task | |
| `EngineRegistry` | concurrent saves of `EngineVersion` | |
| `PercentileRanks` | the nightly rank task, submissions and deletions | |
| `AccountRequests` | concurrent requests that change one account | |
| `QuestionScoring` | validation, marks and verdict of one answer and one attempt, as operators | |
| `Questionnaires` | posting, editing, deleting and taking questionnaires, deleting what students have recorded, and the pages about it | extends `QuestionScoring` |
| `TagGraph` | tags, relationships and the receiver that mirrors them, in concurrent transactions | |
| `RecommendationEngine` | evidence, aggregation, similarity, confidence, ranking and explanation of engine v1, as operators | |
| `RecommendationRun` | runs of the engine over a profile, a tag graph and career links that change, with the vector cache | extends `TagGraph` and `RecommendationEngine` |
| `CatalogueImport` | the import commands, `add_career_tags`, and the forms and deletions of administrators | |
| `ActivityReports` | the queries of the overview and the sessions computed from `SiteActivity`, as operators | |
| `SiteTracking` | requests, sessions, the recording of requests, the session list and a cached dashboard | extends `ActivityReports` |
| `FiniteSums` | lemmas about sums and counts over finite sets, for the modules below | |
| `AssessmentsProofs` | theorems about `AttemptSubmission` and `Questionnaires` | |
| `CareersTasksProofs` | theorems about `RegenDebounce`, `EngineRegistry` and `PercentileRanks` | |
| `GenerationJobProofs`, `AccountRequestsProofs`, `CatalogueImportProofs`, `RecommendationRunProofs`, `SiteTrackingProofs` | theorems about the module they are named after | |
| `MC*` | instances for TLC | the module they are named after |

`RegenDebounce` and `GenerationJob` look at the same job from two sides. The
first abstracts a run to "read the evidence, persist", and keeps the time and
the transactions that decide *which* evidence is read. The second abstracts the
arrival of evidence to a version per tag, and keeps every step of a run.
`RecommendationRun` is the third side: what the numbers of a run are, without
the failures and retries of its task.

### AttemptSubmission

`attempts`, `responses`, `scores` are the committed tables; `txAttempts[r]` and
so on what request `r` has written and not committed; `poisoned[r]` is Django's
`needs_rollback`. `pc[r]` follows `evaluate()`:

    number -> insert -> answers -> score -> commit -> reply -> done
       ^--------+ IntegrityError: RetryNumber, at most MaxRetries in all

| Action | Code |
|---|---|
| `Reject` | `validate()` or `setup()` raises (lines 85-154) |
| `ReadLatest` | savepoint and `Max("attempt_number")` (174-180) |
| `InsertAttempt`, `RetryNumber`, `GiveUp` | the insert, its `IntegrityError`, the last retry (182-208) |
| `ScoreAnswer`, `SkipAnswer`, `SaveRaises` | one turn of the loop over the answers (216-270) and the type handlers (273-550) |
| `LeaveSavepoint` | the end of the inner `atomic` block, silent rollback included |
| `SaveScore`, `AttemptGone`, `ServerError` | the score form (599-613) |
| `Commit`, `Reply` | the end of the outer `atomic` block, the report |
| `Die` | the web process ends; PostgreSQL rolls back |

An insert is enabled only while no other transaction has the same key in
flight, which is how the unique index makes it wait. Abstractions: every
accepted answer is worth one mark, so that "score = sum of recorded answers"
can be stated without the arithmetic of the question types; which answers are
bad is left open, since any may be skipped; `validate()` and `setup()` are one
rejection; foreign keys that COMMIT checks are in `ServerError`.

### RegenDebounce

One profile. `lockUntil[w]` is the expiry of the lock entry in the cache of web
process `w`. `cover[s]` is bookkeeping: the submission whose lock entry kept `s`
from enqueuing. `ScoreAndEnqueue`, `ScoreAndSkip` and `ScoreAndLoseBroker` are
the three ways through `_enqueue_debounced`; they run inside the transaction of
the score, which `CommitScore` or `UndoScore` ends later. `ReadEvidence` sees
what is committed at that moment. A job may start late by any amount and is
delivered again when its worker dies, and up to `Workers` of them run at a time.
`base[j]` and `overtaken` are history: what the newest recommendation rested on when
run j began to read, and whether a run has put older evidence on top of newer.
`SafetyNet` is what the weekly task does
as written: its query names a field `UserProfile` does not have, and raises.
Web processes do not restart within the horizon.

### GenerationJob

One profile. Evidence, `UserTagVector`, ranking and explanation are functions
from tags to versions, which says what a value was computed from and not what it
is. `collected[j]` is what the engine aggregated, `reread[j]` what
`get_cached_user_tag_vector` read back. `overwritten[j]` is history: the tags
another task has upserted since j's own upsert. The row carries the state of its email
task and two counts that are not columns: `copies` accepted by the mail server,
and `doubts`, those whose sending raised all the same. Jobs are acknowledged
late and so delivered again (`WorkerDies`); email tasks are acknowledged early
(`MailWorkerDies` loses them); the tries of an email task end with it. `RetryJob`
includes the lost answer to a COMMIT.
Abstractions: the evidence is collected in one step (the code runs one query per
kind, each kind being about its own rows); the profile and the recommendation
exist throughout; a shadow task runs one shadow engine.

### EngineRegistry

An edit has two writes: the row itself, then an UPDATE that clears the flag of all
others. The `way` of an edit says how they are committed. A "form" of the admin site
is one transaction, so both become visible together and `Abort` takes both back.
"make_active" runs in none: its row is committed by `SaveRow`, before the UPDATE
starts, and stays when the edit is cut off. `others[e]` are the rows the UPDATE found
in its snapshot, `cleared[e]` those it has cleared; a row another open transaction has
written makes it wait, and it looks at the committed flag again when it gets the row.
`alone[e]` is history: whether any other edit was open while `e` was. `Abort` stands
for failures and for PostgreSQL breaking a deadlock. Deleting a version is left out.

What holds is stated with the gap that the code leaves. `AtMostOneActiveAlone` speaks
of histories in which no edits overlapped and no make_active is under way or was cut
off, `LoneActivationRepairs` of what the next whole activation makes of any state, and
`NeverNoneActive` of histories in which no make_active overlaps another edit: forms
may overlap as they like, but two make_active, or one and a form, clear each other.

### PercentileRanks

Ranks are counted in ten-thousandths, so `Limit` = 999999 is what
`DecimalField(max_digits=6, decimal_places=4)` holds. A run keeps the list it has
read while submissions add scores and administrators or students delete them. Each
rank is an UPDATE of its own, so a run ends at the best score of a list (`Overflow`),
or anywhere else (`BreakOff`: a failing query, the time limits of
`EdPal/settings.py:209-210`, a dying worker), with what it has written in place. `torn`
is history: the questionnaires whose last list was broken off after its first rank;
there new low ranks stand beside old high ones until a later run gets through. One run
at a time, which the schedule gives. A run never gets to rank the last of a list, and
equal percentages come in any order: of two attempts that share the best percentage
one run leaves the one without a rank and the next the other, and each time the
unranked one may keep an old rank that no longer follows. And where an attempt was
deleted, the one that is best after it keeps the rank it had below it. `RanksFollowScores`
therefore compares an attempt with a higher one whose percentage nobody shares
(`Shared`), in a questionnaire that is neither `torn` nor
has lost an attempt (`Kept`).

### AccountRequests

One user, with the rows `present` and their fields `account`; a field's value is
the request that set it. A request of `kind` "put" is the profile form, "avatar"
the upload, "setting" remember-me or the notifications, "change" and "reset" the
two ways to a new password, "delete" the deletion. No handler but the deletion is
a transaction, so `pc[r]` stops at every statement:

    put      idle -> user -> profile -> read -> removed -> added -> saved -> ended
    avatar   idle -> user -> profile -> ended
    setting  idle -> user -> profile -> ended
    change   idle -> user -> ended
    reset    idle -> asked -> user -> saved -> ended
    delete   idle -> user -> ended

| Action | Code |
|---|---|
| `LoadUser`, `TurnAway`, `LoadProfile` | `request.user`, `login_required` or 404, `request.user.profile` |
| `ReadSubjects`, `RemoveSubjects`, `AddSubjects` | `current_ids`, the DELETE, `bulk_create` (`accounts/views.py:363-379`) |
| `SaveUser`, `SaveProfile` | `save()` of every field; it inserts a row that is gone |
| `SaveSetting`, `ChangePassword` | `save(update_fields=...)`, which raises if the row is gone |
| `AskReset`, `Authenticate` | the reset link, and the login after the reset (`views.py:183-271`) |
| `DeleteAccount` | `delete_user_account`, which cascades |
| `Fail` | a refusal or an exception at any statement, `outer_exception_handler` |

`alone[r]` is history: no other request was open while `r` was. `ChangePassword`
always answers with a failure, because `update_session_auth_hash(None, user)`
raises after the password was saved, although the comment above it
(`user_settings.py:65`) means to keep the user logged in. Sessions are left out
but for `TurnAway`; they are in `SiteTracking`. Registration is not modelled.

### QuestionScoring and Questionnaires

`QuestionScoring` has one operator per handler (`handle_mcq` to
`handle_ranking`), `ValidAnswer` for the type rules of `QuestionResponseForm`,
and `Percentage`, `Passed` and `from_percentage` for the verdict. Points are
counted in fractions 1/`Unit` of a point; texts and keys are compared through
`Fold`, which is `strip().lower()`. The choices of a question are a set;
`Fetched` gives the lists the query may return, by `order` and those of equal
`order` any way, and each handler works on one of them.

`questionnaires` and `taken` are the tables of questionnaires and attempts by id,
`lastId` the last id given in each, `progress[p]` and `form[p]` how far a post has
come and what it has to save.

| Action of `Questionnaires` | Code |
|---|---|
| `Check` | the four form lists (`questionnare_post.py:38-99`), each checked as far as it goes; tag rows with an empty field are passed over (56) |
| `Save`, `FailToSave` | the transaction (101-188); choices find their question by its place among the forms found valid |
| `EditQuestionnaire`, `EditQuestion`, `DeleteTag` | the admin site |
| `DeleteQuestionnaire`, `DeleteQuestion` | the same; an attempt protects its questionnaire (`models.py:270-274`), a response its question (335-339) |
| `DeleteAttempt`, `DeleteResponse`, `DeleteScore` | the admin pages of what students recorded (`assessments/admin.py:207-363`), with what cascades |
| `DeleteProfile` | an account goes, by its student or an administrator, and its attempts with it (`models.py:265-269`) |
| `Take` | `setup()` and the loop over the answers: the first valid answer to each question counts |
| `UserResults`, `Shown`, `Tenths` | the results page: its counts, that it raises for an attempt without a score (`user_results.py:35`), its rounding (25-26) |
| `Stats`, `ListedFor` | the figures above the list of questionnaires, and a line of it, counted over the rows that the joins give (`Joined`), with or without the filter "completed" |

A recorded mark keeps the question as it was asked, which no column does, so that
marks given before and after an edit can be compared; `ResponsesStay` is about what
was answered and how it was marked, not about what the question says now. What is said
of marks is said of questions that are `Sane`: a positive maximum, shares between
nothing and all, and no two keys that `Fold` makes one, which the forms of the staff
ensure and the admin site does not. A slug follows the title when the title changes
(`models.py:75-81`). Attempts are taken one at a time; their races are in
`AttemptSubmission`.

### TagGraph, RecommendationEngine and RecommendationRun

A save of a relationship is a transaction of the admin site: `SaveRow`, then, for
a symmetric one, the receiver (`core/signals.py`): `FindOpposite`,
`CreateOpposite` or `UpdateOpposite`, and `Commit` or `Abort`. `held[a]` are the
rows it has written, for which others wait. `overtaken` is history: a row was
deleted while its opposite was being saved. Two requests that wait for each other
are what PostgreSQL calls a deadlock; `Abort` ends it.

`RecommendationEngine` translates engine v1 function by function into whole
numbers between 0 and `Scale`; a quotient or root is rounded down. Where the
database may return rows in any order it gives the set of all outcomes
(`LatestAttempts`, `Rankings`, `Explanations`). Because of the rounding, a career
with something in common with the user may get a similarity of 0, and
`RankingSound` puts before the unrelated ones those whose similarity is
`Measurable`. The weight of a career tag may be negative: `CareerTagInline`
(`careers/admin.py:39`) takes what the column takes, and the check for 0..1 is in
a form nobody uses (`careers/forms.py:82`).

| Action of `RecommendationRun` | Code |
|---|---|
| `EditProfile` | a grade, an attempt with a `completed_at` the client sends, a psychometric response, a renamed subject (`Subject.save`) |
| `SetLink`, `EditTag` | `CareerTag` and `Tag` rows in the admin site or a command, with the invalidation of the cache of that process |
| `Tick` | time, in units of which `TTL` make the time limit of an entry; a cache is filled within one |
| `Collect` | `collect_all_evidence`, aggregation and upsert; fails once a psychometric response is completed (`evidence.py:164`) |
| `FetchCached`, `Query`, `Fill` | `get_all_career_tag_vectors` with a change possible between query and fill |
| `Rank`, `Persist` | `rank_careers`; the explanation, which reads vectors again |

`seen[k]` is history: the career links of tick k. Reading the evidence and storing
the vector are one step here (`GenerationJob` has them apart). The parent of a tag
is left out: `TagForm`'s check for a cycle runs for new tags only, which cannot
close one, and nothing else reads the tree.

### CatalogueImport

A command goes through `BaseImporter.run`:

    idle -> valid (or rehearse) -> found -> write -> done
      every place may end in failed

`Read` stands for reading and validating the file, `Look` for looking up what the
rows refer to, which happens outside any transaction, and for finding the existing
rows in it; `Write` for `bulk_create` and `bulk_update`. `rel` is what each row was
resolved to, `seen` the existing row of each key, `stale` and `lost` the keys
deleted since. Where a lookup by name has several candidates, the last one read wins
(`Picks`). A row is known by code; names are taken up to letter case; the columns no
lookup uses are one value. Formats and batch sizes are left out. `AddCareerTags` is the
command of that name.

An administrator's form has three steps, between which everything else may happen:
`OpenForm` loads the row, `CheckName` compares the name it is given with the one stored
by then and makes the slug again if they differ (`core.py:25-27`), `SaveForm` writes
the whole row as it was loaded, and inserts it again where it is gone. `overtaken` is
history: the rows whose form found its new name stored already, by another save that
came between, and kept the slug it had loaded. `DeleteInstitution` and `DeleteCareer`
delete, with what the models cascade.

### ActivityReports and SiteTracking

`ActivityReports` has the queries of the overview, `segment` and `build_sessions`
(`aggregations/sessions.py`), and `active_sessions` of
`accounts/services/user_sessions.py`, over a sequence of rows. A session is a set of
rows: those of one identity from a visit more than the timeout after the one before
it to the next such visit. A row has the columns these go by.

| Action of `SiteTracking` | Code |
|---|---|
| `Visit`, `LogIn`, `LogOut`, `ChangePassword`, `DeleteSession` | a view, after the authentication of the key the browser sent |
| `BeginDeletion`, `CommitDeletion` | `delete_user_account`, one transaction; a row of the user recorded in between makes it fail at the commit |
| `ReadSessions`, `ListSessions` | `UserSettings.get`: live session keys first, the rows that name them later |
| `Respond` | `process_response`: the row, unless the path is excluded or a value does not fit its column |
| `AskOverview`, `CountNext` | `get_or_set` and the three queries of the overview |
| `Tick` | the time; sessions and cache entries expire |

`owner[k]` is history: who key k was issued to. What is recorded besides user, key
and time is one of a set of `Visitors`. Nothing in the repository calls the
dashboards yet; they are modelled as the library they are. A browser may send any
key ever issued, or none; sessions of anonymous visitors are left out, and the
other columns of a row (device, referrer, status, response time) are left out.

## 3. Runs

Passing runs:

| Run | Shows |
|---|---|
| `attempts` | three submissions of one pair, one of them answering a question twice, with fairness: contiguous unique numbers, all or nothing, truthful replies, a conflict only after two others got through, attempts visible in the order of their numbers, every request ends, refinement of `AttemptLedger` |
| `regen` | two scores of one profile, one web process, two Celery workers, redeliveries, a failing broker and the weekly task, with fairness: jobs stay a lock timeout apart; a score committed in time is in the evidence of the job that covers it, and gets into a recommendation and stays there unless a run fails or is overtaken; a run loses nothing a recommendation rested on before it began to read |
| `generation` | a job and a shadow run on two workers, with fairness: duplicates and extra emails each have a failure behind them; `email_sent` is truthful; the explanation agrees with the ranking but for tags the other task overwrote in between; every job fails or its recommendation's email is dealt with |
| `registry` | three edits by form or make_active: without overlap, and with no make_active cut off, at most one version is active; an activation nobody overlaps repairs any state; activations never leave none active unless a make_active overlaps another edit |
| `accounts` | three requests of any kinds: a profile form nobody overlaps leaves the subjects it asked for; forms that overlap and fail anywhere keep the subjects they agree on; a request nobody overlaps sets no field back; a deletion nobody overlaps is final |
| `ranks` | ranks follow percentages between runs where the last list was not broken off, for all arrivals, deletions and failures |
| `imports` | two commands of any kind, with and without `--update` and `--dry-run`, and an administrator whose forms load, check and save in steps: slugs follow the names but for overtaken saves; without `--update` no row changes but tags of careers the file gives tags; with it the table says what the file says and keeps the other rows |
| `questionnaires` | two posts, edits, deletions and attempts of two students over every question type: what is created is what was asked for; a better answer never scores less; report, pages and feedback agree, with and without the list's filter; a response goes only with itself, its attempt or its account |
| `tags` | two requests about relationships, edits of tags and links, and a worker with its own cache: the directions agree; vectors are at most one cache life old; rankings are complete, careers of measurable similarity before unrelated ones; evidence is that of the last attempts |
| `tracking` | two users in overlapping requests: a list of sessions shows the user's own; the cached overview misses no visit older than its life and loses none; sessions are the maximal chains |

Runs that find a disagreement between the code and what it says of itself; each
is a finding in PROJECT.json with the line quoted:

| Run | The text | What the code does |
|---|---|---|
| `bad_answer` | "one bad answer must never take down the whole submission" (`attempt_evaluation.py:264`) | a save that raises poisons the atomic block: attempt and answers are rolled back silently, the score finds no attempt, the submission is refused |
| `account_deleted` | "Permanently delete a user's account." (`user_settings.py:195`) | a profile form or a reset that loaded the user before the deletion inserts it again with `save()` |

More disagreements and surprises were met while modelling and have no run. The
actions named in brackets do what the code does, so that the properties above
hold in their presence.

Recommendations:
* The debounce lock promises one job per profile per window (`signals.py:14-17`),
  but each process has its own `LocMemCache` and so its own lock (`JobsSpaced`
  speaks of one process). A receiver whose `apply_async` fails leaves its lock entry
  behind, and the next score is told a job is "already queued" (`signals.py:48`;
  `ScoreAndLoseBroker`).
* The weekly task is a safety net for missed jobs (`tasks.py:136`), but its query
  names a field `UserProfile` does not have and raises (148; `SafetyNet`): a score
  that commits after its job has read stays out until the next one.
* The comment at `tasks.py:62-66` calls the vector it reads back "just-written"; a
  task that overlaps may have written it since (`Overwrite`). Of two jobs of one
  profile that overlap, the slower puts its older evidence on top (`overtaken`). The
  explanation may also use other career vectors than the ranking.
* Shadow rows are meant not to be surfaced (`tasks.py:93-95`), but the selectors of
  the user pages take the newest completed row whoever wrote it; nothing enqueues a
  shadow run yet.
* "exactly one row is active" (`recsys.py:305`): two overlapping forms both commit
  (352); a make_active cut off between its two writes leaves two active, and two
  make_active that both save before either clears leave none (`admin.py:748-755`).
* The best score's rank of 100.0 does not fit its column, so the nightly task fails
  there every night (`tasks.py:187`, `assessments/models.py:393-397`; `Overflow`), and a
  run broken off mid-list leaves ranks of two nights side by side (`BreakOff`). Of
  several that share the best percentage all but one get a rank below it, and which
  one does not may change from night to night (176-186; `Shared`).
* Of two careers that fit a user, the one with a negative weight on some tag may rank
  below careers that have nothing to do with the user (`admin.py:39`; `Related`).
* The first completed psychometric response stops every later run of that profile:
  `select_related("choice")` names a field that is not there (`evidence.py:164`).
* Invalidation on a change of `CareerTag` (`tags.py:37`) runs in the process that
  saved it and never reaches a worker; `VectorsRecent` rests on the time limit alone.
* A coupling of 0 counts as 1 (`evidence.py:117`); renaming or deleting the tag
  of a subject drops its grade (47).

Tags and questionnaires:
* A relationship deleted while its opposite is being saved can leave two symmetric
  rows of different strength (`overtaken`); turning symmetry off, or deleting one
  direction, leaves the other as it is.
* An unticked "primary" is sent empty, so a tag that is not primary is never stored
  (`questionnare_post.py:56`), while several primary ones are, against "Only one
  primary tag allowed" (`assessments/forms.py:85`).
* `max_score` is "Computed ceiling" (`models.py:36`) and never computed; the weight
  of a question (161-164) is ignored; an edit changes the row that students answered,
  where the docstring has a new version (16-20; `EditQuestion`); "Only published
  questionnaires can be attempted" (`forms.py:318-321`) is in a form nobody uses.
* Under the filter "completed" of the list, `attempt_count` is the square of the number
  of attempts: the filter joins them a second time (`fetch_questionnaires.py:83-98`;
  `Joined`). `PagesAgree` compares counts without the filter.
* After the deletion of a score, the results page of its student raises
  (`user_results.py:35`; `Shown`).
* A result of exactly fifty percent is passed in the report and failed on the results
  page (`user_results.py:22,35`), as `VerdictsAgree` says.

Imports:
* `tag.code` is not an attribute of a tag, so a careers file that names an existing
  tag fails (`career_importer.py:161`); one that names only unknown tags unlinks all
  tags of the careers it mentions, without `--update` too (167-185), although that
  option is the one to "Modify and overwrite existing entries"
  (`import_careers.py:23`; `Retagged`).
* An existing cutoff is looked up without its institution, a course by its title takes
  the last of that title, and one whose stored title is in mixed case is never found
  (`cut_off_importer.py:102-107,150-170`). An empty cell becomes the text "nan".
* Of two saves that give a row one new name, the later finds it stored, takes it for the
  old one and writes back the old slug (`core.py:25-27`; `overtaken`).
* `bulk_create` sends no signals, so no vector cache is cleared.

Tracking:
* A request of the user recorded while the account is being deleted makes the deletion
  fail (`user_settings.py:211`; `CommitDeletion`).
* Whoever changes the password ends the own session too; sessions ended that way stay
  in the list until they are used. A request whose address does not fit its column is
  not recorded.

Every property of a passing run has a mutant in PROJECT.json: a definition of
the module changed the way a plausible bug would change it, under which TLC
finds the property violated.

## 4. Bounds

* Requests: a retry needs one rival, and a request can only lose as many races as
  others win, so giving up after n tries needs n + 1 requests. Three requests with
  `MaxRetries` = 2 show what `MAX_ATTEMPT_NUMBER_RETRIES` = 3 does with four; two
  questions and at most two answers per request allow a repeated and a lost one.
  One pair: requests of different pairs share no key, and the proofs cover them.
* `LockTimeout` = `Countdown` = 2 ticks: equal, as in `signals.py:41-42`,
  and long enough for a score and a commit at, between and after both ends. The
  `Horizon` of 3 ticks lets the lock expire and be taken again. Two submissions of
  one process are a holder and one that skips, or two holders; the properties of
  the run are about one process, and the proofs cover any number of both.
* `MaxDeaths` = 1 (a second death repeats the first), `MaxNets` = 1.
* Two Celery workers in `regen` and `generation`: as many as there are tasks, so that
  any two overlap; `dev_run.sh` has one (solo pool), `tasks.py:46` expects more.
* `MaxRetries` = `MailRetries` = 1 stand for 3 and 5: the properties
  count retries relative to the bound. `MaxChanges` = 2 gives an older and a
  newer version of each tag, and its withdrawal. `generation` starts with evidence
  about every tag (`MCSpec`); a state without any is one change away.
* Three engine versions and three edits, each a form or make_active: two that overlap or
  one that is cut off, and one that repairs.
* Three requests about an account: two that overlap, and one that comes after them
  or overlaps just one of the two. Two subjects: one to keep and one to change.
* Five attempts of one questionnaire, two alike below and two at the top, and two of
  another: the middle ranks, both ends, ties at either, and a questionnaire that
  comes after the one that fails. `MaxDeletions` = 1, which is what makes another
  attempt the best.
* Imports: two commands, since an import can only be disturbed between two of its own
  steps, and `MaxActs` = 3 commands and requests of administrators together: two
  commands and a form, a command between the steps of two forms, or three forms. Two
  institutions and courses of one title make every lookup by name ambiguous; the names
  m and n have slugs of their own and o shares n's. Fourteen files (`SmallFiles`) have
  new and existing rows, references by code and by title, rows that swap names, a
  missing cell, an invalid row, doubled columns. Two starting catalogues, both with
  slugs that follow the names.
* Questionnaires: two posts that may want one slug, two students, two attempts, and
  one edit or deletion (`MaxEdits` = 1), each of which is checked by itself; the
  proofs cover any number of them. Two attempts of one student at one questionnaire
  are what the filter of the list multiplies. `Unit` = 36 divides by the shares of two
  and three choices. The forms have every question type and each kind of mistake.
* Tags: three tags, two requests about relationships, one subject, one questionnaire,
  two careers, one worker and one web process; three requests and jobs in all,
  enough for a change on each side of a run. `Scale` = 20 tells the factors of the
  engine apart; the weights 10, 20 and -10 make a career heavier than another, and
  one that repels. `TTL` = 2 and `Horizon` = 2 let an entry be fresh, old and expired.
  `MCInit` starts from one database with both directions of a relationship in place.
* Tracking: two users, two keys, two requests, four visitors (two that differ in
  address and path, one whose path is excluded, one whose address is malformed), three
  rows. A constraint (`Budget`) leaves out states in which a long table, many
  requests, many sessions and much time all come together. `Gap` = 1 and three ticks
  give chains and gaps; `SessionAge` = 2 and `CacheTime` = 1 let both expire.

Symmetry is used in the runs `registry`, `accounts`, `account_deleted`, `imports`,
`questionnaires` and `tracking`, which have no liveness property; their modules treat
the values that are permuted alike. Deadlock is checked in the runs of the first six
modules; where such a system comes to rest (`AllDone`, `Quiet`, `AllEnded`) the
resting state is named and loops, so that any other stop is reported. In the runs
`imports`, `questionnaires`, `tags` and `tracking` it is not, because there the
bounds on requests, edits, rows and time are what stops the system.

## 5. Fairness

* `AttemptSubmission!FairSpec`: weak fairness of each request's steps. A thread
  serving a request runs on, and PostgreSQL wakes a waiting insert when the
  other transaction ends. Death is not excluded.
* `RegenDebounce!FairSpec`: the clock, beat and open transactions go on.
  `ReadEvidence` is strongly fair, because the worker slots it needs come and go
  while other jobs run, and the broker's queue is first in, first out. Nothing
  is assumed of redeliveries or failures.
* `GenerationJob!Fairness`: the same for taking a job, weak fairness for going on
  with a job or an email.

The other modules state safety only and assume no fairness.

## 6. Proofs

Every safety invariant and every action property of the passing runs is proved for
all values of the constants, under the assumptions named below. An assumption that is
an `ASSUME` of its module is evaluated in the run of that module; the others are
hypotheses of the theorem.

### AttemptSubmission (`AssessmentsProofs`)

Under `SubmissionAssumption` (the functions have their types, questions are finite,
at least one try):

| Theorem | Property |
|---|---|
| `TypeCorrect` | `TypeOK` |
| `Numbering` | `NumbersContiguous` |
| `Atomicity` | `AllOrNothing` |
| `TruthfulReplies` | `RepliesTruthful` |
| `ContentionOnly` | `ConflictMeansContention` |
| `CommitOrder` | `CommitsInOrder` |
| `Refinement` | `LedgerSpec`: the protocol implements `AttemptLedger` |

None of these is inductive. The invariant `IInv` adds what the code relies on
without saying so:

* `NumberingInv`: the committed numbers of a pair are 1..n.
* `LockInv`: two open transactions never hold the same key.
* `HoldsInv`: which rows a transaction can hold at each place of `evaluate()`,
  that its key is not committed yet, and that `total` counts its answers.
* `CandidateInv`: a candidate is at most one above the committed maximum, and
  every retry already made is a committed number below it.
* `OwnerInv`: a committed attempt belongs to a request that has left its
  transaction and did not get an empty reply; so no request commits twice.
* `ReplyInv`: a request past its commit finds its score in the table.
* `MarksInv`, `AllOrNothing`, `TypeOK`.

The argument for numbering: a candidate was the maximum plus one when it was
read; the maximum only grows; the insert succeeded, so the number is not
committed, hence above the maximum, hence the maximum plus one still; the index
keeps it that way until the commit. There is one lemma per action, and
`NextIInv` puts them together. `Refinement` maps the committed scores to ledger
entries: a commit is a `Record`, every other step a stutter.

### The other modules

| Module | Theorem | Property | Assumed |
|---|---|---|---|
| `AssessmentsProofs` | `MarksAlwaysSound`, `VerdictsAlwaysAgree`, `PagesAlwaysAgree`, `CreatedAlwaysAsAsked`, `AnswersAlwaysStay` | `MarksSound`, `VerdictsAgree`, `PagesAgree`, `CreatedAsAsked`, `ResponsesStay` | `ScoringAssumption`, `FormsAssumption`, `AdminAssumption`, `AnswersAssumption`: `Unit` is positive, forms and answers are lists, numbers are numbers |
| `CareersTasksProofs` | `DebounceTyped`, `Spacing` | `TypeOK`, `JobsSpaced` | `DebounceAssumption` |
| | `TimelyCovered` | `TimelyScoresCovered` | `LockTimeout <= Countdown`, as in `signals.py:41-42` |
| | `NeverOlder` | `LatestNeverOlder` | `DebounceAssumption`, with any number of workers |
| | `RegistryTyped`, `AloneAtMostOne`, `Repairs`, `SomeStaysActive` | `RegistryTypeOK`, `AtMostOneActiveAlone`, `LoneActivationRepairs`, `NeverNoneActive` | nothing |
| | `RanksTyped`, `RanksInOrder` | `RanksTypeOK`, `RanksFollowScores` | `RanksAssumption`; `FewAttempts`: at most a million, which is how many ranks four decimals tell apart |
| `GenerationJobProofs` | `GenerationTyped`, `SentTruthful`, `DuplicatesExplained`, `EmailsExplained` | `TypeOK`, `SentMeansAccepted`, `DuplicatesAccounted`, `EmailsAccounted` | `GenerationAssumption` |
| | `ExplanationsRest` | `ExplanationAgrees` | `GenerationAssumption`, with any number of workers |
| `AccountRequestsProofs` | `AccountTyped`, `FormsAgree`, `DeletionFinal`, `FormObeyed`, `NoWriteBack` | `TypeOK`, `AgreedSubjects`, `DeletedAloneStaysDeleted`, `SubjectsAsAsked`, `NoWriteBackAlone` | `AccountAssumption` |
| `CatalogueImportProofs` | `SlugsAlwaysFollow` | `SlugsFollowNames` | `CataloguesFollow`: the initial catalogues do |
| | `RowsAlwaysKept` | `ImportsKeepRows` | nothing |
| | `FilesAlwaysReflected` | `ImportReflectsFile` | `FilesAssumption`: the rows of a file are a list |
| `RecommendationRunProofs` | `TypesHold`, `PairsAgreeAlways`, `VectorsAlwaysRecent` | `TypeOK`, `PairsAgree`, `VectorsRecent` | `RowsAssumption`, `CacheAssumption`, `ScaleAssumption` |
| | `EvidenceAlwaysCurrent` | `EvidenceCurrent` | also `SourcesAssumption`: subjects are told from attempts |
| | `SimilarityMeasures`, `RankingsAlwaysSound` | a lemma about `Similarity`: zero if unrelated, at least one if measurable, at most `Scale`; `RankingSound` | also `ScoresAssumption`, `RowsFinite`: numbers are integers, tables finite |
| `SiteTrackingProofs` | `ListsAlwaysOwn`, `OverviewsComplete` | `ListedAreOwn`, `OverviewComplete` | `TrackingAssumption` |
| | `TrackingTyped` | `TypeOK` | also that requests under way are finite |
| | `SessionsAlwaysChains` | `SessionsAreChains` | also `ReportAssumption`: the timeout is a number |

* Marks (`QuestionnairesInv`): a form that is saved had no errors when it was checked
  (`PostsInv`), so nothing of it is passed over and what is created is what was asked
  for; a new id is above all given before (`IdsInv`), so nothing is overwritten; an
  attempt does not outlive its questionnaire, which it protects, and its marks,
  percentage, verdict and feedback are those its questions, as they were asked, give
  its answers (`AttemptsInv`). From there each property is about one state. Of two
  answers to a multiple selection, more right and fewer wrong ones raise both recall
  and precision, and so their product, before and after rounding. In a ranking the
  matched places are the places that are right, so more of them is more points. In the
  other types the same answer finds the same choice, whatever list the query returns,
  because orders are distinct. The verdicts of report, page and feedback differ by
  strict and loose comparison and by the rounding of a percentage. `PagesAgree` counts
  the attempts of a student by questionnaire, finds the same attempts behind a
  filtered line and an unfiltered one (`LineIsOwn`), and bounds the rounding of the
  results page (`TenthsNear`). `ResponsesStay` goes through every deletion: a question
  goes only without a response to it and a questionnaire without an attempt, so only
  the three named deletions take marks away.
* Debounce (`DebounceInv`): a live lock entry belongs to a submission that set it
  (`HolderInv`); no job of a process is younger than its lock entry (`LastInv`), so
  two of them are a lock timeout apart. Whoever finds the lock held does so before
  it expires, hence before the holder's job is due if the lock is no longer than the
  countdown (`CoverInv`); nothing has been read by then (`ReadInv`), so a commit
  before the due time is read. A run reads everything committed, hence also what the
  recommendation it finds rests on, and committed scores are only ever added
  (`FreshInv`); what an overlapping run persists after that is not in `base`.
* Registry (`RegistryInv`): from its UPDATE on, an edit nobody overlaps has every
  other active version still to visit or cleared (`ClearingInv`), since whoever
  could commit another one would have to be open (`OverlapInv`). Where only forms
  overlap, what an edit clears is replaced by its own row in the same commit, and a
  make_active that is alone has committed its own row before it clears (`SavedInv`).
* Ranks (`RanksInv`): the list of a run is of one questionnaire and in order, and what
  the run has come past has the rank of its place (`ListInv`), which grows with the
  place as long as a list is not longer than `Full` (`QuotientsApart`). An attempt that
  is in the list is compared by its place; one that is not was scored after the list
  was read, so it has no rank yet (`RankedInv`). The last of a list gets no rank, so a
  ranked attempt whose percentage nobody shares has one above it, then and now while
  none is deleted, and gets a new rank in the run that ranks anything below it again
  (`OrderInv`). A run that ends anywhere else than at the end of a list leaves that
  questionnaire `torn`, until a run that is not broken off has ranked it again.
* Generation: `CopiesInv` says an accepted message is counted before the flag can be
  stored. `RowsInv` adds to the rows of a job the one it still has to write: a retry
  or a death, which gives a job its turn back, is counted in the same step.
  `StoredInv` says that from the upsert to the reading back the vector has what the
  job wrote, for every tag that no other task has written since. `MailInv` counts for
  every row the copies against its doubts and retries, and for every task the emails
  it has enqueued against its turns; the rows of all tasks then add up.
* Accounts: of two requests that are open at once neither is `alone`
  (`OverlapInv`), so what a lone request has read is still there (`SubjectsInv`,
  `CopyInv`), and nobody who loaded the user is left when a lone deletion ends
  (`DeletedInv`). Overlapping forms never remove a subject all of them want nor add
  one none of them wants, so what each has read stays true of those (`AgreedInv`).
* Imports: a command's write either puts a slug beside the name it is made of or leaves
  both alone, whichever rows it takes for existing ones; a form that has checked its name
  has a slug of that name, or is on record as beaten (`SlugsInv`), and a row it overtakes
  is settled by the next write of a slug. What a command without `--update`
  writes are rows whose keys the table did not have when it wrote (`Insertable`), not
  when it looked, so whatever appeared meanwhile is kept; links go only of careers whose
  row in the file has tags (`Retagged`). For what a file says to be in the table
  (`ImportInv`), its rows must have passed the checks of its kind (`RowsInv`) and the rows
  it found must still be those of their keys unless they were deleted (`SeenInv`), also
  when a form has inserted a deleted row again (`Revive`).
* Tags: `GInv` says who holds which rows and values (`HoldInv`), and, unless a row
  was deleted under an open save, that committed directions agree and that a request
  about to commit leaves them agreeing (`SyncInv`): one that has settled its opposite
  holds it or found it equal (`SettledAgrees`), the row it found stays (`Present`),
  and no two requests write the two directions past each other (`NoClash`).
* Vectors: `VInv` says that a cache entry, and what a run took from it, is the links
  of the tick `TTL` before the entry runs out, and a process uses only entries that
  have not. That a change clears the cache of one process is not used.
* Evidence (`EvidenceInv`): a subject's tag is there until an administrator renames
  something, and attempts whose clocks agree are in the order of their completion; so
  the one the query takes for the latest is the last.
* Rankings (`RankInv`): a worker has a merged user vector, whose figures are within
  their ranges, from the moment it has collected, and what it is about to persist is a
  ranking of that vector and the career table it read. By Cauchy and Schwarz the
  quotient under the root is at most the square of `Scale`, so the root exists and
  the clamp changes nothing; a measurable similarity is at least 1 and an unrelated
  one 0, and the sort puts it behind. A multiple of the weights is multiplied into
  the product and the lengths alike and leaves their quotient as it is.
* Tracking: `TrackingInv` says that sessions belong to the owner of their key
  (`OwnersInv`), that a row with a user and a key has the key's owner, or nobody
  (`TableInv`), and what a request knows at each place (`RequestInv`). The rows by
  which the page goes may be late; the owner of a key never changes.
* The overview (`OverviewInv`): rows keep their times and at most lose their users, so
  a visit that was there for the total and is no longer counted among the users' is
  counted among the anonymous ones, which come last (`CountingInv`); the age of a
  cached overview follows from the expiry of its entry (`CachedInv`).
* Sessions: every visit lies in the session that starts at the latest start before it;
  two visits have the same latest start exactly when every gap between them is bridged.

### Sums

`FiniteSums` is about `SumFunctionOnSet` of the community modules, which folds a
function over a set one `CHOOSE`n element at a time. The induction theorems of the
library take the predicate as a parameter, which no prover here can instantiate; the
lemmas state it as a set of subsets (`SubsetInduction`: a family that has the empty
set, and with a set also the set and one element more, has every finite set).
`SumIsTabled` shows that the fold is defined and independent of the order. From it
follow the laws of sums, `CountsAddUp` (the counts of the classes of a set add up to
its size) and `CauchySchwarz`. These are mathematics, kept as lemmas for the theorems
about the code: `MailInv` and `PagesAlwaysAgree` rest on the sums, `SimilarityMeasures`
on Cauchy and Schwarz.

### Model-checked only

Liveness: `EveryRequestEnds`, `TimelyScoresReflected` and `EveryJobAnswered` need
fairness and ENABLED, which are out of the prover's reach. That the mutants break the
properties, and that the two claims of the violation runs are false, is TLC's too.
The types of eight modules are proved and not checked by a run.

## 7. Plan

Done: the modules of section 2, and the proofs of their safety properties. What is
left, most useful first:

1. A composition of `AttemptSubmission`, `RegenDebounce` and `GenerationJob` over
   one set of committed scores; abstract promise "every committed score is
   reflected or its job failed".
2. An abstract specification of the vector cache, "a read returns the table of some
   moment of the last six hours", with `RecommendationRun` implementing it.
3. Registration in separate transactions (`accounts/views.py:92-145`), with the
   sign-up signal, as a part of `AccountRequests`.
4. The browser's attempt player and what it sends twice.

## 8. Not modelled

* Catalogue pages and their selectors: read-only queries without a decision.
* Account emails: fire and forget, every exception is logged and dropped.
* Psychometric tests: no page saves a response yet, only the admin site does; what
  the first completed one does to a run is in `RecommendationRun`.
* The admin classes: declarative; their edits are actions of the modules above.
* Browser scripts: rendering and form handling; what a browser can send is taken from
  the forms of the server.
* Registration (see the plan), object permissions, and forms nobody uses
  (`careers/forms.py`, `QuestionnaireAttemptForm`, `AttemptStatusUpdateForm`).
* Of the admin site: changing the profile, questionnaire or status of an attempt or adding
  one, adding questions to a questionnaire, and the deletion of
  a staff account with the questionnaires it created (`assessments/models.py:51-54`).
* Of the reports: the breakdowns of the dashboards (traffic, behaviour, performance,
  summary, realtime, visitors), single queries with limits and filters that no other
  query repeats, percentiles, averages, limits, percentages, and the caches other
  than the overview's, which work alike. Of the importers: file formats, batches and
  counts. Of the engine: the rounding of its decimals, and the wording of summaries.
* `retry_stuck_recommendation_jobs_task`, which changes nothing, since
  recommendations are created COMPLETED.
