----------------------------- MODULE GenerationJob -----------------------------
(***************************************************************************)
(* The Celery tasks that turn the evidence of one profile into             *)
(* recommendations and emails (careers/tasks.py), step by step where other *)
(* tasks of the same profile can come in between: collect the evidence,    *)
(* upsert UserTagVector, read it back for the explanation, persist the     *)
(* recommendation in one transaction, enqueue the email.  Shadow runs take *)
(* the same steps and send no email.                                       *)
(*                                                                         *)
(* Evidence is a version number per tag, 0 where the profile has none; a   *)
(* ranking and an explanation are the versions they were computed from.    *)
(* Jobs are acknowledged late, so a job whose worker dies is delivered     *)
(* again; email tasks are acknowledged early, so theirs is not.            *)
(***************************************************************************)
EXTENDS Naturals, Sequences, FiniteSets, FiniteSetsExt, Functions

CONSTANTS
    Jobs,         \* generate_recommendations_task messages of the profile
    Shadows,      \* run_shadow_engines_task messages, one shadow engine each
    Tags,         \* tags the profile's evidence can be about
    Workers,      \* jobs and shadow runs executed at the same time
    MaxRetries,   \* max_retries of generate_recommendations_task
    MailRetries,  \* max_retries of send_recommendation_email_task
    MaxChanges,   \* bound: changes of the evidence
    MaxDeaths     \* bound: deliveries lost to a dying worker, per job

ASSUME GenerationAssumption ==
    /\ Jobs \cap Shadows = {}
    /\ IsFiniteSet(Jobs) /\ IsFiniteSet(Shadows)
    /\ Workers \in Nat \ {0}
    /\ MaxRetries \in Nat /\ MailRetries \in Nat
    /\ MaxChanges \in Nat \ {0} /\ MaxDeaths \in Nat

VARIABLES
    evidence,         \* evidence[t]: version of the evidence about tag t
    changes,          \* how often it has changed
    vector,           \* UserTagVector: vector[t], 0 where there is no row
    pc,               \* pc[j]: where the task is
    collected,        \* collected[j]: the evidence the engine run aggregated
    reread,           \* reread[j]: user_vector, read back from UserTagVector
    overwritten,      \* overwritten[j]: tags that another task has upserted
                      \*   between job j's upsert and its reading back (history)
    retries, deaths,  \* of task j
    recommendations   \* CareerRecommendation rows in the order of generated_at

vars == <<evidence, changes, vector, pc, collected, reread, overwritten, retries, deaths,
          recommendations>>

locals == <<collected, reread, overwritten>>

Tasks == Jobs \cup Shadows
Versions == 0..MaxChanges
Nothing == [t \in Tags |-> 0]

Places == {"queued", "collected", "stored", "reread", "persisted", "enqueued", "done", "failed"}
MailStates == {"none", "queued", "sending", "accepted", "done", "lost"}

\* A row with its explanation; by, overwritten, doubts and copies are not columns.
Recommendation ==
    [by : Tasks, ranked : [Tags -> Versions], explained : [Tags -> Versions],
     overwritten : SUBSET Tags,
     mail : MailStates, tries : 0..MailRetries, email_sent : BOOLEAN,
     copies : Nat,     \* emails the mail server has accepted
     doubts : Nat]     \* of these, the ones whose sending raised all the same

Busy == {j \in Tasks : pc[j] \in {"collected", "stored", "reread", "persisted", "enqueued"}}

\* The most rows the tasks can write.
MaxRows == Cardinality(Tasks) * (1 + MaxDeaths + MaxRetries)

\* Indices of the rows that task j has written.
RowsBy(j) == {i \in DOMAIN recommendations : recommendations[i].by = j}

\* The vector after an upsert of the tags in agg that have evidence.
Upsert(agg) == [t \in Tags |-> IF agg[t] # 0 THEN agg[t] ELSE vector[t]]

--------------------------------------------------------------------------------
Init ==
    /\ evidence \in [Tags -> {0, 1}]
    /\ changes = 1
    /\ vector = Nothing
    /\ pc = [j \in Tasks |-> "queued"]
    /\ collected = [j \in Tasks |-> Nothing]
    /\ reread = [j \in Tasks |-> Nothing]
    /\ overwritten = [j \in Tasks |-> {}]
    /\ retries = [j \in Tasks |-> 0]
    /\ deaths = [j \in Tasks |-> 0]
    /\ recommendations = <<>>

\* The user scores another attempt or edits the profile: the evidence about a
\* tag becomes newer, or goes away with a subject or a preference.
ChangeEvidence(t) ==
    /\ changes < MaxChanges
    /\ changes' = changes + 1
    /\ \E v \in {0, changes + 1} : evidence' = [evidence EXCEPT ![t] = v]
    /\ UNCHANGED <<vector, pc, locals, retries, deaths, recommendations>>

\* A worker takes the task; the engine collects and aggregates the evidence.
CollectEvidence(j) ==
    /\ pc[j] = "queued"
    /\ Cardinality(Busy) < Workers
    /\ collected' = [collected EXCEPT ![j] = evidence]
    /\ pc' = [pc EXCEPT ![j] = "collected"]
    /\ UNCHANGED <<evidence, changes, vector, reread, overwritten, retries, deaths,
                   recommendations>>

\* Every other job that has yet to read back will find the tags of agg
\* overwritten.
Overwrite(j, agg) ==
    overwritten' = [k \in Tasks |->
        IF k = j \/ k \in Shadows THEN {}
        ELSE IF pc[k] = "stored" THEN overwritten[k] \cup {t \in Tags : agg[t] # 0}
        ELSE overwritten[k]]

\* Mutant of StoreVector: only rows that are missing are written.
StoreVectorOnce(j) ==
    /\ pc[j] = "collected"
    /\ vector' = [t \in Tags |-> IF vector[t] = 0 THEN collected[j][t] ELSE vector[t]]
    /\ Overwrite(j, collected[j])
    /\ pc' = [pc EXCEPT ![j] = "stored"]
    /\ UNCHANGED <<evidence, changes, collected, reread, retries, deaths, recommendations>>

\* persist_user_tag_vector; tags without evidence keep the row they have.
StoreVector(j) ==
    /\ pc[j] = "collected"
    /\ vector' = Upsert(collected[j])
    /\ Overwrite(j, collected[j])
    /\ pc' = [pc EXCEPT ![j] = "stored"]
    /\ UNCHANGED <<evidence, changes, collected, reread, retries, deaths, recommendations>>

\* The engine ranks what it collected, then the task reads the vector back.
RereadVector(j) ==
    /\ pc[j] = "stored"
    /\ reread' = [reread EXCEPT ![j] = vector]
    /\ pc' = [pc EXCEPT ![j] = "reread"]
    /\ UNCHANGED <<evidence, changes, vector, collected, overwritten, retries, deaths,
                   recommendations>>

\* The row that task j persists: the ranking of what the engine collected, the
\* explanation of what was read back; a shadow run's row has no explanation.
NewRow(j) ==
    [by |-> j, ranked |-> collected[j],
     explained |-> IF j \in Shadows THEN Nothing ELSE reread[j],
     overwritten |-> overwritten[j],
     mail |-> "none", tries |-> 0, email_sent |-> FALSE, copies |-> 0, doubts |-> 0]

\* What a run of task j has read ends with it.
Forget(j) ==
    /\ collected' = [collected EXCEPT ![j] = Nothing]
    /\ reread' = [reread EXCEPT ![j] = Nothing]
    /\ overwritten' = [overwritten EXCEPT ![j] = {}]

\* The transaction of persist_recommendation commits.  A shadow run ends there.
Persist(j) ==
    /\ pc[j] = "reread"
    /\ recommendations' = Append(recommendations, NewRow(j))
    /\ pc' = [pc EXCEPT ![j] = IF j \in Shadows THEN "done" ELSE "persisted"]
    /\ Forget(j)
    /\ UNCHANGED <<evidence, changes, vector, retries, deaths>>

\* send_recommendation_email_task.delay(recommendation.id).
EnqueueEmail(j) ==
    /\ pc[j] = "persisted"
    /\ recommendations' =
           [recommendations EXCEPT ![Max(RowsBy(j))].mail = "queued"]
    /\ pc' = [pc EXCEPT ![j] = "enqueued"]
    /\ UNCHANGED <<evidence, changes, vector, locals, retries, deaths>>

\* The job is acknowledged.
Acknowledge(j) ==
    /\ pc[j] = "enqueued"
    /\ pc' = [pc EXCEPT ![j] = "done"]
    /\ UNCHANGED <<evidence, changes, vector, locals, retries, deaths,
                   recommendations>>

--------------------------------------------------------------------------------
\* Mutant of RetryJob: the retries are not counted.
RetryJobUncounted(j) ==
    /\ j \in Jobs
    /\ pc[j] \in {"collected", "stored", "reread"}
    /\ Len(recommendations) < MaxRows
    /\ pc' = [pc EXCEPT ![j] = "queued"]
    /\ \/ UNCHANGED recommendations
       \/ pc[j] = "reread" /\ recommendations' = Append(recommendations, NewRow(j))
    /\ Forget(j)
    /\ UNCHANGED <<evidence, changes, vector, retries, deaths>>

\* An OperationalError of the database before or during the last commit: Celery
\* runs the job again, at most MaxRetries times.  When it is the answer to the
\* COMMIT that is lost, the row is there all the same.
RetryJob(j) ==
    /\ j \in Jobs
    /\ pc[j] \in {"collected", "stored", "reread"}
    /\ retries[j] < MaxRetries
    /\ retries' = [retries EXCEPT ![j] = @ + 1]
    /\ pc' = [pc EXCEPT ![j] = "queued"]
    /\ \/ UNCHANGED recommendations
       \/ pc[j] = "reread" /\ recommendations' = Append(recommendations, NewRow(j))
    /\ Forget(j)
    /\ UNCHANGED <<evidence, changes, vector, deaths>>

\* Any other exception, or the last retry is used up: no email was enqueued and
\* the failed task is acknowledged.  A shadow run fails on any exception,
\* and when its worker dies.
FailJob(j) ==
    /\ j \in Busy /\ pc[j] # "enqueued"
    /\ pc' = [pc EXCEPT ![j] = "failed"]
    /\ Forget(j)
    /\ UNCHANGED <<evidence, changes, vector, retries, deaths,
                   recommendations>>

\* Mutant of WorkerDies: the job was acknowledged when it was received.
WorkerDiesAfterAck(j) ==
    /\ j \in Jobs \cap Busy
    /\ deaths[j] < MaxDeaths
    /\ deaths' = [deaths EXCEPT ![j] = @ + 1]
    /\ pc' = [pc EXCEPT ![j] = "done"]
    /\ Forget(j)
    /\ UNCHANGED <<evidence, changes, vector, retries, recommendations>>

\* The worker dies before it acknowledges a job, even one that has enqueued its
\* email: the broker delivers the job again.
WorkerDies(j) ==
    /\ j \in Jobs \cap Busy
    /\ deaths[j] < MaxDeaths
    /\ deaths' = [deaths EXCEPT ![j] = @ + 1]
    /\ pc' = [pc EXCEPT ![j] = "queued"]
    /\ Forget(j)
    /\ UNCHANGED <<evidence, changes, vector, retries, recommendations>>

--------------------------------------------------------------------------------
\* send_recommendation_email_task for row i.

\* Only row i changes, to row.
SetRow(i, row) ==
    /\ recommendations' = [recommendations EXCEPT ![i] = row]
    /\ UNCHANGED <<evidence, changes, vector, pc, locals, retries, deaths>>

\* Mutant of StartMail: email_sent is stored before the message is sent.
StartMailFlagged(i) ==
    LET row == recommendations[i] IN
    /\ row.mail = "queued"
    /\ SetRow(i, [row EXCEPT !.mail = "sending", !.email_sent = TRUE])

\* A worker takes the email task; it is acknowledged at once.
StartMail(i) ==
    LET row == recommendations[i] IN
    /\ row.mail = "queued"
    /\ SetRow(i, [row EXCEPT !.mail = "sending"])

\* The mail server accepts the message.
MailAccepted(i) ==
    LET row == recommendations[i] IN
    /\ row.mail = "sending"
    /\ SetRow(i, [row EXCEPT !.mail = "accepted", !.copies = @ + 1])

\* Building or sending raises, possibly after the server has accepted the
\* message: email_sent = False, and another try while there is one left.
MailRaises(i) ==
    LET row == recommendations[i] IN
    /\ row.mail = "sending"
    /\ \E accepted \in {0, 1} :
         LET told == [row EXCEPT !.email_sent = FALSE, !.copies = @ + accepted,
                                 !.doubts = @ + accepted] IN
         SetRow(i, IF row.tries < MailRetries
                   THEN [told EXCEPT !.mail = "queued", !.tries = @ + 1]
                   ELSE [told EXCEPT !.mail = "lost", !.tries = 0])

\* email_sent = True is stored and the task ends, its tries with it.
FlagSent(i) ==
    LET row == recommendations[i] IN
    /\ row.mail = "accepted"
    /\ SetRow(i, [row EXCEPT !.mail = "done", !.tries = 0, !.email_sent = TRUE])

\* Mutant of FlagFails: the update is inside the try block, so the task retries.
FlagFailsRetried(i) ==
    LET row == recommendations[i] IN
    /\ row.mail = "accepted" /\ row.tries < MailRetries
    /\ SetRow(i, [row EXCEPT !.mail = "queued", !.tries = @ + 1])

\* Storing email_sent = True raises, outside the try block: no further try.
FlagFails(i) ==
    LET row == recommendations[i] IN
    /\ row.mail = "accepted"
    /\ SetRow(i, [row EXCEPT !.mail = "lost", !.tries = 0])

\* The worker dies during the email task, which is already acknowledged.
MailWorkerDies(i) ==
    LET row == recommendations[i] IN
    /\ row.mail \in {"sending", "accepted"}
    /\ SetRow(i, [row EXCEPT !.mail = "lost", !.tries = 0])

Work(j) ==
    \/ CollectEvidence(j) \/ StoreVector(j) \/ RereadVector(j) \/ Persist(j)
    \/ EnqueueEmail(j) \/ Acknowledge(j)
Mail(i) == StartMail(i) \/ MailAccepted(i) \/ MailRaises(i) \/ FlagSent(i)

\* Every message is settled.
Quiet ==
    /\ \A j \in Tasks : pc[j] \in {"done", "failed"}
    /\ \A i \in DOMAIN recommendations : recommendations[i].mail \in {"none", "done", "lost"}
    /\ UNCHANGED vars

Next ==
    \/ \E t \in Tags : ChangeEvidence(t)
    \/ \E j \in Tasks : Work(j) \/ RetryJob(j) \/ FailJob(j) \/ WorkerDies(j)
    \/ \E i \in DOMAIN recommendations : Mail(i) \/ FlagFails(i) \/ MailWorkerDies(i)
    \/ Quiet

Spec == Init /\ [][Next]_vars

\* Workers keep taking messages and going on with them.
Fairness ==
    /\ \A j \in Tasks : SF_vars(CollectEvidence(j)) /\ WF_vars(Work(j))
    /\ \A i \in 1..MaxRows : WF_vars(i \in DOMAIN recommendations /\ Mail(i))

--------------------------------------------------------------------------------
TypeOK ==
    /\ evidence \in [Tags -> Versions] /\ changes \in 0..MaxChanges
    /\ vector \in [Tags -> Versions]
    /\ pc \in [Tasks -> Places]
    /\ collected \in [Tasks -> [Tags -> Versions]]
    /\ reread \in [Tasks -> [Tags -> Versions]]
    /\ overwritten \in [Tasks -> SUBSET Tags]
    /\ retries \in [Tasks -> 0..MaxRetries] /\ deaths \in [Tasks -> 0..MaxDeaths]
    /\ recommendations \in Seq(Recommendation)

\* A job leaves one recommendation, and at most one more for each time it was
\* delivered or run again ("a retried task after a partial failure just
\* produces one more (harmless) row", careers/tasks.py:10-13).
DuplicatesAccounted ==
    \A j \in Jobs : Cardinality(RowsBy(j)) <= 1 + deaths[j] + retries[j]

Copies == [i \in DOMAIN recommendations |-> recommendations[i].copies]
Doubts == [i \in DOMAIN recommendations |-> recommendations[i].doubts]

\* A user hears of one job once, and once more only for a worker that died or a
\* sending that raised although the server had accepted the message; database
\* errors and retries of the job cause no second email.
EmailsAccounted ==
    \A j \in Jobs :
        SumFunctionOnSet(Copies, RowsBy(j))
            <= 1 + deaths[j] + SumFunctionOnSet(Doubts, RowsBy(j))

\* email_sent says the truth: no row claims an email that was never accepted.
SentMeansAccepted ==
    \A i \in DOMAIN recommendations :
        recommendations[i].email_sent => recommendations[i].copies > 0

\* An explanation rests on the very evidence the ranking rests on, for every
\* tag the ranking used, whatever the user changes meanwhile, whichever worker
\* dies and however many tasks run at a time: but for the tags that another job
\* or a shadow run wrote between this job's writing and its reading back.
ExplanationAgrees ==
    \A i \in DOMAIN recommendations :
        LET row == recommendations[i] IN
        row.by \in Jobs =>
            \A t \in Tags \ row.overwritten :
                row.ranked[t] # 0 => row.explained[t] = row.ranked[t]

\* Every job fails for good or leads to a recommendation whose email was dealt
\* with, however often its worker dies between persisting and enqueuing.
EveryJobAnswered ==
    \A j \in Jobs :
        <>(\/ pc[j] = "failed"
           \/ \E i \in RowsBy(j) : recommendations[i].mail \in {"done", "lost"})
================================================================================
