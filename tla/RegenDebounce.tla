----------------------------- MODULE RegenDebounce -----------------------------
(***************************************************************************)
(* From a scored attempt to a fresh recommendation, for one profile: the   *)
(* post_save receiver of AttemptScore and its debounce lock                *)
(* (careers/signals.py), the delayed Celery job it enqueues                *)
(* (careers/tasks.py), and the weekly safety net.                          *)
(*                                                                         *)
(* The receiver runs inside the transaction that saves the score, so what  *)
(* it enqueues and what the job can read are tied to a commit still to     *)
(* come.  The lock lives in Django's cache; with the configured            *)
(* LocMemCache every web process has one of its own.  Time is a clock in   *)
(* ticks; a lock entry is gone once its expiry is reached, and a job is    *)
(* due from its eta on but may be late by any amount.                      *)
(***************************************************************************)
EXTENDS Naturals, FiniteSets

CONSTANTS
    Submissions,      \* scored attempts of the profile
    Processes,        \* web processes, each with its own cache
    ServedBy,         \* ServedBy[s]: the process that serves submission s
    LockTimeout,      \* DEBOUNCE_SECONDS
    Countdown,        \* DEBOUNCE_DELAY_SECONDS
    Workers,          \* jobs the Celery workers run at the same time
    BrokerMayFail,    \* whether apply_async can fail to reach the broker
    Horizon,          \* bound: no submission is scored after this tick
    MaxDeaths,        \* bound: worker deaths and failed runs
    MaxNets           \* bound: runs of the weekly safety net

ASSUME DebounceAssumption ==
    /\ IsFiniteSet(Submissions)
    /\ ServedBy \in [Submissions -> Processes]
    /\ LockTimeout \in Nat /\ Countdown \in Nat \ {0}
    /\ Workers \in Nat \ {0} /\ BrokerMayFail \in BOOLEAN
    /\ Horizon \in Nat /\ MaxDeaths \in Nat /\ MaxNets \in Nat

VARIABLES
    now,        \* the clock
    lockUntil,  \* lockUntil[w]: expiry of the lock entry in w's cache
    phase,      \* phase[s]: the submission's transaction
    scoredAt,   \* scoredAt[s], commitAt[s]: when the receiver ran, the commit
    commitAt,
    cover,      \* cover[s]: the submission whose lock entry stopped s from
                \*   enqueuing, or s itself
    job,        \* job[s]: the job that s enqueued
    eta,        \* eta[s]: when it is due
    evidence,   \* evidence[s]: the committed submissions its run has read
    base,       \* base[s]: latest as its run began to read (history)
    latest,     \* the evidence behind the newest recommendation
    overtaken,  \* a run put older evidence on top of newer (history)
    deaths, nets

vars == <<now, lockUntil, phase, scoredAt, commitAt, cover, job, eta, evidence,
          base, latest, overtaken, deaths, nets>>

Phases == {"idle", "open", "committed", "undone"}
JobStates == {"none", "queued", "running", "done", "failed"}

Committed == {s \in Submissions : phase[s] = "committed"}
Running == {s \in Submissions : job[s] = "running"}

--------------------------------------------------------------------------------
Init ==
    /\ now = 0
    /\ lockUntil = [w \in Processes |-> 0]
    /\ phase = [s \in Submissions |-> "idle"]
    /\ scoredAt = [s \in Submissions |-> 0]
    /\ commitAt = [s \in Submissions |-> 0]
    /\ cover = [s \in Submissions |-> s]
    /\ job = [s \in Submissions |-> "none"]
    /\ eta = [s \in Submissions |-> 0]
    /\ evidence = [s \in Submissions |-> {}]
    /\ base = [s \in Submissions |-> {}]
    /\ latest = {}
    /\ overtaken = FALSE
    /\ deaths = 0 /\ nets = 0

\* Mutant of LockFree: cache.set instead of cache.add.
LockFreeAlways(w) == TRUE

\* cache.add succeeds when there is no entry, or only an expired one.
LockFree(w) == lockUntil[w] <= now

\* The submission whose receiver set the entry that w's cache holds.
Holder(w) == CHOOSE s \in Submissions :
    /\ phase[s] # "idle" /\ ServedBy[s] = w /\ cover[s] = s
    /\ scoredAt[s] + LockTimeout = lockUntil[w]

\* The receiver gets the lock and enqueues a job, due Countdown from now.
ScoreAndEnqueue(s) ==
    LET w == ServedBy[s] IN
    /\ phase[s] = "idle" /\ now <= Horizon
    /\ LockFree(w)
    /\ lockUntil' = [lockUntil EXCEPT ![w] = now + LockTimeout]
    /\ job' = [job EXCEPT ![s] = "queued"]
    /\ eta' = [eta EXCEPT ![s] = now + Countdown]
    /\ phase' = [phase EXCEPT ![s] = "open"]
    /\ scoredAt' = [scoredAt EXCEPT ![s] = now]
    /\ UNCHANGED <<now, commitAt, cover, evidence, base, latest, overtaken, deaths, nets>>

\* The receiver finds the lock held: "already queued -- skipping duplicate".
ScoreAndSkip(s) ==
    LET w == ServedBy[s] IN
    /\ phase[s] = "idle" /\ now <= Horizon
    /\ ~LockFree(w)
    /\ cover' = [cover EXCEPT ![s] = Holder(w)]
    /\ phase' = [phase EXCEPT ![s] = "open"]
    /\ scoredAt' = [scoredAt EXCEPT ![s] = now]
    /\ UNCHANGED <<now, lockUntil, commitAt, job, eta, evidence, base, latest,
                   overtaken, deaths, nets>>

\* The receiver gets the lock but the broker cannot be reached: apply_async
\* raises, the exception undoes the transaction, the lock entry stays.
ScoreAndLoseBroker(s) ==
    LET w == ServedBy[s] IN
    /\ BrokerMayFail
    /\ phase[s] = "idle" /\ now <= Horizon
    /\ LockFree(w)
    /\ lockUntil' = [lockUntil EXCEPT ![w] = now + LockTimeout]
    /\ phase' = [phase EXCEPT ![s] = "undone"]
    /\ scoredAt' = [scoredAt EXCEPT ![s] = now]
    /\ UNCHANGED <<now, commitAt, cover, job, eta, evidence, base, latest, overtaken, deaths, nets>>

\* The transaction with the score commits, or is rolled back after all.
CommitScore(s) ==
    /\ phase[s] = "open"
    /\ phase' = [phase EXCEPT ![s] = "committed"]
    /\ commitAt' = [commitAt EXCEPT ![s] = now]
    /\ UNCHANGED <<now, lockUntil, scoredAt, cover, job, eta, evidence, base, latest,
                   overtaken, deaths, nets>>

UndoScore(s) ==
    /\ phase[s] = "open"
    /\ phase' = [phase EXCEPT ![s] = "undone"]
    /\ UNCHANGED <<now, lockUntil, scoredAt, commitAt, cover, job, eta, evidence,
                   base, latest, overtaken, deaths, nets>>

--------------------------------------------------------------------------------
\* Mutants of ReadEvidence: the countdown is not passed on, and the evidence is
\* that of the moment the job was due.
ReadEvidenceAtOnce(j) ==
    /\ job[j] = "queued"
    /\ Cardinality(Running) < Workers
    /\ job' = [job EXCEPT ![j] = "running"]
    /\ evidence' = [evidence EXCEPT ![j] = Committed]
    /\ base' = [base EXCEPT ![j] = latest]
    /\ UNCHANGED <<now, lockUntil, phase, scoredAt, commitAt, cover, eta, latest,
                   overtaken, deaths, nets>>

ReadEvidenceAsDue(j) ==
    /\ job[j] = "queued" /\ eta[j] <= now
    /\ Cardinality(Running) < Workers
    /\ job' = [job EXCEPT ![j] = "running"]
    /\ evidence' = [evidence EXCEPT ![j] = {s \in Committed : commitAt[s] <= eta[j]}]
    /\ base' = [base EXCEPT ![j] = latest]
    /\ UNCHANGED <<now, lockUntil, phase, scoredAt, commitAt, cover, eta, latest,
                   overtaken, deaths, nets>>

\* A worker takes a due job and collects the evidence of the moment.
ReadEvidence(j) ==
    /\ job[j] = "queued" /\ eta[j] <= now
    /\ Cardinality(Running) < Workers
    /\ job' = [job EXCEPT ![j] = "running"]
    /\ evidence' = [evidence EXCEPT ![j] = Committed]
    /\ base' = [base EXCEPT ![j] = latest]
    /\ UNCHANGED <<now, lockUntil, phase, scoredAt, commitAt, cover, eta, latest,
                   overtaken, deaths, nets>>

\* The recommendation row is written, with the latest generated_at.
Persist(j) ==
    /\ job[j] = "running"
    /\ job' = [job EXCEPT ![j] = "done"]
    /\ latest' = evidence[j]
    /\ overtaken' = (overtaken \/ ~(latest \subseteq evidence[j]))
    /\ UNCHANGED <<now, lockUntil, phase, scoredAt, commitAt, cover, eta, evidence,
                   base, deaths, nets>>

\* Mutant of Redeliver: the job was acknowledged before it ran.
RedeliverNothing(j) ==
    /\ job[j] = "running" /\ deaths < MaxDeaths
    /\ job' = [job EXCEPT ![j] = "done"]
    /\ deaths' = deaths + 1
    /\ UNCHANGED <<now, lockUntil, phase, scoredAt, commitAt, cover, eta, evidence,
                   base, latest, overtaken, nets>>

\* The worker dies mid-task: acks_late, the broker delivers the job again.  Or
\* the run meets an OperationalError and Celery queues it once more; its extra
\* countdown is part of being late.
Redeliver(j) ==
    /\ job[j] = "running" /\ deaths < MaxDeaths
    /\ job' = [job EXCEPT ![j] = "queued"]
    /\ evidence' = [evidence EXCEPT ![j] = {}]
    /\ deaths' = deaths + 1
    /\ UNCHANGED <<now, lockUntil, phase, scoredAt, commitAt, cover, eta, base, latest,
                   overtaken, nets>>

\* The run raises something other than OperationalError, or its retries are
\* used up: the job is gone.
FailRun(j) ==
    /\ job[j] = "running" /\ deaths < MaxDeaths
    /\ job' = [job EXCEPT ![j] = "failed"]
    /\ deaths' = deaths + 1
    /\ UNCHANGED <<now, lockUntil, phase, scoredAt, commitAt, cover, eta, evidence,
                   base, latest, overtaken, nets>>

\* Celery beat starts regenerate_all_recommendations_task.  Its first query
\* filters UserProfile on is_active, a field the model does not have, so it
\* raises before it enqueues any profile.
SafetyNet ==
    /\ nets < MaxNets
    /\ nets' = nets + 1
    /\ UNCHANGED <<now, lockUntil, phase, scoredAt, commitAt, cover, job, eta, evidence,
                   base, latest, overtaken, deaths>>

\* Time passes, up to the tick at which the last job is due.
Tick ==
    /\ now < Horizon + Countdown
    /\ now' = now + 1
    /\ UNCHANGED <<lockUntil, phase, scoredAt, commitAt, cover, job, eta, evidence,
                   base, latest, overtaken, deaths, nets>>

Work(j) == ReadEvidence(j) \/ Persist(j)
Finish(s) == CommitScore(s) \/ UndoScore(s)

\* Nothing is left to happen within the horizon.
Quiet ==
    /\ now = Horizon + Countdown
    /\ \A s \in Submissions : phase[s] # "open" /\ job[s] \in {"none", "done", "failed"}
    /\ UNCHANGED vars

Next ==
    \/ \E s \in Submissions :
        \/ ScoreAndEnqueue(s) \/ ScoreAndSkip(s) \/ ScoreAndLoseBroker(s)
        \/ Finish(s)
        \/ Work(s) \/ Redeliver(s) \/ FailRun(s)
    \/ SafetyNet
    \/ Tick
    \/ Quiet

Spec == Init /\ [][Next]_vars

\* The clock runs, beat keeps its schedule, open transactions end, and workers
\* keep taking due jobs and finishing them.
FairSpec ==
    /\ Spec
    /\ WF_vars(Tick) /\ WF_vars(SafetyNet)
    /\ \A s \in Submissions : WF_vars(Finish(s)) /\ SF_vars(ReadEvidence(s)) /\ WF_vars(Persist(s))

--------------------------------------------------------------------------------
TypeOK ==
    /\ now \in 0..(Horizon + Countdown)
    /\ lockUntil \in [Processes -> 0..(Horizon + LockTimeout)]
    /\ phase \in [Submissions -> Phases]
    /\ scoredAt \in [Submissions -> 0..Horizon]
    /\ commitAt \in [Submissions -> 0..(Horizon + Countdown)]
    /\ cover \in [Submissions -> Submissions]
    /\ job \in [Submissions -> JobStates]
    /\ eta \in [Submissions -> 0..(Horizon + Countdown)]
    /\ evidence \in [Submissions -> SUBSET Submissions]
    /\ base \in [Submissions -> SUBSET Submissions]
    /\ latest \subseteq Submissions /\ overtaken \in BOOLEAN
    /\ deaths \in 0..MaxDeaths /\ nets \in 0..MaxNets

\* Two jobs enqueued by one web process are at least a lock timeout apart.
JobsSpaced ==
    \A s, t \in Submissions :
        /\ s # t /\ ServedBy[s] = ServedBy[t]
        /\ job[s] # "none" /\ job[t] # "none"
        => scoredAt[s] >= scoredAt[t] + LockTimeout \/ scoredAt[t] >= scoredAt[s] + LockTimeout

\* A score whose transaction ends before the job covering it is due, or without
\* delay, is never missed by that job, if the job got to the broker: it has yet
\* to read, or has read the score, or failed.
TimelyScoresCovered ==
    \A s \in Committed :
        commitAt[s] < eta[cover[s]] \/ commitAt[s] = scoredAt[s] =>
            \/ job[cover[s]] \in {"none", "queued", "failed"}
            \/ s \in evidence[cover[s]]

\* A run loses nothing of what a recommendation rested on before it began to
\* read, however many jobs run at a time, are late or are run again.  (What an
\* overlapping run persisted since then it may lose: the slower of two runs puts
\* its older evidence on top.)
LatestNeverOlder ==
    [][\A j \in Submissions :
        job[j] = "running" /\ job'[j] = "done" => base[j] \subseteq latest']_vars

\* Every due job is eventually settled, so timely scores end up in a
\* recommendation, and stay there, unless a run failed or one of two that
\* overlapped put its older evidence on top.
TimelyScoresReflected ==
    \A s \in Submissions :
        (s \in Committed /\ commitAt[s] < eta[cover[s]]) ~>
            (s \in latest \/ overtaken \/ \E t \in Submissions : job[t] = "failed")
================================================================================
