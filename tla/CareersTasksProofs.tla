-------------------------- MODULE CareersTasksProofs --------------------------
(***************************************************************************)
(* Proofs about what the careers app keeps between its processes: the      *)
(* regeneration lock and its jobs (RegenDebounce), the active engine       *)
(* version (EngineRegistry) and the nightly percentile ranks               *)
(* (PercentileRanks), for any number of rows, processes, edits and times.  *)
(***************************************************************************)
EXTENDS RegenDebounce, EngineRegistry, PercentileRanks, FiniteSetTheorems, FunctionTheorems, TLAPS

--------------------------------------------------------------------------------
(***************************************************************************)
(* RegenDebounce.  Why a timely score is not lost: whoever finds the lock  *)
(* held does so before it expires, and with LockTimeout <= Countdown that  *)
(* is before the holder's job is due.  Until then nothing has been read.   *)
(***************************************************************************)

\* A live lock entry was set by a submission that is its own cover.
HolderInv == \A w \in Processes : lockUntil[w] > now =>
    \E s \in Submissions :
        /\ phase[s] # "idle" /\ ServedBy[s] = w /\ cover[s] = s
        /\ scoredAt[s] + LockTimeout = lockUntil[w]

\* No process has enqueued a job later than it last took its lock.
LastInv == \A s \in Submissions :
    job[s] # "none" => scoredAt[s] + LockTimeout <= lockUntil[ServedBy[s]]

\* A submission that has not been scored covers only itself and has no job;
\* every other one was scored in the past, and its job is due Countdown later.
ScoredInv ==
    /\ \A s, t \in Submissions : phase[s] = "idle" /\ cover[t] = s => t = s
    /\ \A s \in Submissions :
        /\ phase[s] = "idle" => job[s] = "none" /\ cover[s] = s
        /\ scoredAt[s] <= now
        /\ job[s] # "none" => eta[s] = scoredAt[s] + Countdown

\* A job that has read was due, and has read all it covers that was on time.
ReadInv == \A j \in Submissions : job[j] \in {"running", "done"} =>
    /\ eta[j] <= now
    /\ \A s \in Committed :
        cover[s] = j /\ commitAt[s] < eta[j] => s \in evidence[j]

DebounceInv == TypeOK /\ HolderInv /\ LastInv /\ ScoredInv /\ ReadInv /\ JobsSpaced

\* Whoever is covered by a job was scored before that job was due.
CoverInv == \A s \in Submissions :
    job[cover[s]] # "none" => scoredAt[s] < eta[cover[s]]

USE DebounceAssumption

--------------------------------------------------------------------------------
LEMMA DebounceInit == Init => DebounceInv /\ CoverInv
<1> SUFFICES ASSUME Init PROVE DebounceInv /\ CoverInv OBVIOUS
<1>1. TypeOK
  <2>1. 0 \in 0..Horizon /\ 0 \in 0..(Horizon + Countdown) /\ 0 \in 0..(Horizon + LockTimeout)
        /\ 0 \in 0..MaxDeaths /\ 0 \in 0..MaxNets
    OBVIOUS
  <2>2. overtaken \in BOOLEAN BY DEF Init
  <2> QED BY <2>1, <2>2 DEF Init, TypeOK, Phases, JobStates
<1>2. HolderInv BY DEF Init, HolderInv
<1>3. LastInv BY DEF Init, LastInv
<1>4. ScoredInv BY DEF Init, ScoredInv
<1>5. ReadInv BY DEF Init, ReadInv
<1>6. JobsSpaced BY DEF Init, JobsSpaced
<1>7. CoverInv BY DEF Init, CoverInv
<1> QED BY <1>1, <1>2, <1>3, <1>4, <1>5, <1>6, <1>7 DEF DebounceInv

\* The lock that a process has found held has a holder.
LEMMA HolderExists ==
    ASSUME DebounceInv, NEW w \in Processes, ~LockFree(w)
    PROVE  /\ Holder(w) \in Submissions
           /\ phase[Holder(w)] # "idle"
           /\ scoredAt[Holder(w)] + LockTimeout = lockUntil[w]
<1>1. lockUntil[w] > now BY DEF DebounceInv, TypeOK, LockFree
<1> QED BY <1>1 DEF DebounceInv, HolderInv, Holder

\* What the process enqueued before is at least a lock timeout old.
LEMMA EnqueueKeeps ==
    ASSUME DebounceInv, NEW s \in Submissions, ScoreAndEnqueue(s)
    PROVE  DebounceInv'
<1> USE DEF DebounceInv
<1>1. TypeOK' BY DEF TypeOK, Phases, JobStates, ScoreAndEnqueue
<1>2. HolderInv' BY DEF TypeOK, HolderInv, ScoredInv, ScoreAndEnqueue, LockFree
<1>3. LastInv' BY DEF TypeOK, LastInv, ScoreAndEnqueue, LockFree
<1>4. ScoredInv' BY DEF TypeOK, ScoredInv, ScoreAndEnqueue
<1>5. ReadInv' BY DEF TypeOK, ReadInv, ScoredInv, Committed, ScoreAndEnqueue
<1>6. JobsSpaced' BY DEF TypeOK, JobsSpaced, LastInv, ScoreAndEnqueue, LockFree
<1> QED BY <1>1, <1>2, <1>3, <1>4, <1>5, <1>6

LEMMA SkipKeeps ==
    ASSUME DebounceInv, NEW s \in Submissions, ScoreAndSkip(s)
    PROVE  DebounceInv'
<1> USE DEF DebounceInv
<1>1. TypeOK' BY HolderExists DEF TypeOK, Phases, ScoreAndSkip
<1>2. HolderInv' BY DEF TypeOK, HolderInv, ScoredInv, ScoreAndSkip
<1>3. LastInv' BY DEF TypeOK, LastInv, ScoredInv, ScoreAndSkip
<1>4. ScoredInv' BY HolderExists DEF TypeOK, ScoredInv, ScoreAndSkip
<1>5. ReadInv' BY DEF TypeOK, ReadInv, ScoredInv, Committed, ScoreAndSkip
<1>6. JobsSpaced' BY DEF TypeOK, JobsSpaced, LastInv, ScoredInv, ScoreAndSkip
<1> QED BY <1>1, <1>2, <1>3, <1>4, <1>5, <1>6

LEMMA BrokerKeeps ==
    ASSUME DebounceInv, NEW s \in Submissions, ScoreAndLoseBroker(s)
    PROVE  DebounceInv'
<1> USE DEF DebounceInv
<1>1. TypeOK' BY DEF TypeOK, Phases, JobStates, ScoreAndLoseBroker
<1>2. HolderInv' BY DEF TypeOK, HolderInv, ScoredInv, ScoreAndLoseBroker
<1>3. LastInv' BY DEF TypeOK, LastInv, ScoreAndLoseBroker, LockFree
<1>4. ScoredInv' BY DEF TypeOK, ScoredInv, ScoreAndLoseBroker
<1>5. ReadInv' BY DEF TypeOK, ReadInv, ScoredInv, Committed, ScoreAndLoseBroker
<1>6. JobsSpaced' BY DEF TypeOK, JobsSpaced, LastInv, ScoredInv, ScoreAndLoseBroker
<1> QED BY <1>1, <1>2, <1>3, <1>4, <1>5, <1>6

\* A commit after the job has read is not a timely one.
LEMMA CommitKeeps ==
    ASSUME DebounceInv, NEW s \in Submissions, CommitScore(s)
    PROVE  DebounceInv'
<1> USE DEF DebounceInv
<1>1. TypeOK' BY DEF TypeOK, Phases, JobStates, CommitScore
<1>2. HolderInv' BY DEF TypeOK, HolderInv, ScoredInv, CommitScore
<1>3. LastInv' BY DEF TypeOK, LastInv, CommitScore
<1>4. ScoredInv' BY DEF TypeOK, ScoredInv, CommitScore
<1>5. ReadInv' BY DEF TypeOK, ReadInv, ScoredInv, Committed, CommitScore
<1>6. JobsSpaced' BY DEF TypeOK, JobsSpaced, LastInv, CommitScore
<1> QED BY <1>1, <1>2, <1>3, <1>4, <1>5, <1>6

LEMMA UndoKeeps ==
    ASSUME DebounceInv, NEW s \in Submissions, UndoScore(s)
    PROVE  DebounceInv'
<1> USE DEF DebounceInv
<1>1. TypeOK' BY DEF TypeOK, Phases, JobStates, UndoScore
<1>2. HolderInv' BY DEF TypeOK, HolderInv, ScoredInv, UndoScore
<1>3. LastInv' BY DEF TypeOK, LastInv, UndoScore
<1>4. ScoredInv' BY DEF TypeOK, ScoredInv, UndoScore
<1>5. ReadInv' BY DEF TypeOK, ReadInv, ScoredInv, Committed, UndoScore
<1>6. JobsSpaced' BY DEF TypeOK, JobsSpaced, LastInv, UndoScore
<1> QED BY <1>1, <1>2, <1>3, <1>4, <1>5, <1>6

LEMMA ReadKeeps ==
    ASSUME DebounceInv, NEW s \in Submissions, ReadEvidence(s)
    PROVE  DebounceInv'
<1> USE DEF DebounceInv
<1>1. TypeOK' BY DEF TypeOK, Phases, JobStates, Committed, ReadEvidence
<1>2. HolderInv' BY DEF TypeOK, HolderInv, ScoredInv, ReadEvidence
<1>3. LastInv' BY DEF TypeOK, LastInv, ReadEvidence
<1>4. ScoredInv' BY DEF TypeOK, ScoredInv, ReadEvidence
<1>5. ReadInv' BY DEF TypeOK, ReadInv, ScoredInv, Committed, ReadEvidence
<1>6. JobsSpaced' BY DEF TypeOK, JobsSpaced, LastInv, ReadEvidence
<1> QED BY <1>1, <1>2, <1>3, <1>4, <1>5, <1>6

LEMMA PersistKeeps ==
    ASSUME DebounceInv, NEW s \in Submissions, Persist(s)
    PROVE  DebounceInv'
<1> USE DEF DebounceInv
<1>1. TypeOK' BY DEF TypeOK, Phases, JobStates, Persist
<1>2. HolderInv' BY DEF TypeOK, HolderInv, ScoredInv, Persist
<1>3. LastInv' BY DEF TypeOK, LastInv, Persist
<1>4. ScoredInv' BY DEF TypeOK, ScoredInv, Persist
<1>5. ReadInv' BY DEF TypeOK, ReadInv, ScoredInv, Committed, Persist
<1>6. JobsSpaced' BY DEF TypeOK, JobsSpaced, LastInv, Persist
<1> QED BY <1>1, <1>2, <1>3, <1>4, <1>5, <1>6

LEMMA RedeliverKeeps ==
    ASSUME DebounceInv, NEW s \in Submissions, Redeliver(s)
    PROVE  DebounceInv'
<1> USE DEF DebounceInv
<1>1. TypeOK' BY DEF TypeOK, Phases, JobStates, Redeliver
<1>2. HolderInv' BY DEF TypeOK, HolderInv, ScoredInv, Redeliver
<1>3. LastInv' BY DEF TypeOK, LastInv, Redeliver
<1>4. ScoredInv' BY DEF TypeOK, ScoredInv, Redeliver
<1>5. ReadInv' BY DEF TypeOK, ReadInv, ScoredInv, Committed, Redeliver
<1>6. JobsSpaced' BY DEF TypeOK, JobsSpaced, LastInv, Redeliver
<1> QED BY <1>1, <1>2, <1>3, <1>4, <1>5, <1>6

LEMMA FailKeeps ==
    ASSUME DebounceInv, NEW s \in Submissions, FailRun(s)
    PROVE  DebounceInv'
<1> USE DEF DebounceInv
<1>1. TypeOK' BY DEF TypeOK, Phases, JobStates, FailRun
<1>2. HolderInv' BY DEF TypeOK, HolderInv, ScoredInv, FailRun
<1>3. LastInv' BY DEF TypeOK, LastInv, FailRun
<1>4. ScoredInv' BY DEF TypeOK, ScoredInv, FailRun
<1>5. ReadInv' BY DEF TypeOK, ReadInv, ScoredInv, Committed, FailRun
<1>6. JobsSpaced' BY DEF TypeOK, JobsSpaced, LastInv, FailRun
<1> QED BY <1>1, <1>2, <1>3, <1>4, <1>5, <1>6

LEMMA NetKeeps ==
    ASSUME DebounceInv, SafetyNet
    PROVE  DebounceInv'
<1> USE DEF DebounceInv
<1>1. TypeOK' BY DEF TypeOK, Phases, JobStates, SafetyNet
<1>2. HolderInv' BY DEF TypeOK, HolderInv, ScoredInv, SafetyNet
<1>3. LastInv' BY DEF TypeOK, LastInv, SafetyNet
<1>4. ScoredInv' BY DEF TypeOK, ScoredInv, SafetyNet
<1>5. ReadInv' BY DEF TypeOK, ReadInv, ScoredInv, Committed, SafetyNet
<1>6. JobsSpaced' BY DEF TypeOK, JobsSpaced, LastInv, SafetyNet
<1> QED BY <1>1, <1>2, <1>3, <1>4, <1>5, <1>6

LEMMA TickKeeps ==
    ASSUME DebounceInv, Tick
    PROVE  DebounceInv'
<1> USE DEF DebounceInv
<1>1. TypeOK' BY DEF TypeOK, Phases, JobStates, Tick
<1>2. HolderInv' BY DEF TypeOK, HolderInv, ScoredInv, Tick
<1>3. LastInv' BY DEF TypeOK, LastInv, Tick
<1>4. ScoredInv' BY DEF TypeOK, ScoredInv, Tick
<1>5. ReadInv' BY DEF TypeOK, ReadInv, ScoredInv, Committed, Tick
<1>6. JobsSpaced' BY DEF TypeOK, JobsSpaced, LastInv, Tick
<1> QED BY <1>1, <1>2, <1>3, <1>4, <1>5, <1>6

LEMMA DebounceNext == DebounceInv /\ [Next]_vars => DebounceInv'
<1>1. ASSUME DebounceInv, UNCHANGED vars PROVE DebounceInv'
  BY <1>1 DEF DebounceInv, TypeOK, HolderInv, LastInv, ScoredInv, ReadInv, JobsSpaced,
     Committed, vars
<1> QED
  BY <1>1, EnqueueKeeps, SkipKeeps, BrokerKeeps, CommitKeeps, UndoKeeps, ReadKeeps,
     PersistKeeps, RedeliverKeeps, FailKeeps, NetKeeps, TickKeeps
     DEF Next, Work, Finish, Quiet

\* The inductive invariant of the debounce lock and the jobs (careers/signals.py:41-67).
THEOREM DebounceInvariance == Spec => []DebounceInv
BY DebounceInit, DebounceNext, PTL DEF Spec

\* Every variable stays in its type.
THEOREM DebounceTyped == Spec => []TypeOK
BY DebounceInvariance, PTL DEF DebounceInv

\* Jobs of one web process are a lock timeout apart, whatever fails.
THEOREM Spacing == Spec => []JobsSpaced
BY DebounceInvariance, PTL DEF DebounceInv

--------------------------------------------------------------------------------
\* A receiver that is told "already queued" is in time for the job of the one
\* that holds the lock, if the lock does not outlive the delay.
LEMMA CoverNext ==
    ASSUME LockTimeout <= Countdown
    PROVE  DebounceInv /\ CoverInv /\ [Next]_vars => CoverInv'
<1> SUFFICES ASSUME DebounceInv, CoverInv, [Next]_vars PROVE CoverInv' OBVIOUS
<1> USE DEF DebounceInv
<1>1. ASSUME NEW s \in Submissions, ScoreAndEnqueue(s) PROVE CoverInv'
  BY <1>1 DEF TypeOK, CoverInv, ScoredInv, ScoreAndEnqueue
<1>2. ASSUME NEW s \in Submissions, ScoreAndSkip(s) PROVE CoverInv'
  <2>1. now < lockUntil[ServedBy[s]]
    BY <1>2 DEF TypeOK, ScoreAndSkip, LockFree
  <2>2. DEFINE h == Holder(ServedBy[s])
  <2>3. h \in Submissions /\ h # s /\ scoredAt[h] + LockTimeout = lockUntil[ServedBy[s]]
    BY <1>2, HolderExists DEF ScoreAndSkip
  <2>4. job[h] # "none" => now < eta[h]
    BY <2>1, <2>3 DEF TypeOK, ScoredInv
  <2> HIDE DEF h
  <2>5. cover' = [cover EXCEPT ![s] = h] BY <1>2 DEF ScoreAndSkip, h
  <2>6. \A t \in Submissions : cover[t] = s => t = s
    BY <1>2 DEF ScoredInv, ScoreAndSkip
  <2> QED BY <1>2, <2>3, <2>4, <2>5, <2>6 DEF TypeOK, CoverInv, ScoreAndSkip
<1>3. ASSUME NEW s \in Submissions, ScoreAndLoseBroker(s) PROVE CoverInv'
  BY <1>3 DEF TypeOK, CoverInv, ScoredInv, ScoreAndLoseBroker
<1>4. CASE UNCHANGED <<scoredAt, cover, eta>> /\ \A s \in Submissions : job'[s] # "none" => job[s] # "none"
  BY <1>4 DEF TypeOK, CoverInv
<1>5. ASSUME NEW s \in Submissions,
             \/ CommitScore(s) \/ UndoScore(s) \/ ReadEvidence(s) \/ Persist(s)
             \/ Redeliver(s) \/ FailRun(s)
      PROVE  CoverInv'
  BY <1>4, <1>5 DEF TypeOK, CommitScore, UndoScore, ReadEvidence, Persist, Redeliver, FailRun
<1>6. CASE Tick \/ SafetyNet \/ UNCHANGED vars
  BY <1>4, <1>6 DEF Tick, SafetyNet, vars
<1> QED BY <1>1, <1>2, <1>3, <1>5, <1>6 DEF Next, Work, Finish, Quiet

\* A score that commits in time is read by the job it relies on.
THEOREM TimelyCovered ==
    ASSUME LockTimeout <= Countdown
    PROVE  Spec => []TimelyScoresCovered
<1>1. DebounceInv /\ CoverInv => TimelyScoresCovered
  <2> SUFFICES ASSUME DebounceInv, CoverInv, NEW s \in Committed,
                      commitAt[s] < eta[cover[s]] \/ commitAt[s] = scoredAt[s],
                      job[cover[s]] \notin {"none", "queued", "failed"}
               PROVE  s \in evidence[cover[s]]
    BY DEF TimelyScoresCovered
  <2>1. s \in Submissions /\ cover[s] \in Submissions
    BY DEF DebounceInv, TypeOK, Committed
  <2>2. job[cover[s]] \in {"running", "done"}
    BY <2>1 DEF DebounceInv, TypeOK, JobStates
  <2>3. commitAt[s] < eta[cover[s]] BY <2>1, <2>2 DEF CoverInv
  <2> QED BY <2>1, <2>2, <2>3 DEF DebounceInv, ReadInv
<1>2. DebounceInv /\ CoverInv /\ [Next]_vars => (DebounceInv /\ CoverInv)'
  BY DebounceNext, CoverNext
<1> QED BY <1>1, <1>2, DebounceInit, PTL DEF Spec

--------------------------------------------------------------------------------
\* What a running job has read includes what the newest recommendation rested
\* on when it read.
FreshInv ==
    /\ latest \subseteq Committed
    /\ \A j \in Running : base[j] \subseteq evidence[j] /\ evidence[j] \subseteq Committed

LEMMA FreshNext == TypeOK /\ FreshInv /\ [Next]_vars => FreshInv'
<1> SUFFICES ASSUME TypeOK, FreshInv, [Next]_vars PROVE FreshInv' OBVIOUS
<1> USE DEF FreshInv, Running, Committed
<1>1. ASSUME NEW s \in Submissions,
             ScoreAndEnqueue(s) \/ ScoreAndSkip(s) \/ ScoreAndLoseBroker(s)
      PROVE  FreshInv'
  BY <1>1 DEF TypeOK, ScoreAndEnqueue, ScoreAndSkip, ScoreAndLoseBroker
<1>2. ASSUME NEW s \in Submissions, CommitScore(s) \/ UndoScore(s) PROVE FreshInv'
  BY <1>2 DEF TypeOK, CommitScore, UndoScore
<1>3. ASSUME NEW s \in Submissions, ReadEvidence(s) PROVE FreshInv'
  BY <1>3 DEF TypeOK, ReadEvidence
<1>4. ASSUME NEW s \in Submissions, Persist(s) PROVE FreshInv'
  BY <1>4 DEF TypeOK, Persist
<1>5. ASSUME NEW s \in Submissions, Redeliver(s) \/ FailRun(s) PROVE FreshInv'
  BY <1>5 DEF TypeOK, Redeliver, FailRun
<1>6. CASE Tick \/ SafetyNet \/ UNCHANGED vars
  BY <1>6 DEF Tick, SafetyNet, vars
<1> QED BY <1>1, <1>2, <1>3, <1>4, <1>5, <1>6 DEF Next, Work, Finish, Quiet

\* No run replaces a recommendation that was there when it began to read by one
\* that rests on less, for any number of workers, jobs and repeated runs.
THEOREM NeverOlder == Spec => LatestNeverOlder
<1>1. Init => FreshInv BY DEF Init, FreshInv, Running, Committed
<1>2. TypeOK /\ FreshInv /\ [Next]_vars => FreshInv' BY FreshNext
<1>3. TypeOK /\ FreshInv /\ [Next]_vars =>
        [\A j \in Submissions :
            job[j] = "running" /\ job'[j] = "done" => base[j] \subseteq latest']_vars
  <2> SUFFICES ASSUME TypeOK, FreshInv, [Next]_vars, NEW j \in Submissions,
                      job[j] = "running", job'[j] = "done"
               PROVE  base[j] \subseteq latest'
    OBVIOUS
  <2>1. ASSUME Persist(j) PROVE base[j] \subseteq latest'
    BY <2>1 DEF FreshInv, Running, Persist
  <2>2. Persist(j)
    BY DEF TypeOK, Next, Work, Finish, Quiet, vars, ScoreAndEnqueue, ScoreAndSkip,
       ScoreAndLoseBroker, CommitScore, UndoScore, ReadEvidence, Persist, Redeliver, FailRun,
       SafetyNet, Tick
  <2> QED BY <2>1, <2>2
<1> QED BY <1>1, <1>2, <1>3, DebounceTyped, PTL DEF Spec, LatestNeverOlder

--------------------------------------------------------------------------------
(***************************************************************************)
(* EngineRegistry.  The heart is RegistryInv: an edit nobody overlaps has, *)
(* from its UPDATE on, every active version but its own either still to    *)
(* visit or cleared, because nobody else can commit while it is open.      *)
(***************************************************************************)

\* Two edits that are open together both know it.
OverlapInv == \A e, f \in Edits : e # f /\ Open(e) /\ Open(f) => ~alone[e]

\* Only an activation clears, and alone it has missed no active version.
ClearingInv == \A e \in Edits : pc[e] = "clearing" =>
    /\ wanted[e]
    /\ alone[e] => active \subseteq {target[e]} \cup others[e] \cup cleared[e]

\* What make_active has saved stays active until somebody else commits.
SavedInv == \A e \in Edits :
    Open(e) /\ way[e] = "make_active" /\ alone[e] => target[e] \in active

RegistryInv == RegistryTypeOK /\ OverlapInv /\ ClearingInv /\ SavedInv /\ AtMostOneActiveAlone

--------------------------------------------------------------------------------
LEMMA RegistryStarts == RegistryInit => RegistryInv
<1> SUFFICES ASSUME RegistryInit PROVE RegistryInv OBVIOUS
<1>1. RegistryTypeOK BY DEF RegistryInit, RegistryTypeOK, Places, Ways
<1>2. OverlapInv BY DEF RegistryInit, OverlapInv, Open
<1>3. ClearingInv /\ SavedInv BY DEF RegistryInit, ClearingInv, SavedInv, Open
<1>4. AtMostOneActiveAlone BY DEF RegistryInit, AtMostOneActiveAlone, AtMostOneActive
<1> QED BY <1>1, <1>2, <1>3, <1>4 DEF RegistryInv

LEMMA SaveRowKeeps ==
    ASSUME RegistryInv, NEW e \in Edits, SaveRow(e) PROVE RegistryInv'
<1> USE DEF RegistryInv
<1>1. RegistryTypeOK' BY DEF RegistryTypeOK, Places, SaveRow, Uncommitted, request
<1>2. OverlapInv' BY DEF RegistryTypeOK, OverlapInv, Open, SaveRow
<1>3. ClearingInv'
  BY DEF RegistryTypeOK, ClearingInv, Open, SaveRow, request
<1>4. SavedInv' BY DEF RegistryTypeOK, SavedInv, Open, SaveRow, Uncommitted, request
<1>5. AtMostOneActiveAlone'
  <2> SUFFICES ASSUME Undisturbed' PROVE AtMostOneActive'
    BY DEF AtMostOneActiveAlone
  <2>1. way[e] = "form"
    BY DEF RegistryTypeOK, SaveRow, request, Ways, Undisturbed
  <2>2. active' = active BY <2>1 DEF SaveRow, Uncommitted
  <2>3. Undisturbed
    BY DEF RegistryTypeOK, SaveRow, request, Undisturbed
  <2> QED BY <2>2, <2>3 DEF AtMostOneActiveAlone, AtMostOneActive
<1> QED BY <1>1, <1>2, <1>3, <1>4, <1>5

LEMMA FindOthersKeeps ==
    ASSUME RegistryInv, NEW e \in Edits, FindOthers(e) PROVE RegistryInv'
<1> USE DEF RegistryInv
<1>1. RegistryTypeOK' BY DEF RegistryTypeOK, Places, FindOthers, request
<1>2. OverlapInv' BY DEF RegistryTypeOK, OverlapInv, Open, FindOthers
<1>3. ClearingInv' BY DEF RegistryTypeOK, ClearingInv, FindOthers, request
<1>4. SavedInv' BY DEF RegistryTypeOK, SavedInv, Open, FindOthers, request
<1>5. AtMostOneActiveAlone'
  BY DEF RegistryTypeOK, AtMostOneActiveAlone, Undisturbed, AtMostOneActive, FindOthers, request
<1> QED BY <1>1, <1>2, <1>3, <1>4, <1>5

\* A row that is no longer active needs no clearing.
LEMMA ClearOtherKeeps ==
    ASSUME RegistryInv, NEW e \in Edits, ClearOther(e) PROVE RegistryInv'
<1> USE DEF RegistryInv
<1>1. RegistryTypeOK' BY DEF RegistryTypeOK, Places, ClearOther, request
<1>2. OverlapInv' BY DEF OverlapInv, Open, ClearOther
<1>3. ClearingInv' BY DEF RegistryTypeOK, ClearingInv, ClearOther, request
<1>4. SavedInv' BY DEF SavedInv, Open, ClearOther, request
<1>5. AtMostOneActiveAlone'
  BY DEF AtMostOneActiveAlone, Undisturbed, AtMostOneActive, ClearOther, request
<1> QED BY <1>1, <1>2, <1>3, <1>4, <1>5

\* What a lone activation leaves active is its own version.
LEMMA LoneCommit ==
    ASSUME RegistryInv, NEW e \in Edits, Commit(e), alone[e], wanted[e]
    PROVE  active' = {target[e]}
<1>1. pc[e] = "clearing" /\ others[e] = {} BY DEF Commit
<1>2. active \subseteq {target[e]} \cup cleared[e]
  BY <1>1 DEF RegistryInv, ClearingInv
<1>3. target[e] \notin cleared[e] BY DEF RegistryInv, RegistryTypeOK
<1>4. target[e] \in active \cup Uncommitted(e)
  BY <1>1 DEF RegistryInv, RegistryTypeOK, SavedInv, Open, Uncommitted, Ways
<1>5. Uncommitted(e) \subseteq {target[e]} BY DEF Uncommitted
<1> QED BY <1>2, <1>3, <1>4, <1>5 DEF Commit

LEMMA ActivationKeeps ==
    ASSUME RegistryInv, NEW e \in Edits, Commit(e) PROVE RegistryInv'
<1> USE DEF RegistryInv
<1>1. RegistryTypeOK' BY DEF RegistryTypeOK, Places, Commit, Uncommitted, request
<1>2. OverlapInv' BY DEF RegistryTypeOK, OverlapInv, Open, Commit
<1>3. ClearingInv'
  <2> SUFFICES ASSUME NEW f \in Edits, pc'[f] = "clearing"
               PROVE  /\ wanted'[f]
                      /\ alone'[f] => active' \subseteq {target'[f]} \cup others'[f] \cup cleared'[f]
    BY DEF ClearingInv
  <2>1. f # e /\ pc[f] = "clearing" BY DEF RegistryTypeOK, Commit
  <2>2. Open(e) /\ Open(f) BY <2>1 DEF Open, Commit
  <2>3. ~alone[f] BY <2>1, <2>2 DEF OverlapInv
  <2> QED BY <2>1, <2>3 DEF ClearingInv, Commit, request
<1>4. SavedInv'
  <2> SUFFICES ASSUME NEW f \in Edits, Open(f)', alone'[f] PROVE FALSE
    BY DEF SavedInv
  <2>1. f # e /\ Open(f) BY DEF RegistryTypeOK, Open, Commit
  <2>2. Open(e) BY DEF Open, Commit
  <2>3. alone[f] BY DEF Commit
  <2> QED BY <2>1, <2>2, <2>3 DEF OverlapInv
<1>5. AtMostOneActiveAlone'
  <2> SUFFICES ASSUME \A f \in Edits : alone[f],
                      way[e] = "form" => Undisturbed
               PROVE  AtMostOneActive'
    BY DEF AtMostOneActiveAlone, Undisturbed, RegistryTypeOK, Commit, request
  <2>1. CASE wanted[e] BY <2>1, LoneCommit DEF AtMostOneActive
  <2>2. CASE ~wanted[e]
    BY <2>2 DEF AtMostOneActiveAlone, AtMostOneActive, Commit, RegistryTypeOK, Ways
  <2> QED BY <2>1, <2>2
<1> QED BY <1>1, <1>2, <1>3, <1>4, <1>5

LEMMA AbortKeeps ==
    ASSUME RegistryInv, NEW e \in Edits, Abort(e) PROVE RegistryInv'
<1> USE DEF RegistryInv
<1>1. RegistryTypeOK' BY DEF RegistryTypeOK, Places, Abort, request
<1>2. OverlapInv' BY DEF RegistryTypeOK, OverlapInv, Open, Abort
<1>3. ClearingInv' BY DEF RegistryTypeOK, ClearingInv, Abort, request
<1>4. SavedInv' BY DEF RegistryTypeOK, SavedInv, Open, Abort, request
<1>5. AtMostOneActiveAlone'
  BY DEF RegistryTypeOK, AtMostOneActiveAlone, Undisturbed, AtMostOneActive, Open, Abort, request
<1> QED BY <1>1, <1>2, <1>3, <1>4, <1>5

LEMMA RegistryKept == RegistryInv /\ [RegistryNext]_registryVars => RegistryInv'
<1>1. ASSUME RegistryInv, UNCHANGED registryVars PROVE RegistryInv'
  BY <1>1 DEF RegistryInv, RegistryTypeOK, OverlapInv, ClearingInv, SavedInv,
     AtMostOneActiveAlone, Undisturbed, AtMostOneActive, Open, registryVars
<1> QED
  BY <1>1, SaveRowKeeps, FindOthersKeeps, ClearOtherKeeps, ActivationKeeps, AbortKeeps
     DEF RegistryNext, AllEnded

\* The inductive invariant of the saves of EngineVersion (models/recsys.py:347-352).
THEOREM RegistryInvariance == RegistrySpec => []RegistryInv
BY RegistryStarts, RegistryKept, PTL DEF RegistrySpec

\* Every variable stays in its type, and an edit never clears its own version.
THEOREM RegistryTyped == RegistrySpec => []RegistryTypeOK
BY RegistryInvariance, PTL DEF RegistryInv

\* EngineVersion.save keeps "exactly one row is active" from ever becoming two
\* as long as edits have not overlapped and no make_active was cut off.
THEOREM AloneAtMostOne == RegistrySpec => []AtMostOneActiveAlone
BY RegistryInvariance, PTL DEF RegistryInv

--------------------------------------------------------------------------------
\* Only the end of an edit takes a committed flag away.
LEMMA OnlyCommits ==
    ASSUME [RegistryNext]_registryVars
    PROVE  active \subseteq active' \/ \E e \in Edits : Commit(e)
BY DEF RegistryNext, AllEnded, registryVars, SaveRow, FindOthers, ClearOther, Abort

\* A lone activation repairs whatever overlapping ones have left behind.
THEOREM Repairs == RegistrySpec => LoneActivationRepairs
<1>1. ASSUME RegistryInv, [RegistryNext]_registryVars, NEW e \in Edits,
             pc[e] = "clearing", pc'[e] = "done", alone[e]
      PROVE  active' = {target[e]}
  <2>1. Commit(e)
    BY <1>1 DEF RegistryInv, RegistryTypeOK, RegistryNext, AllEnded, registryVars, SaveRow,
       FindOthers, ClearOther, Abort, Commit
  <2>2. wanted[e] BY <1>1 DEF RegistryInv, ClearingInv
  <2> QED BY <1>1, <2>1, <2>2, LoneCommit
<1>2. RegistryInv /\ [RegistryNext]_registryVars =>
        [\A e \in Edits :
            pc[e] = "clearing" /\ pc'[e] = "done" /\ alone[e] =>
                active' = {target[e]}]_registryVars
  BY <1>1
<1> QED BY <1>2, RegistryInvariance, PTL DEF RegistrySpec, LoneActivationRepairs

\* Activations never leave the registry without an active version, unless a
\* make_active overlaps one of the others.
THEOREM SomeStaysActive == RegistrySpec => NeverNoneActive
<1>1. ASSUME RegistryInv, [RegistryNext]_registryVars, active # {},
             \A e \in Edits : wanted[e] /\ (way[e] = "make_active" => alone[e])
      PROVE  active' # {}
  <2>1. CASE active \subseteq active' BY <1>1, <2>1
  <2>2. ASSUME NEW e \in Edits, Commit(e) PROVE active' # {}
    <3>1. CASE way[e] = "make_active" BY <1>1, <2>2, <3>1, LoneCommit
    <3>2. CASE way[e] = "form"
      <4>1. target[e] \notin cleared[e] BY <1>1 DEF RegistryInv, RegistryTypeOK
      <4>2. target[e] \in active' BY <1>1, <2>2, <3>2, <4>1 DEF Commit, Uncommitted
      <4> QED BY <4>2
    <3> QED BY <1>1, <3>1, <3>2 DEF RegistryInv, RegistryTypeOK, Ways
  <2> QED BY <1>1, <2>1, <2>2, OnlyCommits
<1>2. RegistryInv /\ [RegistryNext]_registryVars =>
        [(\A e \in Edits : wanted[e] /\ (way[e] = "make_active" => alone[e]))
            /\ active # {} => active' # {}]_registryVars
  BY <1>1
<1> QED BY <1>2, RegistryInvariance, PTL DEF RegistrySpec, NeverNoneActive

--------------------------------------------------------------------------------
(***************************************************************************)
(* PercentileRanks.  A run fails at the last of a list, so whoever has a   *)
(* rank was once below another attempt, which has been in every list since  *)
(* unless it was deleted; all attempts but the last of a list get their    *)
(* ranks in the same run, if that is not broken off.                       *)
(***************************************************************************)

Alike(a, b) == QuestionnaireOf[a] = QuestionnaireOf[b]
Listed == {scores[i] : i \in DOMAIN scores}

\* The run's list is of one questionnaire and in order, and the attempts it has
\* come past have the ranks of their places, unless they are deleted.
ListInv ==
    /\ IF scores = <<>> THEN index = 0 ELSE running /\ Len(scores) > 1 /\ index < Len(scores)
    /\ \A i, j \in DOMAIN scores : i < j =>
        /\ scores[i] # scores[j] /\ Alike(scores[i], scores[j])
        /\ Percentage[scores[i]] <= Percentage[scores[j]]
    /\ \A i \in DOMAIN scores :
        /\ scores[i] \in scored \cup deleted
        /\ i <= index /\ scores[i] \in scored => rank[scores[i]] = Percentile(i - 1, Len(scores))

\* A ranked attempt is in the list of its questionnaire; and one was above it
\* when it was ranked, since the last of a list gets no rank.
RankedInv == \A b \in Attempts : rank[b] # Null =>
    /\ b \in scored
    /\ \A a \in Listed : Alike(a, b) => b \in Listed
    /\ ~Shared(b) /\ Kept(b) =>
        /\ \E c \in scored : Alike(b, c) /\ Percentage[b] < Percentage[c]
        /\ b \in Listed => \E c \in Listed : Percentage[b] < Percentage[c]

\* Two attempts the property compares.
Compared(a, b) ==
    /\ Alike(a, b) /\ Percentage[a] < Percentage[b] /\ rank[a] # Null /\ rank[b] # Null
    /\ ~Shared(b) /\ QuestionnaireOf[b] \notin torn /\ Kept(b)

\* Outside a list that is being written the ranks follow the percentages.
OrderInv == \A a, b \in Attempts :
    Compared(a, b) /\ (b \notin Listed \/ index = 0) => rank[a] < rank[b]

RanksInv == RanksTypeOK /\ ListInv /\ RankedInv /\ OrderInv

\* Fewer attempts than ranks the column can tell apart.
FewAttempts == Cardinality(Attempts) <= Full

--------------------------------------------------------------------------------
\* The quotients of numbers a divisor apart differ.
LEMMA QuotientsApart ==
    ASSUME NEW d \in Nat \ {0}, NEW x \in Nat, NEW y \in Nat, x + d <= y
    PROVE  x \div d < y \div d
<1> DEFINE q == x \div d
           r == y \div d
<1>1. q \in Nat /\ r \in Nat /\ d * q <= x /\ y < d * (r + 1)
  OBVIOUS
<1> HIDE DEF q, r
<1>2. d * q + d < d * (r + 1)
  BY <1>1
<1>3. d * (q + 1) < d * (r + 1)
  BY <1>1, <1>2
<1>4. ~(r < q + 1)
  <2> SUFFICES ASSUME r < q + 1 PROVE FALSE
    OBVIOUS
  <2>1. d * (r + 1) <= d * (q + 1)
    BY <1>1
  <2> QED BY <1>1, <1>3, <2>1
<1> QED BY <1>1, <1>4 DEF q, r

LEMMA Percentages == \A a \in Attempts : Percentage[a] \in Int
<1>1. Percentage \in [Attempts -> 0..100]
  BY RanksAssumption
<1>2. 0..100 \subseteq Int
  OBVIOUS
<1> QED BY <1>1, <1>2, Zenon

LEMMA Bounds == Full \in Nat /\ Limit = Full - 1 /\ 0 < Full
BY SMT DEF Full, Limit

\* Ranks grow with the place in the list, and only the last place has a rank
\* that does not fit the column.
LEMMA RanksGrow ==
    ASSUME NEW n \in Nat, 1 < n, n <= Full, NEW i \in 0..(n - 1), NEW j \in 0..(n - 1), i < j
    PROVE  Percentile(i, n) < Percentile(j, n)
<1> DEFINE d == 2 * (n - 1)
           x == 2 * Full * i + n - 1
           y == 2 * Full * j + n - 1
<1>1. d \in Nat \ {0} /\ x \in Nat /\ y \in Nat
  BY Bounds
<1>2. x + d <= y
  <2>1. Full * (i + 1) <= Full * j
    BY Bounds
  <2> QED BY <2>1, Bounds
<1>3. x \div d < y \div d
  <2> HIDE DEF d, x, y
  <2> QED BY <1>1, <1>2, QuotientsApart
<1> QED BY <1>3 DEF Percentile

LEMMA TopRank ==
    ASSUME NEW n \in Nat, 1 < n, n <= Full
    PROVE  /\ Percentile(n - 1, n) = Full
           /\ \A i \in 0..(n - 1) : Percentile(i, n) \in Nat
           /\ \A i \in 0..(n - 1) : Percentile(i, n) > Limit <=> i = n - 1
<1>1. Percentile(n - 1, n) = Full
  <2> DEFINE m == n - 1
  <2>1. m \in Nat \ {0}
    OBVIOUS
  <2>2. (2 * Full * m + n - 1) \div (2 * m) = Full
    <3>1. 2 * Full * m + n - 1 = (2 * m) * Full + m /\ 0 <= m /\ m < 2 * m
      BY <2>1, Bounds
    <3> HIDE DEF m
    <3>2. ((2 * m) * Full + m) \div (2 * m) = Full
      BY <2>1, <3>1, Bounds
    <3> QED BY <3>1, <3>2
  <2> QED BY <2>1, <2>2 DEF Percentile
<1>2. ASSUME NEW i \in 0..(n - 1) PROVE Percentile(i, n) \in Nat
  <2> DEFINE d == 2 * (n - 1)
             x == 2 * Full * i + n - 1
  <2>1. d \in Nat \ {0} /\ x \in Nat
    BY Bounds
  <2>2. x \div d \in Nat
    <3> HIDE DEF d, x
    <3> QED BY <2>1
  <2> QED BY <2>2 DEF Percentile
<1>3. ASSUME NEW i \in 0..(n - 1), i # n - 1 PROVE Percentile(i, n) < Full
  <2>1. n - 1 \in 0..(n - 1) /\ i < n - 1
    BY <1>3
  <2> QED BY <1>1, <2>1, RanksGrow
<1>4. ASSUME NEW i \in 0..(n - 1) PROVE Percentile(i, n) > Limit <=> i = n - 1
  BY <1>1, <1>2, <1>3, Bounds
<1> QED BY <1>1, <1>2, <1>4

\* A list of a set has every element of it, each once.
LEMMA SortedLists ==
    ASSUME NEW S \in SUBSET Attempts, NEW l \in Sorted(S)
    PROVE  /\ l \in Seq(S) /\ Len(l) = Cardinality(S) /\ Cardinality(S) <= Cardinality(Attempts)
           /\ S = {l[i] : i \in DOMAIN l}
           /\ \A i, j \in DOMAIN l : i # j => l[i] # l[j]
           /\ \A i, j \in DOMAIN l : i < j => Percentage[l[i]] <= Percentage[l[j]]
<1>1. IsFiniteSet(S) /\ Cardinality(S) \in Nat /\ Cardinality(S) <= Cardinality(Attempts)
  BY RanksAssumption, FS_Subset, FS_CardinalityType
<1> DEFINE D == 1..Cardinality(S)
<1>2. /\ l \in [D -> S] /\ \A i, j \in D : i # j => l[i] # l[j]
      /\ \A i, j \in DOMAIN l : i < j => Percentage[l[i]] <= Percentage[l[j]]
  BY DEF Sorted, SetToSeqs
<1>3. DOMAIN l = D /\ l \in Seq(S) /\ Len(l) = Cardinality(S)
  BY <1>1, <1>2
<1>4. IsFiniteSet(D) /\ Cardinality(D) = Cardinality(S)
  BY <1>1, FS_Interval
<1>5. S = {l[i] : i \in D}
  <2> SUFFICES ASSUME NEW x \in S, \A i \in D : l[i] # x PROVE FALSE
    BY <1>2
  <2>1. IsFiniteSet(S \ {x}) /\ Cardinality(S \ {x}) < Cardinality(D)
    <3>1. IsFiniteSet(S \ {x}) /\ Cardinality(S \ {x}) = Cardinality(S) - 1
      BY <1>1, FS_RemoveElement
    <3> QED BY <1>1, <1>4, <3>1
  <2>2. l \in [D -> S \ {x}]
    BY <1>2
  <2>3. \E i, j \in D : i # j /\ l[i] = l[j]
    <3> HIDE DEF D
    <3> QED BY <1>4, <2>1, <2>2, FS_PigeonHole
  <2> QED BY <1>2, <2>3
<1> QED BY <1>1, <1>2, <1>3, <1>5

--------------------------------------------------------------------------------
\* A list is no longer than there are attempts.
LEMMA ListLength ==
    ASSUME RanksInv, FewAttempts
    PROVE  Len(scores) <= Full
<1>1. DOMAIN scores = 1..Len(scores) /\ Len(scores) \in Nat
      /\ \A i \in DOMAIN scores : scores[i] \in Attempts
  BY DEF RanksInv, RanksTypeOK
<1>2. Cardinality(Attempts) \in Nat
  BY RanksAssumption, FS_CardinalityType
<1>3. \A i, j \in DOMAIN scores : i # j => scores[i] # scores[j]
  BY <1>1 DEF RanksInv, ListInv
<1> DEFINE D == 1..Len(scores)
<1>4. IsFiniteSet(D) /\ Cardinality(D) = Len(scores)
  BY <1>1, FS_Interval
<1>5. scores \in Injection(D, Attempts)
  <2>1. scores \in [D -> Attempts]
    <3>1. scores \in Seq(Attempts)
      BY DEF RanksInv, RanksTypeOK
    <3> QED BY <1>1, <3>1
  <2> QED BY <1>1, <1>3, <2>1 DEF Injection, IsInjective
<1>6. Cardinality(D) <= Cardinality(Attempts)
  <2> HIDE DEF D
  <2> QED BY <1>5, FS_Injection, RanksAssumption
<1> QED BY <1>2, <1>4, <1>6, Bounds DEF FewAttempts

LEMMA RanksStart == RanksInit => RanksInv
<1> SUFFICES ASSUME RanksInit PROVE RanksInv
  OBVIOUS
<1>1. RanksTypeOK
  <2>1. Null \in Null..Limit
    BY Bounds DEF Null
  <2>2. <<>> \in Seq(Attempts) /\ 0 \in 0..Len(<<>>)
    OBVIOUS
  <2> QED BY <2>1, <2>2 DEF RanksInit, RanksTypeOK
<1>2. ListInv
  BY DEF RanksInit, ListInv
<1>3. RankedInv /\ OrderInv
  BY DEF RanksInit, RankedInv, OrderInv, Compared
<1> QED BY <1>1, <1>2, <1>3 DEF RanksInv

LEMMA AddScoreKeeps ==
    ASSUME RanksInv, NEW a \in Attempts, AddScore(a) PROVE RanksInv'
<1> USE DEF RanksInv
<1>1. RanksTypeOK'
  BY DEF RanksTypeOK, AddScore
<1>2. ListInv'
  BY DEF ListInv, AddScore
<1>3. RankedInv'
  BY DEF RankedInv, Listed, Kept, AddScore
<1>4. OrderInv'
  BY DEF OrderInv, Compared, Listed, Kept, AddScore
<1> QED BY <1>1, <1>2, <1>3, <1>4

\* What a deletion can spoil is no longer said of the questionnaire.
LEMMA DeleteScoreKeeps ==
    ASSUME RanksInv, NEW a \in Attempts, DeleteScore(a) PROVE RanksInv'
<1> USE DEF RanksInv
<1>1. /\ scored' = scored \ {a} /\ deleted' = deleted \cup {a}
      /\ rank'[a] = Null /\ \A b \in Attempts \ {a} : rank'[b] = rank[b]
      /\ UNCHANGED <<todo, scores, index, running, torn>>
  BY DEF DeleteScore, RanksTypeOK
<1>2. RanksTypeOK'
  <2>1. Null \in Null..Limit
    BY Bounds DEF Null
  <2> QED BY <2>1 DEF RanksTypeOK, DeleteScore
<1>3. ListInv'
  <2>1. \A i \in DOMAIN scores : scores[i] \in Attempts
    BY DEF RanksTypeOK
  <2> QED BY <1>1, <2>1 DEF ListInv
<1>4. \A b \in Attempts : Kept(b)' => Kept(b) /\ ~Alike(a, b)
  BY <1>1 DEF Kept, Alike
<1>5. \A b \in Attempts : rank'[b] # Null => b # a /\ rank[b] # Null /\ rank'[b] = rank[b]
  BY <1>1
<1>6. RankedInv'
  <2> SUFFICES ASSUME NEW b \in Attempts, rank'[b] # Null
               PROVE  /\ b \in scored'
                      /\ \A c \in Listed : Alike(c, b) => b \in Listed
                      /\ ~Shared(b) /\ Kept(b)' =>
                          /\ \E c \in scored' : Alike(b, c) /\ Percentage[b] < Percentage[c]
                          /\ b \in Listed => \E c \in Listed : Percentage[b] < Percentage[c]
    BY <1>1 DEF RankedInv, Listed
  <2>1. b # a /\ rank[b] # Null
    BY <1>5
  <2>2. b \in scored' /\ \A c \in Listed : Alike(c, b) => b \in Listed
    BY <1>1, <2>1 DEF RankedInv
  <2>3. ASSUME ~Shared(b), Kept(b)'
        PROVE  /\ \E c \in scored' : Alike(b, c) /\ Percentage[b] < Percentage[c]
               /\ b \in Listed => \E c \in Listed : Percentage[b] < Percentage[c]
    <3>1. Kept(b) /\ ~Alike(a, b)
      BY <1>4, <2>3
    <3>2. /\ \E c \in scored : Alike(b, c) /\ Percentage[b] < Percentage[c]
          /\ b \in Listed => \E c \in Listed : Percentage[b] < Percentage[c]
      BY <2>1, <2>3, <3>1 DEF RankedInv
    <3> QED BY <1>1, <3>1, <3>2 DEF Alike
  <2> QED BY <2>2, <2>3
<1>7. OrderInv'
  <2>1. \A b, c \in Attempts : Compared(b, c)' => Compared(b, c)
    BY <1>1, <1>4, <1>5 DEF Compared
  <2> QED BY <1>1, <1>5, <2>1 DEF OrderInv, Compared, Listed
<1> QED BY <1>2, <1>3, <1>6, <1>7

LEMMA StartKeeps == ASSUME RanksInv, Start PROVE RanksInv'
<1> USE DEF RanksInv
<1>1. RanksTypeOK'
  BY DEF RanksTypeOK, Start
<1>2. ListInv'
  BY DEF ListInv, Start
<1>3. RankedInv'
  BY DEF RankedInv, Listed, Kept, Start
<1>4. OrderInv'
  BY DEF OrderInv, Compared, Listed, Kept, Start
<1> QED BY <1>1, <1>2, <1>3, <1>4

\* However a run ends, it leaves no list, and the ranks as they are.
LEMMA EndRunKeeps ==
    ASSUME RanksInv, EndRun, torn' \subseteq Questionnaires
    PROVE  RanksTypeOK' /\ ListInv' /\ RankedInv'
<1>1. RanksTypeOK'
  <2>1. <<>> \in Seq(Attempts) /\ 0 \in 0..Len(<<>>)
    OBVIOUS
  <2> QED BY <2>1 DEF RanksInv, RanksTypeOK, EndRun
<1>2. ListInv'
  BY DEF ListInv, EndRun
<1>3. RankedInv'
  BY DEF RanksInv, RankedInv, Listed, Kept, EndRun
<1> QED BY <1>1, <1>2, <1>3

LEMMA FinishRunKeeps == ASSUME RanksInv, FinishRun PROVE RanksInv'
<1> USE DEF RanksInv
<1>1. RanksTypeOK' /\ ListInv' /\ RankedInv'
  BY EndRunKeeps DEF FinishRun, RanksTypeOK
<1>2. scores = <<>>
  BY DEF ListInv, FinishRun
<1>3. OrderInv'
  BY <1>2 DEF OrderInv, Compared, Listed, Kept, FinishRun, EndRun
<1> QED BY <1>1, <1>3

\* A list that was broken off before its first rank has changed nothing.
LEMMA BreakOffKeeps == ASSUME RanksInv, BreakOff PROVE RanksInv'
<1> USE DEF RanksInv
<1>1. DOMAIN scores = 1..Len(scores) /\ Len(scores) \in Nat /\ index \in 0..Len(scores)
      /\ \A i \in DOMAIN scores : scores[i] \in Attempts
  BY DEF RanksTypeOK
<1>2. RanksTypeOK' /\ ListInv' /\ RankedInv'
  <2>1. \A i \in 1..index : QuestionnaireOf[scores[i]] \in Questionnaires
    <3>1. \A i \in 1..index : i \in DOMAIN scores
      BY <1>1
    <3> QED BY <1>1, <3>1, RanksAssumption
  <2>2. torn' \subseteq Questionnaires
    BY <2>1 DEF BreakOff, RanksTypeOK
  <2> QED BY <2>2, EndRunKeeps DEF BreakOff
<1>3. OrderInv'
  <2> SUFFICES ASSUME NEW a \in Attempts, NEW b \in Attempts, Compared(a, b)'
               PROVE  rank[a] < rank[b]
    BY DEF OrderInv, BreakOff, EndRun
  <2>1. Compared(a, b) /\ QuestionnaireOf[b] \notin torn'
    BY DEF Compared, Kept, BreakOff, EndRun
  <2>2. ASSUME b \in Listed, index # 0 PROVE FALSE
    <3>1. PICK j \in DOMAIN scores : scores[j] = b
      BY <2>2 DEF Listed
    <3>2. 1 \in 1..index /\ 1 \in DOMAIN scores
      BY <1>1, <2>2
    <3>3. Alike(scores[1], b)
      <4>1. j = 1 \/ 1 < j
        BY <1>1
      <4> QED BY <3>1, <3>2, <4>1 DEF ListInv, Alike
    <3> QED BY <2>1, <3>2, <3>3 DEF BreakOff, Alike
  <2> QED BY <2>1, <2>2 DEF OrderInv
<1> QED BY <1>2, <1>3

LEMMA ReadScoresKeeps == ASSUME RanksInv, FewAttempts, ReadScores PROVE RanksInv'
<1> USE DEF RanksInv
<1>1. scores = <<>>
  BY DEF ListInv, ReadScores
<1>2. CASE scores' = <<>>
  <2>1. RanksTypeOK'
    BY <1>1, <1>2 DEF RanksTypeOK, ReadScores
  <2>2. ListInv'
    BY <1>2 DEF ListInv, ReadScores
  <2>3. RankedInv' /\ OrderInv'
    BY <1>1, <1>2 DEF RankedInv, OrderInv, Compared, Kept, Listed, ReadScores
  <2> QED BY <2>1, <2>2, <2>3
<1>3. ASSUME NEW q \in Questionnaires, Cardinality(Of(q)) >= 2, scores' \in Sorted(Of(q))
      PROVE  RanksInv'
  <2>1. Of(q) \in SUBSET scored /\ Of(q) \in SUBSET Attempts
    BY DEF Of, RanksTypeOK
  <2>2. /\ scores' \in Seq(Of(q)) /\ Len(scores') = Cardinality(Of(q))
        /\ Of(q) = {scores'[i] : i \in DOMAIN scores'}
        /\ \A i, j \in DOMAIN scores' : i # j => scores'[i] # scores'[j]
        /\ \A i, j \in DOMAIN scores' : i < j => Percentage[scores'[i]] <= Percentage[scores'[j]]
    BY <1>3, <2>1, SortedLists
  <2>3. /\ Listed' = Of(q) /\ scored' = scored /\ rank' = rank /\ running' /\ running /\ index' = 0
        /\ UNCHANGED <<deleted, torn>>
    BY <2>2 DEF Listed, ReadScores
  <2>4. RanksTypeOK'
    <3>1. scores' \in Seq(Attempts)
      BY <2>1, <2>2
    <3>2. todo' \subseteq Questionnaires /\ index' \in 0..Len(scores')
      BY <2>2 DEF RanksTypeOK, ReadScores
    <3> QED BY <2>3, <3>1, <3>2 DEF RanksTypeOK
  <2>5. \A a \in Of(q) : QuestionnaireOf[a] = q /\ a \in scored
    BY DEF Of
  <2>6. DOMAIN scores' = 1..Len(scores') /\ \A i \in DOMAIN scores' : scores'[i] \in Of(q)
    BY <2>2
  <2>7. ListInv'
    <3>1. scores' # <<>> /\ Len(scores') > 1
      BY <1>3, <2>2
    <3>2. \A i, j \in DOMAIN scores' : Alike(scores'[i], scores'[j])
      BY <2>5, <2>6 DEF Alike
    <3> QED BY <2>1, <2>2, <2>3, <2>6, <3>1, <3>2 DEF ListInv, Alike
  <2>8. RankedInv'
    <3> SUFFICES ASSUME NEW b \in Attempts, rank[b] # Null
                 PROVE  /\ b \in scored
                        /\ \A a \in Of(q) : Alike(a, b) => b \in Of(q)
                        /\ ~Shared(b) /\ Kept(b) =>
                            /\ \E c \in scored : Alike(b, c) /\ Percentage[b] < Percentage[c]
                            /\ b \in Of(q) => \E c \in Of(q) : Percentage[b] < Percentage[c]
      BY <2>3 DEF RankedInv, Kept
    <3>1. b \in scored /\ (~Shared(b) /\ Kept(b) => \E c \in scored : Alike(b, c) /\ Percentage[b] < Percentage[c])
      BY DEF RankedInv
    <3> QED BY <3>1 DEF Of, Alike
  <2>9. OrderInv'
    BY <1>1, <2>3 DEF OrderInv, Compared, Kept, Listed
  <2> QED BY <2>4, <2>7, <2>8, <2>9
<1> QED
  <2>1. PICK q \in todo : IF Cardinality(Of(q)) < 2 THEN scores' = <<>>
                                                   ELSE scores' \in Sorted(Of(q))
    BY DEF ReadScores
  <2>2. q \in Questionnaires /\ Of(q) \in SUBSET Attempts
    BY DEF RanksTypeOK, Of
  <2>3. Cardinality(Of(q)) \in Nat
    BY <2>2, RanksAssumption, FS_Subset, FS_CardinalityType
  <2> QED BY <1>2, <1>3, <2>1, <2>2, <2>3

\* The next score of the list gets a rank, if it is still there, and is not the
\* last.
LEMMA WriteRankKeeps == ASSUME RanksInv, FewAttempts, WriteRank PROVE RanksInv'
<1> USE DEF RanksInv
<1> DEFINE n == Len(scores)
           t == scores[index + 1]
<1>1. /\ n \in Nat /\ 1 < n /\ n <= Full /\ index \in 0..(n - 1) /\ DOMAIN scores = 1..n
      /\ running /\ scores # <<>>
  BY ListLength DEF WriteRank, ListInv, RanksTypeOK
<1>2. NextRank \in 0..Limit /\ index < n - 1 /\ NextRank = Percentile(index, n)
  BY <1>1, TopRank, Bounds DEF WriteRank, NextRank
<1>3. /\ t \in Listed /\ t \in scored \cup deleted /\ t \in Attempts
      /\ rank' = IF t \in scored THEN [rank EXCEPT ![t] = NextRank] ELSE rank
      /\ rank \in [Attempts -> Null..Limit]
      /\ UNCHANGED <<scored, todo, scores, running, deleted, torn>> /\ index' = index + 1
  BY <1>1 DEF WriteRank, RanksTypeOK, ListInv, Listed
<1>4. /\ t \in scored => rank'[t] = NextRank
      /\ t \notin scored => rank' = rank
      /\ \A a \in Attempts \ {t} : rank'[a] = rank[a]
  BY <1>3
<1>5. RanksTypeOK'
  <2>1. rank' \in [Attempts -> Null..Limit]
    BY <1>2, <1>3, Bounds DEF Null
  <2> QED BY <1>1, <1>2, <1>3, <2>1 DEF RanksTypeOK
<1>6. ListInv'
  <2>1. ASSUME NEW i \in DOMAIN scores, i <= index + 1, scores[i] \in scored
        PROVE  rank'[scores[i]] = Percentile(i - 1, n)
    <3>1. CASE i = index + 1
      <4>1. scores[i] = t /\ i - 1 = index
        BY <1>1, <3>1
      <4> QED BY <1>2, <1>4, <2>1, <4>1
    <3>2. CASE i # index + 1
      <4>1. i \in 1..n /\ i < index + 1 /\ index + 1 \in 1..n /\ i <= index
        BY <1>1, <1>2, <2>1, <3>2
      <4>2. scores[i] # t /\ scores[i] \in Attempts
        BY <1>1, <2>1, <4>1 DEF ListInv, RanksTypeOK
      <4> QED BY <1>1, <1>4, <2>1, <4>1, <4>2 DEF ListInv
    <3> QED BY <3>1, <3>2
  <2>2. index + 1 < n
    BY <1>1, <1>2
  <2> QED BY <1>1, <1>3, <2>1, <2>2 DEF ListInv, Alike
<1>7. RankedInv'
  <2>1. index + 2 \in DOMAIN scores /\ index + 1 \in DOMAIN scores /\ index + 1 < index + 2
    BY <1>1, <1>2
  <2> DEFINE c == scores[index + 2]
  <2>2. /\ c \in Listed /\ c # t /\ Alike(t, c) /\ Percentage[t] <= Percentage[c]
        /\ c \in scored \cup deleted /\ c \in Attempts
    BY <2>1 DEF ListInv, Listed, RanksTypeOK
  <2>3. Kept(t) => c \in scored
    BY <2>2 DEF Kept, Alike
  <2>4. ~Shared(t) => Percentage[t] < Percentage[c]
    <3>1. Percentage[t] \in Int /\ Percentage[c] \in Int
      BY <1>3, <2>2, Percentages
    <3>2. ~Shared(t) => Percentage[c] # Percentage[t]
      BY <2>2 DEF Shared, Alike
    <3> QED BY <2>2, <3>1, <3>2
  <2>5. Listed' = Listed /\ \A b : Kept(b)' <=> Kept(b)
    BY <1>3 DEF Listed, Kept
  <2>6. ASSUME NEW b \in Attempts, rank'[b] # Null
        PROVE  /\ b \in scored
               /\ \A a \in Listed : Alike(a, b) => b \in Listed
               /\ ~Shared(b) /\ Kept(b) =>
                   /\ \E d \in scored : Alike(b, d) /\ Percentage[b] < Percentage[d]
                   /\ b \in Listed => \E d \in Listed : Percentage[b] < Percentage[d]
    <3>1. CASE b = t /\ t \in scored
      BY <1>3, <2>2, <2>3, <2>4, <3>1
    <3>2. CASE b # t \/ t \notin scored
      BY <1>4, <2>6, <3>2 DEF RankedInv
    <3> QED BY <3>1, <3>2
  <2> QED BY <1>3, <2>5, <2>6 DEF RankedInv
<1>8. OrderInv'
  <2>1. ASSUME NEW a \in Attempts, NEW b \in Attempts, Compared(a, b)', b \notin Listed
        PROVE  rank'[a] < rank'[b]
    <3>1. b # t /\ rank'[b] = rank[b] /\ rank[b] # Null /\ Alike(a, b)
      BY <1>3, <1>4, <2>1 DEF Compared
    <3>2. a # t
      BY <1>3, <2>1, <3>1 DEF RankedInv
    <3>3. rank'[a] = rank[a]
      BY <1>4, <3>2
    <3>4. Compared(a, b)
      BY <1>3, <2>1, <3>1, <3>3 DEF Compared, Kept
    <3> QED BY <2>1, <3>1, <3>3, <3>4 DEF OrderInv
  <2>2. Listed' = Listed /\ index' # 0
    BY <1>1, <1>3 DEF Listed
  <2> QED BY <2>1, <2>2 DEF OrderInv
<1> QED BY <1>5, <1>6, <1>7, <1>8

\* The run fails when it has come past all scores but the last, and so has
\* rewritten every rank that an earlier run, broken off, had left.
LEMMA OverflowKeeps == ASSUME RanksInv, FewAttempts, Overflow PROVE RanksInv'
<1> USE DEF RanksInv
<1> DEFINE n == Len(scores)
<1>1. n \in Nat /\ 1 < n /\ n <= Full /\ index \in 0..(n - 1) /\ DOMAIN scores = 1..n
  BY ListLength DEF Overflow, ListInv, RanksTypeOK
<1>2. index = n - 1 /\ index + 1 = n /\ n \in DOMAIN scores
  BY <1>1, TopRank DEF Overflow, NextRank
<1>3. RanksTypeOK' /\ ListInv' /\ RankedInv'
  BY EndRunKeeps DEF Overflow, RanksTypeOK
<1>4. ASSUME NEW a \in Attempts, NEW b \in Attempts, Compared(a, b)'
      PROVE  rank[a] < rank[b]
  <2>1. /\ Alike(a, b) /\ Percentage[a] < Percentage[b] /\ rank[a] # Null /\ rank[b] # Null
        /\ ~Shared(b) /\ Kept(b)
        /\ QuestionnaireOf[b] \notin torn \/ Alike(b, scores[n])
    BY <1>2, <1>4 DEF Compared, Kept, Overflow, EndRun, Alike
  <2>2. CASE b \notin Listed
    <3>1. scores[n] \in Listed
      BY <1>2 DEF Listed
    <3>2. ~Alike(b, scores[n])
      BY <2>1, <2>2, <3>1 DEF RankedInv, Alike
    <3> QED BY <2>1, <2>2, <3>2 DEF OrderInv, Compared
  <2>3. CASE b \in Listed
    <3>1. a \in Listed /\ a \in scored /\ b \in scored
      BY <2>1, <2>3 DEF RankedInv, Alike
    <3>2. PICK i \in 1..n : scores[i] = a
      BY <1>1, <3>1 DEF Listed
    <3>3. PICK j \in 1..n : scores[j] = b
      BY <1>1, <2>3 DEF Listed
    <3>4. PICK k \in 1..n : Percentage[b] < Percentage[scores[k]]
      BY <1>1, <2>1, <2>3 DEF Listed, RankedInv
    <3>5. \A l \in 1..n : scores[l] \in Attempts /\ Percentage[scores[l]] \in Int
      <4>1. \A c \in Attempts : Percentage[c] \in Int
        BY Percentages
      <4> QED BY <1>1, <4>1 DEF RanksTypeOK
    <3>6. \A l, m \in 1..n : Percentage[scores[l]] < Percentage[scores[m]] => l < m
      <4>1. \A l, m \in 1..n : m < l => Percentage[scores[m]] <= Percentage[scores[l]]
        BY <1>1 DEF ListInv
      <4> QED BY <3>5, <4>1
    <3>7. i < j /\ j < k
      BY <2>1, <3>2, <3>3, <3>4, <3>6
    <3>8. rank[a] = Percentile(i - 1, n) /\ rank[b] = Percentile(j - 1, n)
      BY <1>1, <1>2, <3>1, <3>2, <3>3, <3>7 DEF ListInv
    <3> QED BY <1>1, <3>7, <3>8, RanksGrow
  <2> QED BY <2>2, <2>3
<1>5. OrderInv'
  BY <1>4 DEF OrderInv, Overflow, EndRun
<1> QED BY <1>3, <1>5

LEMMA RanksKept == RanksInv /\ FewAttempts /\ [RanksNext]_ranksVars => RanksInv'
<1>1. ASSUME RanksInv, UNCHANGED ranksVars PROVE RanksInv'
  BY <1>1 DEF RanksInv, RanksTypeOK, ListInv, RankedInv, OrderInv, Compared, Kept,
     Listed, ranksVars
<1> QED
  BY <1>1, AddScoreKeeps, DeleteScoreKeeps, StartKeeps, ReadScoresKeeps, WriteRankKeeps,
     OverflowKeeps, BreakOffKeeps, FinishRunKeeps DEF RanksNext, Run

\* The inductive invariant of compute_percentile_ranks_task (careers/tasks.py:158).
THEOREM RanksInvariance == ASSUME FewAttempts PROVE RanksSpec => []RanksInv
<1>1. RanksInv /\ [RanksNext]_ranksVars => RanksInv'
  BY RanksKept
<1> QED BY <1>1, RanksStart, PTL DEF RanksSpec

\* Every rank that is written fits its column.
THEOREM RanksTyped == ASSUME FewAttempts PROVE RanksSpec => []RanksTypeOK
<1>1. RanksInv => RanksTypeOK
  BY DEF RanksInv
<1> QED BY <1>1, RanksInvariance, PTL

\* Between runs the ranks follow the percentages, for any attempts, percentages
\* and arrivals, although every run fails at the best score of a list, and again
\* after a run that broke off once a later one has got to the end of the list.
THEOREM RanksInOrder == ASSUME FewAttempts PROVE RanksSpec => []RanksFollowScores
<1>1. RanksInv => RanksFollowScores
  <2> SUFFICES ASSUME RanksInv, ~running,
                      NEW a \in Attempts, NEW b \in Attempts, Compared(a, b)
               PROVE  rank[a] < rank[b]
    BY DEF RanksFollowScores, Compared, Alike
  <2>1. Listed = {}
    BY DEF RanksInv, ListInv, Listed
  <2> QED BY <2>1 DEF RanksInv, OrderInv
<1> QED BY <1>1, RanksInvariance, PTL
================================================================================
