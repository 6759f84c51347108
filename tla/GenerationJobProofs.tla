-------------------------- MODULE GenerationJobProofs --------------------------
(***************************************************************************)
(* Proofs about GenerationJob for any jobs, shadow runs, tags and bounds.  *)
(***************************************************************************)
EXTENDS GenerationJob, FiniteSums, SequenceTheorems, TLAPS

\* A message the mail server has accepted is counted before it is recorded.
CopiesInv == \A i \in DOMAIN recommendations :
    recommendations[i].mail = "accepted" \/ recommendations[i].email_sent =>
        recommendations[i].copies > 0

\* A job has its row still to write, or has had its turn.
ToWrite == {"queued", "collected", "stored", "reread"}
RowsInv == \A j \in Jobs :
    Cardinality(RowsBy(j)) + (IF pc[j] \in ToWrite THEN 1 ELSE 0)
        <= 1 + deaths[j] + retries[j]

USE GenerationAssumption

--------------------------------------------------------------------------------
LEMMA TypeInit == Init => TypeOK
BY DEF Init, TypeOK, Nothing, Versions, Tasks, Places

LEMMA RowTyped ==
    ASSUME TypeOK, NEW i \in DOMAIN recommendations
    PROVE  recommendations[i] \in Recommendation
BY DEF TypeOK

LEMMA NewRowTyped ==
    ASSUME TypeOK, NEW j \in Tasks
    PROVE  NewRow(j) \in Recommendation
BY DEF TypeOK, NewRow, Recommendation, Nothing, Versions, MailStates

\* A sequence with one element replaced, if it has that element at all.
LEMMA ReplaceOne ==
    ASSUME NEW S, NEW s \in Seq(S), NEW m, NEW v, m \in DOMAIN s => v \in S
    PROVE  [s EXCEPT ![m] = v] \in Seq(S)
<1>1. CASE m \in DOMAIN s BY <1>1
<1>2. CASE m \notin DOMAIN s
  <2>1. Len(s) \in Nat /\ s \in [1..Len(s) -> S] BY ElementOfSeq, LenProperties
  <2>2. [s EXCEPT ![m] = v] \in [1..Len(s) -> S] BY <1>2, <2>1
  <2> QED BY <2>1, <2>2, SeqDef
<1> QED BY <1>1, <1>2

\* What the steps of an email task make of a row is a row.
LEMMA SetRowTyped ==
    ASSUME TypeOK, NEW i \in DOMAIN recommendations, NEW row \in Recommendation,
           SetRow(i, row)
    PROVE  TypeOK'
<1>1. recommendations' \in Seq(Recommendation) BY ReplaceOne DEF TypeOK, SetRow
<1> QED BY <1>1 DEF TypeOK, SetRow, locals

\* A sending that raised is noted in the row, with accepted emails counted.
LEMMA ToldTyped ==
    ASSUME NEW row \in Recommendation, NEW n \in {0, 1}
    PROVE  LET told == [row EXCEPT !.email_sent = FALSE, !.copies = @ + n, !.doubts = @ + n]
           IN  told \in Recommendation /\ told.tries = row.tries
<1> DEFINE told == [row EXCEPT !.email_sent = FALSE, !.copies = @ + n, !.doubts = @ + n]
<1>1. \A c, d \in Nat :
        [row EXCEPT !.email_sent = FALSE, !.copies = c, !.doubts = d] \in Recommendation
  BY DEF Recommendation
<1>2. row.copies \in Nat /\ row.doubts \in Nat BY DEF Recommendation
<1>3. told.tries = row.tries BY DEF Recommendation
<1>4. row.copies + n \in Nat /\ row.doubts + n \in Nat BY <1>2
<1> QED BY <1>1, <1>3, <1>4, Zenon

LEMMA ForgetTyped ==
    ASSUME TypeOK, NEW j \in Tasks, Forget(j)
    PROVE  /\ collected' \in [Tasks -> [Tags -> Versions]]
           /\ reread' \in [Tasks -> [Tags -> Versions]]
           /\ overwritten' \in [Tasks -> SUBSET Tags]
BY DEF TypeOK, Forget, Nothing, Versions

LEMMA TypeNext == TypeOK /\ [Next]_vars => TypeOK'
<1> SUFFICES ASSUME TypeOK, [Next]_vars PROVE TypeOK' OBVIOUS
<1> USE DEF TypeOK
<1>1. ASSUME NEW t \in Tags, ChangeEvidence(t) PROVE TypeOK'
  BY <1>1 DEF ChangeEvidence, Versions, locals
<1>2. ASSUME NEW j \in Tasks, CollectEvidence(j) PROVE TypeOK'
  BY <1>2 DEF CollectEvidence, Places
<1>3. ASSUME NEW j \in Tasks, StoreVector(j) PROVE TypeOK'
  BY <1>3 DEF StoreVector, Upsert, Overwrite, Places
<1>4. ASSUME NEW j \in Tasks, RereadVector(j) PROVE TypeOK'
  BY <1>4 DEF RereadVector, Places
<1>5. ASSUME NEW j \in Tasks, Persist(j) PROVE TypeOK'
  <2>1. recommendations' \in Seq(Recommendation) BY <1>5, NewRowTyped DEF Persist
  <2>2. collected' \in [Tasks -> [Tags -> Versions]] /\ reread' \in [Tasks -> [Tags -> Versions]]
          /\ overwritten' \in [Tasks -> SUBSET Tags]
    BY <1>5, ForgetTyped DEF Persist
  <2> QED BY <1>5, <2>1, <2>2 DEF Persist, Places
<1>6. ASSUME NEW j \in Tasks, EnqueueEmail(j) PROVE TypeOK'
  <2> DEFINE m == Max(RowsBy(j))
             row == [recommendations[m] EXCEPT !.mail = "queued"]
  <2>1. recommendations' = [recommendations EXCEPT ![m] = row]
    BY <1>6 DEF EnqueueEmail
  <2>2. \A r \in Recommendation : [r EXCEPT !.mail = "queued"] \in Recommendation
    BY DEF Recommendation, MailStates
  <2>3. m \in DOMAIN recommendations => row \in Recommendation
    BY <2>2, RowTyped
  <2> HIDE DEF m, row
  <2>4. recommendations' \in Seq(Recommendation) BY <2>1, <2>3, ReplaceOne
  <2> QED BY <1>6, <2>4 DEF EnqueueEmail, Places, locals
<1>7. ASSUME NEW j \in Tasks, Acknowledge(j) PROVE TypeOK'
  BY <1>7 DEF Acknowledge, Places, locals
<1>8. ASSUME NEW j \in Tasks, RetryJob(j) PROVE TypeOK'
  <2>1. retries' \in [Tasks -> 0..MaxRetries] BY <1>8 DEF RetryJob
  <2>2. pc' \in [Tasks -> Places] BY <1>8 DEF RetryJob, Places
  <2> collected' \in [Tasks -> [Tags -> Versions]] /\ reread' \in [Tasks -> [Tags -> Versions]]
          /\ overwritten' \in [Tasks -> SUBSET Tags]
    BY <1>8, ForgetTyped DEF RetryJob
  <2>3. CASE recommendations' = Append(recommendations, NewRow(j))
    <3>1. recommendations' \in Seq(Recommendation) BY <2>3, NewRowTyped
    <3> QED BY <1>8, <2>1, <2>2, <3>1 DEF RetryJob
  <2>4. CASE UNCHANGED recommendations
    BY <1>8, <2>1, <2>2, <2>4 DEF RetryJob
  <2> QED BY <1>8, <2>3, <2>4 DEF RetryJob
<1>9. ASSUME NEW j \in Tasks, FailJob(j) PROVE TypeOK'
  BY <1>9, ForgetTyped DEF FailJob, Places
<1>10. ASSUME NEW j \in Tasks, WorkerDies(j) PROVE TypeOK'
  BY <1>10, ForgetTyped DEF WorkerDies, Places
<1>11. ASSUME NEW i \in DOMAIN recommendations,
              Mail(i) \/ FlagFails(i) \/ MailWorkerDies(i)
       PROVE  TypeOK'
  <2> DEFINE row == recommendations[i]
  <2>1. row \in Recommendation BY RowTyped
  <2> HIDE DEF row
  <2>2. \A m \in MailStates : [row EXCEPT !.mail = m] \in Recommendation
    BY <2>1 DEF Recommendation
  <2>0. 0 \in 0..MailRetries BY GenerationAssumption
  <2>3. /\ [row EXCEPT !.mail = "done", !.tries = 0, !.email_sent = TRUE] \in Recommendation
        /\ [row EXCEPT !.mail = "lost", !.tries = 0] \in Recommendation
    <3>1. \A n \in 0..MailRetries :
            /\ [row EXCEPT !.mail = "done", !.tries = n, !.email_sent = TRUE] \in Recommendation
            /\ [row EXCEPT !.mail = "lost", !.tries = n] \in Recommendation
      BY <2>1 DEF Recommendation, MailStates
    <3> QED BY <2>0, <3>1
  <2>4. [row EXCEPT !.mail = "accepted", !.copies = @ + 1] \in Recommendation
    <3>1. \A c \in Nat : [row EXCEPT !.mail = "accepted", !.copies = c] \in Recommendation
      BY <2>1 DEF Recommendation, MailStates
    <3>2. row.copies \in Nat BY <2>1 DEF Recommendation
    <3>3. row.copies + 1 \in Nat BY <3>2
    <3> QED BY <3>1, <3>3, Zenon
  <2>5. CASE MailRaises(i)
    <3> DEFINE told(n) == [row EXCEPT !.email_sent = FALSE, !.copies = @ + n,
                                      !.doubts = @ + n]
    <3>1. PICK accepted \in {0, 1} :
            SetRow(i, IF row.tries < MailRetries
                      THEN [told(accepted) EXCEPT !.mail = "queued", !.tries = @ + 1]
                      ELSE [told(accepted) EXCEPT !.mail = "lost", !.tries = 0])
      BY <2>5 DEF MailRaises, row
    <3>2. told(accepted) \in Recommendation /\ told(accepted).tries = row.tries
      BY <2>1, ToldTyped
    <3> DEFINE new == told(accepted)
    <3> HIDE DEF told
    <3>3. [new EXCEPT !.mail = "lost", !.tries = 0] \in Recommendation
      <4>1. \A n \in 0..MailRetries :
              [new EXCEPT !.mail = "lost", !.tries = n] \in Recommendation
        BY <3>2 DEF Recommendation, MailStates
      <4> QED BY <2>0, <4>1
    <3>4. row.tries < MailRetries =>
            [new EXCEPT !.mail = "queued", !.tries = @ + 1] \in Recommendation
      <4>1. \A n \in 0..MailRetries :
              [new EXCEPT !.mail = "queued", !.tries = n] \in Recommendation
        BY <3>2 DEF Recommendation, MailStates
      <4>2. new.tries \in 0..MailRetries BY <3>2 DEF Recommendation
      <4>3. row.tries < MailRetries => new.tries + 1 \in 0..MailRetries
        BY <3>2, <4>2
      <4> QED BY <4>1, <4>3
    <3> QED BY <3>1, <3>3, <3>4, SetRowTyped
  <2>6. CASE ~MailRaises(i)
    BY <1>11, <2>2, <2>3, <2>4, <2>6, SetRowTyped
       DEF Mail, StartMail, MailAccepted, FlagSent, FlagFails, MailWorkerDies, MailStates, row
  <2> QED BY <2>5, <2>6
<1>12. CASE UNCHANGED vars BY <1>12 DEF vars
<1> QED BY <1>1, <1>2, <1>3, <1>4, <1>5, <1>6, <1>7, <1>8, <1>9, <1>10, <1>11, <1>12
         DEF Next, Work, Quiet

\* Every variable stays in its type.
THEOREM GenerationTyped == Spec => []TypeOK
BY TypeInit, TypeNext, PTL DEF Spec

--------------------------------------------------------------------------------
\* A row that is written goes to the end; the others stay.
LEMMA Appended ==
    ASSUME TypeOK, NEW j \in Tasks, recommendations' = Append(recommendations, NewRow(j))
    PROVE  /\ Len(recommendations) \in Nat
           /\ DOMAIN recommendations = 1..Len(recommendations)
           /\ DOMAIN recommendations' = 1..(Len(recommendations) + 1)
           /\ recommendations'[Len(recommendations) + 1] = NewRow(j)
           /\ \A i \in DOMAIN recommendations : recommendations'[i] = recommendations[i]
BY NewRowTyped, AppendProperties, LenProperties DEF TypeOK

LEMMA CopiesNext == TypeOK /\ CopiesInv /\ [Next]_vars => CopiesInv'
<1> SUFFICES ASSUME TypeOK, CopiesInv, [Next]_vars PROVE CopiesInv' OBVIOUS
<1>1. ASSUME NEW j \in Tasks, recommendations' = Append(recommendations, NewRow(j))
      PROVE  CopiesInv'
  <2>1. NewRow(j).mail = "none" /\ NewRow(j).email_sent = FALSE BY DEF NewRow
  <2>2. \A i \in DOMAIN recommendations' :
          i \in DOMAIN recommendations \/ i = Len(recommendations) + 1
    BY <1>1, Appended
  <2> QED BY <1>1, <2>1, <2>2, Appended DEF CopiesInv
<1>2. ASSUME NEW j \in Tasks, EnqueueEmail(j) PROVE CopiesInv'
  <2> DEFINE m == Max(RowsBy(j))
  <2>1. recommendations' =
          [recommendations EXCEPT ![m] = [recommendations[m] EXCEPT !.mail = "queued"]]
    BY <1>2 DEF EnqueueEmail
  <2> HIDE DEF m
  <2>2. m \in DOMAIN recommendations =>
          LET row == [recommendations[m] EXCEPT !.mail = "queued"] IN
          /\ row.mail = "queued" /\ row.copies = recommendations[m].copies
          /\ row.email_sent = recommendations[m].email_sent
    BY RowTyped DEF Recommendation
  <2> QED BY <2>1, <2>2 DEF CopiesInv
<1>3. ASSUME NEW i \in DOMAIN recommendations,
             Mail(i) \/ FlagFails(i) \/ MailWorkerDies(i)
      PROVE  CopiesInv'
  <2> DEFINE row == recommendations[i]
  <2>1. row \in Recommendation /\ row.copies \in Nat BY RowTyped DEF Recommendation
  <2>2. row.mail = "accepted" \/ row.email_sent => row.copies > 0 BY DEF CopiesInv
  <2>3. SUFFICES ASSUME NEW new, SetRow(i, new)
                 PROVE  new.mail = "accepted" \/ new.email_sent => new.copies > 0
    <3>1. \E new : SetRow(i, new)
      BY <1>3 DEF Mail, StartMail, MailAccepted, MailRaises, FlagSent, FlagFails, MailWorkerDies
    <3> QED BY <2>3, <3>1 DEF SetRow, CopiesInv
  <2>4. new = recommendations'[i] BY <2>3 DEF SetRow
  <2> HIDE DEF row
  <2>5. CASE StartMail(i)
    <3>1. new = [row EXCEPT !.mail = "sending"] BY <2>4, <2>5 DEF StartMail, SetRow, row
    <3> QED BY <2>1, <2>2, <3>1 DEF Recommendation
  <2>6. CASE MailAccepted(i)
    <3>1. new = [row EXCEPT !.mail = "accepted", !.copies = @ + 1]
      BY <2>4, <2>6 DEF MailAccepted, SetRow, row
    <3>2. new.copies = row.copies + 1 BY <2>1, <3>1 DEF Recommendation
    <3> QED BY <2>1, <3>2
  <2>7. CASE MailRaises(i)
    <3>1. new.email_sent = FALSE /\ new.mail \in {"queued", "lost"}
      <4>1. PICK n \in {0, 1} :
              LET told == [row EXCEPT !.email_sent = FALSE, !.copies = @ + n, !.doubts = @ + n]
              IN new = IF row.tries < MailRetries
                       THEN [told EXCEPT !.mail = "queued", !.tries = @ + 1]
                       ELSE [told EXCEPT !.mail = "lost", !.tries = 0]
        BY <2>4, <2>7 DEF MailRaises, SetRow, row
      <4> QED BY <2>1, <4>1 DEF Recommendation
    <3> QED BY <3>1
  <2>8. CASE FlagSent(i)
    <3>1. new = [row EXCEPT !.mail = "done", !.tries = 0, !.email_sent = TRUE] /\ row.mail = "accepted"
      BY <2>4, <2>8 DEF FlagSent, SetRow, row
    <3> QED BY <2>1, <2>2, <3>1 DEF Recommendation
  <2>9. CASE FlagFails(i) \/ MailWorkerDies(i)
    <3>1. new = [row EXCEPT !.mail = "lost", !.tries = 0]
      BY <2>4, <2>9 DEF FlagFails, MailWorkerDies, SetRow, row
    <3> QED BY <2>1, <2>2, <3>1 DEF Recommendation
  <2> QED BY <1>3, <2>5, <2>6, <2>7, <2>8, <2>9 DEF Mail
<1>4. CASE UNCHANGED recommendations BY <1>4 DEF CopiesInv
<1> QED BY <1>1, <1>2, <1>3, <1>4
        DEF Next, Work, Quiet, vars, ChangeEvidence, CollectEvidence, StoreVector,
            RereadVector, Persist, Acknowledge, RetryJob, FailJob, WorkerDies

\* No row claims an email that the mail server has not accepted.
THEOREM SentTruthful == Spec => []SentMeansAccepted
<1>1. Init => CopiesInv BY DEF Init, CopiesInv
<1>2. CopiesInv => SentMeansAccepted BY DEF CopiesInv, SentMeansAccepted
<1> QED BY <1>1, <1>2, CopiesNext, GenerationTyped, PTL DEF Spec

--------------------------------------------------------------------------------
\* What an email task and EnqueueEmail leave alone in a row.
SameContent(r, s) ==
    /\ s.by = r.by /\ s.ranked = r.ranked /\ s.explained = r.explained
    /\ s.overwritten = r.overwritten

\* The fields that are updated are not the ones SameContent compares.
LEMMA Updates ==
    ASSUME NEW r \in Recommendation
    PROVE  /\ \A m \in MailStates : SameContent(r, [r EXCEPT !.mail = m])
           /\ SameContent(r, [r EXCEPT !.mail = "accepted", !.copies = @ + 1])
           /\ SameContent(r, [r EXCEPT !.mail = "done", !.tries = 0, !.email_sent = TRUE])
           /\ SameContent(r, [r EXCEPT !.mail = "queued", !.tries = @ + 1])
           /\ SameContent(r, [r EXCEPT !.mail = "lost", !.tries = 0])
           /\ \A n : SameContent(r, [r EXCEPT !.email_sent = FALSE, !.copies = @ + n,
                                              !.doubts = @ + n])
<1> USE DEF SameContent, Recommendation
<1>1. \A m \in MailStates : SameContent(r, [r EXCEPT !.mail = m]) OBVIOUS
<1>2. SameContent(r, [r EXCEPT !.mail = "accepted", !.copies = @ + 1]) OBVIOUS
<1>3. SameContent(r, [r EXCEPT !.mail = "done", !.tries = 0, !.email_sent = TRUE]) OBVIOUS
<1>4. SameContent(r, [r EXCEPT !.mail = "queued", !.tries = @ + 1]) OBVIOUS
<1>5. \A n : SameContent(r, [r EXCEPT !.email_sent = FALSE, !.copies = @ + n, !.doubts = @ + n])
  OBVIOUS
<1>6. SameContent(r, [r EXCEPT !.mail = "lost", !.tries = 0]) OBVIOUS
<1> HIDE DEF SameContent, Recommendation
<1> QED BY <1>1, <1>2, <1>3, <1>4, <1>5, <1>6

\* Rows are only ever added by their tasks, and keep their content.
LEMMA RowsKept ==
    ASSUME TypeOK,
           \/ UNCHANGED recommendations
           \/ \E i \in DOMAIN recommendations : Mail(i) \/ FlagFails(i) \/ MailWorkerDies(i)
           \/ \E k \in Tasks : EnqueueEmail(k)
    PROVE  /\ DOMAIN recommendations' = DOMAIN recommendations
           /\ \A i \in DOMAIN recommendations :
                SameContent(recommendations[i], recommendations'[i])
<1>1. SUFFICES ASSUME NEW m, NEW new,
                      m \in DOMAIN recommendations => SameContent(recommendations[m], new),
                      recommendations' = [recommendations EXCEPT ![m] = new]
               PROVE  /\ DOMAIN recommendations' = DOMAIN recommendations
                      /\ \A i \in DOMAIN recommendations :
                           SameContent(recommendations[i], recommendations'[i])
  <2>1. CASE UNCHANGED recommendations BY <2>1 DEF SameContent
  <2>2. ASSUME NEW i \in DOMAIN recommendations, Mail(i) \/ FlagFails(i) \/ MailWorkerDies(i)
        PROVE  \E new : /\ SameContent(recommendations[i], new)
                        /\ recommendations' = [recommendations EXCEPT ![i] = new]
    <3> DEFINE row == recommendations[i]
    <3>1. row \in Recommendation BY RowTyped
    <3> HIDE DEF row
    <3>2. "sending" \in MailStates /\ "lost" \in MailStates BY DEF MailStates
    <3>3. CASE MailRaises(i)
      <4> DEFINE told(n) == [row EXCEPT !.email_sent = FALSE, !.copies = @ + n,
                                        !.doubts = @ + n]
                 settled(n) == IF row.tries < MailRetries
                               THEN [told(n) EXCEPT !.mail = "queued", !.tries = @ + 1]
                               ELSE [told(n) EXCEPT !.mail = "lost", !.tries = 0]
      <4>1. PICK n \in {0, 1} : SetRow(i, settled(n)) BY <3>3 DEF MailRaises, row
      <4>2. told(n) \in Recommendation BY <3>1, ToldTyped
      <4>3. SameContent(row, told(n)) BY <3>1, Updates
      <4> HIDE DEF told
      <4>4. SameContent(told(n), settled(n)) BY <3>2, <4>2, Updates
      <4>5. SameContent(row, settled(n)) BY <4>3, <4>4 DEF SameContent
      <4> HIDE DEF settled
      <4> QED BY <4>1, <4>5 DEF SetRow, row
    <3>4. CASE ~MailRaises(i)
      <4>1. \E new : SetRow(i, new) /\ SameContent(row, new)
        BY <2>2, <3>1, <3>2, <3>4, Updates
           DEF Mail, StartMail, MailAccepted, FlagSent, FlagFails, MailWorkerDies, row
      <4> QED BY <4>1 DEF SetRow, row
    <3> QED BY <3>3, <3>4
  <2>3. ASSUME NEW k \in Tasks, EnqueueEmail(k)
        PROVE  \E m, new :
                  /\ m \in DOMAIN recommendations => SameContent(recommendations[m], new)
                  /\ recommendations' = [recommendations EXCEPT ![m] = new]
    <3> DEFINE m == Max(RowsBy(k))
               new == [recommendations[m] EXCEPT !.mail = "queued"]
    <3>1. recommendations' = [recommendations EXCEPT ![m] = new]
      BY <2>3 DEF EnqueueEmail
    <3>2. m \in DOMAIN recommendations => SameContent(recommendations[m], new)
      BY RowTyped, Updates DEF MailStates
    <3> HIDE DEF m, new
    <3> QED BY <3>1, <3>2
  <2> QED BY <1>1, <2>1, <2>2, <2>3
<1>2. \A i \in DOMAIN recommendations :
        SameContent(recommendations[i], recommendations'[i])
  BY <1>1 DEF SameContent
<1> QED BY <1>1, <1>2

LEMMA SameRows ==
    ASSUME TypeOK, NEW j \in Tasks,
           \/ UNCHANGED recommendations
           \/ \E i \in DOMAIN recommendations : Mail(i) \/ FlagFails(i) \/ MailWorkerDies(i)
           \/ \E k \in Tasks : EnqueueEmail(k)
    PROVE  RowsBy(j)' = RowsBy(j)
BY RowsKept DEF RowsBy, SameContent

LEMMA RowsFinite ==
    ASSUME TypeOK, NEW j \in Tasks
    PROVE  IsFiniteSet(RowsBy(j)) /\ Cardinality(RowsBy(j)) \in Nat
<1>1. Len(recommendations) \in Nat /\ DOMAIN recommendations = 1..Len(recommendations)
  BY LenProperties DEF TypeOK
<1>2. IsFiniteSet(1..Len(recommendations)) BY <1>1, FS_Interval
<1>3. RowsBy(j) \in SUBSET (1..Len(recommendations)) BY <1>1 DEF RowsBy
<1>4. IsFiniteSet(RowsBy(j)) BY <1>2, <1>3, FS_Subset
<1> QED BY <1>4, FS_CardinalityType

\* A row more for its task, none for the others.
LEMMA OneRowMore ==
    ASSUME TypeOK, NEW k \in Tasks, NEW j \in Tasks,
           recommendations' = Append(recommendations, NewRow(k))
    PROVE  Cardinality(RowsBy(j)') = Cardinality(RowsBy(j)) + IF j = k THEN 1 ELSE 0
<1> DEFINE n == Len(recommendations) + 1
<1>1. n \notin RowsBy(j) BY Appended DEF RowsBy
<1>2. NewRow(k).by = k BY DEF NewRow
<1>3. CASE j = k
  <2>1. RowsBy(j)' = RowsBy(j) \cup {n} BY <1>2, <1>3, Appended DEF RowsBy
  <2> QED BY <1>1, <1>3, <2>1, RowsFinite, FS_AddElement
<1>4. CASE j # k
  <2>1. RowsBy(j)' = RowsBy(j) BY <1>2, <1>4, Appended DEF RowsBy
  <2> QED BY <1>4, <2>1, RowsFinite
<1> QED BY <1>3, <1>4

LEMMA RowsNext == TypeOK /\ RowsInv /\ [Next]_vars => RowsInv'
<1> SUFFICES ASSUME TypeOK, RowsInv, [Next]_vars, NEW j \in Jobs
             PROVE  Cardinality(RowsBy(j)') + (IF pc'[j] \in ToWrite THEN 1 ELSE 0)
                        <= 1 + deaths'[j] + retries'[j]
  BY DEF RowsInv
<1> j \in Tasks BY DEF Tasks
<1> DEFINE rows == Cardinality(RowsBy(j))
           due == IF pc[j] \in ToWrite THEN 1 ELSE 0
<1>0. /\ rows \in Nat /\ deaths[j] \in Nat /\ retries[j] \in Nat
      /\ rows + due <= 1 + deaths[j] + retries[j]
  BY RowsFinite DEF TypeOK, RowsInv
<1>1. ASSUME NEW k \in Tasks, Persist(k) PROVE Cardinality(RowsBy(j)') +
             (IF pc'[j] \in ToWrite THEN 1 ELSE 0) <= 1 + deaths'[j] + retries'[j]
  <2>1. Cardinality(RowsBy(j)') = rows + IF j = k THEN 1 ELSE 0
    BY <1>1, OneRowMore DEF Persist
  <2>2. j = k => due = 1 /\ pc'[j] \notin ToWrite
    BY <1>1 DEF Persist, ToWrite, TypeOK
  <2>3. j # k => pc'[j] = pc[j] BY <1>1 DEF Persist, TypeOK
  <2>4. deaths' = deaths /\ retries' = retries BY <1>1 DEF Persist
  <2> HIDE DEF rows
  <2> QED BY <1>0, <2>1, <2>2, <2>3, <2>4
<1>2. ASSUME NEW k \in Tasks, RetryJob(k) PROVE Cardinality(RowsBy(j)') +
             (IF pc'[j] \in ToWrite THEN 1 ELSE 0) <= 1 + deaths'[j] + retries'[j]
  <2>1. Cardinality(RowsBy(j)') <= rows + IF j = k THEN 1 ELSE 0
    <3>1. CASE UNCHANGED recommendations BY <1>0, <3>1, SameRows
    <3>2. CASE recommendations' = Append(recommendations, NewRow(k))
      BY <1>0, <3>2, OneRowMore
    <3> QED BY <1>2, <3>1, <3>2 DEF RetryJob
  <2>2. Cardinality(RowsBy(j)') \in Nat
    <3>1. CASE UNCHANGED recommendations BY <1>0, <3>1, SameRows
    <3>2. CASE recommendations' = Append(recommendations, NewRow(k))
      BY <1>0, <3>2, OneRowMore
    <3> QED BY <1>2, <3>1, <3>2 DEF RetryJob
  <2>3. j = k => due = 1 /\ retries'[j] = retries[j] + 1
    BY <1>2 DEF RetryJob, ToWrite, TypeOK
  <2>4. j # k => pc'[j] = pc[j] /\ retries'[j] = retries[j]
    BY <1>2 DEF RetryJob, TypeOK
  <2>5. deaths' = deaths BY <1>2 DEF RetryJob
  <2> HIDE DEF rows
  <2> QED BY <1>0, <2>1, <2>2, <2>3, <2>4, <2>5
<1>3. ASSUME NEW k \in Tasks, WorkerDies(k) PROVE Cardinality(RowsBy(j)') +
             (IF pc'[j] \in ToWrite THEN 1 ELSE 0) <= 1 + deaths'[j] + retries'[j]
  <2>1. RowsBy(j)' = RowsBy(j) BY <1>3, SameRows DEF WorkerDies
  <2>2. j = k => deaths'[j] = deaths[j] + 1 BY <1>3 DEF WorkerDies, TypeOK
  <2>3. j # k => pc'[j] = pc[j] /\ deaths'[j] = deaths[j] BY <1>3 DEF WorkerDies, TypeOK
  <2>4. retries' = retries BY <1>3 DEF WorkerDies
  <2>5. Cardinality(RowsBy(j)') = rows BY <2>1
  <2> HIDE DEF rows
  <2> QED BY <1>0, <2>2, <2>3, <2>4, <2>5
<1>4. ASSUME RowsBy(j)' = RowsBy(j), UNCHANGED <<deaths, retries>>,
             pc'[j] \in ToWrite => pc[j] \in ToWrite
      PROVE  Cardinality(RowsBy(j)') + (IF pc'[j] \in ToWrite THEN 1 ELSE 0)
                 <= 1 + deaths'[j] + retries'[j]
  <2>1. Cardinality(RowsBy(j)') = rows BY <1>4
  <2> HIDE DEF rows
  <2> QED BY <1>0, <1>4, <2>1
<1>5. ASSUME NEW k \in Tasks,
             \/ CollectEvidence(k) \/ StoreVector(k) \/ RereadVector(k)
             \/ EnqueueEmail(k) \/ Acknowledge(k) \/ FailJob(k)
      PROVE  Cardinality(RowsBy(j)') + (IF pc'[j] \in ToWrite THEN 1 ELSE 0)
                 <= 1 + deaths'[j] + retries'[j]
  <2>1. RowsBy(j)' = RowsBy(j)
    BY <1>5, SameRows DEF CollectEvidence, StoreVector, RereadVector, Acknowledge, FailJob
  <2>2. UNCHANGED <<deaths, retries>>
    BY <1>5 DEF CollectEvidence, StoreVector, RereadVector, EnqueueEmail, Acknowledge, FailJob
  <2>3. pc'[j] \in ToWrite => pc[j] \in ToWrite
    BY <1>5 DEF TypeOK, ToWrite, CollectEvidence, StoreVector, RereadVector, EnqueueEmail,
       Acknowledge, FailJob
  <2> QED BY <1>4, <2>1, <2>2, <2>3
<1>6. ASSUME NEW i \in DOMAIN recommendations, Mail(i) \/ FlagFails(i) \/ MailWorkerDies(i)
      PROVE  Cardinality(RowsBy(j)') + (IF pc'[j] \in ToWrite THEN 1 ELSE 0)
                 <= 1 + deaths'[j] + retries'[j]
  <2>1. RowsBy(j)' = RowsBy(j) BY <1>6, SameRows
  <2>2. UNCHANGED <<pc, deaths, retries>>
    BY <1>6 DEF Mail, StartMail, MailAccepted, MailRaises, FlagSent, FlagFails,
       MailWorkerDies, SetRow
  <2> QED BY <1>4, <2>1, <2>2
<1>7. ASSUME \/ \E t \in Tags : ChangeEvidence(t)
             \/ UNCHANGED vars
      PROVE  Cardinality(RowsBy(j)') + (IF pc'[j] \in ToWrite THEN 1 ELSE 0)
                 <= 1 + deaths'[j] + retries'[j]
  <2>1. RowsBy(j)' = RowsBy(j) BY <1>7, SameRows DEF ChangeEvidence, vars
  <2> QED BY <1>4, <1>7, <2>1 DEF ChangeEvidence, vars
<1> QED BY <1>1, <1>2, <1>3, <1>5, <1>6, <1>7 DEF Next, Work, Quiet

\* Every recommendation too many of a job has a death or a retry behind it.
THEOREM DuplicatesExplained == Spec => []DuplicatesAccounted
<1>1. Init => RowsInv
  <2> SUFFICES ASSUME Init, NEW j \in Jobs
               PROVE  Cardinality(RowsBy(j)) + (IF pc[j] \in ToWrite THEN 1 ELSE 0)
                          <= 1 + deaths[j] + retries[j]
    BY DEF RowsInv
  <2>1. RowsBy(j) = {} BY DEF Init, RowsBy
  <2>2. Cardinality(RowsBy(j)) = 0 BY <2>1, FS_EmptySet
  <2>3. deaths[j] = 0 /\ retries[j] = 0 BY DEF Init, Tasks
  <2> QED BY <2>2, <2>3
<1>2. TypeOK /\ RowsInv => DuplicatesAccounted
  <2> SUFFICES ASSUME TypeOK, RowsInv, NEW j \in Jobs
               PROVE  Cardinality(RowsBy(j)) <= 1 + deaths[j] + retries[j]
    BY DEF DuplicatesAccounted
  <2>1. j \in Tasks BY DEF Tasks
  <2>2. Cardinality(RowsBy(j)) \in Nat /\ deaths[j] \in Nat /\ retries[j] \in Nat
    BY <2>1, RowsFinite DEF TypeOK
  <2> QED BY <2>2 DEF RowsInv
<1> QED BY <1>1, <1>2, RowsNext, GenerationTyped, PTL DEF Spec
--------------------------------------------------------------------------------
\* What a job under way has stored, and what it has read back, is the evidence
\* it ranks, for every tag it has evidence about that nobody has written since.
StoredInv == \A j \in Jobs, t \in Tags :
    collected[j][t] # 0 /\ t \notin overwritten[j] =>
        /\ pc[j] = "stored" => vector[t] = collected[j][t]
        /\ pc[j] = "reread" => reread[j][t] = collected[j][t]

ExplanationInv == StoredInv /\ ExplanationAgrees

\* Another task's upsert leaves alone the rows it has no evidence about, and
\* marks the others.
LEMMA StoreKeeps ==
    ASSUME TypeOK, StoredInv, NEW k \in Tasks, StoreVector(k)
    PROVE  StoredInv'
<1> SUFFICES ASSUME NEW j \in Jobs, NEW t \in Tags,
                    collected'[j][t] # 0, t \notin overwritten'[j]
             PROVE  /\ pc'[j] = "stored" => vector'[t] = collected'[j][t]
                    /\ pc'[j] = "reread" => reread'[j][t] = collected'[j][t]
  BY DEF StoredInv
<1> j \in Tasks /\ j \notin Shadows BY DEF Tasks
<1>1. CASE j = k BY <1>1 DEF TypeOK, StoreVector, Upsert
<1>2. CASE j # k
  <2>1. pc'[j] = pc[j] /\ UNCHANGED <<collected, reread>> BY <1>2 DEF StoreVector, TypeOK
  <2>2. /\ t \notin overwritten[j]
        /\ pc[j] = "stored" => collected[k][t] = 0
    BY <1>2 DEF StoreVector, Overwrite
  <2>3. pc[j] = "stored" => vector'[t] = vector[t] BY <2>2 DEF StoreVector, Upsert
  <2> QED BY <2>1, <2>2, <2>3 DEF StoredInv
<1> QED BY <1>1, <1>2

LEMMA StoredNext ==
    ASSUME TypeOK, StoredInv, [Next]_vars
    PROVE  StoredInv'
<1> USE DEF TypeOK, StoredInv
<1> \A j \in Jobs : j \in Tasks BY DEF Tasks
<1>1. ASSUME NEW j \in Tasks, CollectEvidence(j) PROVE StoredInv'
  BY <1>1 DEF CollectEvidence
<1>2. ASSUME NEW j \in Tasks, StoreVector(j) PROVE StoredInv'
  BY <1>2, StoreKeeps
<1>3. ASSUME NEW j \in Tasks, RereadVector(j) PROVE StoredInv'
  BY <1>3 DEF RereadVector
<1>4. ASSUME NEW j \in Tasks, EnqueueEmail(j) \/ Acknowledge(j) PROVE StoredInv'
  <2>1. UNCHANGED <<vector, collected, reread, overwritten>>
    BY <1>4 DEF EnqueueEmail, Acknowledge, locals
  <2>2. \A k \in Tasks : pc'[k] \in {"stored", "reread"} => pc'[k] = pc[k]
    BY <1>4 DEF EnqueueEmail, Acknowledge
  <2> QED BY <2>1, <2>2
<1>5. ASSUME NEW j \in Tasks, Persist(j) \/ RetryJob(j) \/ FailJob(j) \/ WorkerDies(j)
      PROVE  StoredInv'
  <2>1. /\ \A t \in Tags : collected'[j][t] = 0
        /\ \A k \in Tasks \ {j} :
             /\ pc'[k] = pc[k] /\ collected'[k] = collected[k]
             /\ reread'[k] = reread[k] /\ overwritten'[k] = overwritten[k]
        /\ vector' = vector
    BY <1>5 DEF Persist, RetryJob, FailJob, WorkerDies, Forget, Nothing
  <2> SUFFICES ASSUME NEW k \in Jobs, NEW t \in Tags,
                      collected'[k][t] # 0, t \notin overwritten'[k]
               PROVE  /\ pc'[k] = "stored" => vector'[t] = collected'[k][t]
                      /\ pc'[k] = "reread" => reread'[k][t] = collected'[k][t]
    OBVIOUS
  <2>2. k \in Tasks \ {j} BY <2>1
  <2> QED BY <2>1, <2>2
<1>6. CASE UNCHANGED <<vector, pc, collected, reread, overwritten>> BY <1>6
<1> QED BY <1>1, <1>2, <1>3, <1>4, <1>5, <1>6
        DEF Next, Work, Quiet, vars, locals, ChangeEvidence, Mail, StartMail, MailAccepted,
            MailRaises, FlagSent, FlagFails, MailWorkerDies, SetRow

LEMMA AgreesNext ==
    ASSUME TypeOK, StoredInv, ExplanationAgrees, [Next]_vars
    PROVE  ExplanationAgrees'
<1>1. ASSUME NEW j \in Tasks, pc[j] = "reread",
             recommendations' = Append(recommendations, NewRow(j))
      PROVE  ExplanationAgrees'
  <2> DEFINE new == NewRow(j)
  <2>1. \A t \in Tags \ new.overwritten :
          new.by \in Jobs /\ new.ranked[t] # 0 => new.explained[t] = new.ranked[t]
    <3>1. /\ new.by = j /\ new.ranked = collected[j] /\ new.overwritten = overwritten[j]
          /\ j \in Jobs => new.explained = reread[j]
      BY DEF NewRow, GenerationAssumption
    <3> QED BY <1>1, <3>1 DEF StoredInv
  <2>2. \A i \in DOMAIN recommendations' :
          i \in DOMAIN recommendations \/ i = Len(recommendations) + 1
    BY <1>1, Appended
  <2> HIDE DEF new
  <2>3. recommendations'[Len(recommendations) + 1] = new BY <1>1, Appended DEF new
  <2> QED BY <1>1, <2>1, <2>2, <2>3, Appended DEF ExplanationAgrees
<1>2. ASSUME \/ UNCHANGED recommendations
             \/ \E i \in DOMAIN recommendations : Mail(i) \/ FlagFails(i) \/ MailWorkerDies(i)
             \/ \E k \in Tasks : EnqueueEmail(k)
      PROVE  ExplanationAgrees'
  BY <1>2, RowsKept DEF ExplanationAgrees, SameContent
<1> QED BY <1>1, <1>2
        DEF Next, Work, Quiet, vars, ChangeEvidence, CollectEvidence, StoreVector,
            RereadVector, Persist, Acknowledge, RetryJob, FailJob, WorkerDies

\* With any number of workers, an explanation rests on the evidence that was
\* ranked but for the tags another task overwrote between the job's writing and
\* its reading back, however the evidence changes and whichever deliveries are
\* lost.
THEOREM ExplanationsRest == Spec => []ExplanationAgrees
<1>1. Init => ExplanationInv
  BY DEF Init, ExplanationInv, StoredInv, ExplanationAgrees, Tasks
<1>2. TypeOK /\ ExplanationInv /\ [Next]_vars => ExplanationInv'
  BY StoredNext, AgreesNext DEF ExplanationInv
<1>3. ExplanationInv => ExplanationAgrees BY DEF ExplanationInv
<1> QED BY <1>1, <1>2, <1>3, GenerationTyped, PTL DEF Spec

--------------------------------------------------------------------------------
\* How many emails a row may have brought by the time it is in a state of the
\* mail: none before it is enqueued; all of them doubted while a try is due.
RowCounts(row) ==
    /\ row.mail = "none" => row.copies = 0 /\ row.doubts = 0
    /\ row.mail \in {"queued", "sending"} => row.copies = row.doubts
    /\ row.copies <= row.doubts + 1

\* The rows of task j whose email has been enqueued.
Enqueued(j) == {i \in RowsBy(j) : recommendations[i].mail # "none"}

\* A job has its email still to enqueue, or has had its turn.
ToEnqueue == {"queued", "collected", "stored", "reread", "persisted"}

\* The row whose email a task goes on to enqueue is its last, and is new.
NewestUnsent(j) == \E i \in RowsBy(j) :
    /\ \A h \in RowsBy(j) : h <= i
    /\ recommendations[i].mail = "none"

MailInv ==
    /\ \A i \in DOMAIN recommendations : RowCounts(recommendations[i])
    /\ \A j \in Tasks :
        /\ pc[j] = "persisted" => NewestUnsent(j)
        /\ Cardinality(Enqueued(j)) + (IF pc[j] \in ToEnqueue THEN 1 ELSE 0) <= 1 + deaths[j]

\* The step of an email task keeps the account of its row.
LEMMA MailStep ==
    ASSUME TypeOK, NEW i \in DOMAIN recommendations,
           Mail(i) \/ FlagFails(i) \/ MailWorkerDies(i)
    PROVE  /\ UNCHANGED <<pc, deaths>>
           /\ DOMAIN recommendations' = DOMAIN recommendations
           /\ \A h \in DOMAIN recommendations \ {i} : recommendations'[h] = recommendations[h]
           /\ recommendations[i].mail # "none" /\ recommendations'[i].mail # "none"
           /\ RowCounts(recommendations[i]) => RowCounts(recommendations'[i])
<1> DEFINE row == recommendations[i]
           Ok(new) == new.mail # "none" /\ (RowCounts(row) => RowCounts(new))
<1>1. row \in Recommendation /\ row.copies \in Nat /\ row.doubts \in Nat
  BY RowTyped DEF Recommendation
<1> SUFFICES row.mail # "none" /\ \E new : SetRow(i, new) /\ Ok(new)
  BY DEF SetRow
<1> HIDE DEF row
<1>2. CASE StartMail(i)
  <2> DEFINE new == [row EXCEPT !.mail = "sending"]
  <2>1. new.mail = "sending" /\ new.copies = row.copies /\ new.doubts = row.doubts
    BY <1>1 DEF Recommendation
  <2>2. row.mail = "queued" /\ SetRow(i, new)
    BY <1>2 DEF StartMail, row
  <2> HIDE DEF new
  <2> QED BY <1>1, <2>1, <2>2 DEF RowCounts
<1>3. CASE MailAccepted(i)
  <2> DEFINE new == [row EXCEPT !.mail = "accepted", !.copies = @ + 1]
  <2>1. new.mail = "accepted" /\ new.copies = row.copies + 1 /\ new.doubts = row.doubts
    BY <1>1 DEF Recommendation
  <2>2. row.mail = "sending" /\ SetRow(i, new)
    BY <1>3 DEF MailAccepted, row
  <2> HIDE DEF new
  <2> QED BY <1>1, <2>1, <2>2 DEF RowCounts
<1>4. CASE MailRaises(i)
  <2> DEFINE told(n) == [row EXCEPT !.email_sent = FALSE, !.copies = @ + n, !.doubts = @ + n]
             settled(n) == IF row.tries < MailRetries
                           THEN [told(n) EXCEPT !.mail = "queued", !.tries = @ + 1]
                           ELSE [told(n) EXCEPT !.mail = "lost", !.tries = 0]
  <2>1. PICK n \in {0, 1} : SetRow(i, settled(n))
    BY <1>4 DEF MailRaises, row
  <2>2. row.mail = "sending"
    BY <1>4 DEF MailRaises, row
  <2>3. told(n) \in Recommendation /\ told(n).copies = row.copies + n
          /\ told(n).doubts = row.doubts + n
    <3>1. told(n) \in Recommendation
      BY <1>1, ToldTyped
    <3>2. told(n).copies = row.copies + n /\ told(n).doubts = row.doubts + n
      BY <1>1 DEF Recommendation
    <3> QED BY <3>1, <3>2
  <2> HIDE DEF told
  <2>4. settled(n).mail \in {"queued", "lost"} /\ settled(n).copies = told(n).copies
          /\ settled(n).doubts = told(n).doubts
    BY <2>3 DEF Recommendation
  <2> HIDE DEF settled
  <2> QED BY <1>1, <2>1, <2>2, <2>3, <2>4 DEF RowCounts
<1>5. CASE FlagSent(i)
  <2> DEFINE new == [row EXCEPT !.mail = "done", !.tries = 0, !.email_sent = TRUE]
  <2>1. new.mail = "done" /\ new.copies = row.copies /\ new.doubts = row.doubts
    BY <1>1 DEF Recommendation
  <2>2. row.mail = "accepted" /\ SetRow(i, new)
    BY <1>5 DEF FlagSent, row
  <2> HIDE DEF new
  <2> QED BY <1>1, <2>1, <2>2 DEF RowCounts
<1>6. CASE FlagFails(i) \/ MailWorkerDies(i)
  <2> DEFINE new == [row EXCEPT !.mail = "lost", !.tries = 0]
  <2>1. new.mail = "lost" /\ new.copies = row.copies /\ new.doubts = row.doubts
    BY <1>1 DEF Recommendation
  <2>2. row.mail \in {"accepted", "sending"} /\ SetRow(i, new)
    BY <1>6 DEF FlagFails, MailWorkerDies, row
  <2> HIDE DEF new
  <2> QED BY <1>1, <2>1, <2>2 DEF RowCounts
<1> QED BY <1>2, <1>3, <1>4, <1>5, <1>6 DEF Mail

LEMMA EnqueuedFinite ==
    ASSUME TypeOK, NEW j \in Tasks
    PROVE  /\ IsFiniteSet(Enqueued(j)) /\ Cardinality(Enqueued(j)) \in Nat
           /\ deaths[j] \in Nat
<1>1. IsFiniteSet(Enqueued(j))
  BY RowsFinite, FS_Subset DEF Enqueued
<1> QED BY <1>1, FS_CardinalityType DEF TypeOK

\* A new row has no email yet, whoever writes it.
LEMMA AppendKeepsMail ==
    ASSUME TypeOK, MailInv, NEW k \in Tasks, NEW j \in Tasks,
           recommendations' = Append(recommendations, NewRow(k))
    PROVE  /\ \A i \in DOMAIN recommendations' : RowCounts(recommendations'[i])
           /\ Enqueued(j)' = Enqueued(j)
           /\ j = k \/ NewestUnsent(j) => NewestUnsent(j)'
<1> DEFINE n == Len(recommendations) + 1
<1>1. /\ n \in Nat /\ DOMAIN recommendations = 1..(n - 1) /\ DOMAIN recommendations' = 1..n
      /\ recommendations'[n] = NewRow(k)
      /\ \A i \in DOMAIN recommendations : recommendations'[i] = recommendations[i]
  BY Appended
<1>2. /\ NewRow(k).by = k /\ NewRow(k).mail = "none"
      /\ NewRow(k).copies = 0 /\ NewRow(k).doubts = 0
  BY DEF NewRow
<1> HIDE DEF n
<1>3. \A i \in DOMAIN recommendations' : i \in DOMAIN recommendations \/ i = n
  BY <1>1
<1>4. \A i \in DOMAIN recommendations' : RowCounts(recommendations'[i])
  BY <1>1, <1>2, <1>3 DEF MailInv, RowCounts
<1>5. RowsBy(j)' = RowsBy(j) \cup (IF j = k THEN {n} ELSE {})
  BY <1>1, <1>2, <1>3 DEF RowsBy
<1>6. Enqueued(j)' = Enqueued(j)
  BY <1>1, <1>2, <1>5 DEF Enqueued, RowsBy
<1>7. CASE j = k
  <2>1. n \in RowsBy(j)' /\ \A h \in RowsBy(j)' : h <= n
    BY <1>1, <1>5, <1>7 DEF RowsBy
  <2> QED BY <1>1, <1>2, <1>4, <1>6, <2>1 DEF NewestUnsent
<1>8. CASE j # k
  BY <1>1, <1>4, <1>5, <1>6, <1>8 DEF NewestUnsent, RowsBy
<1> QED BY <1>7, <1>8

\* Enqueuing takes the newest row of the task, which has no email yet.
LEMMA EnqueueKeepsMail ==
    ASSUME TypeOK, MailInv, NEW k \in Tasks, EnqueueEmail(k), NEW j \in Tasks
    PROVE  /\ \A i \in DOMAIN recommendations' : RowCounts(recommendations'[i])
           /\ Cardinality(Enqueued(j)') = Cardinality(Enqueued(j)) + IF j = k THEN 1 ELSE 0
           /\ j # k /\ NewestUnsent(j) => NewestUnsent(j)'
<1>1. PICK m \in RowsBy(k) : (\A h \in RowsBy(k) : h <= m) /\ recommendations[m].mail = "none"
  BY DEF EnqueueEmail, MailInv, NewestUnsent
<1>2. m \in DOMAIN recommendations /\ m \in Nat /\ RowsBy(k) \subseteq Nat
        /\ recommendations[m].by = k
  <2>1. DOMAIN recommendations = 1..Len(recommendations) /\ Len(recommendations) \in Nat
    BY LenProperties DEF TypeOK
  <2> QED BY <2>1 DEF RowsBy
<1>3. Max(RowsBy(k)) = m
  <2>1. \A x \in RowsBy(k) : (\A h \in RowsBy(k) : h <= x) => x = m
    BY <1>1, <1>2
  <2>2. Max(RowsBy(k)) \in RowsBy(k) /\ \A h \in RowsBy(k) : h <= Max(RowsBy(k))
    BY <1>1, <1>2 DEF Max
  <2> QED BY <2>1, <2>2
<1> DEFINE row == recommendations[m]
           new == [row EXCEPT !.mail = "queued"]
<1>4. recommendations' = [recommendations EXCEPT ![m] = new]
  BY <1>3 DEF EnqueueEmail
<1>5. new.mail = "queued" /\ new.copies = row.copies /\ new.doubts = row.doubts /\ new.by = k
  BY <1>2, RowTyped DEF Recommendation
<1> HIDE DEF new
<1>6. /\ DOMAIN recommendations' = DOMAIN recommendations
      /\ recommendations'[m] = new
      /\ \A i \in DOMAIN recommendations \ {m} : recommendations'[i] = recommendations[i]
  BY <1>2, <1>4
<1>7. row.copies = 0 /\ row.doubts = 0
  BY <1>1, <1>2 DEF MailInv, RowCounts
<1>8. RowCounts(new)
  BY <1>5, <1>7 DEF RowCounts
<1>9. RowsBy(j)' = RowsBy(j)
  BY <1>2, <1>5, <1>6 DEF RowsBy
<1>10. CASE j = k
  <2>1. Enqueued(j)' = Enqueued(j) \cup {m} /\ m \notin Enqueued(j)
    BY <1>1, <1>5, <1>6, <1>9, <1>10 DEF Enqueued, RowsBy
  <2>2. Cardinality(Enqueued(j)') = Cardinality(Enqueued(j)) + 1
    BY <2>1, EnqueuedFinite, FS_AddElement
  <2> QED BY <1>6, <1>8, <1>10, <2>2 DEF MailInv
<1>11. CASE j # k
  <2>1. m \notin RowsBy(j)
    BY <1>2, <1>11 DEF RowsBy
  <2>2. \A h \in RowsBy(j) : recommendations'[h] = recommendations[h]
    BY <1>6, <2>1 DEF RowsBy
  <2>3. Enqueued(j)' = Enqueued(j)
    BY <1>9, <2>2 DEF Enqueued
  <2>4. NewestUnsent(j) => NewestUnsent(j)'
    BY <1>9, <2>2 DEF NewestUnsent
  <2> QED BY <1>6, <1>8, <1>11, <2>3, <2>4, EnqueuedFinite DEF MailInv
<1> QED BY <1>10, <1>11

LEMMA MailInvNext == TypeOK /\ MailInv /\ [Next]_vars => MailInv'
<1> SUFFICES ASSUME TypeOK, MailInv, [Next]_vars PROVE MailInv'
  OBVIOUS
<1> USE DEF ToEnqueue
<1>0. \A j \in Tasks : /\ Cardinality(Enqueued(j)) \in Nat /\ deaths[j] \in Nat
                       /\ DOMAIN pc = Tasks /\ DOMAIN deaths = Tasks
  BY EnqueuedFinite DEF TypeOK
<1>1. ASSUME NEW i \in DOMAIN recommendations, Mail(i) \/ FlagFails(i) \/ MailWorkerDies(i)
      PROVE  MailInv'
  <2>1. /\ UNCHANGED <<pc, deaths>>
        /\ DOMAIN recommendations' = DOMAIN recommendations
        /\ \A h \in DOMAIN recommendations \ {i} : recommendations'[h] = recommendations[h]
        /\ recommendations[i].mail # "none" /\ recommendations'[i].mail # "none"
        /\ RowCounts(recommendations[i]) => RowCounts(recommendations'[i])
    BY <1>1, MailStep
  <2>2. ASSUME NEW j \in Tasks
        PROVE  Enqueued(j)' = Enqueued(j) /\ (NewestUnsent(j) => NewestUnsent(j)')
    <3>1. RowsBy(j)' = RowsBy(j)
      BY <1>1, SameRows
    <3> QED BY <2>1, <3>1 DEF Enqueued, NewestUnsent, RowsBy
  <2> QED BY <2>1, <2>2 DEF MailInv
<1>2. ASSUME NEW k \in Tasks, EnqueueEmail(k) PROVE MailInv'
  <2>1. /\ pc[k] = "persisted" /\ pc' = [pc EXCEPT ![k] = "enqueued"] /\ UNCHANGED deaths
    BY <1>2 DEF EnqueueEmail
  <2>2. ASSUME NEW j \in Tasks
        PROVE  /\ pc'[j] = "persisted" => NewestUnsent(j)'
               /\ Cardinality(Enqueued(j)') + (IF pc'[j] \in ToEnqueue THEN 1 ELSE 0)
                    <= 1 + deaths'[j]
    <3>1. CASE j = k
      BY <1>0, <1>2, <2>1, <3>1, EnqueueKeepsMail DEF MailInv
    <3>2. CASE j # k
      BY <1>0, <1>2, <2>1, <3>2, EnqueueKeepsMail DEF MailInv
    <3> QED BY <3>1, <3>2
  <2> QED BY <1>2, <2>2, EnqueueKeepsMail DEF MailInv
<1>3. ASSUME NEW k \in Tasks, Persist(k) \/ RetryJob(k),
             recommendations' = Append(recommendations, NewRow(k))
      PROVE  MailInv'
  <2>1. /\ pc[k] \in ToEnqueue /\ pc[k] # "persisted" /\ UNCHANGED deaths
        /\ \A j \in Tasks \ {k} : pc'[j] = pc[j]
    BY <1>3 DEF Persist, RetryJob, TypeOK
  <2>2. ASSUME NEW j \in Tasks
        PROVE  /\ pc'[j] = "persisted" => NewestUnsent(j)'
               /\ Cardinality(Enqueued(j)') + (IF pc'[j] \in ToEnqueue THEN 1 ELSE 0)
                    <= 1 + deaths'[j]
    <3>1. Enqueued(j)' = Enqueued(j) /\ (j = k \/ NewestUnsent(j) => NewestUnsent(j)')
      BY <1>3, AppendKeepsMail
    <3>2. Cardinality(Enqueued(j)) + (IF pc[j] \in ToEnqueue THEN 1 ELSE 0) <= 1 + deaths[j]
      BY DEF MailInv
    <3>3. pc'[j] \in ToEnqueue => pc[j] \in ToEnqueue
      BY <2>1
    <3> QED BY <1>0, <2>1, <3>1, <3>2, <3>3 DEF MailInv
  <2> QED BY <1>3, <2>2, AppendKeepsMail DEF MailInv
<1>4. ASSUME UNCHANGED recommendations,
             \A j \in Tasks :
                /\ pc'[j] = "persisted" => pc[j] = "persisted"
                /\ \/ deaths'[j] = deaths[j] /\ (pc'[j] \in ToEnqueue => pc[j] \in ToEnqueue)
                   \/ deaths'[j] = deaths[j] + 1
      PROVE  MailInv'
  <2>1. \A j \in Tasks : RowsBy(j)' = RowsBy(j)
    BY <1>4 DEF RowsBy
  <2>2. \A j \in Tasks : Enqueued(j)' = Enqueued(j) /\ NewestUnsent(j)' = NewestUnsent(j)
    BY <1>4, <2>1 DEF Enqueued, NewestUnsent
  <2>3. ASSUME NEW j \in Tasks
        PROVE  Cardinality(Enqueued(j)) + (IF pc'[j] \in ToEnqueue THEN 1 ELSE 0) <= 1 + deaths'[j]
    <3>1. Cardinality(Enqueued(j)) + (IF pc[j] \in ToEnqueue THEN 1 ELSE 0) <= 1 + deaths[j]
      BY DEF MailInv
    <3> QED BY <1>0, <1>4, <3>1
  <2> QED BY <1>4, <2>2, <2>3 DEF MailInv
<1>5. ASSUME NEW k \in Tasks,
             \/ CollectEvidence(k) \/ StoreVector(k) \/ RereadVector(k) \/ Acknowledge(k)
             \/ FailJob(k) \/ (RetryJob(k) /\ UNCHANGED recommendations)
      PROVE  MailInv'
  <2>1. /\ UNCHANGED <<recommendations, deaths>>
        /\ \A j \in Tasks \ {k} : pc'[j] = pc[j]
        /\ pc'[k] # "persisted" /\ (pc'[k] \in ToEnqueue => pc[k] \in ToEnqueue)
    BY <1>5 DEF CollectEvidence, StoreVector, RereadVector, Acknowledge, FailJob, RetryJob, TypeOK
  <2> QED BY <1>4, <2>1
<1>6. ASSUME NEW k \in Tasks, WorkerDies(k) PROVE MailInv'
  <2>1. /\ UNCHANGED recommendations /\ pc'[k] = "queued" /\ deaths'[k] = deaths[k] + 1
        /\ \A j \in Tasks \ {k} : pc'[j] = pc[j] /\ deaths'[j] = deaths[j]
    BY <1>6 DEF WorkerDies, TypeOK
  <2> QED BY <1>4, <2>1
<1>7. CASE UNCHANGED <<recommendations, pc, deaths>>
  BY <1>4, <1>7
<1> QED BY <1>1, <1>2, <1>3, <1>5, <1>6, <1>7
        DEF Next, Work, Quiet, vars, ChangeEvidence, Persist, RetryJob

\* A row brings at most one email more than it has doubts, and none before it is
\* enqueued, so the rows of a job bring one each time the job enqueued.
LEMMA CopiesBounded ==
    ASSUME TypeOK, MailInv, NEW j \in Jobs
    PROVE  SumFunctionOnSet(Copies, RowsBy(j))
             <= 1 + deaths[j] + SumFunctionOnSet(Doubts, RowsBy(j))
<1> j \in Tasks
  BY DEF Tasks
<1> DEFINE rows == RowsBy(j)
           sent == [i \in rows |-> IF i \in Enqueued(j) THEN 1 ELSE 0]
           most == [i \in rows |-> Doubts[i] + sent[i]]
<1>1. IsFiniteSet(rows)
  BY RowsFinite
<1>2. ASSUME NEW i \in rows
      PROVE  Copies[i] \in Nat /\ Doubts[i] \in Nat /\ Copies[i] <= most[i]
  <2>1. i \in DOMAIN recommendations
    BY DEF RowsBy
  <2>2. /\ Copies[i] = recommendations[i].copies /\ Doubts[i] = recommendations[i].doubts
        /\ recommendations[i].copies \in Nat /\ recommendations[i].doubts \in Nat
    BY <2>1, RowTyped DEF Copies, Doubts, Recommendation
  <2>3. RowCounts(recommendations[i])
    BY <2>1 DEF MailInv
  <2> QED BY <2>2, <2>3 DEF RowCounts, Enqueued
<1>3. ASSUME NEW i \in rows
      PROVE  /\ sent[i] = IF i \in Enqueued(j) THEN 1 ELSE 0
             /\ sent[i] \in Int /\ most[i] \in Int /\ most[i] = Doubts[i] + sent[i]
  BY <1>2
<1> HIDE DEF sent, most
<1>4. SumFunctionOnSet(sent, rows) = Cardinality(Enqueued(j))
  <2>1. rows \cap Enqueued(j) = Enqueued(j)
    BY DEF Enqueued
  <2>2. SumFunctionOnSet(sent, rows) = Cardinality(rows \cap Enqueued(j))
    <3> HIDE DEF rows
    <3> DEFINE C == Enqueued(j)
    <3>1. \A i \in rows : sent[i] = IF i \in C THEN 1 ELSE 0
      BY <1>3
    <3> HIDE DEF C
    <3>2. SumFunctionOnSet(sent, rows) = Cardinality(rows \cap C)
      BY <1>1, <3>1, SumCounts
    <3> QED BY <3>2 DEF C
  <2> QED BY <2>1, <2>2
<1>5. SumFunctionOnSet(most, rows) = SumFunctionOnSet(Doubts, rows) + SumFunctionOnSet(sent, rows)
  BY <1>1, <1>2, <1>3, SumPlus
<1>6. SumFunctionOnSet(Copies, rows) <= SumFunctionOnSet(most, rows)
  BY <1>1, <1>2, <1>3, SumMonotone
<1>7. SumFunctionOnSet(Copies, rows) \in Int /\ SumFunctionOnSet(Doubts, rows) \in Int
  BY <1>1, <1>2, SumRemove
<1>8. Cardinality(Enqueued(j)) <= 1 + deaths[j]
  BY EnqueuedFinite DEF MailInv
<1> QED BY <1>4, <1>5, <1>6, <1>7, <1>8, EnqueuedFinite

\* A second email for one job has a worker that died behind it, or a sending that
\* raised although the server had the message; errors of the database have none.
THEOREM EmailsExplained == Spec => []EmailsAccounted
<1>1. Init => MailInv
  <2> SUFFICES ASSUME Init, NEW j \in Tasks
               PROVE  pc[j] = "queued" /\ deaths[j] = 0 /\ Cardinality(Enqueued(j)) = 0
    BY DEF Init, MailInv
  <2>1. Enqueued(j) = {}
    BY DEF Init, Enqueued, RowsBy
  <2> QED BY <2>1, FS_EmptySet DEF Init
<1>2. TypeOK /\ MailInv => EmailsAccounted
  BY CopiesBounded DEF EmailsAccounted
<1> QED BY <1>1, <1>2, MailInvNext, GenerationTyped, PTL DEF Spec
================================================================================
