-------------------------- MODULE AccountRequestsProofs --------------------------
(***************************************************************************)
(* Proofs about AccountRequests: types, what overlapping profile forms     *)
(* agree on, and what a request nobody overlaps can rely on.               *)
(***************************************************************************)
EXTENDS AccountRequests, TLAPS

\* An answer is the end of its request.
EndedInv == \A r \in Requests : reply[r] # "none" => pc[r] = "ended"

\* Only profile forms touch the subjects.
PutInv == \A r \in Requests : pc[r] \in {"read", "removed", "added"} => kind[r] = "put"

\* Two requests that are open at once know of it.
OverlapInv ==
    \A q, r \in Requests : q # r /\ Open(q) /\ Open(r) => ~alone[q]

\* A deletion nobody overlapped leaves nobody who could undo it.
DeletedInv ==
    \A d \in Requests :
        kind[d] = "delete" /\ reply[d] = "ok" /\ alone[d] =>
            present = {} /\ \A r \in Requests : ~Open(r)

\* The subjects as a profile form that nobody overlaps has them so far.
SubjectsInv ==
    \A r \in Requests : kind[r] = "put" /\ alone[r] =>
        /\ pc[r] = "read" => current[r] = subjects
        /\ pc[r] = "removed" => subjects = current[r] \cap wanted[r]
        /\ pc[r] \in {"added", "saved"} => subjects = wanted[r]

\* The copies of a request that nobody overlaps are up to date until they are
\* saved.
CopyInv ==
    \A r \in Requests : alone[r] =>
        /\ pc[r] \in {"user", "profile", "read", "removed", "added"} =>
               \A f \in UserFields : loaded[r][f] = account[f]
        /\ pc[r] \in {"profile", "read", "removed", "added", "saved"} /\ kind[r] # "reset" =>
               \A f \in ProfileFields : loaded[r][f] = account[f]

NoDeletion == \A r \in Requests : kind[r] = "delete" => reply[r] # "ok"
WantedByAll(s) == \A q \in Puts : s \in wanted[q]
WantedByNone(s) == \A q \in Puts : s \notin wanted[q]

\* A subject all forms want is never removed, one that none wants never added.
AgreedInv ==
    NoDeletion =>
        \A p \in Puts : \A s \in Subjects :
            /\ WantedByAll(s) =>
                  /\ pc[p] \in {"read", "removed"} /\ s \in current[p] => s \in subjects
                  /\ pc[p] \in {"added", "saved"} \/ reply[p] = "ok" => s \in subjects
            /\ WantedByNone(s) =>
                  /\ pc[p] = "read" /\ s \in subjects => s \in current[p]
                  /\ pc[p] \in {"removed", "added", "saved"} \/ reply[p] = "ok" => s \notin subjects

IInv ==
    /\ TypeOK
    /\ EndedInv
    /\ PutInv
    /\ OverlapInv
    /\ DeletedInv
    /\ SubjectsInv
    /\ CopyInv
    /\ AgreedInv

--------------------------------------------------------------------------------
\* Saving a copy yields values of the right type.
LEMMA SavedTyped ==
    ASSUME TypeOK, NEW r \in Requests, NEW fs
    PROVE  Saved(r, fs) \in [Fields -> Values]
BY DEF TypeOK, Saved, Values

\* Each step of a request leaves the state well typed.
LEMMA StepTyped ==
    ASSUME TypeOK, NEW r \in Requests, Step(r)
    PROVE  TypeOK'
<1>1. kind' = kind /\ wanted' = wanted
  BY DEF Step, AskReset, LoadUser, TurnAway, LoadProfile, ReadSubjects, RemoveSubjects,
         AddSubjects, SaveUser, SaveProfile, SaveSetting, ChangePassword, Authenticate,
         DeleteAccount, Fail, Goto, End
<1>2. CASE AskReset(r)
  BY <1>1, <1>2 DEF TypeOK, AskReset, Goto, Places
<1>3. CASE LoadUser(r)
  <2> DEFINE copy == [f \in Fields |-> IF f \in UserFields THEN account[f] ELSE loaded[r][f]]
  <2>1. loaded' \in [Requests -> [Fields -> Values]]
    <3>1. loaded' = [loaded EXCEPT ![r] = copy]
      BY <1>3 DEF LoadUser
    <3>2. copy \in [Fields -> Values]
      BY DEF TypeOK
    <3> QED BY <3>1, <3>2 DEF TypeOK
  <2>2. alone' \in [Requests -> BOOLEAN]
    BY <1>3 DEF TypeOK, LoadUser, Start, Open
  <2> QED BY <1>1, <1>3, <2>1, <2>2 DEF TypeOK, LoadUser, Places
<1>4. CASE TurnAway(r)
  BY <1>1, <1>4 DEF TypeOK, TurnAway, End, Places
<1>5. CASE LoadProfile(r)
  <2> DEFINE copy == [f \in Fields |-> IF f \in ProfileFields THEN account[f] ELSE loaded[r][f]]
  <2>1. loaded' \in [Requests -> [Fields -> Values]]
    <3>1. loaded' = loaded \/ loaded' = [loaded EXCEPT ![r] = copy]
      BY <1>5 DEF LoadProfile
    <3>2. copy \in [Fields -> Values]
      BY DEF TypeOK
    <3> QED BY <3>1, <3>2 DEF TypeOK
  <2> QED BY <1>1, <1>5, <2>1 DEF TypeOK, LoadProfile, Goto, End, Places
<1>6. CASE ReadSubjects(r)
  BY <1>1, <1>6 DEF TypeOK, ReadSubjects, Goto, Places
<1>7. CASE RemoveSubjects(r)
  BY <1>1, <1>7 DEF TypeOK, RemoveSubjects, Goto, Places
<1>8. CASE AddSubjects(r)
  BY <1>1, <1>8 DEF TypeOK, AddSubjects, Goto, End, Places
<1>9. CASE SaveUser(r)
  <2>1. present' \in {{"user"}, {"user", "profile"}}
    BY <1>9 DEF TypeOK, SaveUser
  <2>2. account' \in [Fields -> Values]
    BY <1>9, SavedTyped DEF SaveUser
  <2> QED BY <1>1, <1>9, <2>1, <2>2 DEF TypeOK, SaveUser, Goto, Places
<1>10. CASE SaveProfile(r)
  <2>1. present' = present \/ present' = {"user", "profile"}
    BY <1>10 DEF TypeOK, SaveProfile
  <2>2. account' \in [Fields -> Values]
    BY <1>10, SavedTyped DEF SaveProfile, TypeOK
  <2> QED BY <1>1, <1>10, <2>1, <2>2 DEF TypeOK, SaveProfile, End, Places
<1>11. CASE SaveSetting(r)
  <2>1. account' \in [Fields -> Values]
    BY <1>11, SavedTyped DEF SaveSetting, TypeOK
  <2> QED BY <1>1, <1>11, <2>1 DEF TypeOK, SaveSetting, End, Places
<1>12. CASE ChangePassword(r)
  <2>1. account' \in [Fields -> Values]
    BY <1>12, SavedTyped DEF ChangePassword, TypeOK
  <2> QED BY <1>1, <1>12, <2>1 DEF TypeOK, ChangePassword, End, Places
<1>13. CASE Authenticate(r)
  <2>1. account' \in [Fields -> Values]
    <3>1. r \in Values
      BY DEF Values
    <3>2. account' = account \/ account' = [account EXCEPT !["last_login"] = r]
      BY <1>13 DEF Authenticate
    <3> QED BY <3>1, <3>2 DEF TypeOK
  <2> QED BY <1>1, <1>13, <2>1 DEF TypeOK, Authenticate, End, Places
<1>14. CASE DeleteAccount(r)
  BY <1>1, <1>14 DEF TypeOK, DeleteAccount, End, Places
<1>15. CASE Fail(r)
  BY <1>1, <1>15 DEF TypeOK, Fail, End, Places
<1> QED BY <1>2, <1>3, <1>4, <1>5, <1>6, <1>7, <1>8, <1>9, <1>10, <1>11, <1>12, <1>13,
           <1>14, <1>15 DEF Step

\* What every step of a request leaves alone.
LEMMA Frame ==
    ASSUME TypeOK, NEW r \in Requests, Step(r)
    PROVE  /\ kind' = kind /\ wanted' = wanted
           /\ pc[r] # "ended"
           /\ \A q \in Requests \ {r} :
                  /\ pc'[q] = pc[q] /\ reply'[q] = reply[q]
                  /\ loaded'[q] = loaded[q] /\ current'[q] = current[q]
           /\ pc[r] \in {"idle", "asked"} =>
                  present' = present /\ account' = account /\ subjects' = subjects
           /\ reply'[r] # reply[r] => pc'[r] = "ended"
<1> USE DEF TypeOK
<1>1. CASE AskReset(r)
  BY <1>1 DEF AskReset, Goto
<1>2. CASE LoadUser(r)
  BY <1>2 DEF LoadUser, Start
<1>3. CASE TurnAway(r)
  BY <1>3 DEF TurnAway, End
<1>4. CASE LoadProfile(r)
  BY <1>4 DEF LoadProfile, Goto, End
<1>5. CASE ReadSubjects(r) \/ RemoveSubjects(r) \/ AddSubjects(r)
  BY <1>5 DEF ReadSubjects, RemoveSubjects, AddSubjects, Goto, End
<1>6. CASE SaveUser(r)
  BY <1>6 DEF SaveUser, Goto
<1>7. CASE SaveProfile(r)
  BY <1>7 DEF SaveProfile, End
<1>8. CASE SaveSetting(r)
  BY <1>8 DEF SaveSetting, End
<1>9. CASE ChangePassword(r)
  BY <1>9 DEF ChangePassword, End
<1>10. CASE Authenticate(r)
  BY <1>10 DEF Authenticate, End
<1>11. CASE DeleteAccount(r) \/ Fail(r)
  BY <1>11 DEF DeleteAccount, Fail, Open, End
<1> QED BY <1>1, <1>2, <1>3, <1>4, <1>5, <1>6, <1>7, <1>8, <1>9, <1>10, <1>11 DEF Step

\* Who starts looks around; nobody else changes what is known of overlaps.
LEMMA Overlaps ==
    ASSUME TypeOK, NEW r \in Requests, Step(r)
    PROVE  \/ Start(r) /\ pc' = [pc EXCEPT ![r] = "user"]
           \/ alone' = alone /\ (Open(r) \/ pc'[r] \in {"asked", "ended"})
<1> USE DEF TypeOK
<1>1. CASE LoadUser(r)
  BY <1>1 DEF LoadUser
<1>2. CASE AskReset(r) \/ TurnAway(r)
  BY <1>2 DEF AskReset, TurnAway, Goto, End
<1>3. CASE ~LoadUser(r) /\ ~AskReset(r) /\ ~TurnAway(r)
  <2>1. Open(r)
    BY <1>3 DEF Step, LoadProfile, ReadSubjects, RemoveSubjects, AddSubjects, SaveUser,
                SaveProfile, SaveSetting, ChangePassword, Authenticate, DeleteAccount, Fail, Open
  <2>2. alone' = alone
    BY <1>3 DEF Step, LoadProfile, ReadSubjects, RemoveSubjects, AddSubjects, SaveUser,
                SaveProfile, SaveSetting, ChangePassword, Authenticate, DeleteAccount, Fail,
                Goto, End
  <2> QED BY <2>1, <2>2
<1> QED BY <1>1, <1>2, <1>3

\* Only a deletion answers a deletion with success.
LEMMA DeletionAnswers ==
    ASSUME TypeOK, NEW r \in Requests, Step(r), kind[r] = "delete",
           reply'[r] = "ok", reply[r] # "ok"
    PROVE  DeleteAccount(r)
BY DEF TypeOK, Step, AskReset, LoadUser, TurnAway, LoadProfile, ReadSubjects, RemoveSubjects,
       AddSubjects, SaveUser, SaveProfile, SaveSetting, ChangePassword, Authenticate, Fail,
       Goto, End

\* Nobody becomes unaware of an overlap.
LEMMA AloneBefore ==
    ASSUME TypeOK, NEW r \in Requests, Step(r), NEW q \in Requests, alone'[q]
    PROVE  alone[q]
BY Overlaps DEF Start, TypeOK

--------------------------------------------------------------------------------
LEMMA StepEnded ==
    ASSUME TypeOK, EndedInv, NEW r \in Requests, Step(r)
    PROVE  EndedInv'
BY Frame DEF EndedInv, TypeOK

LEMMA StepPut ==
    ASSUME TypeOK, PutInv, NEW r \in Requests, Step(r)
    PROVE  PutInv'
<1>1. \/ ReadSubjects(r) \/ RemoveSubjects(r) \/ AddSubjects(r)
      \/ pc'[r] \notin {"read", "removed", "added"}
  BY DEF Step, AskReset, LoadUser, TurnAway, LoadProfile, SaveUser, SaveProfile, SaveSetting,
         ChangePassword, Authenticate, DeleteAccount, Fail, Goto, End, TypeOK
<1>2. ReadSubjects(r) \/ RemoveSubjects(r) \/ AddSubjects(r) => kind[r] = "put"
  BY DEF ReadSubjects, RemoveSubjects, AddSubjects, PutInv
<1> QED BY <1>1, <1>2, Frame DEF PutInv

LEMMA StepOverlap ==
    ASSUME TypeOK, OverlapInv, NEW r \in Requests, Step(r)
    PROVE  OverlapInv'
<1> SUFFICES ASSUME NEW q \in Requests, NEW o \in Requests, q # o, Open(q)', Open(o)', alone'[q]
             PROVE  FALSE
  BY DEF OverlapInv
<1>1. CASE Start(r) /\ pc' = [pc EXCEPT ![r] = "user"]
  <2>1. CASE q = r
    <3>1. Open(o)
      BY <1>1, <2>1 DEF Open, TypeOK
    <3> QED BY <1>1, <2>1, <3>1 DEF Start
  <2>2. CASE q # r
    <3>1. Open(q)
      BY <1>1, <2>2 DEF Open, TypeOK
    <3> QED BY <1>1, <2>2, <3>1 DEF Start
  <2> QED BY <2>1, <2>2
<1>2. CASE alone' = alone /\ (Open(r) \/ pc'[r] \in {"asked", "ended"})
  <2>1. Open(q) /\ Open(o)
    BY <1>2, Frame DEF Open
  <2> QED BY <1>2, <2>1 DEF OverlapInv
<1> QED BY <1>1, <1>2, Overlaps

LEMMA StepDeleted ==
    ASSUME TypeOK, OverlapInv, DeletedInv, NEW r \in Requests, Step(r)
    PROVE  DeletedInv'
<1> SUFFICES ASSUME NEW d \in Requests, kind'[d] = "delete", reply'[d] = "ok", alone'[d]
             PROVE  present' = {} /\ \A q \in Requests : ~Open(q)'
  BY DEF DeletedInv
<1>1. kind[d] = "delete" /\ alone[d]
  BY Frame, AloneBefore
<1>2. CASE reply[d] = "ok"
  <2>1. present = {} /\ \A q \in Requests : ~Open(q)
    BY <1>1, <1>2 DEF DeletedInv
  <2>2. pc[r] \in {"idle", "asked"}
    BY <2>1, Frame DEF Open
  <2>3. TurnAway(r)
    BY <2>1, <2>2 DEF Step, AskReset, LoadUser, LoadProfile, ReadSubjects, RemoveSubjects,
           AddSubjects, SaveUser, SaveProfile, SaveSetting, ChangePassword, Authenticate,
           DeleteAccount, Fail
  <2> QED BY <2>1, <2>3, Frame DEF TurnAway, End, Open, TypeOK
<1>3. CASE reply[d] # "ok"
  <2>1. d = r
    BY <1>3, Frame
  <2>2. DeleteAccount(r)
    BY <1>1, <1>3, <2>1, DeletionAnswers
  <2>3. \A q \in Requests \ {r} : ~Open(q)
    BY <1>1, <2>1, <2>2 DEF OverlapInv, DeleteAccount, Open
  <2> QED BY <2>2, <2>3, Frame DEF DeleteAccount, End, Open, TypeOK
<1> QED BY <1>2, <1>3

\* What a request works on is its own while nobody overlaps it.
LEMMA Undisturbed ==
    ASSUME TypeOK, OverlapInv, NEW r \in Requests, Step(r),
           NEW q \in Requests, q # r, Open(q), alone[q]
    PROVE  /\ account' = account /\ subjects' = subjects
           /\ pc'[q] = pc[q] /\ loaded'[q] = loaded[q] /\ current'[q] = current[q]
<1>1. ~Open(r)
  BY DEF OverlapInv
<1>2. pc[r] \in {"idle", "asked"}
  BY <1>1, Frame DEF Open
<1> QED BY <1>2, Frame

LEMMA StepSubjects ==
    ASSUME TypeOK, OverlapInv, SubjectsInv, NEW r \in Requests, Step(r)
    PROVE  SubjectsInv'
<1> SUFFICES ASSUME NEW q \in Requests, kind'[q] = "put", alone'[q]
             PROVE  /\ pc'[q] = "read" => current'[q] = subjects'
                    /\ pc'[q] = "removed" => subjects' = current'[q] \cap wanted'[q]
                    /\ pc'[q] \in {"added", "saved"} => subjects' = wanted'[q]
  BY DEF SubjectsInv
<1>1. kind[q] = "put" /\ alone[q] /\ wanted' = wanted
  BY Frame, AloneBefore
<1>2. CASE q # r
  <2>1. CASE Open(q)
    BY <1>1, <1>2, <2>1, Undisturbed DEF SubjectsInv
  <2>2. CASE ~Open(q)
    BY <1>2, <2>2, Frame DEF Open
  <2> QED BY <2>1, <2>2
<1>3. CASE q = r
  <2>1. CASE ReadSubjects(r)
    BY <1>3, <2>1 DEF ReadSubjects, Goto, TypeOK
  <2>2. CASE RemoveSubjects(r)
    <3>1. subjects' = current[r] \cap wanted[r]
      BY <1>1, <1>3, <2>2 DEF RemoveSubjects, SubjectsInv
    <3> QED BY <1>1, <1>3, <2>2, <3>1 DEF RemoveSubjects, Goto, TypeOK
  <2>3. CASE AddSubjects(r)
    <3>1. subjects = current[r] \cap wanted[r]
      BY <1>1, <1>3, <2>3 DEF AddSubjects, SubjectsInv
    <3> QED BY <1>1, <1>3, <2>3, <3>1 DEF AddSubjects, Goto, End, TypeOK
  <2>4. CASE SaveUser(r)
    BY <1>1, <1>3, <2>4 DEF SaveUser, Goto, TypeOK, SubjectsInv
  <2>5. CASE ~ReadSubjects(r) /\ ~RemoveSubjects(r) /\ ~AddSubjects(r) /\ ~SaveUser(r)
    <3>1. pc'[r] \in {"asked", "user", "profile", "ended"}
      BY <2>5 DEF Step, AskReset, LoadUser, TurnAway, LoadProfile, SaveProfile, SaveSetting,
                  ChangePassword, Authenticate, DeleteAccount, Fail, Goto, End, TypeOK
    <3> QED BY <1>3, <3>1
  <2> QED BY <2>1, <2>2, <2>3, <2>4, <2>5
<1> QED BY <1>2, <1>3

LEMMA StepCopy ==
    ASSUME TypeOK, OverlapInv, CopyInv, NEW r \in Requests, Step(r)
    PROVE  CopyInv'
<1> DEFINE UserCopied(q) ==
      pc[q] \in {"user", "profile", "read", "removed", "added"} =>
          \A f \in UserFields : loaded[q][f] = account[f]
<1> DEFINE ProfileCopied(q) ==
      pc[q] \in {"profile", "read", "removed", "added", "saved"} /\ kind[q] # "reset" =>
          \A f \in ProfileFields : loaded[q][f] = account[f]
<1> SUFFICES ASSUME NEW q \in Requests, alone'[q]
             PROVE  UserCopied(q)' /\ ProfileCopied(q)'
  BY DEF CopyInv
<1>1. alone[q] /\ kind' = kind
  BY Frame, AloneBefore
<1>2. UserCopied(q) /\ ProfileCopied(q)
  BY <1>1 DEF CopyInv
<1>3. CASE q # r
  <2>1. CASE Open(q)
    BY <1>1, <1>2, <1>3, <2>1, Undisturbed
  <2>2. CASE ~Open(q)
    BY <1>3, <2>2, Frame DEF Open
  <2> QED BY <2>1, <2>2
<1>4. CASE q = r
  <2>1. CASE LoadUser(r)
    <3>1. pc'[r] = "user" /\ account' = account
      BY <2>1 DEF LoadUser, TypeOK
    <3>2. \A f \in UserFields : loaded'[r][f] = account[f]
      BY <2>1 DEF LoadUser, TypeOK, Fields
    <3> QED BY <1>4, <3>1, <3>2
  <2>2. CASE LoadProfile(r)
    <3>1. CASE "profile" \in present
      <4>1. pc'[r] = "profile" /\ account' = account /\ pc[r] = "user"
        BY <2>2, <3>1 DEF LoadProfile, Goto, TypeOK
      <4>2. \A f \in ProfileFields : loaded'[r][f] = account[f]
        BY <2>2, <3>1 DEF LoadProfile, TypeOK, Fields
      <4>3. \A f \in UserFields : loaded'[r][f] = loaded[r][f]
        BY <2>2, <3>1 DEF LoadProfile, TypeOK, Fields, UserFields, ProfileFields
      <4> QED BY <1>2, <1>4, <4>1, <4>2, <4>3
    <3>2. CASE "profile" \notin present
      BY <1>4, <2>2, <3>2 DEF LoadProfile, End, TypeOK
    <3> QED BY <3>1, <3>2
  <2>3. CASE ReadSubjects(r) \/ RemoveSubjects(r) \/ AddSubjects(r)
    <3>1. account' = account /\ loaded' = loaded
      BY <2>3 DEF ReadSubjects, RemoveSubjects, AddSubjects
    <3>2. \/ pc'[r] = "ended"
          \/ /\ pc[r] \in {"profile", "read", "removed"}
             /\ pc'[r] \in {"read", "removed", "added"}
      BY <2>3 DEF ReadSubjects, RemoveSubjects, AddSubjects, Goto, End, TypeOK
    <3> QED BY <1>1, <1>2, <1>4, <3>1, <3>2
  <2>4. CASE SaveUser(r)
    <3>1. pc'[r] = "saved" /\ loaded' = loaded /\ (pc[r] = "added" \/ kind[r] = "reset")
      BY <2>4 DEF SaveUser, Goto, TypeOK
    <3>2. \A f \in ProfileFields : account'[f] = account[f]
      BY <2>4 DEF SaveUser, Saved, TypeOK, Fields, UserFields, ProfileFields
    <3> QED BY <1>1, <1>2, <1>4, <3>1, <3>2
  <2>5. CASE ~LoadUser(r) /\ ~LoadProfile(r) /\ ~SaveUser(r)
             /\ ~ReadSubjects(r) /\ ~RemoveSubjects(r) /\ ~AddSubjects(r)
    <3>1. pc'[r] \in {"asked", "ended"}
      BY <2>5 DEF Step, AskReset, TurnAway, SaveProfile, SaveSetting, ChangePassword,
                  Authenticate, DeleteAccount, Fail, Goto, End, TypeOK
    <3> QED BY <1>4, <3>1
  <2> QED BY <2>1, <2>2, <2>3, <2>4, <2>5
<1> QED BY <1>3, <1>4

LEMMA StepAgreed ==
    ASSUME TypeOK, EndedInv, PutInv, AgreedInv, NEW r \in Requests, Step(r)
    PROVE  AgreedInv'
<1> SUFFICES ASSUME NoDeletion', NEW p \in Requests, kind'[p] = "put", NEW s \in Subjects
             PROVE
      /\ WantedByAll(s)' =>
            /\ pc'[p] \in {"read", "removed"} /\ s \in current'[p] => s \in subjects'
            /\ pc'[p] \in {"added", "saved"} \/ reply'[p] = "ok" => s \in subjects'
      /\ WantedByNone(s)' =>
            /\ pc'[p] = "read" /\ s \in subjects' => s \in current'[p]
            /\ pc'[p] \in {"removed", "added", "saved"} \/ reply'[p] = "ok" => s \notin subjects'
  BY DEF AgreedInv, Puts
<1>1. kind[p] = "put" /\ kind' = kind /\ wanted' = wanted
  BY Frame
<1>2. NoDeletion
  <2> SUFFICES ASSUME NEW d \in Requests, kind[d] = "delete", reply[d] = "ok"
               PROVE  FALSE
    BY DEF NoDeletion
  <2>1. d # r
    BY Frame DEF EndedInv
  <2> QED BY <1>1, <2>1, Frame DEF NoDeletion
<1>3. (WantedByAll(s)' <=> WantedByAll(s)) /\ (WantedByNone(s)' <=> WantedByNone(s))
  BY <1>1 DEF WantedByAll, WantedByNone, Puts
<1>4. \A q \in Requests : kind[q] = "put" =>
        /\ WantedByAll(s) =>
              /\ s \in wanted[q]
              /\ pc[q] \in {"read", "removed"} /\ s \in current[q] => s \in subjects
              /\ pc[q] \in {"added", "saved"} \/ reply[q] = "ok" => s \in subjects
        /\ WantedByNone(s) =>
              /\ s \notin wanted[q]
              /\ pc[q] = "read" /\ s \in subjects => s \in current[q]
              /\ pc[q] \in {"removed", "added", "saved"} \/ reply[q] = "ok" => s \notin subjects
  BY <1>2 DEF AgreedInv, Puts, WantedByAll, WantedByNone
<1>5. CASE ReadSubjects(r)
  <2>1. /\ subjects' = subjects /\ reply' = reply
        /\ current' = [current EXCEPT ![r] = subjects] /\ pc' = [pc EXCEPT ![r] = "read"]
    BY <1>5 DEF ReadSubjects, Goto
  <2>2. reply[r] = "none"
    BY <1>5 DEF ReadSubjects, EndedInv
  <2> QED BY <1>1, <1>3, <1>4, <2>1, <2>2 DEF TypeOK
<1>6. CASE RemoveSubjects(r)
  <2>1. /\ subjects' = subjects \ (current[r] \ wanted[r]) /\ reply' = reply
        /\ current' = current /\ pc[r] = "read" /\ pc' = [pc EXCEPT ![r] = "removed"]
    BY <1>6 DEF RemoveSubjects, Goto
  <2>2. kind[r] = "put" /\ reply[r] = "none"
    BY <2>1 DEF PutInv, EndedInv
  <2> QED BY <1>1, <1>3, <1>4, <2>1, <2>2 DEF TypeOK
<1>7. CASE AddSubjects(r)
  <2>1. kind[r] = "put" /\ reply[r] = "none" /\ pc[r] = "removed" /\ current' = current
    BY <1>7 DEF AddSubjects, PutInv, EndedInv
  <2>2. CASE subjects' = subjects /\ End(r, "error")
    BY <1>1, <1>3, <1>4, <2>1, <2>2 DEF End, TypeOK
  <2>3. CASE subjects' = subjects \cup (wanted[r] \ current[r]) /\ Goto(r, "added")
    <3>1. reply' = reply /\ pc' = [pc EXCEPT ![r] = "added"]
      BY <2>3 DEF Goto
    <3> QED BY <1>1, <1>3, <1>4, <2>1, <2>3, <3>1 DEF TypeOK
  <2> QED BY <1>7, <2>2, <2>3 DEF AddSubjects
<1>8. CASE SaveUser(r)
  <2>1. /\ subjects' = subjects /\ reply' = reply /\ current' = current
        /\ pc' = [pc EXCEPT ![r] = "saved"]
        /\ pc[r] = "added" \/ kind[r] = "reset"
    BY <1>8 DEF SaveUser, Goto
  <2> QED BY <1>1, <1>3, <1>4, <2>1 DEF TypeOK
<1>9. CASE SaveProfile(r)
  <2>1. /\ subjects' = subjects /\ current' = current
        /\ pc'[r] = "ended" /\ (kind[r] = "put" => pc[r] = "saved")
    BY <1>9 DEF SaveProfile, End, TypeOK
  <2> QED BY <1>1, <1>3, <1>4, <2>1, Frame
<1>10. CASE DeleteAccount(r)
  <2>1. kind[r] = "delete" /\ reply'[r] = "ok"
    BY <1>10 DEF DeleteAccount, End, TypeOK
  <2> QED BY <1>1, <2>1 DEF NoDeletion
<1>11. CASE ~ReadSubjects(r) /\ ~RemoveSubjects(r) /\ ~AddSubjects(r) /\ ~SaveUser(r)
             /\ ~SaveProfile(r) /\ ~DeleteAccount(r)
  <2>1. subjects' = subjects /\ current' = current
    BY <1>11 DEF Step, AskReset, LoadUser, TurnAway, LoadProfile, SaveSetting, ChangePassword,
                 Authenticate, Fail
  <2>2. /\ pc'[r] \in {"asked", "user", "profile", "ended"}
        /\ kind[r] = "put" => reply'[r] # "ok" \/ reply'[r] = reply[r]
    BY <1>11 DEF Step, AskReset, LoadUser, TurnAway, LoadProfile, SaveSetting, ChangePassword,
                 Authenticate, Fail, Goto, End, TypeOK
  <2> QED BY <1>1, <1>3, <1>4, <2>1, <2>2, Frame
<1> QED BY <1>5, <1>6, <1>7, <1>8, <1>9, <1>10, <1>11

--------------------------------------------------------------------------------
LEMMA InitIInv == Init => IInv
<1> SUFFICES ASSUME Init PROVE IInv
  OBVIOUS
<1>1. TypeOK
  BY DEF Init, TypeOK, Places, Values
<1>2. \A r \in Requests : pc[r] = "idle" /\ reply[r] = "none"
  BY DEF Init
<1>3. EndedInv /\ PutInv /\ SubjectsInv /\ CopyInv
  BY <1>2 DEF EndedInv, PutInv, SubjectsInv, CopyInv
<1>4. OverlapInv /\ DeletedInv
  BY <1>2 DEF OverlapInv, DeletedInv, Open
<1>5. AgreedInv
  BY <1>2 DEF AgreedInv, Puts
<1> QED BY <1>1, <1>3, <1>4, <1>5 DEF IInv

LEMMA NextIInv == IInv /\ [Next]_vars => IInv'
<1> SUFFICES ASSUME IInv, [Next]_vars PROVE IInv'
  OBVIOUS
<1>1. ASSUME NEW r \in Requests, Step(r) PROVE IInv'
  BY <1>1, StepTyped, StepEnded, StepPut, StepOverlap, StepDeleted, StepSubjects, StepCopy,
     StepAgreed DEF IInv
<1>2. CASE UNCHANGED vars
  BY <1>2 DEF vars, IInv, TypeOK, EndedInv, PutInv, OverlapInv, DeletedInv, SubjectsInv, CopyInv,
              AgreedInv, NoDeletion, WantedByAll, WantedByNone, Puts, Open
<1> QED BY <1>1, <1>2 DEF Next, AllAnswered

LEMMA Inductive == Spec => []IInv
BY InitIInv, NextIInv, PTL DEF Spec

\* The tables, the copies and the places of the requests are well typed, however
\* many requests and subjects there are.
THEOREM AccountTyped == Spec => []TypeOK
<1>1. IInv => TypeOK
  BY DEF IInv
<1> QED BY <1>1, Inductive, PTL

\* Overlapping profile forms keep what all of them want and drop what none of
\* them wants, whichever of them fail.
THEOREM FormsAgree == Spec => []AgreedSubjects
<1>1. IInv => AgreedSubjects
  BY DEF IInv, AgreedInv, AgreedSubjects, NoDeletion, WantedByAll, WantedByNone
<1> QED BY <1>1, Inductive, PTL

\* A deletion that nobody overlaps is final.
THEOREM DeletionFinal == Spec => []DeletedAloneStaysDeleted
<1>1. IInv => DeletedAloneStaysDeleted
  BY DEF IInv, DeletedInv, DeletedAloneStaysDeleted
<1> QED BY <1>1, Inductive, PTL

\* A profile form that nobody overlaps leaves the subjects it asked for.
THEOREM FormObeyed == Spec => SubjectsAsAsked
<1>1. ASSUME IInv, [Next]_vars
      PROVE  [\A r \in Requests :
                 kind[r] = "put" /\ reply[r] = "none" /\ reply'[r] = "ok" /\ alone[r] =>
                     subjects' = wanted[r]]_vars
  <2> SUFFICES ASSUME Next, NEW r \in Requests, kind[r] = "put", reply[r] = "none",
                      reply'[r] = "ok", alone[r]
               PROVE  subjects' = wanted[r]
    BY <1>1 DEF vars
  <2>1. PICK q \in Requests : Step(q)
    BY DEF Next, AllAnswered, vars
  <2>2. q = r
    BY <1>1, <2>1, Frame DEF IInv
  <2>3. SaveProfile(r)
    BY <1>1, <2>1, <2>2 DEF IInv, TypeOK, Step, AskReset, LoadUser, TurnAway, LoadProfile,
           ReadSubjects, RemoveSubjects, AddSubjects, SaveUser, SaveSetting, ChangePassword,
           Authenticate, DeleteAccount, Fail, Goto, End
  <2> QED BY <1>1, <2>3 DEF IInv, SubjectsInv, SaveProfile
<1> QED BY <1>1, Inductive, PTL DEF Spec, SubjectsAsAsked

\* A request that nobody overlaps sets no field back, though it saves whole rows.
THEOREM NoWriteBack == Spec => NoWriteBackAlone
<1>1. ASSUME IInv, [Next]_vars
      PROVE  [\A r \in Requests : pc'[r] # pc[r] /\ alone'[r] =>
                 \A f \in Fields : account'[f] \in {account[f], r}]_vars
  <2> SUFFICES ASSUME Next, NEW r \in Requests, pc'[r] # pc[r], alone'[r], NEW f \in Fields
               PROVE  account'[f] \in {account[f], r}
    BY <1>1 DEF vars
  <2>1. PICK q \in Requests : Step(q)
    BY DEF Next, AllAnswered, vars
  <2>2. q = r
    BY <1>1, <2>1, Frame DEF IInv
  <2>3. TypeOK /\ Step(r) /\ alone[r]
    BY <1>1, <2>1, <2>2, AloneBefore DEF IInv
  <2>4. CASE SaveUser(r)
    BY <1>1, <2>3, <2>4 DEF IInv, CopyInv, SaveUser, Saved, TypeOK
  <2>5. CASE SaveProfile(r)
    <3>1. \A g \in ProfileFields : loaded[r][g] = account[g]
      BY <1>1, <2>3, <2>5 DEF IInv, CopyInv, SaveProfile
    <3>2. account' = account \/ account' = Saved(r, ProfileFields)
      BY <2>5 DEF SaveProfile
    <3> QED BY <3>1, <3>2 DEF Saved
  <2>6. CASE SaveSetting(r)
    BY <2>3, <2>6 DEF SaveSetting, Saved, TypeOK
  <2>7. CASE ChangePassword(r)
    BY <2>3, <2>7 DEF ChangePassword, Saved, TypeOK
  <2>8. CASE Authenticate(r)
    BY <2>3, <2>8 DEF Authenticate, TypeOK
  <2>9. CASE ~SaveUser(r) /\ ~SaveProfile(r) /\ ~SaveSetting(r) /\ ~ChangePassword(r)
             /\ ~Authenticate(r)
    BY <2>3, <2>9 DEF Step, AskReset, LoadUser, TurnAway, LoadProfile, ReadSubjects,
           RemoveSubjects, AddSubjects, DeleteAccount, Fail
  <2> QED BY <2>4, <2>5, <2>6, <2>7, <2>8, <2>9
<1> QED BY <1>1, Inductive, PTL DEF Spec, NoWriteBackAlone
================================================================================
