---------------------------- MODULE AccountRequests ----------------------------
(***************************************************************************)
(* Concurrent requests about one account (accounts/views.py,               *)
(* accounts/services/user_settings.py): the profile form, the avatar, a    *)
(* setting, a password change, a password reset and the deletion.          *)
(*                                                                         *)
(* No request is a transaction: every statement commits by itself.  A      *)
(* handler loads the User and UserProfile rows, changes some fields of its *)
(* copies and saves them.  save() writes every field of the copy, the old  *)
(* ones included, and inserts the row if it is gone; save(update_fields)   *)
(* writes the named fields and raises if the row is gone.                  *)
(*                                                                         *)
(* The value of a field is the request that set it, or Initial.            *)
(***************************************************************************)
CONSTANTS
    Requests,  \* requests about the account
    Subjects,  \* Subject rows
    Initial    \* what the fields hold before any request

ASSUME AccountAssumption == Initial \notin Requests

VARIABLES
    present,   \* which of the rows "user" and "profile" exist
    account,   \* account[f]: field f of the two rows
    subjects,  \* subjects with a ProfileSubject row
    kind,      \* kind[r]: which request r is
    wanted,    \* wanted[r]: subject_ids of a profile form
    pc,        \* pc[r]: where request r is
    token,     \* token[r]: the user row that a reset link was made from
    loaded,    \* loaded[r]: its copies of the rows
    current,   \* current[r]: current_ids
    reply,     \* reply[r]: "ok" is success: true
    alone      \* alone[r]: no other request ran while r did (history)

vars == <<present, account, subjects, kind, wanted, pc, token, loaded, current,
          reply, alone>>

Kinds == {"put", "avatar", "setting", "change", "reset", "delete"}
Places == {"idle", "asked", "user", "profile", "read", "removed", "added", "saved", "ended"}
UserFields == {"names", "password", "last_login"}
ProfileFields == {"about", "avatar", "settings"}
Fields == UserFields \cup ProfileFields
Values == Requests \cup {Initial}
Puts == {r \in Requests : kind[r] = "put"}
Open(r) == pc[r] \notin {"idle", "asked", "ended"}

\* The fields request r is about; a profile form fills in all of its fields.
Own(r) ==
    CASE kind[r] = "put" -> {"names", "about"}
      [] kind[r] = "avatar" -> {"avatar"}
      [] kind[r] = "setting" -> {"settings"}
      [] kind[r] \in {"change", "reset"} -> {"password"}
      [] kind[r] = "delete" -> {}

\* account after r has saved the fields fs of its copy.
Saved(r, fs) ==
    [f \in Fields |-> IF f \notin fs THEN account[f]
                      ELSE IF f \in Own(r) THEN r ELSE loaded[r][f]]

Goto(r, place) ==
    pc' = [pc EXCEPT ![r] = place] /\ UNCHANGED <<kind, wanted, reply, alone>>
End(r, answer) ==
    /\ pc' = [pc EXCEPT ![r] = "ended"]
    /\ reply' = [reply EXCEPT ![r] = answer]
    /\ UNCHANGED <<kind, wanted, alone>>

--------------------------------------------------------------------------------
Init ==
    /\ present = {"user", "profile"}
    /\ account = [f \in Fields |-> Initial]
    /\ subjects \in SUBSET Subjects
    /\ kind \in [Requests -> Kinds]
    /\ wanted \in [Requests -> SUBSET Subjects]
    /\ \A r \in Requests : kind[r] # "put" => wanted[r] = {}
    /\ pc = [r \in Requests |-> "idle"]
    /\ token = [r \in Requests |-> account]
    /\ loaded = [r \in Requests |-> account]
    /\ current = [r \in Requests |-> {}]
    /\ reply = [r \in Requests |-> "none"]
    /\ alone = [r \in Requests |-> TRUE]

\* ForgotPassword: the link holds a hash of the user row as it is now.
AskReset(r) ==
    /\ pc[r] = "idle" /\ kind[r] = "reset"
    /\ "user" \in present
    /\ token' = [token EXCEPT ![r] = account]
    /\ Goto(r, "asked")
    /\ UNCHANGED <<present, account, subjects, loaded, current>>

\* r starts; whoever runs at the same time is not alone, and neither is r.
Start(r) ==
    /\ pc[r] = IF kind[r] = "reset" THEN "asked" ELSE "idle"
    /\ alone' = [q \in Requests |->
           alone[q] /\ IF q = r THEN \A o \in Requests : ~Open(o) ELSE ~Open(q)]

\* Mutant of LoadUser: the row is taken from the session, never loaded.
LoadUserCached(r) ==
    /\ Start(r)
    /\ "user" \in present
    /\ pc' = [pc EXCEPT ![r] = "user"]
    /\ UNCHANGED <<present, account, subjects, kind, wanted, token, loaded, current, reply>>

\* Mutant of LoadUser: the user is not looked up at all.
LoadUserGone(r) ==
    /\ Start(r)
    /\ loaded' = [loaded EXCEPT ![r] = account]
    /\ pc' = [pc EXCEPT ![r] = "user"]
    /\ UNCHANGED <<present, account, subjects, kind, wanted, token, current, reply>>

\* request.user, or the user of a reset link.
LoadUser(r) ==
    /\ Start(r)
    /\ "user" \in present
    /\ loaded' = [loaded EXCEPT ![r] =
           [f \in Fields |-> IF f \in UserFields THEN account[f] ELSE @[f]]]
    /\ pc' = [pc EXCEPT ![r] = "user"]
    /\ UNCHANGED <<present, account, subjects, kind, wanted, token, current, reply>>

\* There is no such user any more: the login page, or 404.  A session whose
\* password has changed is refused, too.
TurnAway(r) ==
    /\ pc[r] \in {"idle", "asked"}
    /\ "user" \notin present \/ (kind[r] # "reset" /\ account["password"] # Initial)
    /\ End(r, "error")
    /\ UNCHANGED <<present, account, subjects, token, loaded, current>>

\* request.user.profile.
LoadProfile(r) ==
    /\ pc[r] = "user" /\ kind[r] \in {"put", "avatar", "setting"}
    /\ IF "profile" \in present
       THEN /\ loaded' = [loaded EXCEPT ![r] =
                   [f \in Fields |-> IF f \in ProfileFields THEN account[f] ELSE @[f]]]
            /\ Goto(r, "profile")
       ELSE End(r, "error") /\ UNCHANGED loaded
    /\ UNCHANGED <<present, account, subjects, token, current>>

--------------------------------------------------------------------------------
\* The profile form.

ReadSubjects(r) ==
    /\ pc[r] = "profile" /\ kind[r] = "put"
    /\ current' = [current EXCEPT ![r] = subjects]
    /\ Goto(r, "read")
    /\ UNCHANGED <<present, account, subjects, token, loaded>>

\* Mutant of RemoveSubjects: all rows go, the new ones are to come back.
RemoveAllSubjects(r) ==
    /\ pc[r] = "read"
    /\ subjects' = {}
    /\ Goto(r, "removed")
    /\ UNCHANGED <<present, account, token, loaded, current>>

\* Mutant of RemoveSubjects: nothing is removed.
RemoveNothing(r) ==
    /\ pc[r] = "read"
    /\ Goto(r, "removed")
    /\ UNCHANGED <<present, account, subjects, token, loaded, current>>

RemoveSubjects(r) ==
    /\ pc[r] = "read"
    /\ subjects' = subjects \ (current[r] \ wanted[r])
    /\ Goto(r, "removed")
    /\ UNCHANGED <<present, account, token, loaded, current>>

\* One INSERT for all new rows: it fails as a whole if one of them is there
\* already or the profile is gone.
AddSubjects(r) ==
    LET new == wanted[r] \ current[r] IN
    /\ pc[r] = "removed"
    /\ IF new # {} /\ (new \cap subjects # {} \/ "profile" \notin present)
       THEN End(r, "error") /\ UNCHANGED subjects
       ELSE subjects' = subjects \cup new /\ Goto(r, "added")
    /\ UNCHANGED <<present, account, token, loaded, current>>

\* user.save() of the profile form and of a reset whose link is still good.
SaveUser(r) ==
    /\ \/ pc[r] = "added"
       \/ /\ pc[r] = "user" /\ kind[r] = "reset"
          /\ \A f \in UserFields : loaded[r][f] = token[r][f]
    /\ account' = Saved(r, UserFields)
    /\ present' = present \cup {"user"}
    /\ Goto(r, "saved")
    /\ UNCHANGED <<subjects, token, loaded, current>>

\* profile.save() of the profile form and the avatar; a profile that is gone is
\* inserted again, which its foreign key refuses when the user is gone.
SaveProfile(r) ==
    /\ pc[r] = IF kind[r] = "put" THEN "saved" ELSE "profile"
    /\ kind[r] \in {"put", "avatar"}
    /\ IF "user" \in present
       THEN /\ account' = Saved(r, ProfileFields)
            /\ present' = present \cup {"profile"}
            /\ End(r, "ok")
       ELSE End(r, "error") /\ UNCHANGED <<account, present>>
    /\ UNCHANGED <<subjects, token, loaded, current>>

--------------------------------------------------------------------------------
\* Notifications or remember-me: save(update_fields) of the profile.
SaveSetting(r) ==
    /\ pc[r] = "profile" /\ kind[r] = "setting"
    /\ IF "profile" \in present
       THEN account' = Saved(r, Own(r)) /\ End(r, "ok")
       ELSE End(r, "error") /\ UNCHANGED account
    /\ UNCHANGED <<present, subjects, token, loaded, current>>

\* change_user_password with the right current password: the password is saved,
\* then update_session_auth_hash(None, user) raises, so the answer is a failure.
ChangePassword(r) ==
    /\ pc[r] = "user" /\ kind[r] = "change"
    /\ account' = IF "user" \in present THEN Saved(r, Own(r)) ELSE account
    /\ End(r, "error")
    /\ UNCHANGED <<present, subjects, token, loaded, current>>

\* After the reset: authenticate with the new password, and log in.
Authenticate(r) ==
    /\ pc[r] = "saved" /\ kind[r] = "reset"
    /\ IF "user" \in present /\ account["password"] = r
       THEN account' = [account EXCEPT !["last_login"] = r] /\ End(r, "ok")
       ELSE End(r, "error") /\ UNCHANGED account
    /\ UNCHANGED <<present, subjects, token, loaded, current>>

\* delete_user_account: one transaction, which cascades.
DeleteAccount(r) ==
    /\ pc[r] = "user" /\ kind[r] = "delete"
    /\ present' = {} /\ subjects' = {}
    /\ End(r, "ok")
    /\ UNCHANGED <<account, token, loaded, current>>

\* A wrong password, name or link, an exception, or the end of the process:
\* what has been written stays.
Fail(r) ==
    /\ Open(r)
    /\ End(r, "error")
    /\ UNCHANGED <<present, account, subjects, token, loaded, current>>

\* Every request has been answered.
AllAnswered == (\A r \in Requests : pc[r] = "ended") /\ UNCHANGED vars

Step(r) ==
    \/ AskReset(r) \/ LoadUser(r) \/ TurnAway(r) \/ LoadProfile(r)
    \/ ReadSubjects(r) \/ RemoveSubjects(r) \/ AddSubjects(r)
    \/ SaveUser(r) \/ SaveProfile(r)
    \/ SaveSetting(r) \/ ChangePassword(r) \/ Authenticate(r) \/ DeleteAccount(r)
    \/ Fail(r)

Next == (\E r \in Requests : Step(r)) \/ AllAnswered

Spec == Init /\ [][Next]_vars

--------------------------------------------------------------------------------
TypeOK ==
    /\ present \in {{}, {"user"}, {"user", "profile"}}
    /\ account \in [Fields -> Values]
    /\ subjects \subseteq Subjects
    /\ kind \in [Requests -> Kinds] /\ wanted \in [Requests -> SUBSET Subjects]
    /\ pc \in [Requests -> Places]
    /\ token \in [Requests -> [Fields -> Values]]
    /\ loaded \in [Requests -> [Fields -> Values]]
    /\ current \in [Requests -> SUBSET Subjects]
    /\ reply \in [Requests -> {"none", "ok", "error"}]
    /\ alone \in [Requests -> BOOLEAN]

\* However profile forms overlap and fail (accounts/views.py:363-379): once one
\* of them has succeeded, a subject all of them want is on the profile, and a
\* subject none of them wants is not.
AgreedSubjects ==
    (\A r \in Requests : kind[r] = "delete" => reply[r] # "ok") =>
        \A p \in Puts : reply[p] = "ok" =>
            \A s \in Subjects :
                /\ (\A q \in Puts : s \in wanted[q]) => s \in subjects
                /\ (\A q \in Puts : s \notin wanted[q]) => s \notin subjects

\* A profile form that nobody overlaps and that is answered with success leaves
\* exactly the subjects it asked for.
SubjectsAsAsked ==
    [][\A r \in Requests :
        kind[r] = "put" /\ reply[r] = "none" /\ reply'[r] = "ok" /\ alone[r] =>
            subjects' = wanted[r]]_vars

\* A request that nobody overlaps gives no field back an older value, though it
\* saves every field of the rows it has loaded.
NoWriteBackAlone ==
    [][\A r \in Requests : pc'[r] # pc[r] /\ alone'[r] =>
        \A f \in Fields : account'[f] \in {account[f], r}]_vars

\* An account whose deletion nobody has overlapped stays deleted, however the
\* other requests overlap: none of them finds the user any more.
DeletedAloneStaysDeleted ==
    \A d \in Requests :
        kind[d] = "delete" /\ reply[d] = "ok" /\ alone[d] => present = {}

\* "Permanently delete a user's account." (accounts/services/user_settings.py:195).
DeletedForGood ==
    \A d \in Requests : kind[d] = "delete" /\ reply[d] = "ok" => present = {}
================================================================================
