---------------------------- MODULE EngineRegistry ----------------------------
(***************************************************************************)
(* The active flag of the EngineVersion rows (careers/models/recsys.py),   *)
(* set by administrators in concurrent requests and read by every          *)
(* recommendation job.                                                     *)
(*                                                                         *)
(* EngineVersion.save writes its own row and then, if that is active, runs *)
(* one UPDATE that clears the flag of all others.  PostgreSQL, READ        *)
(* COMMITTED: the UPDATE finds its rows in the snapshot of the moment it   *)
(* starts, waits for a row that another transaction has written, and looks *)
(* at the committed flag again when it gets the row.  A form of the admin  *)
(* site is one transaction, so both writes commit together; the action     *)
(* make_active runs in none (no ATOMIC_REQUESTS), so its row is committed  *)
(* before the UPDATE starts and stays if the UPDATE never ends.            *)
(***************************************************************************)
CONSTANTS
    Versions,  \* EngineVersion rows
    Edits      \* saves of the admin site, each in its own request

VARIABLES
    active,    \* the versions whose committed is_active is true
    pc,        \* pc[e]: where edit e is
    target,    \* target[e]: the version it saves
    wanted,    \* wanted[e]: the is_active it saves
    way,       \* way[e]: by the form of one version, or by make_active
    others,    \* others[e]: rows its UPDATE has found and not yet visited
    cleared,   \* cleared[e]: rows its UPDATE has cleared, uncommitted
    alone      \* alone[e]: no other edit was open while e was (history)

request == <<target, wanted, way>>
registryVars == <<active, pc, target, wanted, way, others, cleared, alone>>

Ways == {"form", "make_active"}
Places == {"idle", "saved", "clearing", "done", "failed"}
Open(e) == pc[e] \in {"saved", "clearing"}

\* The row that e's save has written without committing it.
Uncommitted(e) == IF way[e] = "form" THEN {target[e]} ELSE {}

\* The rows that e's open transaction has written and so keeps locked.
Locked(e) == IF Open(e) THEN Uncommitted(e) \cup cleared[e] ELSE {}
LockedByOthers(e, v) == \E f \in Edits \ {e} : v \in Locked(f)

--------------------------------------------------------------------------------
RegistryInit ==
    /\ active \in {S \in SUBSET Versions : \A v, w \in S : v = w}
    /\ pc = [e \in Edits |-> "idle"]
    /\ target \in [Edits -> Versions]
    /\ wanted \in [Edits -> BOOLEAN]
    /\ way \in [Edits -> Ways]
    /\ \A e \in Edits : way[e] = "make_active" => wanted[e]
    /\ others = [e \in Edits |-> {}]
    /\ cleared = [e \in Edits |-> {}]
    /\ alone = [e \in Edits |-> TRUE]

\* super().save(): the row is written as a whole, is_active as the form or
\* make_active has it, once no other transaction holds the row.  That of
\* make_active is committed at once.
SaveRow(e) ==
    /\ pc[e] = "idle"
    /\ ~LockedByOthers(e, target[e])
    /\ pc' = [pc EXCEPT ![e] = "saved"]
    /\ active' = active \cup ({target[e]} \ Uncommitted(e))
    /\ alone' = [f \in Edits |->
           alone[f] /\ IF f = e THEN \A g \in Edits : ~Open(g) ELSE ~Open(f)]
    /\ UNCHANGED <<request, others, cleared>>

\* Mutant of FindOthers: one other row is cleared, not all of them.
FindOneOther(e) ==
    /\ pc[e] = "saved" /\ wanted[e]
    /\ \E v \in active : others' = [others EXCEPT ![e] = {v} \ {target[e]}]
    /\ pc' = [pc EXCEPT ![e] = "clearing"]
    /\ UNCHANGED <<active, request, cleared, alone>>

\* Mutant of FindOthers: without exclude(pk=self.pk).
FindAll(e) ==
    /\ pc[e] = "saved" /\ wanted[e]
    /\ others' = [others EXCEPT ![e] = active \cup {target[e]}]
    /\ pc' = [pc EXCEPT ![e] = "clearing"]
    /\ UNCHANGED <<active, request, cleared, alone>>

\* The UPDATE starts: the rows it is about are those it sees active now.
FindOthers(e) ==
    /\ pc[e] = "saved" /\ wanted[e]
    /\ others' = [others EXCEPT ![e] = active \ {target[e]}]
    /\ pc' = [pc EXCEPT ![e] = "clearing"]
    /\ UNCHANGED <<active, request, cleared, alone>>

\* Mutant of ClearOther: the row is skipped.
ClearNone(e) ==
    /\ pc[e] = "clearing"
    /\ \E v \in others[e] :
         /\ ~LockedByOthers(e, v)
         /\ others' = [others EXCEPT ![e] = @ \ {v}]
    /\ UNCHANGED <<active, pc, request, cleared, alone>>

\* It gets hold of the next row and clears it, if it is still active.
ClearOther(e) ==
    /\ pc[e] = "clearing"
    /\ \E v \in others[e] :
         /\ ~LockedByOthers(e, v)
         /\ others' = [others EXCEPT ![e] = @ \ {v}]
         /\ cleared' = [cleared EXCEPT ![e] = IF v \in active THEN @ \cup {v} ELSE @]
    /\ UNCHANGED <<active, pc, request, alone>>

\* The COMMIT of the form's writes, or the end of make_active's UPDATE; an
\* inactive version needs no UPDATE.
Commit(e) ==
    /\ \/ pc[e] = "clearing" /\ others[e] = {}
       \/ pc[e] = "saved" /\ ~wanted[e]
    /\ active' = IF wanted[e] THEN (active \cup Uncommitted(e)) \ cleared[e]
                              ELSE active \ {target[e]}
    /\ pc' = [pc EXCEPT ![e] = "done"]
    /\ UNCHANGED <<request, others, cleared, alone>>

\* The request fails, its process dies, or PostgreSQL picks its transaction to
\* break a deadlock: no row is cleared, and the form has saved none, but what
\* make_active saved stays active beside the others.
Abort(e) ==
    /\ Open(e)
    /\ pc' = [pc EXCEPT ![e] = "failed"]
    /\ UNCHANGED <<active, request, others, cleared, alone>>

\* Every edit has ended.
AllEnded ==
    (\A e \in Edits : pc[e] \in {"done", "failed"}) /\ UNCHANGED registryVars

RegistryNext ==
    \/ \E e \in Edits :
        SaveRow(e) \/ FindOthers(e) \/ ClearOther(e) \/ Commit(e) \/ Abort(e)
    \/ AllEnded

RegistrySpec == RegistryInit /\ [][RegistryNext]_registryVars

--------------------------------------------------------------------------------
RegistryTypeOK ==
    /\ active \subseteq Versions
    /\ pc \in [Edits -> Places]
    /\ target \in [Edits -> Versions] /\ wanted \in [Edits -> BOOLEAN]
    /\ way \in [Edits -> Ways] /\ \A e \in Edits : way[e] = "make_active" => wanted[e]
    /\ others \in [Edits -> SUBSET Versions]
    /\ cleared \in [Edits -> SUBSET Versions]
    /\ \A e \in Edits : target[e] \notin others[e] \cup cleared[e]
    /\ alone \in [Edits -> BOOLEAN]

\* "exactly one row is active at a time (enforced in save())"
\* (careers/models/recsys.py:305): get_active_engine never finds two.
AtMostOneActive == \A v, w \in active : v = w

\* The rule holds as long as no two edits have overlapped and no make_active
\* is under way or was cut off after its save, whatever the forms saved and
\* whichever of them failed.
Undisturbed == \A e \in Edits :
    alone[e] /\ (way[e] = "make_active" => pc[e] \in {"idle", "done"})
AtMostOneActiveAlone == Undisturbed => AtMostOneActive

\* However many versions overlapping activations, or those that were cut off,
\* have left active, the next activation that no other edit overlaps and that
\* gets to its end leaves its own and no other.
LoneActivationRepairs ==
    [][\A e \in Edits :
        pc[e] = "clearing" /\ pc'[e] = "done" /\ alone[e] =>
            active' = {target[e]}]_registryVars

\* As long as versions are only activated, and no make_active overlaps another
\* edit, at no time is none of them active once one has been, whatever forms
\* overlap and whatever fails.  (A make_active and a form, or two of them, can
\* each clear the row that the other has just committed.)
NeverNoneActive ==
    [][(\A e \in Edits : wanted[e] /\ (way[e] = "make_active" => alone[e]))
        /\ active # {} => active' # {}]_registryVars
================================================================================
